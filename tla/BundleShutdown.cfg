CONSTANTS
    core = core
    web = web
    app = app
    Bundles = {core, web, app}
    Admins = {admin}
    Main = main
    None = None
    Manifests <- MCChainOnly
    Admissible = {"stop", "uninstall"}
    MaxCalls = 2
    MaxFailures = 0
SPECIFICATION FairSpec
CHECK_DEADLOCK FALSE
PROPERTIES
    ShutdownStops
