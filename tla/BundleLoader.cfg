CONSTANTS
    core = core
    web = web
    app = app
    Bundles = {core, web, app}
    Admins = {admin}
    Main = main
    None = None
    Manifests <- MCManifests
    Admissible = {"resolve", "start", "stop", "uninstall"}
    MaxCalls = 2
    MaxFailures = 1
SPECIFICATION FairSpec
CHECK_DEADLOCK FALSE
INVARIANTS
    TypeOK
    DependenciesResolved
    ResolvingIsOnStack
    Settled
    ExtensionsAreLoaded
PROPERTIES
    DependenciesFirst
    StopOrder
    ImplementsLifeCycle
    CallsReturn
