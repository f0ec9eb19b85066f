--------------------------- MODULE MCBundleLoader ---------------------------
(* Model-checking instances of BundleLoader with three bundles. *)
EXTENDS BundleLoader

CONSTANTS core, web, app

MCManifest(requires, extends, level, lazy, active) ==
    [requires |-> requires, extends |-> extends, runLevel |-> level, lazyStart |-> lazy,
     hasActivator |-> active]

MCOf(c, w, a) == [b \in Bundles |-> CASE b = core -> c [] b = web -> w [] b = app -> a]

\* A chain, against the run levels: a bundle started lazily, one that requires and
\* extends it, and a lazy one that requires the latter.
MCChain == MCOf(MCManifest(<<>>, None, 2, TRUE, TRUE), MCManifest(<<core>>, core, 1, FALSE, TRUE),
                MCManifest(<<web>>, None, 0, TRUE, TRUE))
\* Two bundles that require each other, and one that requires both.
MCCycle == MCOf(MCManifest(<<web>>, None, 0, FALSE, TRUE), MCManifest(<<core>>, None, 0, FALSE, TRUE),
                MCManifest(<<core, web>>, None, 0, FALSE, TRUE))
\* A bundle that is extended by one it requires, which has no activator, and a
\* missing bundle.
MCTangle == MCOf(MCManifest(<<web>>, None, 0, FALSE, TRUE), MCManifest(<<>>, core, 0, FALSE, FALSE),
                 MCManifest(<<web, None>>, None, 0, FALSE, TRUE))

MCManifests == {MCChain, MCCycle, MCTangle}
MCChainOnly == {MCChain}
=============================================================================
