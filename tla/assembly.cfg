SPECIFICATION WorkerSpec
CONSTANTS
    p1 = p1
    p2 = p2
    p3 = p3
    Root = {r1, r2, r3}
    NoRoot = NoRoot
    Plugin = {p1, p2, p3}
    Facet <- Facets
    MaxPlugins = 2
    CommandLine <- CommandLines
    QueueNames <- Queues
    Quota <- Quotas
INVARIANTS OneAssembly HookedOnce ConcurrencyIsChosen
PROPERTY ApplicationsFollowRegistry
SYMMETRY Roots
CHECK_DEADLOCK FALSE
