SPECIFICATION FairSpec
CONSTANTS
    Plugins = {1}
    Conns = {c1}
    Runtimes = {r1, r2}
    NoRuntime = NoRuntime
    MaxGen = 2
    UniqueInstanceID = TRUE
    MayClose = TRUE
PROPERTY EveryParkedRuntimeStops
CHECK_DEADLOCK FALSE
