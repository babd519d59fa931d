SPECIFICATION FairSpec
CONSTANTS
    Plugins = {1}
    Conns = {c1}
    Runtimes = {r1, r2}
    NoRuntime = NoRuntime
    MaxGen = 2
    UniqueInstanceID = TRUE
    MayClose = TRUE
INVARIANTS
    InvocationPinsRuntime
    ContinuationInsideInvocation
    PendingStopAwaited
    SupersededSessionsMarked
    CloseStopsEverything
PROPERTY ParkedRuntimeStops
CHECK_DEADLOCK FALSE
