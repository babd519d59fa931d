CONSTANTS
    n1 = n1  n2 = n2  old = old  other = other
    Nodes = {n1, n2}
    Runtimes = {old, other}
    NodeOf <- MCNodeOf
    Administered = {n1}
    Slots = {s1, s2}
    SpecOf <- MCScheduled
    TTL = 2
    MaxTime = 2
    MaxStops = 0
    MaxCrashes = 1
    MaxRuns = 1
    NoLease = NoLease
    None = None
    Takeovers = {x1}
    Boxes = {b1}
    BoxCalls = {k1}
    BoxStreams = {i1}
    Injected = TRUE
    NoBox = NoBox
    plug = plug
    Plugs = {plug}
    Cfgs = {c1}
    HighRisk = {}
    GateRefused <- MCNoPairs
    Singletons <- MCSingletons
    IngressOf = {}
    IngressGate = TRUE
    PortOf <- MCPortOf
    Unfit <- MCNoPairs
    BuiltBy <- MCBuiltBy
    Notices = {n}
    Vulns = {n}
    GateRequests = {q1}
    MaxGates = 2
    MaxDays = 0
    NoCfg = NoCfg
    WasmCalls = {f1, f2, f3}
    Admin = Admin
    WasmThreshold = 3
    Validates = FALSE
    MaxWasmOps = 2
    MaxWasmRefused = 1
    Sources = {z1}
    BuildRequests = {w1, w2}
    Operations = {"upload", "import", "run", "retry", "cancel"}
    MaxBuilds = 2
    OtherRowIDs = {0}
    MayDisconnect = TRUE
    MayCrash = TRUE
SPECIFICATION EndingSpec
INVARIANTS SucceededNamesItsBinary DrainedIsIdle StopLeavesNothing
PROPERTIES LostLeaseEndsRun ClosedNodeDrains TakeoverSettles EndedBoxIsCleaned
           HitRowIsQuarantined TrapsLeaveDispatch RunningFinishes FollowsBuildMoves
CHECK_DEADLOCK FALSE
