CONSTANTS
    plug = plug
    Plugs = {plug}
    Cfgs = {c1}
    HighRisk = {}
    GateRefused <- MCNoPairs
    Singletons <- MCSingletons
    IngressOf = {}
    IngressGate = TRUE
    PortOf <- MCPortOf
    Unfit <- MCNoPairs
    BuiltBy <- MCBuiltBy
    Notices = {n}
    Vulns = {}
    GateRequests = {q1}
    MaxGates = 3
    MaxDays = 0
    NoCfg = NoCfg
SPECIFICATION GateFairSpec
PROPERTY HitLeavesDispatch
CHECK_DEADLOCK FALSE
