CONSTANTS
    KeyIds = {i1}
    RootRequests = {r1, r2}
    SignRuns = {}
    Windows = {}
    MaxTrustDay = 0
SPECIFICATION TrustSpec
INVARIANT RevokedRootStays
CHECK_DEADLOCK FALSE
