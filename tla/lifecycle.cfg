CONSTANTS
    Artifacts = {a1, a2}
    Configs = {c}
    NoArtifact = NoArtifact
    Nodes = {n1, n2}
    Requests = {r1, r2}
    MaxGen = 3
    MaxFaults = 1
    MaxBegun = 4
    NoRequest = NoRequest
    NoRuntime = NoRuntime
SPECIFICATION LifecycleSpec
INVARIANTS EnabledNamesItsArtifact PublishedIsHeld
PROPERTY RegisterRefined
VIEW LifecycleView
SYMMETRY LifecycleSymmetry
CHECK_DEADLOCK FALSE
