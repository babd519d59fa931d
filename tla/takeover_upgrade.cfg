SPECIFICATION Spec
CONSTANTS
    Plugins = {1}
    Conns = {c1, c2}
    Runtimes = {r1, r2}
    NoRuntime = NoRuntime
    MaxGen = 2
    UniqueInstanceID = FALSE
    MayClose = FALSE
SYMMETRY Symmetry
VIEW View
INVARIANT OneOwner
PROPERTY RuntimesServed
CHECK_DEADLOCK FALSE
