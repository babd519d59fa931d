SPECIFICATION Spec
CONSTANTS
    Plugins = {1}
    Conns = {c1}
    Runtimes = {r1, r2}
    NoRuntime = NoRuntime
    MaxGen = 3
    UniqueInstanceID = TRUE
    MayClose = TRUE
SYMMETRY Symmetry
INVARIANT NoUseAfterDestroy
CHECK_DEADLOCK FALSE
