CONSTANTS
    WasmCalls = {f1, f2}
    Admin = Admin
    WasmThreshold = 3
    Validates = TRUE
    MaxWasmOps = 2
    MaxWasmRefused = 1
SPECIFICATION WasmFairSpec
PROPERTY TrapSparesGateway
CHECK_DEADLOCK FALSE
