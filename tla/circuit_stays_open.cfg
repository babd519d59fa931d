CONSTANTS
    Requests = {r1, r2}
    Sinks = {x1}
    Threshold = 3
    Window = 2
    MaxExports = 0
    NoSink = NoSink
SPECIFICATION ExternalFair
PROPERTIES OpenBriefly
CHECK_DEADLOCK FALSE
