SPECIFICATION MCSpec
CONSTANTS
    MinSize = 2
    MaxBytes = 1
    MaxPackets = 1
    MaxWrite = 3
    Wire = 2
    EmptyMsg = FALSE
    Calls <- TcpCalls
    Types = {"string"}
    MaxPut = 1
INVARIANTS Verified
CHECK_DEADLOCK FALSE
