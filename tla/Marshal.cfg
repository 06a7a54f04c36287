SPECIFICATION MCSpec
CONSTANTS
    MinSize = 2
    MaxBytes = 4
    MaxPackets = 2
    MaxWrite = 3
    Wire = 2
    EmptyMsg = FALSE
    Calls <- AllCalls
    Types = {"i8", "i32", "v32", "v64", "string", "vector"}
    MaxPut = 3
INVARIANTS Asserts OneWriter ReadAsWritten
PROPERTIES IsChannel
CHECK_DEADLOCK FALSE
