SPECIFICATION Spec
CONSTANTS
    Script <- BatchScript
    MaxRpc = 1
    MaxPacket = 9
    FifoLimit = 12
    Capacity = 16
INVARIANTS
    SuccessMatchesReference
CHECK_DEADLOCK FALSE
