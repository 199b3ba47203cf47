SPECIFICATION Spec
CONSTANTS
    Script <- BlockAnywhere
    MaxRpc = 1
    MaxPacket = 9
    FifoLimit = 12
    Capacity = 16
INVARIANTS
    SuccessMeansExecuted
CHECK_DEADLOCK FALSE
