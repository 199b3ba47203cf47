SPECIFICATION Spec
CONSTANTS
    Script <- PairedScript
    MaxRpc = 2
    MaxPacket = 9
    FifoLimit = 20
    Capacity = 16
INVARIANTS
    SuccessMeansExecuted
    SuccessMatchesReference
    PromiseInv
CHECK_DEADLOCK FALSE
