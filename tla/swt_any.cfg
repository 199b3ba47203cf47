SPECIFICATION FairSpec
CONSTANTS
    Script <- AnyScript
    MaxRpc = 2
    MaxPacket = 10
    FifoLimit = 8
    Capacity = 4
INVARIANTS
    PacketNeverOverflows
    FifoWithinLimit
    ExecutedInOrder
    AndStaysBuffered
    IInv
PROPERTIES
    RpcReplied
CHECK_DEADLOCK FALSE
