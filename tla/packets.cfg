SPECIFICATION FairSpec
CONSTANTS
    Transaction <- SwtTransactions
    MemorySize = 4
    MaxPacket = 10
    MaxExchanges = 2
INVARIANTS
    SlaveInStep
    MasterInStep
    EveryOfferIsTaken
    WithinBuffers
    SuccessMeansDone
    RightUpToFailure
    IInv
PROPERTIES
    RefusedForAReason
    ExchangeEnds
CHECK_DEADLOCK FALSE
