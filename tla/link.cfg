SPECIFICATION FairSpec
CONSTANTS
    StatusThread = {s1, s2, s3}
    Main = Main
    Rpc = Rpc
    NoThread = NoThread
    NoData = NoData
    MaxTransceive = 2
INVARIANTS
    FreshAnswer
    RecoveryPending
    IInv
PROPERTIES
    OnlyAFreshStatusRaises
    ImplementsService
    RpcAnswered
    LinkRecovers
    StatusThreadsEnd
    UseEnds
