SPECIFICATION FairSpec
CONSTANTS
    Link = {l1, l2}
    Thread = {t1, t2, t3}
    NoThread = NoThread
    MaxReady = 2
INVARIANTS
    TypeOK
    QuietOutsideReceive
    StoppedIsRestarted
PROPERTIES
    RestartWakesAll
    ReceiveReturns
