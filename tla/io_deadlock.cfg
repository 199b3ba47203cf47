SPECIFICATION FairSpec
CONSTANTS
    Link = {l1, l2}
    Thread = {t1, t2}
    NoThread = NoThread
    MaxReady = 2
PROPERTIES
    SomeReceiveReturns
