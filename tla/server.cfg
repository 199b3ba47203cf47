SPECIFICATION FairSpec
CONSTANTS
    NumLinks = 2
    StatusThread = {s1, s2}
    Main = Main
    NoThread = NoThread
    MaxSignals = 2
INVARIANTS
    TypeOK
    OneMoreCheckAtMost
    StopIsFinal
PROPERTIES
    StopIsKept
    ServerStarts
\* The process ends.
CHECK_DEADLOCK FALSE
