\* Requests of up to four tokens or three lines, and all frames.
SPECIFICATION Spec
CONSTANTS
    Text <- Texts
    WordDigits = 2
    UintMax = 3
INVARIANTS
    IInv
    FollowsGrammar
    PrintedIsParsed
\* The sequence ends after its last line.
CHECK_DEADLOCK FALSE
