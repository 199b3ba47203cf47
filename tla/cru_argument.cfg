\* An empty number, and one that is too large.
SPECIFICATION Spec
CONSTANTS
    Text <- AnyTexts
    WordDigits = 2
    UintMax = 3
INVARIANTS
    CountIsWritten
\* The sequence ends after its last line.
CHECK_DEADLOCK FALSE
