SPECIFICATION ScanSpec
CONSTANTS
    MaxLt = 4
    Limits = {2, 3}
    MaxScanned = {2, 4}
    MaxMatches = 1
INVARIANTS
    ScanInv
    AnswerIsComplete
PROPERTIES
    ScanEnds
CHECK_DEADLOCK FALSE
