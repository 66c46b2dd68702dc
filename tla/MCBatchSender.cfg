SPECIFICATION Spec
CONSTANTS
    Calls = {c1, c2}
    Batches <- MCBatches
    MaxGroup = 2
    MaxSize = 2
    Lag = 1
    BitNumbers = 4
    IdSpace = 8
    Timeout = 2
    StartTime = 6
    MaxTime = 10
    MaxRestarts = 1
INVARIANTS
    DistinctQueryIds
    ResultsAccountForMessages
    ExecutedAtMostOnce
CHECK_DEADLOCK FALSE
