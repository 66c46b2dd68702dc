SPECIFICATION Spec
CONSTANTS
    k1 = k1
    k2 = k2
    k3 = k3
    N = 2
    Ids = {k1, k2, k3}
    Null = Null
    Requests <- MCRequests
    ChunkSize = 2
    MaxAttempts = 3
    Timeout = 3
    Delay = 1
    Durations = {0, 2}
INVARIANTS
    NoAnswerLost
CHECK_DEADLOCK FALSE
