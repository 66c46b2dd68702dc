SPECIFICATION Spec
CONSTANTS
    Calls = {"c1", "c2"}
    Requests <- MCRequests
    ChunkSize = 2
    KeyChunk = 2
    SameObject = FALSE
INVARIANTS
    CallInv
    ReturnedMeansSent
    CompleteAnswerPasses
PROPERTIES
    CallsEnd
CHECK_DEADLOCK FALSE
