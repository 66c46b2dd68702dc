SPECIFICATION Spec
CONSTANTS
    Linkers = {l1, l2}
    N = 2
    Executions <- MCExecutions
    Limits = {0, 4}
    MaxErrors = 1
INVARIANTS
    CallInv
    ReturnMeansEndedAndVerified
PROPERTIES
    TrackingEnds
    EndIsNoticed
CHECK_DEADLOCK FALSE
