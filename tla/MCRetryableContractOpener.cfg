SPECIFICATION Spec
CONSTANTS
    N = 3
    Retries <- MCRetries
    NoError = NoError
    AllFailed = AllFailed
INVARIANTS
    BudgetSpentInOrder
    RejectionJustified
PROPERTIES
    NoAttemptAfterFinalError
    CallSettles
    ImplementsFailover
CHECK_DEADLOCK FALSE
