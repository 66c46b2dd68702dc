SPECIFICATION Spec
CONSTANTS
    Calls = {c1, c2}
    Sizes = {0, 1, 3, 5}
    BatchSize = 2
    MaxLag = 1
INVARIANTS
    OnceAndInOrder
    ResultsAccountForMessages
PROPERTIES
    ImplementsDelivery
CHECK_DEADLOCK FALSE
