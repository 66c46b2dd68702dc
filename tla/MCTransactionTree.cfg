SPECIFICATION Spec
CONSTANTS
    r = r
    a = a
    b = b
    c = c
    Tx <- MCTx
    Root = r
    Nobody = Nobody
    Trees <- MCTrees
    Outcomes <- MCOutcomes
    Depths = {1, 2}
    Retries = {0, 1}
    MaxErrors = 1
    MaxBuried = 1
INVARIANTS
    WalkInv
    VerdictIsRight
PROPERTIES
    WalkEnds
    GoodTreeAccepted
CHECK_DEADLOCK FALSE
