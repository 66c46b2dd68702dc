SPECIFICATION FinalizerSpec
CONSTANTS
    r = r
    a = a
    b = b
    c = c
    Tx <- MCTx
    Root = r
    Trees <- MCTrees
    Outcomes <- MCOutcomes
    Depths = {0, 1, 2, 3}
    Retries = 1
    Directions = {"out", "both"}
INVARIANTS
    WalkInv
    VerdictIsRight
PROPERTIES
    WalkEnds
CHECK_DEADLOCK FALSE
