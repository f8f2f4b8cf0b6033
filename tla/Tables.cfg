SPECIFICATION MCSpec
CONSTANTS
    Keys = {k1, k2}
    Values = {v1, v2, v3}
    System = {k2}
    Workers = {w1, w2}
    Modelled <- Kinds
    Word = 64
SYMMETRY Symmetry
CONSTRAINT FirstMishap
INVARIANTS
    RowLocksOrderCommands
    NodeInStep
    UsedRowsExist
    NodeShowsRow
    TimersInOrder
CHECK_DEADLOCK FALSE
