CONSTANTS
    w1 = w1  w2 = w2
    refA = refA  refB = refB
    j1 = j1  j2 = j2  j3 = j3
    Procs = {w1, w2}
    Codes = {refA, refB}
    Jobs = {j1, j2, j3}
    Suffix <- SuffixOf
    Malformed = {j3}
    Budget <- BudgetOf
    N = 2
    Grades <- GradesOf
    MinPct <- MinPctOf
    MaxTroubles = 1
SPECIFICATION Spec
INVARIANTS
    TypeOK
    OneYardstick
    DoneIsMeasured
    LevelsAsDocumented
    CurvesCountDraws
PROPERTIES
    RowsStay
    EveryJobSettles
CHECK_DEADLOCK FALSE
