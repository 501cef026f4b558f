CONSTANTS
    c1 = c1  anchor = anchor  gemma = gemma
    Cases = {c1}
    Models = {anchor, gemma}
    Anchor = {anchor}
    Plans <- Paper
    Graded = {"pass"}
    Wants = {2}
    MaxSeeds = 2
    Faults = {"crash", "tear", "write", "interrupt", "orphan"}
    MaxFaults = 1
    MaxForced = 1
    MaxStamp = 5
SPECIFICATION Spec
INVARIANTS
    TypeOK
    SeedsFormPrefix
    OneArmPerFile
    GradedMeansComplete
    ZeroExitAccountsForPlan
    TabulatedResultsOnDisk
    RecordsInv
PROPERTIES
    GradedRowsPermanent
    NoResampling
