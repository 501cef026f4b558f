CONSTANTS
    c1 = c1  anchor = anchor  gemma = gemma
    Cases = {c1}
    Models = {anchor}
    Anchor = {anchor}
    Plans <- SingleCell
    Graded = {"pass"}
    Wants = {1, 2}
    MaxSeeds = 2
    Faults = {"crash", "write", "interrupt"}
    MaxFaults = 2
    MaxForced = 1
    MaxStamp = 4
SPECIFICATION FairSpec
PROPERTIES
    EventuallyGraded
    ImplementsLedger
