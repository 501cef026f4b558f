CONSTANTS
    p1 = p1  p2 = p2
    cA = cA  cB = cB  wip = wip
    Procs = {p1, p2}
    Commits = {cA, cB}
    Edits = {wip}
    Caching = {TRUE, FALSE}
    MaxMoves = 2
SPECIFICATION RefSpec
SYMMETRY Interchangeable
INVARIANTS
    RefTypeOK
    SteadyWritesAreRight
PROPERTIES
    ImplementsSeam
