CONSTANTS
    p1 = p1
    cA = cA  cB = cB  wip = wip
    Procs = {p1}
    Commits = {cA, cB}
    Edits = {wip}
    Caching = {TRUE, FALSE}
    MaxMoves = 1
SPECIFICATION RefSpec
INVARIANTS
    CacheIsOfItsCommit

