SPECIFICATION FairSpec
CONSTANTS
    local = local
    global = global
    p2p = p2p
    Ranks = {r1, r2}
    Runs = {1, 2}
    Cliques = {local, global, p2p}
    Program <- TwoRuns
    LocalCliques = {local, p2p}
    SkipCliques = {p2p}
CHECK_DEADLOCK FALSE
INVARIANT TypeOK
INVARIANT SameOrder
INVARIANT AllOrNobody
INVARIANT CliqueWholeWhenFree
PROPERTY ReadyIsFinal
PROPERTY CallsReturn
