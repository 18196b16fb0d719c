SPECIFICATION MCSpec
CONSTANTS
    d = d
    x = x
    e = e
    y = y
    c1 = c1
    c2 = c2
    root = root
    none = none
    r1 = r1
    Paths <- MCPaths
    Root = root
    Parent <- MCParent
    Above <- MCAbove
    Hidden <- MCHidden
    Matches <- MCMatches
    Contents = {c1, c2}
    Empty = c1
    Edits <- MCEdits
    None = none
    Repos = {r1, r2}
    Clients = {k1, k2}
    Trees = {t1, t2, t3}
    MaxRequests = 3
SYMMETRY Symmetric
INVARIANTS TypeOK  HashesMatch
