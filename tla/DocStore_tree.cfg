SPECIFICATION Spec
CONSTANTS
    c1 = c1  c2 = c2  c3 = c3
    a = a  foo = foo  bar = bar
    Clients = {c1, c2}
    MayDo <- Mixed
    Paths <- LikePaths
    Under <- LikeUnder
    Matches <- LikeMatches
    Contents = {foo}
    SizeOf <- MCSizeOfOne
    Edits <- MCEditsOne
    DocIds = {d1, d2, d3}
    NoCondition = NoCondition
    CreateOnly = CreateOnly
    Conditions <- Unconditional
    Collects = FALSE
    None = None
SYMMETRY DocSymmetry
INVARIANTS CacheCoherent DocumentsNotShared
