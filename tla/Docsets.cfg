SPECIFICATION Spec
CONSTANTS
    i1 = i1  i2 = i2  set = set  s1 = s1  d1 = d1  d2 = d2  d3 = d3  d4 = d4
    p1 = p1  p2 = p2  r1 = r1  r2 = r2  old = old  none = none
    Names = {set}
    Ids = {i1, i2}
    Docs = {d1, d2, d3, d4}
    Contents = {old, fresh}
    Refs = {r1, r2}
    Spots = {s1}
    Clients = {k1, k2}
    Connections = 2
    LegacyPaths = {p1, p2}
    LegacyContent <- MCLegacyContent
    LegacyRefs <- MCLegacyRefs
    OldSets <- MCOldSets
    OldMembers <- MCOldMembers
    None = none
    Gone = gone
SYMMETRY Symmetric
INVARIANTS TypeOK ReferencesHold LeaksAreBounded StartsAgain
PROPERTIES BackfillSettles StartsKeepTheRest
CHECK_DEADLOCK FALSE
