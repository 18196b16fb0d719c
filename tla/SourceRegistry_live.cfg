SPECIFICATION FairSpec
CONSTANTS
    q1 = q1  q2 = q2  repo = repo  docset = docset
    Sources = {docset}
    Kind <- DocsetKind
    Shows <- DocsetShows
    Adapters = {a1, a2, a3}
    Requests = {q1}
    Loop = Loop
    MayFail = TRUE
    Others = TRUE
    None = None
INVARIANT RoutedTreesCatchUp
PROPERTY TableConverges
