SPECIFICATION Spec
CONSTANTS
    q1 = q1  q2 = q2  repo = repo  docset = docset
    Sources = {repo}
    Kind <- RepoKind
    Shows <- RepoShows
    Adapters = {a1, a2, a3, a4}
    Requests = {q1, q2}
    Loop = Loop
    MayFail = TRUE
    Others = FALSE
    None = None
SYMMETRY AdapterSymmetry
INVARIANTS TypeOK OneAdapter
PROPERTY CrossWritesAllowed
VIEW View
