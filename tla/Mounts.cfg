SPECIFICATION MCSpec
CONSTANTS
    Sources <- MCSources
    Name <- MCName
    Base <- MCBase
    Places <- MCPlaces
    Targets <- MCTargets
    Dirs <- MCDirs
    Locals <- MCLocals
    RootPaths <- MCRootPaths
    Self = "self"
    p1 = p1
    p2 = p2
    Procs = {p1, p2}
    MaxKept = 1
    MaxTorn = 1
SYMMETRY Alike
INVARIANTS ListingsFaithful PathsReturn KeptStayMounted RootAgrees RootReaches
