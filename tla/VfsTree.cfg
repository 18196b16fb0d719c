SPECIFICATION Spec
CONSTANTS
    Paths <- MCPaths
    Root = "/"
    Parent <- MCParent
    Above <- MCAbove
    Hidden <- MCHidden
    Contents = {"", "foo"}
    Empty = ""
    Edits <- MCEdits
    None = None
INVARIANTS TypeOK LinksMatchNodes NoEmptyDirs ViewsAgree
PROPERTY ImplementsFileMap
