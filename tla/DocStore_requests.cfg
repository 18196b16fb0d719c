SPECIFICATION Spec
CONSTANTS
    c1 = c1  c2 = c2  c3 = c3
    a = a  foo = foo  bar = bar
    Clients = {c1, c2}
    MayDo <- Everything
    Paths = {a}
    Under <- MCUnderOne
    Matches <- MCUnderOne
    Contents = {foo, bar}
    SizeOf <- MCSizeOf
    Edits <- MCEdits
    DocIds = {d1, d2}
    NoCondition = NoCondition
    CreateOnly = CreateOnly
    Conditions <- Conditional
    Collects = TRUE
    None = None
SYMMETRY Symmetry
INVARIANTS TypeOK ReferencesHold
PROPERTIES EditAtomic 
