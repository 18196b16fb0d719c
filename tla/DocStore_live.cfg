SPECIFICATION FairSpec
CONSTANTS
    c1 = c1  c2 = c2  c3 = c3
    a = a  foo = foo  bar = bar
    Clients = {c1, c2, c3}
    MayDo <- Writers
    Paths = {a}
    Under <- MCUnderOne
    Matches <- MCUnderOne
    Contents = {foo}
    SizeOf <- MCSizeOfOne
    Edits <- MCEditsOne
    DocIds = {d1, d2}
    NoCondition = NoCondition
    CreateOnly = CreateOnly
    Conditions <- Unconditional
    Collects = FALSE
    None = None
PROPERTIES RequestsEnd StaleTreeGoes
