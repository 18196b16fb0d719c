SPECIFICATION LiveSpec
CONSTANTS
    k1 = k1  k2 = k2  docs = docs  lib = lib
    fa = fa  fb = fb  foo = foo  nil = nil  one = one  two = two
    Commands = {k1}
    Paths = {fa, fb}
    Contents = {nil, foo}
    Empty = nil
    Roots = {docs, lib}
    Mounts = {docs, lib}
    Repos = {docs}
    Top = None
    Under <- Apart
    Copies = {one, two}
    First = one
    Invocations <- AnythingApart
    LocalBusy = FALSE
    RemoteBusy = FALSE
    MayFail = FALSE
    HookFails = TRUE
    None = None
INVARIANTS SavedEntriesHold ConflictsAreEdits OneEntryPerPath
PROPERTY HookConverges
