SPECIFICATION Spec
CONSTANTS
    k1 = k1  k2 = k2  docs = docs  lib = lib
    fa = fa  fb = fb  foo = foo  nil = nil  one = one  two = two
    Commands = {k1, k2}
    Paths = {fa}
    Contents = {nil, foo}
    Empty = nil
    Roots = {docs}
    Mounts = {docs}
    Repos = {docs}
    Top = None
    Under <- Single
    Copies = {one}
    First = one
    Invocations <- Concurrent
    LocalBusy = FALSE
    RemoteBusy = TRUE
    MayFail = TRUE
    HookFails = TRUE
    None = None
SYMMETRY Commands2
INVARIANTS TypeOK BaselineWasRemote
PROPERTY EditsSurvive
