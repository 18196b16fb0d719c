---------------------------- MODULE MCLegacyStore ----------------------------
(* Instances of LegacyStore: two directories with a file each, of which one has a     *)
(* wildcard in its name ("/d_/x" and "/de/y").                                        *)
EXTENDS LegacyStore, TLC
CONSTANTS d, x, e, y, c1, c2, root, none, r1

MCPaths   == {d, x, e, y}
MCParent  == (d :> root) @@ (x :> d) @@ (e :> root) @@ (y :> e)
MCAbove   == (d :> {}) @@ (x :> {d}) @@ (e :> {}) @@ (y :> {e})
MCMatches == (d :> {x, y}) @@ (x :> {}) @@ (e :> {y}) @@ (y :> {})
MCHidden  == {d}
MCEdits   == {[c \in Contents |-> IF c = c1 THEN c2 ELSE none]}
\* All repositories share the files, one of them above another; the hash of one was
\* never computed.
MCInit ==
    /\ Init /\ bound = [r \in Repos |-> Paths]
    /\ kind = [p \in Paths |-> IF p = e THEN "dir" ELSE "file"]
    /\ stored = [p \in Paths |-> IF p = e THEN none ELSE c1] /\ hash[x] = none
\* The repositories start alike: the first request is of r1.  A Put of d writes one
\* content, and an Edit is of the file in it.  In the other directory there is only a Cat, which may load a tree at any
\* moment, and what a Delete of the root does.
Bound == \A c \in Clients : req[c].at # "idle" =>
    /\ served = 1 => req[c].repo = r1
    /\ req[c].path = d /\ req[c].op = "put" => req[c].content = c1
    /\ req[c].path = e => req[c].op \in {"cat", "clear"}
    /\ req[c].path = y => req[c].op = "clear"
    /\ req[c].op = "edit" => req[c].path = x
MCSpec == MCInit /\ [][Next /\ Bound']_vars
Symmetric == Permutations(Clients)
==============================================================================
