----------------------------- MODULE MCDocStore -----------------------------
(* Instances of DocStore for TLC. *)
EXTENDS DocStore, TLC

CONSTANTS c1, c2, c3, a, foo, bar

MCUnderOne == (a :> {})
\* A directory with a file, whose name has a LIKE wildcard in it, and a file
\* that the pattern matches too.
LikePaths == {"/d_", "/d_/f", "/dx/f"}
LikeUnder == ("/d_" :> {"/d_/f"}) @@ ("/d_/f" :> {}) @@ ("/dx/f" :> {})
LikeMatches == ("/d_" :> {"/d_/f", "/dx/f"}) @@ ("/d_/f" :> {}) @@ ("/dx/f" :> {})
MCSizeOf == (foo :> 1) @@ (bar :> 2)
\* One replacement that turns foo into bar and finds nothing to replace in bar.
MCEdits == {(foo :> bar) @@ (bar :> None)}
MCEditsOne == {(foo :> foo)}
MCSizeOfOne == (foo :> 1)

Everything == (c1 :> Ops) @@ (c2 :> Ops)
PutsAndReads == (c1 :> {"put", "read"}) @@ (c2 :> {"put", "read"})
Mixed   == (c1 :> {"put"}) @@ (c2 :> {"put", "delete", "read"})
Writers == (c1 :> {"put"}) @@ (c2 :> {"edit"}) @@ (c3 :> {"delete"})

Unconditional == {NoCondition}
Guarded       == {CreateOnly, HashContent(foo)}
Conditional   == {NoCondition, CreateOnly, HashContent(foo)}

\* Clients that do the same are alike, and so are document ids.
Symmetry == Permutations(Clients) \cup Permutations(DocIds)
DocSymmetry == Permutations(DocIds)
=============================================================================
