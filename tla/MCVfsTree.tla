------------------------------ MODULE MCVfsTree ------------------------------
(* An instance of VfsTree for TLC. *)
EXTENDS VfsTree, TLC

\* Two files in nested directories, one of them hidden, and a file beside them.
MCPaths  == {"/d", "/d/.e", "/d/.e/f", "/d/g", "/h"}
MCParent == ("/d" :> "/") @@ ("/d/.e" :> "/d") @@ ("/d/.e/f" :> "/d/.e")
            @@ ("/d/g" :> "/d") @@ ("/h" :> "/")
MCAbove  == ("/d" :> {}) @@ ("/d/.e" :> {"/d"}) @@ ("/d/.e/f" :> {"/d", "/d/.e"})
            @@ ("/d/g" :> {"/d"}) @@ ("/h" :> {})
MCHidden == {"/d/.e"}
\* One replacement that turns foo into the empty content, and finds nothing in it.
MCEdits  == {("foo" :> "") @@ ("" :> None)}
=============================================================================
