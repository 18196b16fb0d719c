------------------------------- MODULE FileMap -------------------------------
(***************************************************************************)
(* What every store of this repository promises its callers: a map from    *)
(* paths to contents (store.Adapter in internal/store/store.go: Put, Edit, *)
(* Delete).  Directories exist only as prefixes of paths.  A write         *)
(* replaces one content, and a removal takes away one path and everything  *)
(* below it; no operation touches another file.                            *)
(***************************************************************************)
CONSTANTS
    Paths,    \* names of files and directories, without the root
    Above,    \* Above[p]: the directories that p is in, without the root
    Contents, \* contents of files
    None      \* no file

VARIABLE files \* files[p]: the content of p, or None

FileMaps == [Paths -> Contents \cup {None}]

\* The files at p and below.
FilesAt(p) == {q \in Paths : files[q] # None /\ (q = p \/ p \in Above[q])}

Init == files \in FileMaps

Write(p, c) == files' = [files EXCEPT ![p] = c]

Without(p) == [q \in Paths |-> IF q \in FilesAt(p) THEN None ELSE files[q]]

Remove(p) == FilesAt(p) # {} /\ files' = Without(p)

Next == \E p \in Paths : Remove(p) \/ \E c \in Contents : Write(p, c)

Spec == Init /\ [][Next]_files
=============================================================================
