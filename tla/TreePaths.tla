------------------------------ MODULE TreePaths ------------------------------
(***************************************************************************)
(* Paths of files and directories, and what is stored at them, as trees in *)
(* memory (VfsTree) and the tables of the path-centric store (LegacyStore) *)
(* take them: clean paths that path.Dir leads from to the root.            *)
(***************************************************************************)
EXTENDS Naturals, FiniteSets

CONSTANTS
    Paths,    \* clean paths of files and directories, without the root
    Root,     \* "/"
    Parent,   \* Parent[p]: path.Dir of p
    Above,    \* Above[p]: all directories that p is in, without the root
    Hidden,   \* paths whose last part begins with a dot
    Contents, \* contents of files
    Empty,    \* the empty content
    Edits,    \* replacements: Edits[c] is the new content, or None if nothing is found
    None      \* no node, no content

Dirs  == Paths \cup {Root}
Kinds == {"file", "dir"}

ASSUME TreeAssumption ==
    /\ Root \notin Paths /\ None \notin Contents \cup Kinds /\ Empty \in Contents
    /\ Hidden \subseteq Paths
    /\ Edits \subseteq [Contents -> Contents \cup {None}]
    /\ Parent \in [Paths -> Dirs]
    /\ Above \in [Paths -> SUBSET Paths]
    \* Paths form a tree.
    /\ \A p \in Paths :
        /\ p \notin Above[p]
        /\ Parent[p] = Root => Above[p] = {}
        /\ Parent[p] # Root => Above[p] = {Parent[p]} \cup Above[Parent[p]]
        /\ \A q \in Above[p] : Above[q] \subseteq Above[p]
        /\ \A q, r \in Above[p] : q = r \/ q \in Above[r] \/ r \in Above[q]
        /\ \A q \in Above[p] : \E r \in Above[p] \cup {p} : Parent[r] = q
        \* The directories of a path are finitely many: of some, one is the deepest.
        /\ \A S \in (SUBSET Above[p]) \ {{}} : \E d \in S : \A e \in S : d \notin Above[e]

Upward(p) == {p} \cup Above[p]
Below(p)  == {q \in Paths : p \in Above[q]}
Near(p)   == Upward(p) \cup Below(p)

\* The parts of a path between d and p.
Between(d, p) == {q \in Above[p] : d = Root \/ d \in Above[q]}
=============================================================================
