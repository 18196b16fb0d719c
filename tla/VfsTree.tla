------------------------------- MODULE VfsTree -------------------------------
(***************************************************************************)
(* The file tree that caches and the memory store are made of              *)
(* (internal/vfs/tree.go, and internal/store/memory/adapter.go, which      *)
(* hands its requests to one tree): a map of nodes, the list of children   *)
(* of each directory, and the contents.  The three are kept in step by     *)
(* hand in New, Put, Edit and Delete, and each of LS, Tree, Find and Grep  *)
(* reads another of them.                                                  *)
(*                                                                         *)
(* Nothing keeps a file from having the path of a directory: Put turns a   *)
(* directory into a file and leaves its children, and Put below a file     *)
(* gives it some.  Lists are sets here, and a walk through them is the set *)
(* of nodes that it comes to.                                              *)
(***************************************************************************)
EXTENDS TreePaths

VARIABLES
    nodes,    \* nodes[p]: the kind of the node at p, or None; the root is a directory
    children, \* children[d]: the paths in the list of d
    content   \* content[p]: the content that is loaded for p, or None

vars == <<nodes, children, content>>

-----------------------------------------------------------------------------
(* New and NewFromNodes *)

\* addParents: the directories above the paths of S that are no nodes yet.
MissingAbove(kinds, S) == {d \in UNION {Above[p] : p \in S} : kinds[d] = None}

\* Mutant: addParents does not stop at the root.
WithParentsAndRoot(kinds, S) ==
    [p \in Dirs |-> IF p = Root \/ p \in MissingAbove(kinds, S) THEN "dir" ELSE kinds[p]]

WithParents(kinds, S) ==
    [p \in Paths |-> IF p \in MissingAbove(kinds, S) THEN "dir" ELSE kinds[p]]

\* The nodes of a list, those above them, and each in the list of its parent
\* (New for files, NewFromNodes for files and directories).
Grown(kinds) == WithParents(kinds, {p \in Paths : kinds[p] # None})
Linked(kinds) == [d \in Dirs |-> {p \in Paths : kinds[p] # None /\ Parent[p] = d}]

\* New keeps no content that is empty.  A file that another one is below has to
\* come first in the list; otherwise its path is a duplicate.
Loaded(c) == IF c = Empty THEN None ELSE c

Init == \E files \in [Paths -> Contents \cup {None}] :
    /\ nodes = Grown([p \in Paths |-> IF files[p] = None THEN None ELSE "file"])
    /\ children = Linked(nodes)
    /\ content = [p \in Paths |-> Loaded(files[p])]

-----------------------------------------------------------------------------
(* Put and Edit *)

\* Mutant: only the file itself is put into a list.
StorePutUnlinked(p, c) ==
    /\ nodes' = [WithParents(nodes, {p}) EXCEPT ![p] = "file"]
    /\ content' = [content EXCEPT ![p] = c]
    /\ children' = [children EXCEPT ![Parent[p]] = @ \cup {p}]

\* The directories above p are made, and p becomes a file whatever it was.
StorePut(p, c) ==
    /\ nodes' = [WithParents(nodes, {p}) EXCEPT ![p] = "file"]
    /\ content' = [content EXCEPT ![p] = c]
    /\ children' = [d \in Dirs |->
            children[d] \cup {q \in MissingAbove(nodes, {p}) \cup {p} : Parent[q] = d}]

Put(p, c) == StorePut(p, c)

\* Cat fails for a directory and for a content that is not loaded.
Readable(p) == nodes[p] = "file" /\ content[p] # None

Edit(p, edit) ==
    /\ Readable(p) /\ edit[content[p]] # None
    /\ StorePut(p, edit[content[p]])

-----------------------------------------------------------------------------
(* Delete *)

\* What a walk from d through directories and their lists comes to.
Walk(d) == {p \in Paths :
    /\ d = Root \/ d \in Above[p]
    /\ \A q \in Between(d, p) : nodes[q] = "dir"
    /\ \A q \in Between(d, p) \cup {p} : q \in children[Parent[q]]}

\* Mutant: only the entries of the directory go with it.
DeletedEntries(p) == {p} \cup (IF nodes[p] = "dir" THEN children[p] ELSE {})

\* deleteRecursive: a directory goes with all that a walk finds in it.
Deleted(p) == {p} \cup (IF nodes[p] = "dir" THEN Walk(p) ELSE {})

\* Mutant: the parents of an emptied directory are left alone.
EmptiedOnlyParent(p) ==
    {d \in Above[p] : d = Parent[p] /\ nodes[d] = "dir" /\ children[d] \subseteq {p}}

\* removeFromParent: the directories above p that hold nothing but p, or the one
\* that is removed below them.
Emptied(p) == {d \in Above[p] : \A e \in Between(d, p) \cup {d} :
    /\ nodes[e] = "dir"
    /\ children[e] \subseteq {q \in Above[p] \cup {p} : Parent[q] = e}}

Delete(p) ==
    LET gone == Deleted(p) \cup Emptied(p) IN
    /\ nodes[p] # None
    /\ nodes' = [q \in Paths |-> IF q \in gone THEN None ELSE nodes[q]]
    /\ content' = [q \in Paths |-> IF q \in Deleted(p) THEN None ELSE content[q]]
    /\ children' = [d \in Dirs |->
            IF d \in gone /\ nodes[d] = "dir" THEN {} ELSE children[d] \ (Emptied(p) \cup {p})]

Next == \E p \in Paths :
    \/ \E c \in Contents : Put(p, c)
    \/ \E edit \in Edits : Edit(p, edit)
    \/ Delete(p)

Spec == Init /\ [][Next]_vars

-----------------------------------------------------------------------------
(* Reads *)

IsDir(d) == d = Root \/ nodes[d] = "dir"

\* The parts of a path below d, and how many.
PartsUnder(d, p) == Between(d, p) \cup {p}
DepthUnder(d, p) == Cardinality(PartsUnder(d, p))

\* Walks that do not enter hidden directories: LS with -R, and -a if all; Tree down
\* to a depth, or to the end if depth is None, and without files if dirsOnly.
ListRecursive(d, all) == {p \in Walk(d) : all \/ PartsUnder(d, p) \cap Hidden = {}}
TreeLines(d, depth, all, dirsOnly) == {p \in ListRecursive(d, all) :
    /\ depth = None \/ DepthUnder(d, p) <= depth
    /\ dirsOnly => nodes[p] = "dir"}

\* Mutant: only the name of the node itself counts.
HasHiddenName(d, p) == p \in Hidden

\* pathHasHiddenComponent.
HasHiddenPart(d, p) == PartsUnder(d, p) \cap Hidden # {}

\* Find goes through the map of all nodes, whatever the lists say.
NodesUnder(d) == {p \in Paths : nodes[p] # None /\ (d = Root \/ d \in Above[p])}
Find(d, kinds, maxDepth, all) == {p \in NodesUnder(d) :
    /\ all \/ ~HasHiddenPart(d, p)
    /\ nodes[p] \in kinds
    /\ maxDepth = None \/ DepthUnder(d, p) <= maxDepth}

-----------------------------------------------------------------------------
(* Properties *)

\* Types of all variables.
TypeOK ==
    /\ nodes \in [Paths -> Kinds \cup {None}]
    /\ children \in [Dirs -> SUBSET Paths]
    /\ content \in [Paths -> Contents \cup {None}]

\* Every node is in the list of its parent and no list has anything else, whatever
\* the history: also when files took the places of directories and back, and
\* however many directories a Delete has emptied (Put, Delete, removeFromParent).
LinksMatchNodes == children = Linked(nodes)

\* A directory is there exactly as long as something is in it: Delete takes the
\* emptied ones away up to the first that is still in use (removeFromParent).
NoEmptyDirs == \A d \in Paths : nodes[d] = "dir" => children[d] # {}

\* Some node is below a path that is no directory.
Clash == \E p \in Paths : nodes[p] # None /\ \E d \in Above[p] : nodes[d] # "dir"

\* The views of a directory show the same nodes, hidden ones left out or not:
\* LS -R and Tree walk the lists, Find goes through the map.  A walk does not
\* come to what is below a file, and Find does.
ViewsAgree == \A d \in Dirs, all \in BOOLEAN : IsDir(d) =>
    LET found == Find(d, Kinds, None, all) IN
    /\ ListRecursive(d, all) \subseteq found
    /\ ~Clash => ListRecursive(d, all) = found
    /\ ~Clash => \A depth \in 1..3 :
        /\ TreeLines(d, depth, all, FALSE) = Find(d, Kinds, depth, all)
        /\ TreeLines(d, depth, all, TRUE) = Find(d, {"dir"}, depth, all)

\* The files of the tree; a content that is not kept is empty.
Files == [p \in Paths |->
    IF nodes[p] # "file" THEN None ELSE IF content[p] = None THEN Empty ELSE content[p]]

Abstract == INSTANCE FileMap WITH files <- Files

\* As long as files and directories have kept apart, every operation does to the
\* files what it promises and nothing else: Put and Edit replace one content, and
\* Delete of a path removes it with all files below it, although the tree finds them
\* by its lists.
ImplementsFileMap == [][~Clash =>
    /\ Abstract!Next \/ UNCHANGED Files
    /\ \A p \in Paths : Delete(p) => Files' = Abstract!Without(p)]_vars
=============================================================================
