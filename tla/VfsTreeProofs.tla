---------------------------- MODULE VfsTreeProofs ----------------------------
(***************************************************************************)
(* Proofs about VfsTree: the lists and the map of nodes agree after every  *)
(* history, no directory is left empty, the views of a directory show the  *)
(* same nodes, and the tree implements FileMap.                            *)
(***************************************************************************)
EXTENDS VfsTree, TLAPS

-----------------------------------------------------------------------------
(* Paths *)

\* Facts on the directories above a path: the parent is the nearest of them.
LEMMA AboveFacts ==
    ASSUME NEW p \in Paths
    PROVE  /\ Parent[p] \in Dirs
           /\ Above[p] \subseteq Paths
           /\ p \notin Above[p]
           /\ \A q \in Above[p] : Above[q] \subseteq Above[p]
           /\ Parent[p] = Root => Above[p] = {}
           /\ Parent[p] # Root => Above[p] = {Parent[p]} \cup Above[Parent[p]] /\ Parent[p] \in Paths
<1>1. Parent[p] \in Dirs /\ Above[p] \in SUBSET Paths BY TreeAssumption
<1>2. QED BY <1>1, TreeAssumption DEF Dirs

\* Between d and a path, the parts are those of the parent, and the parent.
LEMMA BetweenParent ==
    ASSUME NEW p \in Paths, NEW d \in Paths, Parent[p] \in Paths, d \in Above[p]
    PROVE  /\ d # Parent[p] => d \in Above[Parent[p]]
           /\ d # Parent[p] => Between(d, p) = Between(d, Parent[p]) \cup {Parent[p]}
           /\ d = Parent[p] => Between(d, p) = {}
<1> DEFINE e == Parent[p]
<1>1. e # Root /\ d # Root BY TreeAssumption DEF Dirs
<1>2. Above[p] = {e} \cup Above[e] BY <1>1, AboveFacts
<1>3. d \notin Above[d] /\ \A q \in Above[d] : Above[q] \subseteq Above[d] BY AboveFacts
<1>4. e \notin Above[e] BY AboveFacts
<1> HIDE DEF e
<1>5. ASSUME d # e PROVE Between(d, p) = Between(d, e) \cup {e} BY <1>2, <1>5 DEF Between
<1>6. ASSUME d = e PROVE Between(d, p) = {} BY <1>1, <1>2, <1>3, <1>6 DEF Between
<1>7. QED BY <1>2, <1>5, <1>6 DEF e

\* Below d, a path that begins at q has the parts of q.
LEMMA BetweenShrinks ==
    ASSUME NEW p \in Paths, NEW d \in Dirs, NEW q \in Between(d, p)
    PROVE  Between(d, q) \subseteq Between(d, p)
<1>1. q \in Paths /\ Above[q] \subseteq Above[p] BY AboveFacts DEF Between
<1>2. QED BY <1>1 DEF Between

\* The part of p right below d is the first between d and p.
LEMMA FirstPart ==
    ASSUME NEW p \in Paths, NEW q \in Above[p] \cup {p}, Parent[q] \in Paths
    PROVE  /\ Parent[q] \in Above[p]
           /\ \A e \in Between(Parent[q], p) : e = q \/ q \in Above[e]
<1> DEFINE d == Parent[q]
<1>1. q \in Paths /\ d # Root BY AboveFacts, TreeAssumption DEF Dirs
<1>2. Above[q] = {d} \cup Above[d] /\ d \notin Above[d] BY <1>1, AboveFacts
<1>3. Above[q] \subseteq Above[p] BY AboveFacts
<1>4. ASSUME NEW e \in Between(d, p), e # q, q \notin Above[e] PROVE FALSE
  <2>1. e \in Above[p] /\ d \in Above[e] /\ e \in Paths BY <1>1, <1>4, AboveFacts DEF Between
  <2>2. e \in Above[q]
    <3>1. CASE q = p BY <2>1, <3>1
    <3>2. CASE q # p
      <4>1. q \in Above[p] BY <3>2
      <4>2. QED BY <4>1, <2>1, <1>4, TreeAssumption
    <3>3. QED BY <3>1, <3>2
  <2>3. CASE e = d BY <2>1, <2>3, AboveFacts
  <2>4. CASE e \in Above[d]
    <3>1. Above[e] \subseteq Above[d] BY <2>4, AboveFacts
    <3>2. QED BY <3>1, <2>1, <1>2
  <2>5. QED BY <2>2, <2>3, <2>4, <1>2
<1>5. QED BY <1>2, <1>3, <1>4
-----------------------------------------------------------------------------
(* The invariant *)

\* Only files have a content.
ContentOfFiles == \A p \in Paths : content[p] # None => nodes[p] = "file"

IInv == TypeOK /\ LinksMatchNodes /\ NoEmptyDirs /\ ContentOfFiles

\* A directory that is added has an entry: a node, or one of the paths that it was
\* added for.
LEMMA AddedHasEntry ==
    ASSUME NEW kinds \in [Paths -> Kinds \cup {None}], NEW S \in SUBSET Paths,
           NEW d \in MissingAbove(kinds, S)
    PROVE  \E q \in Paths : Parent[q] = d /\ (q \in S \/ WithParents(kinds, S)[q] # None)
<1>1. PICK p \in S : d \in Above[p] /\ kinds[d] = None BY DEF MissingAbove
<1>2. PICK q \in Above[p] \cup {p} : Parent[q] = d BY <1>1, TreeAssumption
<1>3. q \in Paths BY <1>2, AboveFacts
<1>4. CASE q = p BY <1>2, <1>3, <1>4
<1>5. CASE q \in Above[p]
  <2>1. kinds[q] # None \/ q \in MissingAbove(kinds, S) BY <1>5 DEF MissingAbove
  <2>2. WithParents(kinds, S)[q] # None
    BY <2>1, <1>3, TreeAssumption DEF WithParents, Kinds
  <2>3. QED BY <2>2, <1>2, <1>3
<1>6. QED BY <1>2, <1>4, <1>5

\* The initial states have the invariant.
LEMMA InitInv == Init => IInv
<1> SUFFICES ASSUME NEW files \in [Paths -> Contents \cup {None}],
                    nodes = Grown([p \in Paths |-> IF files[p] = None THEN None ELSE "file"]),
                    children = Linked(nodes),
                    content = [p \in Paths |-> Loaded(files[p])]
             PROVE  IInv
  BY DEF Init
<1> DEFINE kinds == [p \in Paths |-> IF files[p] = None THEN None ELSE "file"]
           S == {p \in Paths : kinds[p] # None}
<1>1. kinds \in [Paths -> Kinds \cup {None}] /\ S \in SUBSET Paths BY DEF Kinds
<1>2. nodes = WithParents(kinds, S) BY DEF Grown
<1>11. \A p \in Paths : kinds[p] = IF files[p] = None THEN None ELSE "file" OBVIOUS
<1>12. \A p \in Paths : p \in S <=> kinds[p] # None OBVIOUS
<1> HIDE DEF kinds, S
<1>3. \A p \in Paths : nodes[p] = IF p \in MissingAbove(kinds, S) THEN "dir" ELSE kinds[p]
  BY <1>2 DEF WithParents
<1>4. \A p \in S : nodes[p] = "file" BY <1>1, <1>3, <1>11, <1>12, TreeAssumption DEF MissingAbove, Kinds
<1>5. TypeOK
  <2>1. nodes \in [Paths -> Kinds \cup {None}] BY <1>1, <1>2 DEF WithParents, Kinds
  <2>2. children \in [Dirs -> SUBSET Paths] BY DEF Linked
  <2>3. content \in [Paths -> Contents \cup {None}] BY TreeAssumption DEF Loaded
  <2>4. QED BY <2>1, <2>2, <2>3 DEF TypeOK
<1>6. LinksMatchNodes BY DEF LinksMatchNodes
<1>7. ASSUME NEW d \in Paths, nodes[d] = "dir" PROVE children[d] # {}
  <2>1. d \in MissingAbove(kinds, S) BY <1>3, <1>7, <1>11, TreeAssumption DEF Kinds
  <2>2. PICK q \in Paths : Parent[q] = d /\ (q \in S \/ WithParents(kinds, S)[q] # None)
    <3>1. kinds \in [Paths -> Kinds \cup {None}] /\ S \in SUBSET Paths BY <1>1
    <3>2. QED BY ONLY <2>1, <3>1, AddedHasEntry
  <2>3. nodes[q] # None BY <2>2, <1>2, <1>4, TreeAssumption DEF Kinds
  <2>4. q \in children[d] BY <2>2, <2>3 DEF Linked, Dirs
  <2>5. QED BY <2>4
<1>8. ContentOfFiles
  <2>1. ASSUME NEW p \in Paths, content[p] # None PROVE nodes[p] = "file"
    <3>1. p \in S BY <2>1, <1>11, <1>12, TreeAssumption DEF Loaded, Kinds
    <3>2. QED BY <3>1, <1>4
  <2>2. QED BY <2>1 DEF ContentOfFiles
<1>9. NoEmptyDirs BY <1>7 DEF NoEmptyDirs
<1>10. QED BY <1>5, <1>6, <1>8, <1>9 DEF IInv

\* Put keeps the invariant.
LEMMA PutKeeps ==
    ASSUME IInv, NEW p \in Paths, NEW c \in Contents, StorePut(p, c)
    PROVE  IInv'
<1> DEFINE added == MissingAbove(nodes, {p})
<1>0. TypeOK /\ LinksMatchNodes /\ NoEmptyDirs /\ ContentOfFiles BY DEF IInv
<1>1. nodes \in [Paths -> Kinds \cup {None}] /\ content \in [Paths -> Contents \cup {None}]
      /\ children \in [Dirs -> SUBSET Paths]
  BY <1>0 DEF TypeOK
<1>2. added \subseteq Paths /\ p \notin added /\ \A d \in added : nodes[d] = None
  BY AboveFacts DEF MissingAbove
<1>3. nodes' \in [Paths -> Kinds \cup {None}]
      /\ \A q \in Paths : nodes'[q] = IF q = p THEN "file" ELSE IF q \in added THEN "dir" ELSE nodes[q]
  BY <1>1, <1>2 DEF StorePut, WithParents, Kinds
<1>4. content' = [content EXCEPT ![p] = c]
      /\ children' = [d \in Dirs |-> children[d] \cup {q \in added \cup {p} : Parent[q] = d}]
  BY DEF StorePut
<1> HIDE DEF added
<1>5. TypeOK' BY <1>1, <1>2, <1>3, <1>4 DEF TypeOK
<1>6. \A d \in Dirs, q \in Paths : q \in children[d] <=> nodes[q] # None /\ Parent[q] = d
  BY <1>0 DEF LinksMatchNodes, Linked
<1>7. \A q \in Paths : nodes'[q] # None <=> nodes[q] # None \/ q \in added \cup {p}
  BY <1>3, TreeAssumption DEF Kinds
<1>8. LinksMatchNodes'
  <2>1. \A d \in Dirs : children'[d] = {q \in Paths : nodes'[q] # None /\ Parent[q] = d}
    BY <1>1, <1>2, <1>4, <1>6, <1>7
  <2>2. children' = [d \in Dirs |-> children'[d]] BY <1>4
  <2>3. QED BY <2>1, <2>2 DEF LinksMatchNodes, Linked
<1>9. ASSUME NEW d \in Paths, nodes'[d] = "dir" PROVE children'[d] # {}
  <2>1. d # p /\ (d \in added \/ nodes[d] = "dir") BY <1>3, <1>9
  <2>2. CASE nodes[d] = "dir" BY <2>2, <1>0, <1>4 DEF NoEmptyDirs, Dirs
  <2>3. CASE d \in added
    <3>1. PICK q \in Paths : Parent[q] = d /\ (q \in {p} \/ WithParents(nodes, {p})[q] # None)
      BY <2>3, <1>1, AddedHasEntry DEF added
    <3>2. q = p \/ nodes[q] # None \/ q \in added
      BY <3>1, TreeAssumption DEF WithParents, added
    <3>3. nodes'[q] # None BY <3>2, <1>7
    <3>4. q \in children'[d] BY <3>1, <3>3, <1>8 DEF LinksMatchNodes, Linked, Dirs
    <3>5. QED BY <3>4
  <2>4. QED BY <2>1, <2>2, <2>3
<1>10. ContentOfFiles'
  <2>1. \A q \in Paths : q # p => content'[q] = content[q] BY <1>1, <1>4
  <2>2. \A q \in Paths : nodes[q] = "file" => nodes'[q] = "file" BY <1>2, <1>3, TreeAssumption DEF Kinds
  <2>3. QED BY <2>1, <2>2, <1>0, <1>3 DEF ContentOfFiles
<1>11. NoEmptyDirs' BY <1>9 DEF NoEmptyDirs
<1>12. QED BY <1>5, <1>8, <1>10, <1>11 DEF IInv

\* What is found in a directory goes with its entries: below a path that a walk
\* from p comes to, the lists of directories are walked too.
LEMMA WalkEnters ==
    ASSUME LinksMatchNodes, NEW p \in Paths, nodes[p] = "dir",
           NEW d \in Walk(p) \cup {p}, nodes[d] = "dir",
           NEW q \in Paths, Parent[q] = d, nodes[q] # None
    PROVE  q \in Walk(p)
<1>1. q \in children[Parent[q]] BY DEF LinksMatchNodes, Linked, Dirs, Walk
<1>2. p # Root /\ d \in Paths /\ Above[q] = {d} \cup Above[d]
  BY AboveFacts, TreeAssumption DEF Walk
<1>3. CASE d = p
  <2>1. Between(p, q) = {} BY <1>2, <1>3, BetweenParent
  <2>2. QED BY <2>1, <1>1, <1>2, <1>3 DEF Walk
<1>4. CASE d # p
  <2>1. Between(p, q) = Between(p, d) \cup {d} BY <1>2, <1>4, BetweenParent DEF Walk
  <2>2. QED BY <2>1, <1>1, <1>2, <1>4 DEF Walk
<1>5. QED BY <1>3, <1>4

\* A walk from p comes to a path through its parent.
LEMMA WalkComesFrom ==
    ASSUME NEW p \in Paths, nodes[p] = "dir", NEW q \in Walk(p), Parent[q] \in Paths
    PROVE  nodes[Parent[q]] = "dir" /\ Parent[q] \in Walk(p) \cup {p}
<1> DEFINE d == Parent[q]
<1>1. p # Root /\ q \in Paths /\ p \in Above[q] BY TreeAssumption DEF Walk
<1>2. CASE d = p BY <1>2
<1>3. CASE d # p
  <2>1. p \in Above[d] /\ Between(p, q) = Between(p, d) \cup {d} BY <1>1, <1>3, BetweenParent
  <2>2. QED BY <2>1, <1>1 DEF Walk
<1>4. QED BY <1>2, <1>3

\* Delete keeps the invariant.
LEMMA DeleteKeeps ==
    ASSUME IInv, NEW p \in Paths, Delete(p)
    PROVE  IInv'
<1> DEFINE gone == Deleted(p) \cup Emptied(p)
<1>0. TypeOK /\ LinksMatchNodes /\ NoEmptyDirs /\ ContentOfFiles BY DEF IInv
<1>1. nodes \in [Paths -> Kinds \cup {None}] /\ content \in [Paths -> Contents \cup {None}]
      /\ children \in [Dirs -> SUBSET Paths]
  BY <1>0 DEF TypeOK
<1>2. /\ nodes[p] # None
      /\ nodes' = [q \in Paths |-> IF q \in gone THEN None ELSE nodes[q]]
      /\ content' = [q \in Paths |-> IF q \in Deleted(p) THEN None ELSE content[q]]
      /\ children' = [d \in Dirs |->
            IF d \in gone /\ nodes[d] = "dir" THEN {} ELSE children[d] \ (Emptied(p) \cup {p})]
  BY DEF Delete
<1>3. Deleted(p) \subseteq Paths /\ Emptied(p) \subseteq Paths /\ p \in Deleted(p)
  BY AboveFacts DEF Deleted, Emptied, Walk
<1>4. \A q \in Emptied(p) : nodes[q] = "dir" BY DEF Emptied
<1>5. \A d \in Dirs, q \in Paths : q \in children[d] <=> nodes[q] # None /\ Parent[q] = d
  BY <1>0 DEF LinksMatchNodes, Linked
<1> HIDE DEF gone
<1>6. gone \subseteq Paths /\ \A q \in gone : q \in Deleted(p) \/ q \in Emptied(p) BY <1>3 DEF gone
<1>7. TypeOK' BY <1>1, <1>2, <1>6 DEF TypeOK
\* Whatever is listed in a directory that goes is gone too.
<1>8. ASSUME NEW d \in gone, nodes[d] = "dir", NEW q \in children[d] PROVE q \in gone
  <2>1. d \in Paths /\ d \in Dirs /\ q \in Paths /\ nodes[q] # None /\ Parent[q] = d
    BY <1>1, <1>5, <1>6, <1>8 DEF Dirs
  <2>2. CASE d \in Deleted(p)
    <3>1. nodes[p] = "dir" /\ d \in Walk(p) \cup {p} BY <2>2, <1>8 DEF Deleted
    <3>2. q \in Walk(p) BY <3>1, <2>1, <1>0, <1>8, WalkEnters
    <3>3. QED BY <3>1, <3>2 DEF gone, Deleted
  <2>3. CASE d \in Emptied(p)
    <3>1. q \in Above[p] \cup {p} BY <2>3, <1>8 DEF Emptied
    <3>2. CASE q = p BY <3>2, <1>3 DEF gone
    <3>3. CASE q \in Above[p]
      <4>1. d \in Above[q] BY <2>1, AboveFacts, TreeAssumption DEF Dirs
      <4>2. q \in Between(d, p) BY <3>3, <4>1 DEF Between
      <4>3. Between(q, p) \subseteq Between(d, p)
        <5>1. ASSUME NEW e \in Above[p], q \in Above[e] PROVE d \in Above[e]
          BY <5>1, <4>1, AboveFacts
        <5>2. q # Root BY <2>1, TreeAssumption
        <5>3. QED BY <5>1, <5>2 DEF Between
      <4>4. q \in Emptied(p) BY <3>3, <4>2, <4>3, <2>3 DEF Emptied
      <4>5. QED BY <4>4 DEF gone
    <3>4. QED BY <3>1, <3>2, <3>3
  <2>4. QED BY <1>6, <1>8, <2>2, <2>3
\* In a directory that stays, the only entries that go are p and emptied directories.
<1>9. ASSUME NEW d \in Dirs, ~(d \in gone /\ nodes[d] = "dir"), NEW q \in children[d], q \in gone
      PROVE  q \in Emptied(p) \cup {p}
  <2>1. q \in Paths /\ Parent[q] = d BY <1>1, <1>5, <1>9
  <2>2. SUFFICES ASSUME q \in Deleted(p), q # p PROVE FALSE BY <1>6, <1>9
  <2>3. nodes[p] = "dir" /\ q \in Walk(p) BY <2>2 DEF Deleted
  <2>4. d \in Paths
    <3>1. p # Root /\ p \in Above[q] BY <2>3, TreeAssumption DEF Walk
    <3>2. QED BY <3>1, <2>1, AboveFacts DEF Dirs
  <2>5. nodes[d] = "dir" /\ d \in Walk(p) \cup {p} BY <2>1, <2>3, <2>4, WalkComesFrom
  <2>6. QED BY <2>5, <2>3, <1>9 DEF gone, Deleted
<1>10. LinksMatchNodes'
  <2>1. ASSUME NEW d \in Dirs PROVE children'[d] = {q \in Paths : nodes'[q] # None /\ Parent[q] = d}
    <3>1. {q \in Paths : nodes'[q] # None /\ Parent[q] = d} = {q \in children[d] : q \notin gone}
      BY <1>1, <1>2, <1>5
    <3>2. CASE d \in gone /\ nodes[d] = "dir" BY <3>1, <3>2, <1>2, <1>8
    <3>3. CASE ~(d \in gone /\ nodes[d] = "dir")
      <4>1. children'[d] = children[d] \ (Emptied(p) \cup {p}) BY <3>3, <1>2
      <4>2. Emptied(p) \cup {p} \subseteq gone BY <1>3 DEF gone
      <4>3. QED BY <4>1, <4>2, <3>1, <3>3, <1>9
    <3>4. QED BY <3>2, <3>3
  <2>2. children' = [d \in Dirs |-> children'[d]] BY <1>2
  <2>3. QED BY <2>1, <2>2 DEF LinksMatchNodes, Linked
<1>11. ASSUME NEW d \in Paths, nodes'[d] = "dir", children'[d] = {} PROVE FALSE
  <2>1. d \in Dirs /\ d \notin gone /\ nodes[d] = "dir" BY <1>2, <1>11, TreeAssumption DEF Kinds, Dirs
  <2>2. children'[d] = children[d] \ (Emptied(p) \cup {p}) BY <1>2, <2>1
  <2>3. PICK q \in children[d] : q \in Emptied(p) \cup {p}
    BY <2>1, <2>2, <1>0, <1>11 DEF NoEmptyDirs
  <2>4. q \in Paths /\ Parent[q] = d BY <2>1, <2>3, <1>1, <1>5
  <2>5. q \in Above[p] \cup {p} BY <2>3 DEF Emptied
  <2>6. d \in Above[p] /\ \A e \in Between(d, p) : e = q \/ q \in Above[e]
    BY <2>4, <2>5, FirstPart
  <2>7. children[d] \subseteq {r \in Above[p] \cup {p} : Parent[r] = d}
    <3>1. children[d] \subseteq Emptied(p) \cup {p} BY <2>2, <1>11
    <3>2. \A r \in children[d] : r \in Paths /\ Parent[r] = d BY <2>1, <1>1, <1>5
    <3>3. QED BY <3>1, <3>2 DEF Emptied
  <2>8. ASSUME NEW e \in Between(d, p)
        PROVE  nodes[e] = "dir" /\ children[e] \subseteq {r \in Above[p] \cup {p} : Parent[r] = e}
    <3>1. e \in Above[p] /\ e \in Paths /\ (e = q \/ q \in Above[e]) BY <2>6, <2>8, AboveFacts DEF Between
    <3>2. p \notin Above[p] /\ Above[e] \subseteq Above[p] BY <3>1, AboveFacts
    <3>3. q \in Above[p] /\ q \in Emptied(p) BY <3>1, <3>2, <2>3
    <3>4. e \in Between(q, p) \cup {q} BY <3>1 DEF Between
    <3>5. QED BY <3>3, <3>4 DEF Emptied
  <2>9. d \in Emptied(p) BY <2>1, <2>6, <2>7, <2>8 DEF Emptied
  <2>10. QED BY <2>9, <2>1 DEF gone
<1>12. NoEmptyDirs' BY <1>11 DEF NoEmptyDirs
<1>13. ContentOfFiles'
  <2>1. ASSUME NEW q \in Paths, content'[q] # None PROVE nodes'[q] = "file"
    <3>1. q \notin Deleted(p) /\ nodes[q] = "file" BY <1>0, <1>2, <2>1 DEF ContentOfFiles
    <3>2. q \notin Emptied(p) BY <3>1, <1>4
    <3>3. QED BY <3>1, <3>2, <1>2, <1>6
  <2>2. QED BY <2>1 DEF ContentOfFiles
<1>14. QED BY <1>7, <1>10, <1>12, <1>13 DEF IInv

\* Each step keeps the invariant.
LEMMA StepKeeps == IInv /\ [Next]_vars => IInv'
<1> SUFFICES ASSUME IInv, [Next]_vars PROVE IInv' OBVIOUS
<1>1. ASSUME NEW p \in Paths, NEW c \in Contents, Put(p, c) PROVE IInv' BY <1>1, PutKeeps DEF Put
<1>2. ASSUME NEW p \in Paths, NEW edit \in Edits, Edit(p, edit) PROVE IInv'
  <2>1. content[p] \in Contents BY <1>2 DEF Edit, Readable, IInv, TypeOK
  <2>2. edit[content[p]] \in Contents BY <2>1, <1>2, TreeAssumption DEF Edit
  <2>3. StorePut(p, edit[content[p]]) BY <1>2 DEF Edit
  <2>4. QED BY <2>2, <2>3, PutKeeps
<1>3. ASSUME NEW p \in Paths, Delete(p) PROVE IInv' BY <1>3, DeleteKeeps
<1>4. CASE UNCHANGED vars
  BY <1>4 DEF vars, IInv, TypeOK, LinksMatchNodes, NoEmptyDirs, ContentOfFiles, Linked
<1>5. QED BY <1>1, <1>2, <1>3, <1>4 DEF Next

\* The invariant holds after every history of operations on a tree that New made.
LEMMA Invariance == Spec => []IInv
<1>1. Init => IInv BY InitInv
<1>2. IInv /\ [Next]_vars => IInv' BY StepKeeps
<1>3. QED BY <1>1, <1>2, PTL DEF Spec

\* The variables of a tree keep their types.
THEOREM TypeCorrect == Spec => []TypeOK
<1>1. IInv => TypeOK BY DEF IInv
<1>2. QED BY <1>1, Invariance, PTL

\* The lists have exactly the nodes, whatever files and directories replaced each
\* other.
THEOREM ListsCorrect == Spec => []LinksMatchNodes
<1>1. IInv => LinksMatchNodes BY DEF IInv
<1>2. QED BY <1>1, Invariance, PTL

\* No operation leaves an empty directory, and none removes one that is in use.
THEOREM DirectoriesInUse == Spec => []NoEmptyDirs
<1>1. IInv => NoEmptyDirs BY DEF IInv
<1>2. QED BY <1>1, Invariance, PTL

-----------------------------------------------------------------------------
(* Views *)

\* Walks stay among the nodes, and come to all of them if files and directories
\* keep apart.
LEMMA WalkAndNodes ==
    ASSUME LinksMatchNodes, NEW d \in Dirs, IsDir(d)
    PROVE  /\ Walk(d) \subseteq NodesUnder(d)
           /\ ~Clash => Walk(d) = NodesUnder(d)
<1>1. \A p \in Paths : p \in children[Parent[p]] <=> nodes[p] # None
  BY AboveFacts DEF LinksMatchNodes, Linked
<1>2. Walk(d) \subseteq NodesUnder(d) BY <1>1 DEF Walk, NodesUnder
<1>3. ASSUME ~Clash, NEW p \in NodesUnder(d) PROVE p \in Walk(d)
  <2>1. p \in Paths /\ nodes[p] # None /\ (d = Root \/ d \in Above[p]) BY DEF NodesUnder
  <2>2. \A q \in Above[p] : q \in Paths /\ nodes[q] = "dir" BY <1>3, <2>1, AboveFacts DEF Clash
  <2>3. \A q \in Above[p] : q \in children[Parent[q]] BY <2>2, <1>1, TreeAssumption DEF Kinds
  <2>4. QED BY <2>1, <2>2, <2>3, <1>1 DEF Walk, Between
<1>4. QED BY <1>2, <1>3

\* Listing, drawing and finding show the same nodes.
THEOREM SameViews == Spec => []ViewsAgree
<1>1. ASSUME IInv PROVE ViewsAgree
  <2> SUFFICES ASSUME NEW d \in Dirs, NEW all \in BOOLEAN, IsDir(d)
               PROVE  LET found == Find(d, Kinds, None, all) IN
                      /\ ListRecursive(d, all) \subseteq found
                      /\ ~Clash => ListRecursive(d, all) = found
                      /\ ~Clash => \A depth \in 1..3 :
                           /\ TreeLines(d, depth, all, FALSE) = Find(d, Kinds, depth, all)
                           /\ TreeLines(d, depth, all, TRUE) = Find(d, {"dir"}, depth, all)
    BY DEF ViewsAgree
  <2>1. \A p \in NodesUnder(d) : nodes[p] \in Kinds BY <1>1 DEF IInv, TypeOK, NodesUnder
  <2>2. LinksMatchNodes BY <1>1 DEF IInv
  <2>3. Walk(d) \subseteq NodesUnder(d) /\ (~Clash => Walk(d) = NodesUnder(d))
    BY <2>2, WalkAndNodes
  <2>4. \A p \in Paths : PartsUnder(d, p) \cap Hidden = {} <=> ~HasHiddenPart(d, p)
    BY DEF HasHiddenPart
  <2>5. ListRecursive(d, all) \subseteq Find(d, Kinds, None, all)
    BY <2>1, <2>3, <2>4 DEF ListRecursive, Find, NodesUnder
  <2>6. ASSUME ~Clash, NEW depth, NEW kinds, NEW dirsOnly \in BOOLEAN,
               kinds = IF dirsOnly THEN {"dir"} ELSE Kinds
        PROVE  TreeLines(d, depth, all, dirsOnly) = Find(d, kinds, depth, all)
    BY <2>1, <2>3, <2>4, <2>6 DEF ListRecursive, TreeLines, Find, NodesUnder
  <2>7. ASSUME ~Clash PROVE ListRecursive(d, all) = Find(d, Kinds, None, all)
    BY <2>1, <2>3, <2>4, <2>7 DEF ListRecursive, Find, NodesUnder
  <2>8. QED BY <2>5, <2>6, <2>7
<1>2. QED BY <1>1, Invariance, PTL

-----------------------------------------------------------------------------
(* The abstract store *)

\* A Put writes one file.
LEMMA PutWrites ==
    ASSUME IInv, NEW p \in Paths, NEW c \in Contents, StorePut(p, c)
    PROVE  Abstract!Write(p, c)
<1>1. nodes \in [Paths -> Kinds \cup {None}] /\ content \in [Paths -> Contents \cup {None}]
  BY DEF IInv, TypeOK
<1>2. nodes' = [q \in Paths |-> IF q = p THEN "file"
                ELSE IF q \in MissingAbove(nodes, {p}) THEN "dir" ELSE nodes[q]]
  BY <1>1 DEF StorePut, WithParents
<1>3. content' = [content EXCEPT ![p] = c] BY DEF StorePut
<1>4. \A q \in MissingAbove(nodes, {p}) : nodes[q] = None BY DEF MissingAbove
<1>5. ASSUME NEW q \in Paths PROVE Files'[q] = IF q = p THEN c ELSE Files[q]
  <2>1. CASE q = p
    <3>1. nodes'[q] = "file" /\ content'[q] = c BY <2>1, <1>1, <1>2, <1>3
    <3>2. QED BY <3>1, <2>1, TreeAssumption DEF Files
  <2>2. CASE q # p
    <3>1. content'[q] = content[q] BY <2>2, <1>1, <1>3
    <3>2. nodes'[q] = "file" <=> nodes[q] = "file" BY <2>2, <1>2, <1>4, TreeAssumption DEF Kinds
    <3>3. QED BY <3>1, <3>2, <2>2 DEF Files
  <2>3. QED BY <2>1, <2>2
<1>6. Files' = [Files EXCEPT ![p] = c] BY <1>5 DEF Files
<1>7. QED BY <1>6 DEF Abstract!Write

\* A Delete removes what is at a path and below it, if no file is in the way.
LEMMA DeleteRemoves ==
    ASSUME IInv, ~Clash, NEW p \in Paths, Delete(p)
    PROVE  /\ Files' = Abstract!Without(p)
           /\ Abstract!Remove(p) \/ UNCHANGED Files
<1> DEFINE at == Abstract!FilesAt(p)
<1>1. nodes \in [Paths -> Kinds \cup {None}] /\ content \in [Paths -> Contents \cup {None}]
      /\ LinksMatchNodes
  BY DEF IInv, TypeOK
<1>2. \A q \in Paths : Files[q] # None <=> nodes[q] = "file"
  BY <1>1, TreeAssumption DEF Files
<1>3. /\ nodes' = [q \in Paths |-> IF q \in Deleted(p) \cup Emptied(p) THEN None ELSE nodes[q]]
      /\ content' = [q \in Paths |-> IF q \in Deleted(p) THEN None ELSE content[q]]
      /\ nodes[p] # None
  BY DEF Delete
<1>4. \A q \in Paths : q \in at <=> nodes[q] = "file" /\ (q = p \/ p \in Above[q])
  BY <1>2 DEF Abstract!FilesAt
<1>5. \A q \in Emptied(p) : nodes[q] = "dir" BY DEF Emptied
<1>6. ASSUME NEW q \in Paths PROVE q \in at <=> nodes[q] = "file" /\ q \in Deleted(p)
  <2>1. CASE nodes[p] = "dir"
    <3>1. Walk(p) = NodesUnder(p) BY <2>1, <1>1, WalkAndNodes DEF IsDir, Dirs
    <3>2. p # Root BY TreeAssumption
    <3>3. QED BY <3>1, <3>2, <2>1, <1>4, TreeAssumption DEF Deleted, NodesUnder, Kinds
  <2>2. CASE nodes[p] = "file"
    <3>1. nodes[q] # None => p \notin Above[q] BY <2>2 DEF Clash
    <3>2. QED BY <3>1, <2>2, <1>4, TreeAssumption DEF Deleted, Kinds
  <2>3. QED BY <2>1, <2>2, <1>1, <1>3 DEF Kinds
<1>7. ASSUME NEW q \in Paths PROVE Files'[q] = IF q \in at THEN None ELSE Files[q]
  BY <1>3, <1>5, <1>6, TreeAssumption DEF Files, Kinds
<1>8. Files' = [q \in Paths |-> IF q \in at THEN None ELSE Files[q]] BY <1>7 DEF Files
<1>9. Files' = Abstract!Without(p) BY <1>8 DEF Abstract!Without
<1>10. CASE at = {}
  <2>1. Files' = [q \in Paths |-> Files[q]] BY <1>8, <1>10
  <2>2. QED BY <1>9, <2>1 DEF Files
<1>11. CASE at # {} BY <1>9, <1>11 DEF Abstract!Remove
<1>12. QED BY <1>9, <1>10, <1>11

\* Operations on a tree are operations on its files, while no file is above
\* another one.
THEOREM TreeImplementsFileMap == Spec => ImplementsFileMap
<1>1. ASSUME IInv, [Next]_vars, ~Clash PROVE Abstract!Next \/ UNCHANGED Files
  <2>1. ASSUME NEW p \in Paths, NEW c \in Contents, StorePut(p, c) PROVE Abstract!Next
    BY <2>1, <1>1, PutWrites DEF Abstract!Next
  <2>2. ASSUME NEW p \in Paths, NEW edit \in Edits, Edit(p, edit) PROVE Abstract!Next
    <3>1. content[p] \in Contents BY <2>2, <1>1 DEF Edit, Readable, IInv, TypeOK
    <3>2. edit[content[p]] \in Contents BY <3>1, <2>2, TreeAssumption DEF Edit
    <3>3. StorePut(p, edit[content[p]]) BY <2>2 DEF Edit
    <3>4. QED BY <3>2, <3>3, <2>1
  <2>3. ASSUME NEW p \in Paths, Delete(p) PROVE Abstract!Next \/ UNCHANGED Files
    BY <2>3, <1>1, DeleteRemoves DEF Abstract!Next
  <2>4. CASE UNCHANGED vars BY <2>4 DEF vars, Files
  <2>5. QED BY <2>1, <2>2, <2>3, <2>4, <1>1 DEF Next, Put
<1>2. ASSUME IInv, ~Clash, NEW p \in Paths, Delete(p) PROVE Files' = Abstract!Without(p)
  BY <1>2, DeleteRemoves
<1>3. IInv /\ [Next]_vars => [~Clash =>
          /\ Abstract!Next \/ UNCHANGED Files
          /\ \A p \in Paths : Delete(p) => Files' = Abstract!Without(p)]_vars
  BY <1>1, <1>2
<1>4. QED BY <1>3, Invariance, PTL DEF Spec, ImplementsFileMap
=============================================================================
