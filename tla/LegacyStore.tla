----------------------------- MODULE LegacyStore -----------------------------
(***************************************************************************)
(* The path-centric store (internal/store/postgres/adapter.go, query.go):  *)
(* nodes and contents are rows that all repositories share, a repository   *)
(* is a set of references to them, and each repository has a cached tree   *)
(* (VfsTree) that requests change beside the tables: Put and Delete commit *)
(* first and then change the tree that is cached by then, Edit changes its *)
(* own tree first, and Cat loads contents into its own tree.               *)
(*                                                                         *)
(* A transaction takes effect when it commits, or fails (also as the       *)
(* victim of a row-lock deadlock: Put takes rows from the file upwards and *)
(* Delete from the directory downwards).  Only the clean-up of Delete has  *)
(* a step of its own: its "not exists" reads the snapshot of the           *)
(* statement, and the statement may then wait for a Put that holds the     *)
(* row.                                                                    *)
(***************************************************************************)
EXTENDS TreePaths

CONSTANTS
    Repos,      \* names of repositories
    Clients,    \* concurrent requests
    Matches,    \* Matches[d]: the paths that LIKE d || '/%' selects; a _ or a % in d
                \* is a wildcard
    Trees,      \* bound: trees in memory
    MaxRequests \* bound: requests and invalidations

\* "clear" is a Delete of the root, which nothing refuses.
Ops   == {"cat", "put", "delete", "edit", "clear"}
Steps == {"idle", "tree", "content", "locked", "loaded", "hash", "ready",
          "write", "collect", "commit", "install"}

ASSUME TablesAssumption ==
    /\ Paths # {} /\ Repos # {} /\ MaxRequests \in Nat
    /\ Matches \in [Paths -> SUBSET Paths]
    /\ \A p \in Paths : Below(p) \subseteq Matches[p]
    /\ None \notin Trees \cup [tree : Trees, fresh : BOOLEAN]

VARIABLES
    kind,    \* the nodes table: kind of the row of a path, or None
    stored,  \* the content table: content of a path, or None
    hash,    \* its content_hash: the content that it was computed from, or None
    bound,   \* the references: bound[r] are the paths of repository r
    trees,   \* trees[t]: nodes and loaded contents of a tree
    cached,  \* cachedTrees: [tree, fresh] or None
    loading, \* contentMu of the adapter of a repository: the client that holds it
    req,     \* the requests
    served,  \* requests and invalidations so far
    raced    \* history: paths whose cached state may differ from the tables

db     == <<kind, stored, hash, bound>>
memory == <<trees, cached, loading>>
vars   == <<kind, stored, hash, bound, trees, cached, loading, req, served, raced>>

-----------------------------------------------------------------------------
(* Trees *)

Lists(nodes) == [d \in Paths \cup {Root} |-> {p \in Paths : nodes[p] # None /\ Parent[p] = d}]

Tree(t) == INSTANCE VfsTree WITH
    nodes <- trees[t].nodes, children <- Lists(trees[t].nodes), content <- trees[t].content

NoTree == [nodes |-> [p \in Paths |-> None], content |-> [p \in Paths |-> None]]
Idle   == [at |-> "idle", op |-> "cat", repo |-> CHOOSE r \in Repos : TRUE,
           path |-> CHOOSE p \in Paths : TRUE, content |-> None, edit |-> None,
           tree |-> None, paths |-> {}, orphans |-> {}]

\* The rows that make a repository: directories are there for the directory rows
\* of its references, and loadTree passes over them.
FileRows(r) == {p \in bound[r] : kind[p] = "file"}

LoadTree(r) ==
    LET files == [p \in Paths |-> IF p \in FileRows(r) THEN "file" ELSE None] IN
    [nodes |-> Tree(CHOOSE t \in Trees : TRUE)!Grown(files), content |-> NoTree.content]

TreePut(t, p, c) ==
    [nodes |-> [Tree(t)!WithParents(trees[t].nodes, {p}) EXCEPT ![p] = "file"],
     content |-> [trees[t].content EXCEPT ![p] = c]]

TreeDelete(t, p) == IF trees[t].nodes[p] = None THEN trees[t] ELSE
    [nodes |-> [q \in Paths |->
        IF q \in Tree(t)!Deleted(p) \cup Tree(t)!Emptied(p) THEN None ELSE trees[t].nodes[q]],
     content |-> [q \in Paths |->
        IF q \in Tree(t)!Deleted(p) THEN None ELSE trees[t].content[q]]]

InUse == {t \in Trees : \/ \E r \in Repos : cached[r] # None /\ cached[r].tree = t
                        \/ \E c \in Clients : req[c].tree = t}

\* Trees that nobody refers to any more are gone.
Heap(heap) == trees' = [t \in Trees |-> IF t \in InUse' THEN heap[t] ELSE NoTree]

-----------------------------------------------------------------------------
(* Tables *)

\* Tables as the migrations and earlier servers leave them: with files that others
\* are below, and with directories that nothing is in.
Init ==
    /\ bound \in [Repos -> SUBSET Paths]
    /\ kind \in [Paths -> Kinds \cup {None}]
    /\ \A p \in Paths : kind[p] # None <=> \E r \in Repos : p \in bound[r]
    /\ stored \in [Paths -> Contents \cup {None}]
    /\ \A p \in Paths : stored[p] # None <=> kind[p] = "file"
    /\ hash \in {[p \in Paths |-> None], stored}
    /\ trees = [t \in Trees |-> NoTree]
    /\ cached = [r \in Repos |-> None]
    /\ loading = [r \in Repos |-> None]
    /\ req = [c \in Clients |-> Idle]
    /\ served = 0
    /\ raced = [r \in Repos |-> {}]

\* Mutant: the loop over the directories above does not stop at the root.
PutRowsWithRoot(r, p, c) ==
    /\ kind' = [q \in Paths |-> IF q = p THEN "file" ELSE IF q \in Above[p] THEN "dir" ELSE kind[q]]
    /\ stored' = [stored EXCEPT ![p] = c]
    /\ hash' = [hash EXCEPT ![p] = c]
    /\ bound' = [bound EXCEPT ![r] = @ \cup {p, Root} \cup Above[p]]

PutRows(r, p, c) ==
    /\ kind' = [q \in Paths |-> IF q = p THEN "file" ELSE IF q \in Above[p] THEN "dir" ELSE kind[q]]
    /\ stored' = [stored EXCEPT ![p] = c]
    /\ hash' = [hash EXCEPT ![p] = c]
    /\ bound' = [bound EXCEPT ![r] = @ \cup {p} \cup Above[p]]

\* Contents and references go with their node.
DeleteRows(r, paths, orphans) ==
    /\ kind' = [q \in Paths |-> IF q \in orphans THEN None ELSE kind[q]]
    /\ stored' = [q \in Paths |-> IF q \in orphans THEN None ELSE stored[q]]
    /\ hash' = [q \in Paths |-> IF q \in orphans THEN None ELSE hash[q]]
    /\ bound' = [s \in Repos |-> (bound[s] \ (IF s = r THEN paths ELSE {})) \ orphans]

\* CleanOrphanNodeSQL, after the references of r itself are deleted.
Orphans(r, paths) == {p \in paths : kind[p] # None /\ \A s \in Repos \ {r} : p \notin bound[s]}

-----------------------------------------------------------------------------
(* Requests *)

Go(c, step) == req' = [req EXCEPT ![c].at = step]
End(c)      == req' = [req EXCEPT ![c] = Idle]
Writes(op)  == op \in {"put", "delete", "edit"}

\* Requests of r on paths that are near p.  (A Delete of the root has no path here; the
\* whole tree is wrong once it has committed.)
Rivals(c, op, r, p) == {o \in Clients \ {c} :
    /\ req[o].at # "idle" /\ req[o].repo = r /\ req[o].path \in Near(p)
    /\ Writes(op) \/ Writes(req[o].op)
    /\ "clear" \notin {op, req[o].op}}

Begin(c, op, r, p, content, edit) ==
    /\ req[c].at = "idle" /\ served < MaxRequests
    /\ served' = served + 1
    /\ req' = [req EXCEPT ![c] = [Idle EXCEPT !.at = "tree", !.op = op, !.repo = r,
            !.path = p, !.content = content, !.edit = edit]]
    /\ raced' = [raced EXCEPT ![r] = IF Rivals(c, op, r, p) = {} THEN @
            ELSE @ \cup Near(p) \cup UNION {Near(req[o].path) : o \in Rivals(c, op, r, p)}]
    /\ UNCHANGED <<db, memory>>

Arrive(c) == \E r \in Repos, p \in Paths :
    \/ \E op \in {"cat", "delete"} : Begin(c, op, r, p, None, None)
    \/ \E content \in Contents : Begin(c, "put", r, p, content, None)
    \/ \E edit \in Edits : Begin(c, "edit", r, p, None, edit)
    \/ p = Idle.path /\ Begin(c, "clear", r, p, None, None)

\* treeFor: all under mu.
AfterTree(op) == CASE op = "put" -> "write"
                   [] op \in {"delete", "clear"} -> "collect"
                   [] OTHER -> "content"

HasTree(r) == cached[r] # None /\ cached[r].fresh

UseTree(c) ==
    /\ req[c].at = "tree" /\ HasTree(req[c].repo)
    /\ req' = [req EXCEPT ![c].tree = cached[req[c].repo].tree, ![c].at = AfterTree(req[c].op)]
    /\ UNCHANGED <<db, memory, served, raced>>

\* What is under way while a tree is loaded may still reach it or miss it.
Pending(c, r) == UNION {Near(req[o].path) : o \in
    {o \in Clients \ {c} : req[o].at # "idle" /\ req[o].repo = r /\ req[o].op # "clear"}}

LoadNewTree(c) ==
    LET r == req[c].repo
        t == CHOOSE t \in Trees : t \notin InUse IN
    /\ req[c].at = "tree" /\ ~HasTree(r) /\ ~(Trees \subseteq InUse)
    /\ cached' = [cached EXCEPT ![r] = [tree |-> t, fresh |-> TRUE]]
    /\ req' = [req EXCEPT ![c].tree = t, ![c].at = AfterTree(req[c].op)]
    /\ UNCHANGED <<db, loading, served>>
    /\ Heap([trees EXCEPT ![t] = LoadTree(r)])
    /\ raced' = [raced EXCEPT ![r] = @ \cap Pending(c, r)]

\* ensureContent: the content is looked for before and after contentMu is taken.
FindContent(c) ==
    /\ req[c].at = "content"
    /\ IF trees[req[c].tree].content[req[c].path] # None
       THEN Go(c, "ready") /\ UNCHANGED loading
       ELSE /\ loading[req[c].repo] = None
            /\ loading' = [loading EXCEPT ![req[c].repo] = c]
            /\ Go(c, "locked")
    /\ UNCHANGED <<db, trees, cached, served, raced>>

Unlock(c) == loading' = [loading EXCEPT ![req[c].repo] = None]

LoadContent(c) ==
    LET p == req[c].path IN
    /\ req[c].at = "locked"
    /\ UNCHANGED <<db, cached, served, raced>>
    /\ \/ /\ trees[req[c].tree].content[p] # None
          /\ Go(c, "ready") /\ Unlock(c) /\ UNCHANGED trees
       \/ /\ trees[req[c].tree].content[p] = None /\ stored[p] # None
          /\ req' = [req EXCEPT ![c].content = stored[p], ![c].at = "loaded"]
          /\ UNCHANGED <<loading, trees>>
       \/ /\ trees[req[c].tree].content[p] = None /\ stored[p] = None
          /\ End(c) /\ Unlock(c) /\ Heap(trees)

SetContent(c) ==
    LET p == req[c].path  t == req[c].tree IN
    /\ req[c].at = "loaded" /\ Go(c, "hash")
    /\ trees' = [trees EXCEPT ![t].content[p] =
            IF trees[t].nodes[p] # None THEN req[c].content ELSE @]
    /\ UNCHANGED <<db, cached, loading, served, raced>>

\* Mutant: the hash is filled in whatever is there by now.
HashOverwritten(p, content) == [hash EXCEPT ![p] = IF stored[p] # None THEN content ELSE @]

\* BackfillHashSQL; a failure is ignored.
HashFilled(p, content) ==
    [hash EXCEPT ![p] = IF stored[p] # None /\ @ = None THEN content ELSE @]

BackfillHash(c) ==
    /\ req[c].at = "hash" /\ Go(c, "ready") /\ Unlock(c)
    /\ \/ hash' = HashFilled(req[c].path, req[c].content)
       \/ UNCHANGED hash
    /\ UNCHANGED <<kind, stored, bound, trees, cached, served, raced>>

Cat(c) ==
    /\ req[c].at = "ready" /\ req[c].op = "cat"
    /\ UNCHANGED <<db, cached, loading, served, raced>>
    /\ End(c) /\ Heap(trees)

\* Edit changes the tree that the request holds, before the tables.
Edited(c) ==
    LET t == req[c].tree IN
    IF Tree(t)!Readable(req[c].path) THEN req[c].edit[trees[t].content[req[c].path]] ELSE None

EditTree(c) ==
    LET p == req[c].path  t == req[c].tree IN
    /\ req[c].at = "ready" /\ req[c].op = "edit"
    /\ UNCHANGED <<db, cached, loading, served, raced>>
    /\ \/ /\ Edited(c) # None
          /\ req' = [req EXCEPT ![c].content = Edited(c), ![c].at = "write"]
          /\ trees' = [trees EXCEPT ![t] = TreePut(t, p, Edited(c))]
       \/ /\ Edited(c) = None
          /\ End(c) /\ Heap(trees)

\* History: what a repository refers to of some rows that another one changes, and
\* the directories above.
Shared(s, rows) == UNION {Upward(q) : q \in rows \cap bound[s]}

\* The tree of r itself differs where a Put is below a file, which stays a file in the
\* tree only.
RacedByPut(c) ==
    LET r == req[c].repo  p == req[c].path IN
    [s \in Repos |-> raced[s] \cup
        IF s # r THEN Shared(s, Upward(p))
        ELSE IF Above[p] \cap FileRows(r) # {} THEN Near(p) ELSE {}]

\* writeBackPut
WriteBackPut(c) ==
    /\ req[c].at = "write"
    /\ PutRows(req[c].repo, req[c].path, req[c].content)
    /\ raced' = RacedByPut(c)
    /\ UNCHANGED <<cached, loading, served>>
    /\ IF req[c].op = "put" THEN Go(c, "install") /\ UNCHANGED trees
       ELSE End(c) /\ Heap(trees)

\* The tree keeps the change of an Edit whose transaction has failed.
PutFails(c) ==
    LET r == req[c].repo IN
    /\ UNCHANGED <<db, cached, loading, served>>
    /\ req[c].at = "write" /\ End(c) /\ Heap(trees)
    /\ raced' = [raced EXCEPT ![r] = @ \cup IF req[c].op = "edit" THEN Upward(req[c].path) ELSE {}]

\* writeBackDelete: collectPathsForDelete reads the tree of the request without a
\* lock, and the clean-up looks for references in the tables.  (What changes in
\* between could as well have changed before or after both.)
CollectPaths(c) ==
    LET p == req[c].path
        t == req[c].tree
        paths == IF req[c].op = "clear" THEN Tree(t)!Walk(Root)
                 ELSE {p} \cup IF trees[t].nodes[p] = "dir" THEN Tree(t)!Walk(p) ELSE {} IN
    /\ req[c].at = "collect"
    /\ req' = [req EXCEPT ![c].at = "commit", ![c].paths = paths,
            ![c].orphans = Orphans(req[c].repo, paths)]
    /\ UNCHANGED <<db, memory, served, raced>>

\* History: a Delete leaves what is below a file, which a tree that is loaded
\* after it has in a directory.
Nested(r, p) == \E f \in FileRows(r) \cap ({p} \cup Below(p)) : Below(f) \cap FileRows(r) # {}

WriteBackDelete(c) ==
    LET r == req[c].repo  p == req[c].path IN
    /\ req[c].at = "commit" /\ Go(c, "install")
    /\ DeleteRows(r, req[c].paths, req[c].orphans)
    /\ raced' = [s \in Repos |-> raced[s] \cup
            IF s # r THEN Shared(s, req[c].orphans)
            ELSE IF req[c].op = "clear" THEN Paths
            ELSE IF p \in raced[r] \/ Nested(r, p) THEN Near(p) ELSE {}]
    /\ UNCHANGED <<memory, served>>

DeleteFails(c) ==
    /\ UNCHANGED <<db, cached, loading, served, raced>>
    /\ req[c].at = "commit" /\ End(c) /\ Heap(trees)

\* Mutant: always the tree that the request has begun with.
OwnTree(c) == req[c].tree

\* The end of Put and Delete, under mu: the tree that is cached by now is changed,
\* or the own one put back if there is none.  A tree refuses to delete its root: the
\* request fails, although its transaction has deleted everything.
TreeToChange(c) ==
    IF cached[req[c].repo] = None THEN req[c].tree ELSE cached[req[c].repo].tree

Install(c) ==
    LET r == req[c].repo
        t == TreeToChange(c) IN
    /\ req[c].at = "install" /\ End(c)
    /\ cached' = [cached EXCEPT ![r] = IF @ = None THEN [tree |-> t, fresh |-> TRUE] ELSE @]
    /\ UNCHANGED <<db, loading, served>>
    /\ Heap([trees EXCEPT ![t] =
            CASE req[c].op = "put"    -> TreePut(t, req[c].path, req[c].content)
              [] req[c].op = "delete" -> TreeDelete(t, req[c].path)
              [] OTHER                -> @])
    /\ raced' = [raced EXCEPT ![r] = IF cached[r] = None THEN Paths ELSE @]

\* Invalidate; in-flight requests keep their trees.
Invalidate(r) ==
    /\ served < MaxRequests /\ served' = served + 1
    /\ cached[r] # None /\ cached' = [cached EXCEPT ![r] = None]
    /\ UNCHANGED <<db, loading, raced>>
    /\ UNCHANGED req /\ Heap(trees)

\* CacheTTL
Expire(r) ==
    /\ served < MaxRequests /\ served' = served + 1
    /\ HasTree(r) /\ cached' = [cached EXCEPT ![r].fresh = FALSE]
    /\ UNCHANGED <<db, trees, loading, req, raced>>

\* The server stops at any point: HasContent and collectPathsForDelete read maps
\* of a tree without mu, and Go may stop the program for that.
Crash ==
    /\ trees' = [t \in Trees |-> NoTree] /\ cached' = [r \in Repos |-> None]
    /\ loading' = [r \in Repos |-> None] /\ req' = [c \in Clients |-> Idle]
    /\ raced' = [r \in Repos |-> {}]
    /\ UNCHANGED <<db, served>>

Proceed(c) ==
    \/ UseTree(c) \/ LoadNewTree(c) \/ FindContent(c) \/ LoadContent(c) \/ SetContent(c)
    \/ BackfillHash(c) \/ Cat(c) \/ EditTree(c) \/ WriteBackPut(c) \/ PutFails(c)
    \/ CollectPaths(c) \/ WriteBackDelete(c) \/ DeleteFails(c) \/ Install(c)

Next ==
    \/ \E c \in Clients : Arrive(c) \/ Proceed(c)
    \/ \E r \in Repos : Invalidate(r) \/ Expire(r)
    \/ Crash

Spec == Init /\ [][Next]_vars

-----------------------------------------------------------------------------
(* Reads that go to the tables *)

Under(d, p) == d = Root \/ p = d \/ p \in Matches[d]

\* The join of the three tables.
Readable(r) == {p \in FileRows(r) : stored[p] # None}

BatchHashes(r, d) == {p \in Readable(r) : hash[p] # None /\ Under(d, p)}
Search(r, d, words) == {p \in Readable(r) : stored[p] \in words /\ Under(d, p)}
Locate(r, words) == Search(r, Root, words)
\* Grep: lines that match are contents here; hidden paths are left out unless all.
\* The parts of a path are those after the prefix d, if it has that.
Parts(d, p) == {p} \cup IF d \in Above[p] THEN Between(d, p) ELSE Above[p]
Grep(r, d, all, words) == {p \in Readable(r) :
    /\ d = Root \/ p \in Matches[d]
    /\ stored[p] \in words
    /\ all \/ Parts(d, p) \cap Hidden = {}}
\* What it finds elsewhere when d has a wildcard in its name.
Elsewhere(d) == IF d = Root THEN {} ELSE Matches[d] \ Below(d)

-----------------------------------------------------------------------------
(* Properties *)

\* Types of all variables.
TypeOK ==
    /\ kind \in [Paths -> Kinds \cup {None}]
    /\ stored \in [Paths -> Contents \cup {None}]
    /\ hash \in [Paths -> Contents \cup {None}]
    /\ bound \in [Repos -> SUBSET Paths]
    /\ trees \in [Trees -> [nodes : [Paths -> Kinds \cup {None}], content : [Paths -> Contents \cup {None}]]]
    /\ cached \in [Repos -> {None} \cup [tree : Trees, fresh : BOOLEAN]]
    /\ loading \in [Repos -> Clients \cup {None}]
    /\ req \in [Clients -> [at : Steps, op : Ops, repo : Repos, path : Paths,
            content : Contents \cup {None}, edit : Edits \cup {None}, tree : Trees \cup {None},
            paths : SUBSET Paths, orphans : SUBSET Paths]]
    /\ served \in 0..MaxRequests
    /\ raced \in [Repos -> SUBSET Paths]

\* Paths that a request of r has still to write or to install.
InFlight(r) == UNION {Near(req[c].path) : c \in
    {c \in Clients : req[c].at # "idle" /\ req[c].repo = r /\ Writes(req[c].op)}}

\* The tree that Find and Cat are answered from has exactly the files that Grep, a
\* query of the tables, finds below the same directory, hidden ones left out or not,
\* and their contents, except for the paths in raced.  (For a directory with _ or %
\* in its name Grep finds files elsewhere besides.)  raced has the known ways to a
\* stale tree: requests of a repository that overlap on a path (commit and
\* write-through in different orders, a content read before a Put and set after it), a
\* failed Edit, a tree put back after Invalidate, a file with paths below it (made by a
\* Put, or left by a Delete), a Delete of the root, which leaves the tree full until it
\* is loaded again, and the writes of another repository to a shared path.
\* Nothing else leads to one: not a Put or Delete beside the reload of a tree.
TreesAgree == \A r \in Repos : cached[r] # None =>
    LET t == cached[r].tree
        known == Paths \ (raced[r] \cup InFlight(r)) IN
    /\ \A d \in Paths \cup {Root}, all \in BOOLEAN : Tree(t)!IsDir(d) =>
        Tree(t)!Find(d, {"file"}, None, all) \cap known =
            (Grep(r, d, all, Contents) \ Elsewhere(d)) \cap known
    /\ \A p \in known : Tree(t)!Readable(p) => p \in Locate(r, {trees[t].content[p]})

\* A hash that BatchHashes hands out is that of the stored content, although Cat
\* computes the missing ones from a content it has read earlier (BackfillHashSQL): a
\* client that syncs by hashes would otherwise skip a changed file for good.
HashesMatch == \A r \in Repos : \A p \in BatchHashes(r, Root) : hash[p] = stored[p]
=============================================================================
