------------------------------ MODULE DocStore ------------------------------
(***************************************************************************)
(* The document store of one repository: DocAdapter (internal/store/       *)
(* postgres/doc_adapter.go) over the tables rolio_docs and                 *)
(* rolio_repo_paths, with the in-memory tree it caches, the transactions   *)
(* its requests run, and the garbage collector (gc.go).                    *)
(*                                                                         *)
(* Every request is a sequence of SQL statements and every statement is a  *)
(* step, so requests interleave between statements.  The transactions run  *)
(* at PostgreSQL's default level, read committed: a statement sees what    *)
(* was committed when it started, a writer waits for the row it writes,    *)
(* and goes on with the newest version of that row.  What a transaction    *)
(* writes stays in its record tx[c] until Install copies it to the tables. *)
(***************************************************************************)
EXTENDS Integers, FiniteSets

CONSTANTS
    Clients,     \* the requests the server may be running at once
    MayDo,       \* MayDo[c]: the operations client c requests
    Paths,       \* cleaned file paths, the root excluded
    Under,       \* Under[p]: the paths that have p as a directory prefix
    Matches,     \* Matches[p]: the paths that LIKE p || '/%' selects; a _ or a %
                 \* in p stands for any text
    Contents,    \* file contents
    SizeOf,      \* SizeOf[x]: len(x)
    Edits,       \* the replacements an Edit asks for: Contents -> result
    DocIds,      \* document ids
    NoCondition, \* the empty ExpectedHash: no condition
    CreateOnly,  \* the ExpectedHash "*"
    Conditions,  \* the ExpectedHashes that requests carry
    Collects,    \* whether the garbage collector is run
    None         \* no document, no row, no tree, no client, no match

Ops == {"put", "edit", "delete", "read"}

\* store.HashContent, taken to be free of collisions.
HashContent(x) == <<"sha256", x>>

Hashes == {HashContent(x) : x \in Contents}

Expectations == {NoCondition, CreateOnly} \cup Hashes

\* A tree, and the size column of the path table: the size of every bound
\* path, NoSize for the others.
NoSize == -1
Trees == [Paths -> Nat \cup {NoSize}]

ASSUME ClientsAssumption == None \notin Clients /\ MayDo \in [Clients -> SUBSET Ops]
ASSUME PathsAssumption ==
    /\ Under \in [Paths -> SUBSET Paths]
    /\ Matches \in [Paths -> SUBSET Paths]
    /\ \A p \in Paths : Under[p] \subseteq Matches[p]
ASSUME ContentsAssumption ==
    /\ None \notin Contents
    /\ SizeOf \in [Contents -> Nat]
    /\ Edits \subseteq [Contents -> Contents \cup {None}]
    /\ None \notin Edits
ASSUME DocsAssumption == None \notin DocIds
ASSUME HashAssumption ==
    /\ NoCondition # CreateOnly
    /\ {NoCondition, CreateOnly} \cap Hashes = {}
    /\ Conditions \subseteq Expectations
ASSUME TreeAssumption == None \notin Trees /\ Collects \in BOOLEAN

VARIABLES
    docs,    \* rolio_docs: docs[d] is the content of row d, or None
    fresh,   \* the documents updated less than the grace period ago
    bind,    \* rolio_repo_paths: the doc_id of every path, or None
    size,    \* rolio_repo_paths: the size of every path, or NoSize
    cache,   \* cachedTrees[repo]: a tree, or None
    mu,      \* the holder of the adapter's write lock across a build, or None
    pc,      \* pc[c]: the statement client c runs next
    req,     \* req[c]: the request client c serves
    tx,      \* tx[c]: its locals, its uncommitted writes and its row locks
    orphans, \* the rows the garbage collector's DELETE has selected
    lost     \* history: the paths whose cached entry (or the one being built)
             \* misses a write whose commit was never confirmed

dbVars    == <<docs, fresh, bind, size>>
cacheVars == <<cache, mu, lost>>
vars      == <<docs, fresh, bind, size, cache, mu, pc, req, tx, orphans, lost>>

-----------------------------------------------------------------------------
(* Requests and transactions *)

NoReq == [op |-> "none", path |-> None, expect |-> NoCondition, edit |-> None]
NoTx  == [doc    |-> None,  \* the document the request will bind its path to
          want   |-> None,  \* the document row its statement has selected
          locked |-> None,  \* the document row it has locked for writing
          share  |-> None,  \* the row its foreign key check has locked
          val    |-> None,  \* the content it writes
          rows   |-> {},    \* the path rows it writes or deletes
          held   |-> {},    \* those of them it has locked
          tree   |-> None]  \* the tree it is building

Requests == [op : Ops \cup {"none"}, path : Paths \cup {None},
             expect : Expectations, edit : Edits \cup {None}]
Transactions == [doc : DocIds \cup {None}, want : DocIds \cup {None},
                 locked : DocIds \cup {None}, share : DocIds \cup {None},
                 val : Contents \cup {None}, rows : SUBSET Paths,
                 held : SUBSET Paths, tree : Trees \cup {None}]

Labels == {"idle", "update", "updateWait", "editWait", "upsert", "foreignKey",
           "tree", "store", "delete", "deleteWait", "commit", "invalidate"}

Bound(p) == bind[p] # None

\* Row locks.  A path row is locked from the statement that writes it on.
HoldsPath(c, p) == p \in tx[c].held
PathFree(c, p)  == \A o \in Clients \ {c} : ~HoldsPath(o, p)

\* A Put's UPDATE takes FOR NO KEY UPDATE, an Edit's SELECT takes FOR UPDATE,
\* a foreign key check takes FOR KEY SHARE, which only FOR UPDATE conflicts with.
Unlocked(c, d)  == \A o \in Clients \ {c} : tx[o].locked # d
Unshared(c, d)  == \A o \in Clients \ {c} : tx[o].share # d
Shareable(c, d) == \A o \in Clients \ {c} : req[o].op = "edit" => tx[o].locked # d

\* Mutant: ids are taken from a counter that open transactions do not advance.
UnusedUncounted(d) == docs[d] = None /\ d \notin orphans

\* A uuid nobody has seen: it names no row, and nobody still holds it.
Unused(d) ==
    /\ docs[d] = None
    /\ d \notin orphans
    /\ \A c \in Clients : d \notin {tx[c].doc, tx[c].want, tx[c].locked}

Go(c, label) == pc' = [pc EXCEPT ![c] = label]

\* The request is answered; a transaction it has open is rolled back.
Finish(c) ==
    /\ Go(c, "idle")
    /\ req' = [req EXCEPT ![c] = NoReq]
    /\ tx' = [tx EXCEPT ![c] = NoTx]

Init ==
    /\ docs = [d \in DocIds |-> None]
    /\ fresh = {}
    /\ bind = [p \in Paths |-> None]
    /\ size = [p \in Paths |-> NoSize]
    /\ cache = None
    /\ mu = None
    /\ pc = [c \in Clients |-> "idle"]
    /\ req = [c \in Clients |-> NoReq]
    /\ tx = [c \in Clients |-> NoTx]
    /\ orphans = {}
    /\ lost = {}

-----------------------------------------------------------------------------
(* Put *)

Begin(c, op, p, e, f) ==
    /\ pc[c] = "idle"
    /\ op \in MayDo[c]
    /\ req' = [req EXCEPT ![c] = [op |-> op, path |-> p, expect |-> e, edit |-> f]]

\* The lookup finds the path and the condition holds: its document will be
\* updated in place.  (When it does not hold, ErrConflict: nothing changes.)
PutLookupFound(c, p, e, x) ==
    /\ Begin(c, "put", p, e, None)
    /\ Bound(p)
    /\ e \in {NoCondition, HashContent(docs[bind[p]])}
    /\ tx' = [tx EXCEPT ![c] = [NoTx EXCEPT !.doc = bind[p], !.val = x]]
    /\ Go(c, "update")
    /\ UNCHANGED <<dbVars, cacheVars, orphans>>

\* The lookup finds nothing, whatever the condition was: a document is
\* inserted, which nobody else sees before the commit.
PutLookupMissing(c, p, e, x) ==
    /\ Begin(c, "put", p, e, None)
    /\ ~Bound(p)
    /\ \E d \in DocIds :
        /\ Unused(d)
        /\ tx' = [tx EXCEPT ![c] = [NoTx EXCEPT !.doc = d, !.locked = d, !.val = x]]
    /\ Go(c, "upsert")
    /\ UNCHANGED <<dbVars, cacheVars, orphans>>

\* DocUpdateByPathSQL joins documents with paths anew: it selects the row the
\* path is bound to now, and no row when the path has gone.
PutUpdate(c) ==
    /\ pc[c] = "update"
    /\ tx' = [tx EXCEPT ![c].want = bind[req[c].path]]
    /\ Go(c, IF Bound(req[c].path) THEN "updateWait" ELSE "upsert")
    /\ UNCHANGED <<dbVars, cacheVars, req, orphans>>

\* It waits for that row, and skips it when it has been collected meanwhile.
PutUpdateLock(c) ==
    /\ pc[c] = "updateWait"
    /\ Unlocked(c, tx[c].want)
    /\ tx' = [tx EXCEPT ![c] = [@ EXCEPT
                 !.locked = IF docs[tx[c].want] = None THEN None ELSE tx[c].want,
                 !.want = None]]
    /\ Go(c, "upsert")
    /\ UNCHANGED <<dbVars, cacheVars, req, orphans>>

-----------------------------------------------------------------------------
(* Edit *)

\* SELECT ... FOR UPDATE OF d selects the row its snapshot binds the path to.
\* (A path that is not bound: ErrNotFound, nothing changes.)
EditSelect(c, p, e, f) ==
    /\ Begin(c, "edit", p, e, f)
    /\ Bound(p)
    /\ tx' = [tx EXCEPT ![c] = [NoTx EXCEPT !.want = bind[p]]]
    /\ Go(c, "editWait")
    /\ UNCHANGED <<dbVars, cacheVars, orphans>>

EditAllowed(c) ==
    LET x == docs[tx[c].want] IN
    /\ x # None
    /\ req[c].expect \in {NoCondition, HashContent(x)}
    /\ req[c].edit[x] # None

\* Mutant: the SELECT of Edit without FOR UPDATE.
EditLockableNoWait(c) == pc[c] = "editWait"

EditLockable(c) ==
    /\ pc[c] = "editWait"
    /\ Unlocked(c, tx[c].want)
    /\ Unshared(c, tx[c].want)

\* The row is locked and read; the condition holds and the old string occurs.
EditLock(c) ==
    /\ EditLockable(c)
    /\ EditAllowed(c)
    /\ tx' = [tx EXCEPT ![c] = [@ EXCEPT
                 !.doc = tx[c].want, !.locked = tx[c].want, !.want = None,
                 !.val = req[c].edit[docs[tx[c].want]]]]
    /\ Go(c, "upsert")
    /\ UNCHANGED <<dbVars, cacheVars, req, orphans>>

\* ErrNotFound (collected meanwhile), ErrConflict or ErrOldNotFound.
EditRefused(c) ==
    /\ EditLockable(c)
    /\ ~EditAllowed(c)
    /\ Finish(c)
    /\ UNCHANGED <<dbVars, cacheVars, orphans>>

-----------------------------------------------------------------------------
(* The path row of a Put or an Edit *)

\* DocUpsertPathSQL waits for a transaction that writes the same path row.  The
\* foreign key is checked when the row is new or changes its document.
Upsert(c) ==
    LET p == req[c].path IN
    /\ pc[c] = "upsert"
    /\ PathFree(c, p)
    /\ tx' = [tx EXCEPT ![c] = [@ EXCEPT !.rows = {p}, !.held = {p}]]
    /\ Go(c, IF tx[c].doc \in {bind[p], tx[c].locked} THEN "commit" ELSE "foreignKey")
    /\ UNCHANGED <<dbVars, cacheVars, req, orphans>>

ForeignKeyHolds(c) ==
    /\ pc[c] = "foreignKey"
    /\ Shareable(c, tx[c].doc)
    /\ docs[tx[c].doc] # None
    /\ tx' = [tx EXCEPT ![c].share = tx[c].doc]
    /\ Go(c, "commit")
    /\ UNCHANGED <<dbVars, cacheVars, req, orphans>>

\* The document has been collected: the statement fails.
ForeignKeyFails(c) ==
    /\ pc[c] = "foreignKey"
    /\ docs[tx[c].doc] = None
    /\ Finish(c)
    /\ UNCHANGED <<dbVars, cacheVars, orphans>>

-----------------------------------------------------------------------------
(* Delete, and the reads that go through the cached tree *)

\* The condition is checked by a statement of its own, outside a transaction.
DeleteLookup(c, p, e) ==
    /\ Begin(c, "delete", p, e, None)
    /\ e # NoCondition => Bound(p) /\ e = HashContent(docs[bind[p]])
    /\ Go(c, "tree")
    /\ UNCHANGED <<dbVars, cacheVars, tx, orphans>>

\* LS, Stat, Find, Tree and Grep all start with treeFor.
ReadBegin(c, p) ==
    /\ Begin(c, "read", p, NoCondition, None)
    /\ Go(c, "tree")
    /\ UNCHANGED <<dbVars, cacheVars, tx, orphans>>

\* vfs.Tree.Stat over a tree of files: what is the path?
IsFile(tree, p) == tree[p] # NoSize
IsDir(tree, p)  == ~IsFile(tree, p) /\ \E q \in Under[p] : IsFile(tree, q)

\* What the request does with its tree: a read is answered, a delete of
\* nothing is ErrNotFound, a file or a directory is deleted.
UseTree(c, tree) ==
    LET p == req[c].path
        dir == IsDir(tree, p)
    IN  IF req[c].op = "delete" /\ (dir \/ IsFile(tree, p))
        THEN /\ Go(c, "delete")
             /\ tx' = [tx EXCEPT ![c] = [NoTx EXCEPT
                          !.rows = {p} \cup (IF dir THEN Matches[p] ELSE {})]]
             /\ UNCHANGED req
        ELSE Finish(c)

TreeCached(c) ==
    /\ pc[c] = "tree"
    /\ mu = None
    /\ cache # None
    /\ UseTree(c, cache)
    /\ UNCHANGED <<dbVars, cacheVars, orphans>>

\* Mutant: treeFor queries before it takes the lock.
TreeQueryUnlocked(c) ==
    /\ pc[c] = "tree"
    /\ mu = None
    /\ cache = None
    /\ tx' = [tx EXCEPT ![c].tree = size]
    /\ lost' = {}
    /\ Go(c, "store")
    /\ UNCHANGED <<dbVars, cache, mu, req, orphans>>

\* Nothing cached: buildTree queries the paths under the write lock.
TreeQuery(c) ==
    /\ pc[c] = "tree"
    /\ mu = None
    /\ cache = None
    /\ mu' = c
    /\ tx' = [tx EXCEPT ![c].tree = size]
    /\ lost' = {}
    /\ Go(c, "store")
    /\ UNCHANGED <<dbVars, cache, req, orphans>>

TreeStore(c) ==
    /\ pc[c] = "store"
    /\ cache' = tx[c].tree
    /\ mu' = None
    /\ UseTree(c, tx[c].tree)
    /\ UNCHANGED <<dbVars, orphans, lost>>

\* The DELETE statement selects the rows it sees: those committed and bound.
DeleteSelect(c) ==
    /\ pc[c] = "delete"
    /\ tx' = [tx EXCEPT ![c].rows = {p \in @ : Bound(p)}]
    /\ Go(c, "deleteWait")
    /\ UNCHANGED <<dbVars, cacheVars, req, orphans>>

\* It locks those rows one by one, waits for the writer of each, and skips the
\* ones deleted meanwhile.
DeleteLock(c) ==
    /\ pc[c] = "deleteWait"
    /\ \E p \in tx[c].rows \ tx[c].held :
        /\ PathFree(c, p)
        /\ tx' = [tx EXCEPT ![c].held = @ \cup {p}]
    /\ UNCHANGED <<dbVars, cacheVars, pc, req, orphans>>

DeleteLocked(c) ==
    /\ pc[c] = "deleteWait"
    /\ tx[c].rows # {} /\ tx[c].held = tx[c].rows
    /\ Go(c, "commit")
    /\ UNCHANGED <<dbVars, cacheVars, req, tx, orphans>>

\* No row affected: ErrNotFound.
DeleteNothing(c) ==
    /\ pc[c] = "deleteWait"
    /\ tx[c].rows = {}
    /\ Finish(c)
    /\ UNCHANGED <<dbVars, cacheVars, orphans>>

-----------------------------------------------------------------------------
(* Commit *)

\* Mutants: the upsert of the path row leaves its size; a DELETE touches the
\* timestamp of a document it does not have.
InstallKeepsSize(c) ==
    LET t == tx[c]
        gone == req[c].op = "delete"
    IN  /\ docs' = [d \in DocIds |-> IF d = t.locked THEN t.val ELSE docs[d]]
        /\ fresh' = fresh \cup ({t.locked} \cap DocIds)
        /\ bind' = [p \in Paths |-> IF p \notin t.rows THEN bind[p]
                                     ELSE IF gone THEN None ELSE t.doc]
        /\ size' = [p \in Paths |-> IF p \notin t.rows THEN size[p]
                                     ELSE IF gone THEN NoSize
                                     ELSE IF Bound(p) THEN size[p] ELSE SizeOf[t.val]]

InstallTouchesNothing(c) ==
    LET t == tx[c]
        gone == req[c].op = "delete"
    IN  /\ docs' = [d \in DocIds |-> IF d = t.locked THEN t.val ELSE docs[d]]
        /\ fresh' = fresh \cup {t.locked}
        /\ bind' = [p \in Paths |-> IF p \notin t.rows THEN bind[p]
                                     ELSE IF gone THEN None ELSE t.doc]
        /\ size' = [p \in Paths |-> IF p \notin t.rows THEN size[p]
                                     ELSE IF gone THEN NoSize ELSE SizeOf[t.val]]

\* The content of the document row and the path rows become visible.
Install(c) ==
    LET t == tx[c]
        gone == req[c].op = "delete"
    IN  /\ docs' = [d \in DocIds |-> IF d = t.locked THEN t.val ELSE docs[d]]
        /\ fresh' = fresh \cup ({t.locked} \cap DocIds)
        /\ bind' = [p \in Paths |-> IF p \notin t.rows THEN bind[p]
                                     ELSE IF gone THEN None ELSE t.doc]
        /\ size' = [p \in Paths |-> IF p \notin t.rows THEN size[p]
                                     ELSE IF gone THEN NoSize ELSE SizeOf[t.val]]

\* A DELETE that waits for a row deleted here will not find it any more, even if
\* the path is bound again by then.
Committed(c, rest) ==
    tx' = [o \in Clients |->
             IF o = c THEN rest
             ELSE IF req[c].op = "delete" /\ pc[o] = "deleteWait"
             THEN [tx[o] EXCEPT !.rows = @ \ tx[c].rows]
             ELSE tx[o]]

Commit(c) ==
    /\ pc[c] = "commit"
    /\ Install(c)
    /\ Committed(c, [NoTx EXCEPT !.rows = tx[c].rows])
    /\ Go(c, "invalidate")
    /\ UNCHANGED <<cacheVars, req, orphans>>

\* The server commits but its answer does not arrive (the connection drops, the
\* request's context is cancelled): Commit returns an error and the method
\* returns before invalidateRepo.
CommitUnconfirmed(c) ==
    /\ pc[c] = "commit"
    /\ Install(c)
    /\ Committed(c, NoTx)
    /\ Go(c, "idle")
    /\ req' = [req EXCEPT ![c] = NoReq]
    /\ lost' = IF cache = None /\ mu = None THEN lost ELSE lost \cup tx[c].rows
    /\ UNCHANGED <<cache, mu, orphans>>

\* Mutant: the entry of another repository is dropped.
InvalidateElsewhere(c) ==
    /\ pc[c] = "invalidate"
    /\ mu = None
    /\ Finish(c)
    /\ UNCHANGED <<dbVars, cacheVars, orphans>>

Invalidate(c) ==
    /\ pc[c] = "invalidate"
    /\ mu = None
    /\ cache' = None
    /\ lost' = {}
    /\ Finish(c)
    /\ UNCHANGED <<dbVars, mu, orphans>>

-----------------------------------------------------------------------------
(* Failures *)

\* Mutant: treeFor returns an error without unlocking.
AbortKeepsLock(c) == Finish(c) /\ UNCHANGED <<dbVars, cacheVars, orphans>>

\* A statement fails or the client goes away: the transaction is rolled back,
\* and a build of the tree gives its lock back.
Abort(c) ==
    /\ Finish(c)
    /\ mu' = IF mu = c THEN None ELSE mu
    /\ UNCHANGED <<dbVars, cache, lost, orphans>>

Fail(c) ==
    /\ pc[c] \notin {"idle", "invalidate"}
    /\ Abort(c)

\* Who makes c wait for a row lock.
Blockers(c) ==
    CASE pc[c] = "updateWait" -> {o \in Clients \ {c} : tx[o].locked = tx[c].want}
      [] pc[c] = "editWait"   -> {o \in Clients \ {c} : tx[c].want \in {tx[o].locked, tx[o].share}}
      [] pc[c] = "upsert"     -> {o \in Clients \ {c} : HoldsPath(o, req[c].path)}
      [] pc[c] = "foreignKey" -> {o \in Clients \ {c} : req[o].op = "edit" /\ tx[o].locked = tx[c].doc}
      [] pc[c] = "deleteWait" -> {o \in Clients \ {c} : \E p \in tx[c].rows \ tx[c].held : HoldsPath(o, p)}
      [] OTHER -> {}

\* PostgreSQL breaks a cycle of waiting transactions by aborting one of them.
DeadlockAbort(c) ==
    /\ \E S \in SUBSET Clients :
        /\ c \in S
        /\ \A o \in S : Blockers(o) \cap S # {}
        /\ \A T \in (SUBSET S) \ {{}, S} : \E o \in T : Blockers(o) \cap T = {}
    /\ Abort(c)

\* The server stops and starts again: its requests and its cache are gone, and
\* the database rolls back what was not committed.
Restart ==
    /\ \E c \in Clients : pc[c] # "idle"
    /\ pc' = [c \in Clients |-> "idle"]
    /\ req' = [c \in Clients |-> NoReq]
    /\ tx' = [c \in Clients |-> NoTx]
    /\ cache' = None
    /\ mu' = None
    /\ lost' = {}
    /\ UNCHANGED <<dbVars, orphans>>

\* DocAdapter.Invalidate, which the server's registry calls, or the expiry of
\* the entry when a CacheTTL is configured.
DropCache ==
    /\ mu = None
    /\ cache # None
    /\ cache' = None
    /\ lost' = {}
    /\ UNCHANGED <<dbVars, mu, pc, req, tx, orphans>>

-----------------------------------------------------------------------------
(* Garbage collection: one DELETE, run by a process of its own *)

GracePasses ==
    /\ Collects
    /\ fresh # {}
    /\ fresh' = {}
    /\ UNCHANGED <<docs, bind, size, cacheVars, pc, req, tx, orphans>>

Unreferenced(d) == \A p \in Paths : bind[p] # d

\* The rows the statement's snapshot selects.
GCSelect ==
    /\ Collects
    /\ orphans = {}
    /\ orphans' = {d \in DocIds \ fresh : docs[d] # None /\ Unreferenced(d)}
    /\ orphans' # {}
    /\ UNCHANGED <<dbVars, cacheVars, pc, req, tx>>

\* Mutant: no foreign keys.
GCDeleteUnchecked ==
    /\ orphans # {}
    /\ \A d \in orphans, c \in Clients : d \notin {tx[c].locked, tx[c].share}
    /\ docs' = [d \in DocIds |-> IF d \in orphans \ fresh THEN None ELSE docs[d]]
    /\ orphans' = {}
    /\ UNCHANGED <<fresh, bind, size, cacheVars, pc, req, tx>>

\* It waits for every lock on them and looks again at the age of a row that was
\* updated; NOT EXISTS is not looked at again, but the foreign keys are: a row
\* that is bound by now makes the statement fail, and no row is deleted.
GCDelete ==
    LET old == orphans \ fresh IN
    /\ orphans # {}
    /\ \A d \in orphans, c \in Clients : d \notin {tx[c].locked, tx[c].share}
    /\ docs' = [d \in DocIds |-> IF d \in old /\ \A o \in old : Unreferenced(o)
                                  THEN None ELSE docs[d]]
    /\ orphans' = {}
    /\ UNCHANGED <<fresh, bind, size, cacheVars, pc, req, tx>>

-----------------------------------------------------------------------------
Arrive(c) ==
    \E p \in Paths, e \in Conditions :
        \/ \E x \in Contents : PutLookupFound(c, p, e, x) \/ PutLookupMissing(c, p, e, x)
        \/ \E f \in Edits : EditSelect(c, p, e, f)
        \/ DeleteLookup(c, p, e)
        \/ ReadBegin(c, p)

Proceed(c) ==
    \/ PutUpdate(c) \/ PutUpdateLock(c)
    \/ EditLock(c) \/ EditRefused(c)
    \/ Upsert(c) \/ ForeignKeyHolds(c) \/ ForeignKeyFails(c)
    \/ TreeCached(c) \/ TreeQuery(c) \/ TreeStore(c)
    \/ DeleteSelect(c) \/ DeleteLock(c) \/ DeleteLocked(c) \/ DeleteNothing(c)
    \/ Commit(c) \/ Invalidate(c)

Next ==
    \/ \E c \in Clients :
        Arrive(c) \/ Proceed(c) \/ CommitUnconfirmed(c) \/ Fail(c) \/ DeadlockAbort(c)
    \/ Restart \/ DropCache
    \/ GracePasses \/ GCSelect \/ GCDelete

Spec == Init /\ [][Next]_vars

\* A statement runs to its end; a lock that is released again and again is
\* granted in the end (PostgreSQL and sync.RWMutex queue their waiters); a
\* deadlock is detected.
Fairness ==
    /\ \A c \in Clients : SF_vars(Proceed(c))
    /\ WF_vars(\E c \in Clients : DeadlockAbort(c))

FairSpec == Spec /\ Fairness

-----------------------------------------------------------------------------
(* Properties *)

TypeOK ==
    /\ docs \in [DocIds -> Contents \cup {None}]
    /\ fresh \subseteq DocIds
    /\ bind \in [Paths -> DocIds \cup {None}]
    /\ size \in Trees
    /\ cache \in Trees \cup {None}
    /\ mu \in Clients \cup {None}
    /\ pc \in [Clients -> Labels]
    /\ req \in [Clients -> Requests]
    /\ tx \in [Clients -> Transactions]
    /\ orphans \subseteq DocIds
    /\ lost \subseteq Paths

\* A bound path has its document: neither the collector nor a Put that binds
\* a document it looked up earlier ever leaves a path without content.
ReferencesHold == \A p \in Paths : Bound(p) => docs[bind[p]] # None

\* No document is bound to two paths of the repository: what a Put or an Edit
\* of one path writes never shows at another.
DocumentsNotShared == \A p, q \in Paths : Bound(p) /\ bind[p] = bind[q] => p = q

\* The row locks of the statements exclude each other: no document row and no
\* path row is being written by two transactions, however their waits end.
RowsLockedOnce ==
    \A c, o \in Clients : c # o =>
        /\ tx[c].locked # None => tx[c].locked # tx[o].locked
        /\ \A p \in Paths : ~(HoldsPath(c, p) /\ HoldsPath(o, p))

\* An entry of the cached tree differs from the path table only while a request
\* that wrote the path has committed and has still to invalidate the tree (or
\* its commit was never confirmed): whoever asks after a write was answered
\* sees it.  treeFor builds under the write lock invalidateRepo waits for.
CacheCoherent ==
    cache # None => \A p \in Paths \ lost :
        cache[p] # size[p] => \E c \in Clients : pc[c] = "invalidate" /\ p \in tx[c].rows

Commits(c, op) == req[c].op = op /\ (Commit(c) \/ CommitUnconfirmed(c))

\* Edit is one read-modify-write of its document: what it installs is its
\* replacement applied to the content the document has at the commit, and its
\* condition holds of that content.  No Put and no other Edit is lost between.
EditAtomic == [][\A c \in Clients : Commits(c, "edit") =>
    LET x == docs[tx[c].doc] IN
    /\ x # None
    /\ docs'[tx[c].doc] = req[c].edit[x]
    /\ req[c].expect \in {NoCondition, HashContent(x)}]_vars

\* What a listing says of a path: the size of the content a Cat of it answers.
SizeTrue(p) == Bound(p) => \E x \in Contents : docs[bind[p]] = x /\ size[p] = SizeOf[x]

\* The two tables are written in separate statements, and agree: the size in
\* the path table stops being that of the document's content at one step only,
\* the commit of a Put whose path was unbound (and bound again, perhaps) between
\* its lookup and its UPDATE, so that it binds a document it has not written.
SizesAgree == [][\A p \in Paths :
    /\ SizeTrue(p)
    /\ \A c \in Clients :
          (Commit(c) \/ CommitUnconfirmed(c)) /\ req[c].path = p => tx[c].locked = tx[c].doc
    => SizeTrue(p)']_vars

\* Every request is answered: no wait for a row or for the tree lasts for ever.
RequestsEnd == \A c \in Clients : pc[c] # "idle" ~> pc[c] = "idle"

\* A cached tree that misses a confirmed write does not stay.
StaleTreeGoes ==
    (\E p \in Paths \ lost : cache # None /\ cache[p] # size[p]) ~> (cache = None)

-----------------------------------------------------------------------------
(* What the comments of the code say of it, and an interleaving breaks *)

\* store.go:170: an ExpectedHash makes Put "reject update unless current hash
\* matches".  Put compares it with the hash of a lookup that locks nothing, and
\* its UPDATE takes the row whatever its content is by then.
UpdatesMatch == [][\A c \in Clients :
    LET d == tx[c].doc IN
    Commits(c, "put") /\ bind[req[c].path] = d =>
        req[c].expect \in {NoCondition, HashContent(docs[d])}]_vars
=============================================================================
