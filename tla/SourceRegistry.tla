--------------------------- MODULE SourceRegistry ---------------------------
(***************************************************************************)
(* The registry of a server (internal/server/registry.go) and the handlers *)
(* that use it (internal/server/server.go): DynamicRegistry keeps a table  *)
(* of the repositories, docs namespaces and docsets that the database      *)
(* lists, with one adapter each.  Refresh rebuilds the table: three        *)
(* listings, a look at the current table, and a swap, with other refreshes *)
(* and requests between any two of them.                                   *)
(*                                                                         *)
(* An adapter is only its cached tree here: absent, up to date, or without *)
(* some write.  DocStore models what an adapter does with a request.       *)
(***************************************************************************)
EXTENDS FiniteSets

CONSTANTS
    Sources,  \* names of sources
    Kind,     \* Kind[s]: "repo", "docs" or "docset"
    Shows,    \* Shows[s]: the sources whose trees show documents of s
    Adapters, \* identities of adapters, more than are ever in use at once
    Requests, \* requests that are served concurrently
    Loop,     \* the goroutine of StartRefreshLoop
    MayFail,  \* whether listings of the database fail
    Others,   \* whether other servers and administrators change the database
    None      \* no row, no entry, no adapter

Procs == Requests \cup {Loop}
Kinds == {"repo", "docs", "docset"}
Rows    == BOOLEAN \* of the catalog: whether the source is writable
Entries == [adapter : Adapters, writable : BOOLEAN]
Afters  == {"idle", "purge", "gateAgain", "lookupAgain"} \* what follows a refresh

ASSUME RegistryAssumption ==
    /\ Kind \in [Sources -> Kinds]
    /\ Shows \in [Sources -> SUBSET Sources]
    /\ None \notin Sources \cup Adapters \cup Entries \cup Rows \cup Afters
    /\ Loop \notin Requests
    /\ {MayFail, Others} \subseteq BOOLEAN

VARIABLES
    catalog,   \* catalog[s]: the row of s in the database, or None
    table,     \* table[s]: the entry of s in the maps of the registry, or None
    owner,     \* owner[a]: the source that adapter a was created for
    tree,      \* tree[a]: its cached tree: "none", "fresh", "stale" if a write to
               \* the source is missing, "foreign" if only changes that were made
               \* through another source or server are
    run,       \* run[k]: the request that k serves, and its locals
    opened,    \* history: the sources that have been writable
    disturbed  \* history: the sources that had two adapters at once, that were
               \* removed from the table, or whose change was answered by an error

vars == <<catalog, table, owner, tree, run, opened, disturbed>>

NoRun == [pc |-> "idle", op |-> None, src |-> None, after |-> None, adapter |-> None,
          listed |-> [s \in Sources |-> None], next |-> [s \in Sources |-> None]]

\* The table of a server that has just started: an adapter for every row.
EntryOf(a, s) == IF catalog[s] = None THEN None ELSE [adapter |-> a[s], writable |-> catalog[s]]

Init ==
    /\ catalog \in [Sources -> Rows \cup {None}]
    /\ \A s \in Sources : Kind[s] = "docset" => catalog[s] # TRUE
    /\ \E a \in [Sources -> Adapters] :
        /\ \A s, t \in Sources : a[s] = a[t] => s = t
        /\ table = [s \in Sources |-> EntryOf(a, s)]
        /\ owner = [b \in Adapters |->
                IF \E s \in Sources : a[s] = b THEN CHOOSE s \in Sources : a[s] = b ELSE None]
    /\ tree = [a \in Adapters |-> "none"]
    /\ run = [k \in Procs |-> NoRun]
    /\ opened = {s \in Sources : catalog[s] = TRUE}
    /\ disturbed = {}

Becomes(k, r) == run' = [run EXCEPT ![k] = r]
At(k, pc)     == run[k].pc = pc
Goto(k, pc)   == Becomes(k, [run[k] EXCEPT !.pc = pc])

\* The request is answered.
Answer(k) == Becomes(k, NoRun)

\* The trees of s miss a change from now on; those that show documents of s miss
\* it too, and nothing will tell them.
Worse(t, u) == IF t = "none" \/ t = "stale" THEN t ELSE u
Outdated(s) == tree' = [a \in Adapters |->
    CASE owner[a] = s                            -> Worse(tree[a], "stale")
      [] owner[a] # s /\ owner[a] \in Shows[s]   -> Worse(tree[a], "foreign")
      [] OTHER                                   -> tree[a]]
ChangedElsewhere(s) == tree' = [a \in Adapters |->
    IF owner[a] \in Shows[s] \cup {s} THEN Worse(tree[a], "foreign") ELSE tree[a]]

-----------------------------------------------------------------------------
(* Refresh *)

\* ListRepos, ListDocNamespaces and ListDocsets are one statement each; one that
\* has nothing to list is left out.
HasKind(kind) == \E s \in Sources : Kind[s] = kind
AfterListing(kind) ==
    CASE kind = "repo" /\ HasKind("docs")                -> "docs"
      [] kind \in {"repo", "docs"} /\ HasKind("docset") -> "docset"
      [] OTHER                                           -> "build"
FirstListing == IF HasKind("repo") THEN "repo" ELSE AfterListing("repo")

\* A refresh begins in process k; when it is done the process goes on at `after`.
Refresh(k, r, after) == Becomes(k, [r EXCEPT !.pc = FirstListing, !.after = after])

List(k) == \E kind \in Kinds :
    /\ At(k, kind)
    /\ Becomes(k, [run[k] EXCEPT
            !.listed = [s \in Sources |-> IF Kind[s] = kind THEN catalog[s] ELSE @[s]],
            !.pc = AfterListing(kind)])
    /\ UNCHANGED <<catalog, table, owner, tree, opened, disturbed>>

\* An error of a listing ends the refresh and the request.  Membership changes
\* of the request are committed, and no tree is invalidated.
ListFails(k) ==
    /\ MayFail /\ run[k].pc \in Kinds
    /\ disturbed' = disturbed \cup (IF run[k].after = "purge" THEN {run[k].src} ELSE {})
    /\ Answer(k)
    /\ UNCHANGED <<catalog, table, owner, tree, opened>>

\* The adapters that somebody still refers to.
InUse(a) ==
    \/ \E s \in Sources : table[s] # None /\ table[s].adapter = a
    \/ \E k \in Procs : run[k].adapter = a
    \/ \E k \in Procs, s \in Sources : run[k].next[s] # None /\ run[k].next[s].adapter = a

\* Mutant: listed sources always get a new adapter.
MissingAlways(k) == {s \in Sources : run[k].listed[s] # None}

\* Listed sources keep the adapter of the current table; the factory makes one for
\* each of the others.
Missing(k) == {s \in Sources : run[k].listed[s] # None /\ table[s] = None}

\* Mutant: the adapter of a new entry is not set.
NextEntryNoAdapter(k, new, s) ==
    [adapter |-> IF s \in Missing(k) THEN None ELSE table[s].adapter, writable |-> run[k].listed[s]]

NextEntry(k, new, s) ==
    [adapter |-> IF s \in Missing(k) THEN new[s] ELSE table[s].adapter, writable |-> run[k].listed[s]]

Build(k) ==
    /\ At(k, "build")
    /\ \E new \in [Missing(k) -> {a \in Adapters : ~InUse(a)}] :
        LET made == {new[s] : s \in Missing(k)} IN
        /\ \A s, t \in Missing(k) : new[s] = new[t] => s = t
        /\ Becomes(k, [run[k] EXCEPT
                !.next = [s \in Sources |->
                    IF run[k].listed[s] = None THEN None ELSE NextEntry(k, new, s)],
                !.listed = NoRun.listed, !.pc = "swap"])
        /\ owner' = [a \in Adapters |->
                IF a \in made THEN CHOOSE s \in Missing(k) : new[s] = a ELSE owner[a]]
        /\ tree' = [a \in Adapters |-> IF a \in made THEN "none" ELSE tree[a]]
    /\ disturbed' = disturbed \cup {s \in Missing(k) :
            table[s] = None /\ \E a \in Adapters : InUse(a) /\ owner[a] = s}
    /\ UNCHANGED <<catalog, table, opened>>

\* Mutant: entries that are no longer listed stay.
SwapKeepsRemoved(k) ==
    /\ At(k, "swap")
    /\ table' = [s \in Sources |-> IF run[k].next[s] = None THEN table[s] ELSE run[k].next[s]]
    /\ disturbed' = disturbed \cup {s \in Sources : table[s] # None /\ table'[s] = None}
    /\ IF run[k].after = "idle"
         THEN Answer(k)
         ELSE Becomes(k, [run[k] EXCEPT !.pc = run[k].after, !.after = None, !.next = NoRun.next])
    /\ UNCHANGED <<catalog, owner, tree, opened>>

Swap(k) ==
    /\ At(k, "swap")
    /\ table' = run[k].next
    /\ disturbed' = disturbed \cup {s \in Sources : table[s] # None /\ table'[s] = None}
    /\ IF run[k].after = "idle"
         THEN Answer(k)
         ELSE Becomes(k, [run[k] EXCEPT !.pc = run[k].after, !.after = None, !.next = NoRun.next])
    /\ UNCHANGED <<catalog, owner, tree, opened>>

-----------------------------------------------------------------------------
(* Requests *)

\* The refresh loop, GET /v1/mount-sources (MountSources).
Tick == At(Loop, "idle") /\ Refresh(Loop, NoRun, "idle")
        /\ UNCHANGED <<catalog, table, owner, tree, opened, disturbed>>
MountSources(k) ==
    /\ At(k, "idle") /\ Refresh(k, NoRun, "idle")
    /\ UNCHANGED <<catalog, table, owner, tree, opened, disturbed>>

\* RegisterRepo: the INSERT, then a refresh.  A second one fails (ErrRepoExists).
RegisterRepo(k, s) ==
    /\ At(k, "idle") /\ Kind[s] = "repo" /\ catalog[s] = None
    /\ \E w \in BOOLEAN :
        /\ catalog' = [catalog EXCEPT ![s] = w]
        /\ opened' = opened \cup (IF w THEN {s} ELSE {})
    /\ Refresh(k, NoRun, "idle")
    /\ UNCHANGED <<table, owner, tree, disturbed>>

\* handleDocsets: CreateDocset, DeleteDocset, AddDocsetMember or
\* RemoveDocsetMember, and then refreshAndInvalidateSources.
ManageDocset(k, s) ==
    /\ At(k, "idle") /\ Kind[s] = "docset"
    /\ \/ catalog[s] = None /\ catalog' = [catalog EXCEPT ![s] = FALSE]
       \/ catalog[s] # None /\ catalog' \in {catalog, [catalog EXCEPT ![s] = None]}
    /\ Outdated(s)
    /\ Refresh(k, [NoRun EXCEPT !.op = "manage", !.src = s], "purge")
    /\ UNCHANGED <<table, owner, opened, disturbed>>

\* Mutant: the map of the docsets is left out.
PurgedButDocsets == tree' = [a \in Adapters |->
    IF \E s \in Sources : Kind[s] # "docset" /\ table[s] # None /\ table[s].adapter = a
    THEN "none" ELSE tree[a]]

\* DynamicRegistry.Invalidate: every adapter of the table.
Purged == tree' = [a \in Adapters |->
    IF \E s \in Sources : table[s] # None /\ table[s].adapter = a THEN "none" ELSE tree[a]]
Purge(k) ==
    /\ At(k, "purge") /\ Purged /\ Answer(k)
    /\ UNCHANGED <<catalog, table, owner, opened, disturbed>>

\* DELETE /v1/cache.
DropCaches == Purged /\ UNCHANGED <<catalog, table, owner, run, opened, disturbed>>

\* A read, a write, or a write with the X-Client-Repo of another source.
Ops == {"read", "write", "cross"}
Arrive(k, op, s) ==
    /\ At(k, "idle")
    /\ Becomes(k, [NoRun EXCEPT !.op = op, !.src = s,
            !.pc = IF op = "cross" /\ Kind[s] = "repo" THEN "gate" ELSE "lookup"])
    /\ UNCHANGED <<catalog, table, owner, tree, opened, disturbed>>

\* Mutant: a repository that is not in the table is taken as writable.
GateOpenToUnknown(k) ==
    LET entry == table[run[k].src] IN
    /\ At(k, "gate") \/ At(k, "gateAgain")
    /\ IF entry = None \/ entry.writable THEN Goto(k, "lookup") ELSE Answer(k)
    /\ UNCHANGED <<catalog, table, owner, tree, opened, disturbed>>

\* RepoWritableWithRefresh: a repository that is not in the table is looked up
\* again after a refresh; an unknown one is not writable.
Gate(k) ==
    LET entry == table[run[k].src] IN
    /\ At(k, "gate") \/ At(k, "gateAgain")
    /\ IF entry = None /\ At(k, "gate") THEN Refresh(k, run[k], "gateAgain")
       ELSE IF entry # None /\ entry.writable THEN Goto(k, "lookup")
       ELSE Answer(k)
    /\ UNCHANGED <<catalog, table, owner, tree, opened, disturbed>>

\* AdapterForSource: likewise; an unknown source is an error.
Lookup(k) ==
    LET entry == table[run[k].src] IN
    /\ At(k, "lookup") \/ At(k, "lookupAgain")
    /\ IF entry = None /\ At(k, "lookup") THEN Refresh(k, run[k], "lookupAgain")
       ELSE IF entry # None
         THEN Becomes(k, [run[k] EXCEPT !.pc = "use", !.adapter = entry.adapter])
       ELSE Answer(k)
    /\ UNCHANGED <<catalog, table, owner, tree, opened, disturbed>>

\* The adapter builds its tree unless it has one.
Read(k) ==
    /\ At(k, "use") /\ run[k].op = "read"
    /\ tree' = [tree EXCEPT ![run[k].adapter] = IF @ = "none" THEN "fresh" ELSE @]
    /\ Answer(k)
    /\ UNCHANGED <<catalog, table, owner, opened, disturbed>>

\* The adapter commits a write; its next step is to invalidate its tree.  The
\* adapter of a docset refuses, and others may.
Write(k) ==
    /\ At(k, "use") /\ run[k].op \in {"write", "cross"} /\ Kind[run[k].src] # "docset"
    /\ Outdated(run[k].src)
    /\ Goto(k, "invalidate")
    /\ UNCHANGED <<catalog, table, owner, opened, disturbed>>
Refuse(k) ==
    /\ At(k, "use") /\ run[k].op \in {"write", "cross"}
    /\ Answer(k)
    /\ UNCHANGED <<catalog, table, owner, tree, opened, disturbed>>

Invalidate(k) ==
    /\ At(k, "invalidate")
    /\ tree' = [tree EXCEPT ![run[k].adapter] = "none"]
    /\ Answer(k)
    /\ UNCHANGED <<catalog, table, owner, opened, disturbed>>

-----------------------------------------------------------------------------
(* Other servers of the same database, and administrators *)

ElsewhereWrite(s) ==
    /\ Others /\ ChangedElsewhere(s)
    /\ UNCHANGED <<catalog, table, owner, run, opened, disturbed>>

ElsewhereCatalog(s) ==
    /\ Others
    /\ \E row \in Rows \cup {None} :
        /\ Kind[s] = "docset" => row # TRUE
        /\ Kind[s] # "docset" => row # None
        /\ catalog' = [catalog EXCEPT ![s] = row]
        /\ opened' = opened \cup (IF row = TRUE THEN {s} ELSE {})
    /\ ChangedElsewhere(s)
    /\ UNCHANGED <<table, owner, run, disturbed>>

-----------------------------------------------------------------------------
(* The server *)

Begin(k) ==
    \/ MountSources(k)
    \/ \E s \in Sources : \/ RegisterRepo(k, s) \/ ManageDocset(k, s)
                          \/ \E op \in Ops : Arrive(k, op, s)
Proceed(k) ==
    \/ List(k) \/ Build(k) \/ Swap(k) \/ Purge(k)
    \/ Gate(k) \/ Lookup(k) \/ Read(k) \/ Write(k) \/ Refuse(k) \/ Invalidate(k)

Elsewhere == \E s \in Sources : ElsewhereWrite(s) \/ ElsewhereCatalog(s)

Next ==
    \/ Tick \/ DropCaches \/ Elsewhere
    \/ \E k \in Requests : Begin(k)
    \/ \E k \in Procs : Proceed(k) \/ ListFails(k)

Spec == Init /\ [][Next]_vars

\* The ticker and the requests that run go on.
Fairness == WF_vars(Tick) /\ \A k \in Procs : WF_vars(Proceed(k))
FairSpec == Spec /\ Fairness

-----------------------------------------------------------------------------
(* Properties *)

Runs == [pc : Kinds \cup {"idle", "build", "swap", "purge", "gate", "gateAgain", "lookup",
                          "lookupAgain", "use", "invalidate"},
         op : Ops \cup {"manage", None}, src : Sources \cup {None},
         after : Afters \cup {None},
         adapter : Adapters \cup {None},
         listed : [Sources -> Rows \cup {None}], next : [Sources -> Entries \cup {None}]]

\* Types of all variables.
TypeOK ==
    /\ catalog \in [Sources -> Rows \cup {None}]
    /\ table \in [Sources -> Entries \cup {None}]
    /\ owner \in [Adapters -> Sources \cup {None}]
    /\ tree \in [Adapters -> {"none", "fresh", "foreign", "stale"}]
    /\ run \in [Procs -> Runs]
    /\ opened \subseteq Sources
    /\ disturbed \subseteq Sources

\* A request that has changed s has still to invalidate its tree.
Pending(k, s) == run[k].src = s /\ (At(k, "invalidate") \/ At(k, "purge") \/ run[k].after = "purge")

\* The tree that requests for s are routed to misses a change made by a request
\* for s only while that request runs: refreshes and swaps that come in between
\* never bring an adapter back that nobody has invalidated.  It may go wrong for
\* a source that has had two adapters at once, that a refresh took out of the
\* table, or whose refresh failed (registry.go, Refresh and Invalidate;
\* server.go, refreshAndInvalidateSources).
RoutedTreesCatchUp ==
    \A s \in Sources \ disturbed :
        table[s] # None /\ tree[table[s].adapter] = "stale" => \E k \in Procs : Pending(k, s)

\* Requests that hold an adapter of a source that was left undisturbed, and the
\* table, agree on it: a write invalidates the tree that readers are shown.
OneAdapter ==
    \A s \in Sources \ disturbed, k \in Procs :
        run[k].adapter # None /\ run[k].src = s =>
            table[s] # None /\ table[s].adapter = run[k].adapter

\* A write with the X-Client-Repo of another repository is let through only to a
\* repository that has been writable, however old the table is and whatever
\* becomes of the repository meanwhile (server.go, cross-repo write gate).
CrossWritesAllowed == [][\A k \in Procs :
    Write(k) /\ run[k].op = "cross" /\ Kind[run[k].src] = "repo" => run[k].src \in opened]_vars

\* When the catalog stays as it is and its listings succeed, the table comes to
\* agree with it for good: a refresh that has listed an older state and swaps last
\* does not prevail (registry.go, StartRefreshLoop).
Settled == <>[][catalog' = catalog /\ ~\E k \in Procs : ListFails(k)]_vars
Agrees == \A s \in Sources :
    IF catalog[s] = None THEN table[s] = None
    ELSE table[s] # None /\ table[s].writable = catalog[s]
TableConverges == Settled => <>[]Agrees
=============================================================================
