------------------------------- MODULE Docsets -------------------------------
(***************************************************************************)
(* Docsets and the start of the server.  A docset is a named list of       *)
(* documents of repositories (internal/store/postgres/docset_adapter.go);  *)
(* its manager runs most requests as separate statements, each on a        *)
(* connection of the pool, and only DeleteDocset holds one for a           *)
(* transaction.  Beside it the document store binds, replaces and unbinds  *)
(* documents (DocStore, here one step each) and the collector removes      *)
(* those without references.                                               *)
(*                                                                         *)
(* Every start of the server runs the migrations again, which copy the     *)
(* collections of an older version, and the backfill, which copies the     *)
(* files of the path-centric tables (sql/migrations, backfill.go).         *)
(***************************************************************************)
EXTENDS Naturals, FiniteSets

CONSTANTS
    Names,         \* names of docsets
    Ids,           \* identifiers of docsets
    Docs,          \* identifiers of documents
    Contents,
    Refs,          \* a repository and a path in it
    Spots,         \* paths in a docset
    Clients,       \* concurrent requests
    Connections,   \* size of the pool
    LegacyPaths,   \* paths of the path-centric tables
    LegacyContent, \* content of a path there, or None: directories have no content
    LegacyRefs,    \* LegacyRefs[p]: references of repositories to it
    OldSets,       \* collections of the older version: identifier and name
    OldMembers,    \* their members
    None, Gone     \* never there; deleted

Documents == [content : Contents, legacy : LegacyPaths \cup {None}]
Members   == [set : Ids, path : Spots, doc : Docs]
Requests  == [at : {"idle", "adding", "inserting", "chosen", "emptied"}, id : Ids \cup {None},
              path : Spots \cup {None}, ref : Refs \cup {None}, doc : Docs \cup {None},
              gone : SUBSET Members]

ASSUME DocsetsAssumption ==
    /\ None # Gone
    /\ {None, Gone} \cap (Names \cup Ids \cup Docs \cup Contents \cup LegacyPaths \cup Documents) = {}
    /\ Connections \in Nat \ {0}
    /\ IsFiniteSet(Ids) /\ IsFiniteSet(Clients) /\ Clients # {}
    /\ LegacyContent \in [LegacyPaths -> Contents \cup {None}]
    /\ LegacyRefs \in [LegacyPaths -> SUBSET Refs]
    /\ \A p, q \in LegacyPaths : p # q => LegacyRefs[p] \cap LegacyRefs[q] = {}
    /\ OldSets \subseteq [id : Ids, name : Names]
    /\ OldMembers \subseteq [set : Ids, path : Spots, doc : Docs]
    \* Keys and foreign keys of the older tables.
    /\ \A s, t \in OldSets : s.id = t.id \/ s.name = t.name => s = t
    /\ \A m \in OldMembers : \E s \in OldSets : s.id = m.set
    /\ \A m, n \in OldMembers : m.set = n.set /\ (m.path = n.path \/ m.doc = n.doc) => m = n

VARIABLES
    docs,      \* rolio_docs: a document, None or Gone; identifiers are not used again
    binding,   \* rolio_repo_paths: the document of a reference, or None
    docsets,   \* rolio_docsets: the name of an identifier, None or Gone
    members,   \* rolio_docset_docs
    server,    \* new (the tables of docsets are not there yet), migrated, up or down
    req,       \* the requests
    lost,      \* connections that a request has ended with
    touched,   \* history: the tables have changed since the start
    trimmed    \* history: a docset or member of the older version was removed

tables  == <<docs, binding, docsets, members>>
history == <<touched, trimmed>>
vars    == <<docs, binding, docsets, members, server, req, lost, touched, trimmed>>

Idle == [at |-> "idle", id |-> None, path |-> None, ref |-> None, doc |-> None, gone |-> {}]

Live(ds) == {d \in Docs : ds[d] \notin {None, Gone}}
Sets(ss) == {i \in Ids : ss[i] \in Names}

\* A database of the older version, with the documents of its collections.
Init ==
    /\ docs \in [Docs -> {None} \cup [content : Contents, legacy : {None}]]
    /\ Live(docs) = {m.doc : m \in OldMembers}
    /\ binding = [r \in Refs |-> None]
    /\ docsets = [i \in Ids |-> None] /\ members = {}
    /\ server = "new" /\ req = [c \in Clients |-> Idle] /\ lost = 0
    /\ touched = TRUE /\ trimmed = FALSE

-----------------------------------------------------------------------------
(* The document store and the collector *)

\* Transactions keep a connection; everything else needs one for a statement.
Holding == {c \in Clients : req[c].at \in {"chosen", "emptied"}}
Free == server = "up" /\ lost + Cardinality(Holding) < Connections

\* Put replaces the content of the bound document, or creates one.
PutDocument(r, content) ==
    /\ Free /\ touched' = TRUE
    /\ \E d \in IF binding[r] = None THEN {d \in Docs : docs[d] = None} ELSE {binding[r]} :
        /\ docs' = [docs EXCEPT ![d] = [content |-> content,
                legacy |-> IF binding[r] = None THEN None ELSE docs[d].legacy]]
        /\ binding' = [binding EXCEPT ![r] = d]
    /\ UNCHANGED <<docsets, members, server, req, lost, trimmed>>

DeleteDocument(r) ==
    /\ Free /\ binding[r] # None /\ touched' = TRUE
    /\ binding' = [binding EXCEPT ![r] = None]
    /\ UNCHANGED <<docs, docsets, members, server, req, lost, trimmed>>

\* gcOrphanCondition
Referenced == {binding[r] : r \in Refs} \cup {m.doc : m \in members}

\* Those that are older than the grace period go; the command has its own pool.  The
\* members of the old collections do not keep a document here: their table is not
\* created in this repository, and with a foreign key of its own the DELETE would fail.
Collect(orphans) ==
    /\ server # "new" /\ orphans # {} /\ orphans \subseteq Live(docs) \ Referenced /\ touched' = TRUE
    /\ docs' = [d \in Docs |-> IF d \in orphans THEN Gone ELSE docs[d]]
    /\ UNCHANGED <<binding, docsets, members, server, req, lost, trimmed>>

-----------------------------------------------------------------------------
(* Docset requests *)

IdOf(name) == {i \in Ids : docsets[i] = name}
End(c) == req' = [req EXCEPT ![c] = Idle]
Reads  == UNCHANGED <<docs, binding, docsets, members, server, lost, touched, trimmed>>

\* CreateDocset; the name is unique.
CreateDocset(c, name) ==
    /\ req[c].at = "idle" /\ Free /\ IdOf(name) = {} /\ touched' = TRUE
    /\ \E i \in Ids \ {s.id : s \in OldSets} :
            docsets[i] = None /\ docsets' = [docsets EXCEPT ![i] = name]
    /\ UNCHANGED <<docs, binding, members, server, req, lost, trimmed>>

\* AddDocsetMember: three statements; what the first two found may be gone.
FindDocset(c, name, path, ref) ==
    /\ req[c].at = "idle" /\ Free /\ Reads
    /\ \E i \in IdOf(name) : req' = [req EXCEPT ![c] =
            [Idle EXCEPT !.at = "adding", !.id = i, !.path = path, !.ref = ref]]

FindSource(c) ==
    /\ req[c].at = "adding" /\ Free /\ Reads
    /\ \/ binding[req[c].ref] = None /\ End(c)
       \/ /\ binding[req[c].ref] # None
          /\ req' = [req EXCEPT ![c].at = "inserting", ![c].doc = binding[req[c].ref]]

\* Rows that an open transaction has deleted.
Pending(c) == UNION {req[o].gone : o \in Holding \ {c}}

\* Mutant: the member's document has no foreign key.
InsertableSet(m) == m.set \in Sets(docsets)

\* Foreign keys of rolio_docset_docs.
Insertable(m) == m.set \in Sets(docsets) /\ m.doc \in Live(docs)

\* The insert waits for a transaction that has deleted a row with one of its keys,
\* and fails if a key is taken or a foreign key misses its row.
InsertMember(c) ==
    LET m == [set |-> req[c].id, path |-> req[c].path, doc |-> req[c].doc]
        rivals == {n \in members : n.set = m.set /\ (n.path = m.path \/ n.doc = m.doc)} IN
    /\ req[c].at = "inserting" /\ Free /\ rivals \cap Pending(c) = {} /\ touched' = TRUE
    /\ members' = IF rivals = {} /\ Insertable(m) THEN members \cup {m} ELSE members
    /\ End(c)
    /\ UNCHANGED <<docs, binding, docsets, server, lost, trimmed>>

\* RemoveDocsetMember: one statement.
RemoveDocsetMember(c, name, path) ==
    LET gone == {m \in members : m.set \in IdOf(name) /\ m.path = path} IN
    /\ req[c].at = "idle" /\ Free /\ gone # {} /\ gone \cap Pending(c) = {}
    /\ members' = members \ gone /\ touched' = TRUE
    /\ trimmed' = (trimmed \/ gone \cap OldMembers # {})
    /\ UNCHANGED <<docs, binding, docsets, server, req, lost>>

\* DeleteDocset: a transaction.
ChooseDocset(c, name) ==
    /\ req[c].at = "idle" /\ Free /\ Reads
    /\ \E i \in IdOf(name) : req' = [req EXCEPT ![c] = [Idle EXCEPT !.at = "chosen", !.id = i]]

\* Mutant: the error goes to a variable of an inner scope.
StillOpenAlways == 1

\* An unknown name is rolled back: err is set when the deferred function runs.
StillOpen == 0

MissDocset(c, name) ==
    /\ req[c].at = "idle" /\ Free /\ IdOf(name) = {}
    /\ lost' = lost + StillOpen
    /\ UNCHANGED <<tables, server, req, history>>

DeleteMembers(c) ==
    LET gone == {m \in members : m.set = req[c].id} IN
    /\ req[c].at = "chosen" /\ gone \cap Pending(c) = {} /\ Reads
    /\ req' = [req EXCEPT ![c].at = "emptied", ![c].gone = gone]

\* A docset that is gone by now is reported, but err is nil then: the transaction
\* is neither committed nor rolled back, and its connection stays out of the pool.
\* A member that was added in between makes the delete fail.
DeleteDocset(c) ==
    LET i == req[c].id
        left == {m \in members \ req[c].gone : m.set = i} IN
    /\ req[c].at = "emptied" /\ End(c)
    /\ \/ /\ i \notin Sets(docsets)
          /\ lost' = lost + 1
          /\ UNCHANGED <<docsets, members, history>>
       \/ /\ i \in Sets(docsets) /\ left # {}
          /\ UNCHANGED <<docsets, members, lost, history>>
       \/ /\ i \in Sets(docsets) /\ left = {}
          /\ docsets' = [docsets EXCEPT ![i] = Gone]
          /\ members' = members \ req[c].gone
          /\ touched' = TRUE /\ trimmed' = (trimmed \/ \E s \in OldSets : s.id = i)
          /\ UNCHANGED lost
    /\ UNCHANGED <<docs, binding, server>>

-----------------------------------------------------------------------------
(* Stop and start *)

\* Open transactions are rolled back.
Stop ==
    /\ server \in {"migrated", "up"} /\ server' = "down"
    /\ req' = [c \in Clients |-> Idle] /\ lost' = 0
    /\ UNCHANGED <<tables, history>>

\* 065: rows whose keys are taken are passed over.
CopiedSets == [i \in Ids |->
    IF i \notin Sets(docsets) /\ \E s \in OldSets : s.id = i /\ IdOf(s.name) = {}
    THEN (CHOOSE s \in OldSets : s.id = i).name ELSE docsets[i]]

NewMembers == {m \in OldMembers :
    \A n \in members : n.set = m.set => n.path # m.path /\ n.doc # m.doc}

\* Mutant: there is no "on conflict do nothing".
MigratesOnce == /\ members \cap OldMembers = {}
                /\ \A m \in NewMembers : m.doc \in Live(docs) /\ m.set \in Sets(CopiedSets)

\* The migration fails, and the server with it, if a row misses what it refers to.
Migrates == \A m \in NewMembers : m.doc \in Live(docs) /\ m.set \in Sets(CopiedSets)

\* Mutant: nodes without a content row are taken as well.
LegacyNodes == {p \in LegacyPaths : LegacyRefs[p] # {}}

\* backfillSourceSQL: files with a content that a repository refers to.
LegacyFiles == {p \in LegacyPaths : LegacyRefs[p] # {} /\ LegacyContent[p] # None}

Imported(p) == {d \in Live(docs) : docs[d].legacy = p}

\* Mutant: the insert has no conflict target.
MissingAlways == LegacyFiles

\* backfillDocInsertSQL: paths without a document of that legacy_path.
Missing == {p \in LegacyFiles : Imported(p) = {}}

Import(new, p) == IF p \in Missing THEN new[p] ELSE CHOOSE d \in Imported(p) : TRUE

\* The content is that of the import, whatever has been written since.
BackfilledDocs(new) == [d \in Docs |->
    IF \E p \in LegacyFiles : d = Import(new, p)
    THEN LET p == CHOOSE p \in LegacyFiles : d = Import(new, p) IN
         [content |-> LegacyContent[p], legacy |-> p]
    ELSE docs[d]]

\* Mutant: the table is emptied before the paths are bound.
BackfilledOnly(new) == [r \in Refs |->
    IF \E p \in LegacyFiles : r \in LegacyRefs[p]
    THEN Import(new, CHOOSE p \in LegacyFiles : r \in LegacyRefs[p]) ELSE None]

\* backfillPathInsertSQL: bound again, also where it was deleted or replaced.
BackfilledPaths(new) == [r \in Refs |->
    IF \E p \in LegacyFiles : r \in LegacyRefs[p]
    THEN Import(new, CHOOSE p \in LegacyFiles : r \in LegacyRefs[p]) ELSE binding[r]]

\* ensurePostgresSchema; a failed migration ends the server.
Migrate ==
    /\ server \in {"new", "down"} /\ Migrates
    /\ server' = "migrated"
    /\ docsets' = CopiedSets
    /\ members' = members \cup NewMembers
    /\ UNCHANGED <<docs, binding, req, lost, history>>

\* BackfillDocs: one transaction, after which requests are served.
Backfill ==
    /\ server = "migrated" /\ server' = "up" /\ touched' = FALSE
    /\ \E new \in [Missing -> {d \in Docs : docs[d] = None}] :
        /\ \A p, q \in Missing : new[p] = new[q] => p = q
        /\ docs' = BackfilledDocs(new)
        /\ binding' = BackfilledPaths(new)
    /\ UNCHANGED <<docsets, members, req, lost, trimmed>>

Serve(c) ==
    \/ \E name \in Names :
        \/ CreateDocset(c, name) \/ ChooseDocset(c, name) \/ MissDocset(c, name)
        \/ \E path \in Spots : RemoveDocsetMember(c, name, path)
        \/ \E path \in Spots, ref \in Refs : FindDocset(c, name, path, ref)
    \/ FindSource(c) \/ InsertMember(c) \/ DeleteMembers(c) \/ DeleteDocset(c)

Next ==
    \/ \E c \in Clients : Serve(c)
    \/ \E r \in Refs : DeleteDocument(r) \/ \E content \in Contents : PutDocument(r, content)
    \/ \E orphans \in SUBSET Docs : Collect(orphans)
    \/ Stop \/ Migrate \/ Backfill

Spec == Init /\ [][Next]_vars

-----------------------------------------------------------------------------
(* Properties *)

\* Types of all variables, with the keys of the tables.
TypeOK ==
    /\ docs \in [Docs -> Documents \cup {None, Gone}]
    /\ binding \in [Refs -> Docs \cup {None}]
    /\ docsets \in [Ids -> Names \cup {None, Gone}]
    /\ members \subseteq Members
    /\ server \in {"new", "migrated", "up", "down"} /\ lost \in Nat
    /\ touched \in BOOLEAN /\ trimmed \in BOOLEAN
    /\ req \in [Clients -> Requests]

\* No reference outlives what it refers to: a bound document and a member's
\* document are never collected and the docset of a member never goes without it,
\* although lookups, inserts, deletes and the collector interleave.
ReferencesHold ==
    /\ \A r \in Refs : binding[r] # None => binding[r] \in Live(docs)
    /\ \A m \in members : m.doc \in Live(docs) /\ m.set \in Sets(docsets)

\* The leak of DeleteDocset is bounded by the docsets that were really deleted since
\* the start: each costs the pool at most one connection for every other request that
\* was beside its deletion.  Repeated deletes of a docset that is gone, or of a name
\* that never was, cost nothing: requests one after the other cannot drain the pool.
LeaksAreBounded ==
    lost =< (Cardinality(Clients) - 1) * Cardinality({i \in Ids : docsets[i] = Gone})

\* A server that has started once can start again, as long as no docset or member
\* of the older version was removed: the migration inserts these rows at every
\* start, and members keep their documents from the collector in between.  Once one
\* was removed and its document collected, the server does not start any more.
StartsAgain == server = "down" /\ ~trimmed => Migrates

\* The backfill is idempotent (backfill.go): a start after which nothing was
\* written changes nothing when it happens again, a stop in the middle included.
BackfillSettles == [][(Migrate \/ Backfill) /\ ~touched => UNCHANGED tables]_vars

\* A start reverts and revives only what the older tables name: other documents,
\* paths, docsets and members are as they were when the server stopped.
StartsKeepTheRest == [][Migrate \/ Backfill =>
    /\ \A d \in Live(docs) : docs[d].legacy = None => docs'[d] = docs[d]
    /\ \A r \in Refs : (\A p \in LegacyFiles : r \notin LegacyRefs[p]) => binding'[r] = binding[r]
    /\ \A i \in Sets(docsets) : docsets'[i] = docsets[i]
    /\ members \subseteq members' /\ members' \subseteq members \cup OldMembers]_vars
=============================================================================
