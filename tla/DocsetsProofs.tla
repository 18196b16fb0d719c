---------------------------- MODULE DocsetsProofs ----------------------------
(***************************************************************************)
(* Proofs about Docsets: references hold, the connections that are lost    *)
(* are bounded, a server that keeps its old members starts again,          *)
(* and a start is idempotent and leaves alone what the older tables do     *)
(* not name.                                                               *)
(***************************************************************************)
EXTENDS Docsets, FiniteSetTheorems, TLAPS

-----------------------------------------------------------------------------
(* The inductive invariant *)

\* The unique index of rolio_docs.legacy_path.
OneImport == \A d, e \in Live(docs) :
    docs[d].legacy # None /\ docs[d].legacy = docs[e].legacy => d = e

\* Before the first start there is no member; after it the old ones stay.
OldMembersStay ==
    /\ server = "new" => members = {}
    /\ server # "new" /\ ~trimmed => OldMembers \subseteq members

\* A request has what its next statement needs, a server included.
RequestsFit == \A c \in Clients :
    /\ req[c].at # "idle" => server = "up"
    /\ req[c].at = "adding" => req[c].ref \in Refs
    /\ req[c].at \in {"adding", "inserting"} => req[c].path \in Spots
    /\ req[c].at = "emptied" => \A m \in req[c].gone : m.set = req[c].id

\* The copy of the collections has nothing left to do.
Copied == CopiedSets = docsets /\ NewMembers = {}

\* Nor has the backfill.
Imports == \A p \in LegacyFiles : \E d \in Docs :
    /\ docs[d] = [content |-> LegacyContent[p], legacy |-> p]
    /\ \A r \in LegacyRefs[p] : binding[r] = d

Settled ==
    /\ server = "migrated" \/ ~touched => Copied
    /\ ~touched => Imports

\* Docsets that are deleted, and deletes that have chosen one of them before.
Deleted == {i \in Ids : docsets[i] = Gone}
Deletes == {c \in Clients : req[c].at \in {"chosen", "emptied"}}
Late    == {c \in Deletes : docsets[req[c].id] = Gone}

\* Each late delete may still take a connection.
Charged ==
    /\ \A c \in Deletes : req[c].id \in Ids /\ docsets[req[c].id] \in Names \cup {Gone}
    /\ server # "up" => lost = 0
    /\ lost + Cardinality(Late) =< (Cardinality(Clients) - 1) * Cardinality(Deleted)

Inv == /\ TypeOK /\ ReferencesHold /\ Charged
       /\ OneImport /\ OldMembersStay /\ RequestsFit /\ Settled

-----------------------------------------------------------------------------
(* The start *)

\* A docset that exists is not copied over.
LEMMA CopyKeeps ==
    ASSUME TypeOK
    PROVE  /\ CopiedSets \in [Ids -> Names \cup {None, Gone}]
           /\ \A i \in Sets(docsets) : CopiedSets[i] = docsets[i]
           /\ \A i \in Ids : (\E s \in OldSets : s.id = i /\ IdOf(s.name) = {}) => CopiedSets[i] \in Names
<1>1. ASSUME NEW i \in Ids, \E s \in OldSets : s.id = i /\ IdOf(s.name) = {}
      PROVE  (CHOOSE s \in OldSets : s.id = i).name \in Names
  <2> DEFINE s == CHOOSE s \in OldSets : s.id = i
  <2>1. s \in OldSets BY <1>1
  <2>2. QED BY <2>1, DocsetsAssumption
<1>2. CopiedSets \in [Ids -> Names \cup {None, Gone}] BY <1>1 DEF CopiedSets, TypeOK
<1>3. \A i \in Sets(docsets) : CopiedSets[i] = docsets[i] BY DEF CopiedSets, Sets
<1>4. ASSUME NEW i \in Ids, \E s \in OldSets : s.id = i /\ IdOf(s.name) = {}
      PROVE  CopiedSets[i] \in Names
  <2>1. CASE i \in Sets(docsets) BY <2>1, <1>3 DEF Sets
  <2>2. CASE i \notin Sets(docsets) BY <2>2, <1>1, <1>4 DEF CopiedSets
  <2>3. QED BY <2>1, <2>2
<1>5. QED BY <1>2, <1>3, <1>4

\* What the copy finds is there after it: a second one does nothing.
LEMMA CopyIsIdempotent ==
    ASSUME TypeOK, Migrate
    PROVE  Copied'
<1>1. docsets' = CopiedSets /\ members' = members \cup NewMembers BY DEF Migrate
<1>2. NewMembers' = {} BY <1>1 DEF NewMembers
<1>3. ASSUME NEW i \in Ids, i \notin Sets(docsets'),
             NEW s \in OldSets, s.id = i, IdOf(s.name)' = {}
      PROVE  FALSE
  <2>1. IdOf(s.name) # {} BY <1>1, <1>3, CopyKeeps DEF Sets
  <2>2. PICK j \in Ids : docsets[j] = s.name BY <2>1 DEF IdOf
  <2>3. s.name \in Names BY DocsetsAssumption
  <2>4. docsets'[j] = s.name BY <1>1, <2>2, <2>3, CopyKeeps DEF Sets
  <2>5. QED BY <1>3, <2>4 DEF IdOf
<1>4. docsets' \in [Ids -> Names \cup {None, Gone}] BY <1>1, CopyKeeps
<1>5. CopiedSets' = [i \in Ids |-> docsets'[i]] BY <1>3 DEF CopiedSets
<1>6. QED BY <1>2, <1>4, <1>5 DEF Copied

\* What the backfill imports: a path gets a document of its own.
LEMMA ImportFacts ==
    ASSUME TypeOK, NEW new \in [Missing -> {d \in Docs : docs[d] = None}],
           \A p, q \in Missing : new[p] = new[q] => p = q
    PROVE  /\ \A p \in LegacyFiles : Import(new, p) \in Docs
           /\ \A p \in Missing : docs[Import(new, p)] = None
           /\ \A p \in LegacyFiles \ Missing : Import(new, p) \in Imported(p)
           /\ \A p, q \in LegacyFiles : Import(new, p) = Import(new, q) => p = q
<1>1. \A p \in Missing : Import(new, p) = new[p] BY DEF Import
<1>2. ASSUME NEW p \in LegacyFiles \ Missing PROVE Import(new, p) \in Imported(p)
  <2>1. Imported(p) # {} BY <1>2 DEF Missing
  <2>2. QED BY <1>2, <2>1 DEF Import
<1>3. \A p \in LegacyFiles : Imported(p) \subseteq Live(docs) BY DEF Imported
<1>4. \A p \in LegacyFiles : Import(new, p) \in Docs BY <1>1, <1>2, <1>3 DEF Live
<1>5. ASSUME NEW p \in LegacyFiles, NEW q \in LegacyFiles, Import(new, p) = Import(new, q)
      PROVE  p = q
  <2>1. CASE p \in Missing /\ q \in Missing BY <2>1, <1>1, <1>5
  <2>2. CASE p \notin Missing /\ q \notin Missing BY <2>2, <1>2, <1>5 DEF Imported
  <2>3. CASE p \in Missing /\ q \notin Missing BY <2>3, <1>1, <1>2, <1>3, <1>5 DEF Live
  <2>4. CASE p \notin Missing /\ q \in Missing BY <2>4, <1>1, <1>2, <1>3, <1>5 DEF Live
  <2>5. QED BY <2>1, <2>2, <2>3, <2>4
<1>6. QED BY <1>1, <1>2, <1>4, <1>5

\* The imported documents have the content of their paths; the others stay.
LEMMA BackfilledDocsFacts ==
    ASSUME TypeOK, NEW new \in [Missing -> {d \in Docs : docs[d] = None}],
           \A p, q \in Missing : new[p] = new[q] => p = q
    PROVE  /\ \A p \in LegacyFiles : BackfilledDocs(new)[Import(new, p)]
                    = [content |-> LegacyContent[p], legacy |-> p]
           /\ \A d \in Docs : (\A p \in LegacyFiles : d # Import(new, p))
                    => BackfilledDocs(new)[d] = docs[d]
           /\ BackfilledDocs(new) \in [Docs -> Documents \cup {None, Gone}]
<1> DEFINE Doc(p) == [content |-> LegacyContent[p], legacy |-> p]
<1>1. ASSUME NEW p \in LegacyFiles PROVE BackfilledDocs(new)[Import(new, p)] = Doc(p)
  <2> DEFINE q == CHOOSE q \in LegacyFiles : Import(new, p) = Import(new, q)
  <2>1. q \in LegacyFiles /\ Import(new, p) = Import(new, q) OBVIOUS
  <2>2. q = p BY <2>1, ImportFacts
  <2>3. Import(new, p) \in Docs BY ImportFacts
  <2>4. BackfilledDocs(new)[Import(new, p)] = Doc(q) BY <2>3 DEF BackfilledDocs
  <2>5. QED BY <2>2, <2>4
<1>2. \A d \in Docs : (\A p \in LegacyFiles : d # Import(new, p)) => BackfilledDocs(new)[d] = docs[d]
  BY DEF BackfilledDocs
<1>3. \A p \in LegacyFiles : Doc(p) \in Documents
  BY DocsetsAssumption DEF LegacyFiles, Documents
<1>4. ASSUME NEW d \in Docs PROVE BackfilledDocs(new)[d] \in Documents \cup {None, Gone}
  <2>1. CASE \A p \in LegacyFiles : d # Import(new, p) BY <1>2, <2>1 DEF TypeOK
  <2>2. ASSUME NEW p \in LegacyFiles, d = Import(new, p)
        PROVE  BackfilledDocs(new)[d] \in Documents
    <3>1. BackfilledDocs(new)[d] = Doc(p) BY ONLY <1>1, <2>2
    <3>2. QED BY ONLY <1>3, <3>1, <2>2
  <2>3. QED BY <2>1, <2>2
<1>5. BackfilledDocs(new) = [d \in Docs |-> BackfilledDocs(new)[d]] BY DEF BackfilledDocs
<1>6. QED BY <1>1, <1>2, <1>4, <1>5

\* The references of an imported path are bound to its document; the others stay.
LEMMA BackfilledPathsFacts ==
    ASSUME TypeOK, NEW new \in [Missing -> {d \in Docs : docs[d] = None}],
           \A p, q \in Missing : new[p] = new[q] => p = q
    PROVE  /\ \A p \in LegacyFiles : \A r \in LegacyRefs[p] : BackfilledPaths(new)[r] = Import(new, p)
           /\ \A r \in Refs : (\A p \in LegacyFiles : r \notin LegacyRefs[p])
                    => BackfilledPaths(new)[r] = binding[r]
           /\ BackfilledPaths(new) \in [Refs -> Docs \cup {None}]
<1>1. ASSUME NEW p \in LegacyFiles, NEW r \in LegacyRefs[p] PROVE BackfilledPaths(new)[r] = Import(new, p)
  <2> DEFINE q == CHOOSE q \in LegacyFiles : r \in LegacyRefs[q]
  <2>1. q \in LegacyFiles /\ r \in LegacyRefs[q] BY <1>1
  <2>2. q = p BY <1>1, <2>1, DocsetsAssumption DEF LegacyFiles
  <2>3. r \in Refs BY DocsetsAssumption DEF LegacyFiles
  <2>4. BackfilledPaths(new)[r] = Import(new, q) BY <1>1, <2>3 DEF BackfilledPaths
  <2>5. QED BY <2>2, <2>4
<1>2. \A r \in Refs : (\A p \in LegacyFiles : r \notin LegacyRefs[p]) => BackfilledPaths(new)[r] = binding[r]
  BY DEF BackfilledPaths
<1>3. \A r \in Refs : BackfilledPaths(new)[r] \in Docs \cup {None}
  BY <1>1, <1>2, ImportFacts DEF TypeOK
<1>4. BackfilledPaths(new) = [r \in Refs |-> BackfilledPaths(new)[r]] BY DEF BackfilledPaths
<1>5. QED BY <1>1, <1>2, <1>3, <1>4

-----------------------------------------------------------------------------
(* Types *)

\* A request that is replaced by one of the type.
LEMMA RequestTyped ==
    ASSUME req \in [Clients -> Requests], NEW c \in Clients, NEW q \in Requests,
           req' = [req EXCEPT ![c] = q]
    PROVE  /\ req' \in [Clients -> Requests]
           /\ req'[c] = q /\ \A o \in Clients \ {c} : req'[o] = req[o]
OBVIOUS

\* The end of a request.
LEMMA EndTyped ==
    ASSUME TypeOK, NEW c \in Clients, End(c)
    PROVE  /\ req' \in [Clients -> Requests]
           /\ req'[c] = Idle /\ \A o \in Clients \ {c} : req'[o] = req[o]
<1>1. Idle \in Requests BY DEF Idle, Requests
<1>2. QED BY <1>1, RequestTyped DEF TypeOK, End

\* No step leaves the types.
LEMMA StepTyped ==
    ASSUME TypeOK, RequestsFit, ReferencesHold, [Next]_vars
    PROVE  TypeOK' /\ RequestsFit'
<1>0. ASSUME NEW c \in Clients, req' \in [Clients -> Requests], req'[c] = Idle,
             \A o \in Clients \ {c} : req'[o] = req[o], UNCHANGED server
      PROVE  RequestsFit'
  BY <1>0 DEF RequestsFit, Idle
<1>1. ASSUME NEW c \in Clients, NEW name \in Names, CreateDocset(c, name) PROVE TypeOK' /\ RequestsFit'
  BY <1>1 DEF CreateDocset, TypeOK, RequestsFit
<1>2. ASSUME NEW c \in Clients, NEW name \in Names, NEW path \in Spots, NEW ref \in Refs,
             FindDocset(c, name, path, ref)
      PROVE TypeOK' /\ RequestsFit'
  <2>1. PICK i \in IdOf(name) : req' = [req EXCEPT ![c] =
            [Idle EXCEPT !.at = "adding", !.id = i, !.path = path, !.ref = ref]]
    BY <1>2 DEF FindDocset
  <2>2. [Idle EXCEPT !.at = "adding", !.id = i, !.path = path, !.ref = ref] \in Requests
    BY <2>1 DEF Idle, Requests, IdOf
  <2>3. [Idle EXCEPT !.at = "adding", !.id = i, !.path = path, !.ref = ref].at = "adding"
        /\ [Idle EXCEPT !.at = "adding", !.id = i, !.path = path, !.ref = ref].ref = ref
        /\ [Idle EXCEPT !.at = "adding", !.id = i, !.path = path, !.ref = ref].path = path
    BY DEF Idle
  <2> HIDE <2>3
  <2>4. QED BY <1>2, <2>1, <2>2, <2>3, RequestTyped DEF FindDocset, Free, Reads, TypeOK, RequestsFit
<1>3. ASSUME NEW c \in Clients, FindSource(c) PROVE TypeOK' /\ RequestsFit'
  <2>1. CASE End(c) BY <1>3, <2>1, <1>0, EndTyped DEF FindSource, Reads, TypeOK
  <2>2. CASE req' = [req EXCEPT ![c].at = "inserting", ![c].doc = binding[req[c].ref]]
    <3> DEFINE q == [req[c] EXCEPT !.at = "inserting", !.doc = binding[req[c].ref]]
    <3>1. req[c].at = "adding" BY <1>3 DEF FindSource
    <3>2. binding[req[c].ref] \in Docs \cup {None} BY <3>1 DEF RequestsFit, TypeOK
    <3>3. q \in Requests /\ q.at = "inserting" /\ q.path \in Spots
      BY <3>1, <3>2 DEF TypeOK, Requests, RequestsFit
    <3>4. req' = [req EXCEPT ![c] = q] BY <2>2 DEF TypeOK
    <3> HIDE DEF q
    <3>5. QED BY <1>3, <3>3, <3>4, RequestTyped DEF FindSource, Reads, TypeOK, RequestsFit
  <2>3. QED BY <1>3, <2>1, <2>2 DEF FindSource
<1>4. ASSUME NEW c \in Clients, InsertMember(c) PROVE TypeOK' /\ RequestsFit'
  <2> DEFINE m == [set |-> req[c].id, path |-> req[c].path, doc |-> req[c].doc]
  <2>1. members' = members \/ (members' = members \cup {m} /\ Insertable(m)) BY <1>4 DEF InsertMember
  <2>2. Insertable(m) => m \in Members
    <3>1. req[c].path \in Spots BY <1>4 DEF InsertMember, RequestsFit
    <3>2. QED BY <3>1 DEF Insertable, Sets, Live, Members
  <2>3. members' \subseteq Members BY <2>1, <2>2 DEF TypeOK
  <2>4. End(c) BY <1>4 DEF InsertMember
  <2>5. QED BY <1>4, <1>0, <2>3, <2>4, EndTyped DEF InsertMember, TypeOK
<1>5. ASSUME NEW c \in Clients, NEW name \in Names, NEW path \in Spots,
             RemoveDocsetMember(c, name, path)
      PROVE TypeOK' /\ RequestsFit'
  BY <1>5 DEF RemoveDocsetMember, TypeOK, RequestsFit
<1>6. ASSUME NEW c \in Clients, NEW name \in Names, ChooseDocset(c, name) PROVE TypeOK' /\ RequestsFit'
  <2>1. PICK i \in IdOf(name) : req' = [req EXCEPT ![c] = [Idle EXCEPT !.at = "chosen", !.id = i]]
    BY <1>6 DEF ChooseDocset
  <2> DEFINE q == [Idle EXCEPT !.at = "chosen", !.id = i]
  <2>2. q \in Requests /\ q.at = "chosen" BY <2>1 DEF Idle, Requests, IdOf
  <2> HIDE DEF q
  <2>3. req' = [req EXCEPT ![c] = q] BY <2>1 DEF q
  <2>4. QED BY <1>6, <2>2, <2>3, RequestTyped DEF ChooseDocset, Free, Reads, TypeOK, RequestsFit
<1>7. ASSUME NEW c \in Clients, NEW name \in Names, MissDocset(c, name) PROVE TypeOK' /\ RequestsFit'
  BY <1>7 DEF MissDocset, StillOpen, tables, history, TypeOK, RequestsFit
<1>8. ASSUME NEW c \in Clients, DeleteMembers(c) PROVE TypeOK' /\ RequestsFit'
  <2> DEFINE gone == {m \in members : m.set = req[c].id}
  <2> DEFINE q == [req[c] EXCEPT !.at = "emptied", !.gone = gone]
  <2>1. gone \subseteq Members BY DEF TypeOK
  <2>2. q \in Requests /\ q.at = "emptied" /\ q.gone = gone /\ q.id = req[c].id
    BY <2>1 DEF TypeOK, Requests
  <2>3. req' = [req EXCEPT ![c] = q] BY <1>8 DEF DeleteMembers, TypeOK
  <2>4. \A m \in gone : m.set = req[c].id OBVIOUS
  <2> HIDE DEF q, gone
  <2>5. /\ req' \in [Clients -> Requests]
        /\ req'[c] = q /\ \A o \in Clients \ {c} : req'[o] = req[o]
    BY <2>2, <2>3, RequestTyped DEF TypeOK
  <2>6. RequestsFit'
    <3>1. ASSUME NEW o \in Clients, o # c, req[o].at = "emptied" PROVE \A m \in req'[o].gone : m.set = req'[o].id
      BY <2>5, <3>1 DEF RequestsFit
    <3>2. server' = "up" BY <1>8 DEF DeleteMembers, Reads, RequestsFit
    <3>3. QED BY <2>2, <2>4, <2>5, <3>1, <3>2 DEF RequestsFit
  <2>7. QED BY <1>8, <2>5, <2>6 DEF DeleteMembers, Reads, TypeOK
<1>9. ASSUME NEW c \in Clients, DeleteDocset(c) PROVE TypeOK' /\ RequestsFit'
  <2>1. End(c) BY <1>9 DEF DeleteDocset
  <2>2. docsets' \in [Ids -> Names \cup {None, Gone}] BY <1>9 DEF DeleteDocset, TypeOK
  <2>3. members' \subseteq Members BY <1>9 DEF DeleteDocset, TypeOK
  <2>4. lost' \in Nat /\ touched' \in BOOLEAN /\ trimmed' \in BOOLEAN
    <3>1. CASE lost' = lost + 1 /\ UNCHANGED <<docsets, members, history>>
      BY <3>1 DEF TypeOK, history
    <3>2. CASE UNCHANGED <<docsets, members, lost, history>> BY <3>2 DEF TypeOK, history
    <3>3. CASE /\ touched' = TRUE /\ trimmed' = (trimmed \/ \E s \in OldSets : s.id = req[c].id)
               /\ UNCHANGED lost
      <4>1. trimmed' \in BOOLEAN BY <3>3
      <4>2. QED BY <3>3, <4>1 DEF TypeOK
    <3>4. QED BY <1>9, <3>1, <3>2, <3>3 DEF DeleteDocset
  <2>5. QED BY <1>9, <1>0, <2>1, <2>2, <2>3, <2>4, EndTyped DEF DeleteDocset, TypeOK
<1>10. ASSUME NEW r \in Refs, DeleteDocument(r) PROVE TypeOK' /\ RequestsFit'
  BY <1>10 DEF DeleteDocument, TypeOK, RequestsFit
<1>11. ASSUME NEW r \in Refs, NEW content \in Contents, PutDocument(r, content) PROVE TypeOK' /\ RequestsFit'
  <2>1. PICK d \in Docs :
        /\ binding[r] = None \/ d = binding[r]
        /\ docs' = [docs EXCEPT ![d] = [content |-> content,
                legacy |-> IF binding[r] = None THEN None ELSE docs[d].legacy]]
        /\ binding' = [binding EXCEPT ![r] = d]
    BY <1>11 DEF PutDocument, TypeOK
  <2>2. binding[r] # None => docs[d] \in Documents BY <2>1 DEF ReferencesHold, Live, TypeOK
  <2>3. [content |-> content, legacy |-> IF binding[r] = None THEN None ELSE docs[d].legacy] \in Documents
    BY <2>2 DEF Documents
  <2>4. QED BY <1>11, <2>1, <2>3 DEF PutDocument, TypeOK, RequestsFit
<1>12. ASSUME NEW orphans \in SUBSET Docs, Collect(orphans) PROVE TypeOK' /\ RequestsFit'
  BY <1>12 DEF Collect, TypeOK, RequestsFit
<1>13. ASSUME Stop PROVE TypeOK' /\ RequestsFit'
  BY <1>13 DEF Stop, tables, history, Idle, Requests, TypeOK, RequestsFit
<1>14. ASSUME Migrate PROVE TypeOK' /\ RequestsFit'
  BY <1>14, CopyKeeps, DocsetsAssumption DEF Migrate, NewMembers, history, TypeOK, RequestsFit, Members
<1>15. ASSUME Backfill PROVE TypeOK' /\ RequestsFit'
  BY <1>15, BackfilledDocsFacts, BackfilledPathsFacts DEF Backfill, TypeOK, RequestsFit
<1>16. ASSUME UNCHANGED vars PROVE TypeOK' /\ RequestsFit'
  BY <1>16 DEF vars, TypeOK, RequestsFit
<1>17. QED
  BY <1>1, <1>2, <1>3, <1>4, <1>5, <1>6, <1>7, <1>8, <1>9, <1>10, <1>11, <1>12, <1>13, <1>14, <1>15, <1>16
  DEF Next, Serve

-----------------------------------------------------------------------------
(* References and connections *)

\* Every document of a reference, and every document and docset of a member, stays
\* as long as they do.
LEMMA StepKeepsReferences ==
    ASSUME TypeOK, ReferencesHold, RequestsFit, [Next]_vars
    PROVE  ReferencesHold'
<1>1. ASSUME NEW r \in Refs, NEW content \in Contents, PutDocument(r, content) PROVE ReferencesHold'
  <2>1. PICK d \in Docs :
        /\ docs' = [docs EXCEPT ![d] = [content |-> content,
                legacy |-> IF binding[r] = None THEN None ELSE docs[d].legacy]]
        /\ binding' = [binding EXCEPT ![r] = d]
        /\ binding[r] = None \/ docs[d] \in Documents
    BY <1>1 DEF PutDocument, TypeOK, ReferencesHold, Live
  <2>2. [content |-> content, legacy |-> IF binding[r] = None THEN None ELSE docs[d].legacy] \in Documents
    BY <2>1 DEF Documents
  <2>3. Live(docs') = Live(docs) \cup {d} BY <2>1, <2>2, DocsetsAssumption DEF Live, TypeOK
  <2>4. QED BY <1>1, <2>1, <2>3 DEF PutDocument, ReferencesHold, TypeOK
<1>2. ASSUME NEW r \in Refs, DeleteDocument(r) PROVE ReferencesHold'
  BY <1>2 DEF DeleteDocument, ReferencesHold, TypeOK
<1>3. ASSUME NEW orphans \in SUBSET Docs, Collect(orphans) PROVE ReferencesHold'
  <2>1. \A d \in Live(docs) \ orphans : d \in Live(docs') BY <1>3 DEF Collect, Live
  <2>2. \A r \in Refs : binding[r] \notin orphans BY <1>3 DEF Collect, Referenced
  <2>3. \A m \in members : m.doc \notin orphans BY <1>3 DEF Collect, Referenced
  <2>4. QED BY <1>3, <2>1, <2>2, <2>3 DEF Collect, ReferencesHold
<1>4. ASSUME NEW c \in Clients, NEW name \in Names, CreateDocset(c, name) PROVE ReferencesHold'
  <2>1. Sets(docsets) \subseteq Sets(docsets') BY <1>4 DEF CreateDocset, Sets, TypeOK
  <2>2. QED BY <1>4, <2>1 DEF CreateDocset, ReferencesHold
<1>5. ASSUME NEW c \in Clients, InsertMember(c) PROVE ReferencesHold'
  BY <1>5 DEF InsertMember, Insertable, ReferencesHold
<1>6. ASSUME NEW c \in Clients, NEW name \in Names, NEW path \in Spots,
             RemoveDocsetMember(c, name, path)
      PROVE  ReferencesHold'
  BY <1>6 DEF RemoveDocsetMember, ReferencesHold
<1>7. ASSUME NEW c \in Clients, DeleteDocset(c) PROVE ReferencesHold'
  <2>1. CASE UNCHANGED <<docsets, members>> BY <1>7, <2>1 DEF DeleteDocset, ReferencesHold, Sets
  <2>2. CASE /\ {m \in members \ req[c].gone : m.set = req[c].id} = {}
             /\ docsets' = [docsets EXCEPT ![req[c].id] = Gone]
             /\ members' = members \ req[c].gone
    <3>1. \A i \in Sets(docsets) : i # req[c].id => i \in Sets(docsets') BY <2>2 DEF Sets, TypeOK
    <3>2. \A m \in members' : m \in members /\ m.set # req[c].id BY <2>2
    <3>3. QED BY <1>7, <3>1, <3>2 DEF DeleteDocset, ReferencesHold
  <2>3. QED BY <1>7, <2>1, <2>2 DEF DeleteDocset
<1>8. ASSUME Migrate PROVE ReferencesHold'
  <2>1. Sets(docsets) \subseteq Sets(docsets') BY <1>8, CopyKeeps DEF Migrate, Sets
  <2>2. QED BY <1>8, <2>1 DEF Migrate, Migrates, ReferencesHold
<1>9. ASSUME Backfill PROVE ReferencesHold'
  <2>1. PICK new \in [Missing -> {d \in Docs : docs[d] = None}] :
        /\ \A p, q \in Missing : new[p] = new[q] => p = q
        /\ docs' = BackfilledDocs(new) /\ binding' = BackfilledPaths(new)
    BY <1>9 DEF Backfill
  <2>2. ASSUME NEW p \in LegacyFiles PROVE Import(new, p) \in Live(docs')
    <3>1. docs'[Import(new, p)] \in Documents
      <4>1. docs'[Import(new, p)] = [content |-> LegacyContent[p], legacy |-> p]
        BY <2>1, BackfilledDocsFacts
      <4>2. LegacyContent[p] \in Contents /\ p \in LegacyPaths BY DocsetsAssumption DEF LegacyFiles
      <4>3. QED BY <4>1, <4>2 DEF Documents
    <3>2. QED BY <2>1, <3>1, ImportFacts, DocsetsAssumption DEF Live
  <2>3. ASSUME NEW d \in Live(docs) PROVE d \in Live(docs')
    <3>1. CASE \A p \in LegacyFiles : d # Import(new, p)
      BY <2>1, <3>1, BackfilledDocsFacts DEF Live
    <3>2. QED BY <2>2, <3>1
  <2>4. ASSUME NEW r \in Refs, binding'[r] # None PROVE binding'[r] \in Live(docs')
    <3>1. CASE \E p \in LegacyFiles : r \in LegacyRefs[p] BY <2>1, <2>2, <3>1, BackfilledPathsFacts
    <3>2. CASE \A p \in LegacyFiles : r \notin LegacyRefs[p]
      <4>1. binding'[r] = binding[r] BY <2>1, <3>2, BackfilledPathsFacts
      <4>2. QED BY <2>3, <2>4, <4>1 DEF ReferencesHold
    <3>3. QED BY <3>1, <3>2
  <2>5. QED BY <1>9, <2>3, <2>4 DEF Backfill, ReferencesHold
<1>10. ASSUME UNCHANGED tables PROVE ReferencesHold'
  BY <1>10 DEF tables, ReferencesHold
<1>11. QED
  BY <1>1, <1>2, <1>3, <1>4, <1>5, <1>6, <1>7, <1>8, <1>9, <1>10
  DEF Next, Serve, FindDocset, FindSource, ChooseDocset, MissDocset, DeleteMembers, Stop, Reads, tables, vars

\* Cardinalities of the sets that are counted.
LEMMA Counts ==
    ASSUME TypeOK
    PROVE  /\ IsFiniteSet(Late) /\ Cardinality(Late) \in Nat
           /\ IsFiniteSet(Deleted) /\ Cardinality(Deleted) \in Nat
           /\ Cardinality(Clients) \in Nat \ {0}
           /\ \A T \in SUBSET Clients : Cardinality(T) \in Nat
<1>1. Late \in SUBSET Clients /\ Deleted \in SUBSET Ids BY DEF Late, Deletes, Deleted
<1>2. IsFiniteSet(Late) /\ IsFiniteSet(Deleted) BY <1>1, FS_Subset, DocsetsAssumption
<1>3. Cardinality(Clients) # 0 BY FS_EmptySet, DocsetsAssumption
<1>4. ASSUME NEW T \in SUBSET Clients PROVE Cardinality(T) \in Nat
  BY FS_Subset, FS_CardinalityType, DocsetsAssumption
<1>5. QED BY <1>2, <1>3, <1>4, FS_CardinalityType, DocsetsAssumption

\* The charge stays if no delete gets late, and no other docset is deleted or revived.
LEMMA NoneGetsLate ==
    ASSUME TypeOK, TypeOK', Charged, Late' \subseteq Late, Deleted' = Deleted, lost' = lost
    PROVE  lost' + Cardinality(Late)' =< (Cardinality(Clients) - 1) * Cardinality(Deleted)'
<1>1. Cardinality(Late)' =< Cardinality(Late)
  <2>1. \A T \in SUBSET Late : Cardinality(T) =< Cardinality(Late) BY FS_Subset, Counts
  <2>2. QED BY <2>1
<1>2. Cardinality(Deleted)' = Cardinality(Deleted) OBVIOUS
<1> DEFINE bound == (Cardinality(Clients) - 1) * Cardinality(Deleted)
<1>3. lost + Cardinality(Late) =< bound /\ bound \in Nat BY Counts DEF Charged
<1>4. lost' \in Nat /\ Cardinality(Late) \in Nat /\ Cardinality(Late)' \in Nat BY Counts DEF TypeOK, Late, Deletes
<1> HIDE DEF bound
<1>5. lost' + Cardinality(Late)' =< bound BY <1>1, <1>3, <1>4
<1>6. QED BY <1>2, <1>5 DEF bound

\* A delete that is late takes a connection and is late no more.
LEMMA LateEnds ==
    ASSUME TypeOK, TypeOK', Charged, NEW c \in Late, Late' \subseteq Late \ {c}, Deleted' = Deleted,
           lost' = lost + 1
    PROVE  lost' + Cardinality(Late)' =< (Cardinality(Clients) - 1) * Cardinality(Deleted)'
<1>1. Cardinality(Late)' =< Cardinality(Late) - 1
  <2>1. IsFiniteSet(Late \ {c}) /\ Cardinality(Late \ {c}) = Cardinality(Late) - 1
    BY FS_RemoveElement, Counts
  <2>2. \A T \in SUBSET (Late \ {c}) : Cardinality(T) =< Cardinality(Late \ {c}) BY <2>1, FS_Subset
  <2>3. QED BY <2>1, <2>2
<1>2. Cardinality(Deleted)' = Cardinality(Deleted) OBVIOUS
<1> DEFINE bound == (Cardinality(Clients) - 1) * Cardinality(Deleted)
<1>3. lost + Cardinality(Late) =< bound /\ bound \in Nat BY Counts DEF Charged
<1>4. lost \in Nat /\ Cardinality(Late) \in Nat /\ Cardinality(Late)' \in Nat BY Counts DEF TypeOK, Late, Deletes
<1> HIDE DEF bound
<1>5. lost' + Cardinality(Late)' =< bound BY <1>1, <1>3, <1>4
<1>6. QED BY <1>2, <1>5 DEF bound

\* The deletion of a docset makes every other request late at most.
LEMMA OthersGetLate ==
    ASSUME TypeOK, TypeOK', Charged, NEW c \in Clients, c \notin Late',
           NEW i \in Ids \ Deleted, Deleted' = Deleted \cup {i}, lost' = lost
    PROVE  lost' + Cardinality(Late)' =< (Cardinality(Clients) - 1) * Cardinality(Deleted)'
<1> DEFINE n == Cardinality(Clients)
           g == Cardinality(Deleted)
<1>1. n \in Nat \ {0} /\ g \in Nat BY Counts
<1>2. Cardinality(Deleted)' = g + 1
  <2>1. Cardinality(Deleted \cup {i}) = g + 1 BY FS_AddElement, Counts
  <2>2. QED BY <2>1
<1>3. Cardinality(Late)' =< n - 1
  <2>1. Late' \subseteq Clients \ {c} BY DEF Late, Deletes
  <2>2. IsFiniteSet(Clients \ {c}) /\ Cardinality(Clients \ {c}) = n - 1
    BY FS_RemoveElement, DocsetsAssumption
  <2>3. \A T \in SUBSET (Clients \ {c}) : Cardinality(T) =< Cardinality(Clients \ {c}) BY <2>2, FS_Subset
  <2>4. QED BY <2>1, <2>2, <2>3
<1>4. lost =< (n - 1) * g
  <2> DEFINE bound == (n - 1) * g
  <2>1. lost + Cardinality(Late) =< bound /\ bound \in Nat BY <1>1 DEF Charged
  <2>2. lost \in Nat /\ Cardinality(Late) \in Nat BY Counts DEF TypeOK
  <2> HIDE DEF bound
  <2>3. lost =< bound BY <2>1, <2>2
  <2>4. QED BY <2>3 DEF bound
<1>5. lost \in Nat /\ Cardinality(Late)' \in Nat BY Counts DEF TypeOK, Late, Deletes
<1> HIDE DEF n, g
<1>6. (n - 1) * (g + 1) = (n - 1) * g + (n - 1) BY <1>1
<1>7. (n - 1) * g \in Nat BY <1>1
<1>8. lost + Cardinality(Late)' =< (n - 1) * g + (n - 1) BY <1>1, <1>3, <1>4, <1>5, <1>7
<1>9. QED BY <1>2, <1>6, <1>8 DEF n

\* A connection is lost only to a delete that has been charged for.
LEMMA StepKeepsCharge ==
    ASSUME TypeOK, RequestsFit, ReferencesHold, Charged, [Next]_vars
    PROVE  Charged'
<1>0. TypeOK' BY StepTyped
<1>1. ASSUME UNCHANGED <<docsets, lost>>, server' \in {server, "up"},
             \A o \in Deletes' : /\ req'[o].id \in Ids
                                 /\ (o \in Deletes /\ req'[o].id = req[o].id) \/ docsets[req'[o].id] \in Names
      PROVE  Charged'
  <2>1. Late' \subseteq Late
    BY <1>1, DocsetsAssumption DEF Late
  <2>2. Deleted' = Deleted BY <1>1 DEF Deleted
  <2>3. \A o \in Deletes' : req'[o].id \in Ids /\ docsets'[req'[o].id] \in Names \cup {Gone}
    BY <1>1 DEF Charged
  <2>4. QED BY <1>0, <1>1, <2>1, <2>2, <2>3, NoneGetsLate DEF Charged
<1>2. \A o \in Deletes : req[o].id \in Ids BY DEF Charged
<1>3. ASSUME NEW c \in Clients, End(c), UNCHANGED <<docsets, lost, server>> PROVE Charged'
  <2>1. Deletes' \subseteq Deletes /\ \A o \in Deletes' : req'[o] = req[o]
    BY <1>3, EndTyped DEF Deletes, Idle
  <2>2. QED BY <1>1, <1>2, <1>3, <2>1
<1>4. ASSUME UNCHANGED <<docsets, lost, req>>, server' \in {server, "up"} PROVE Charged'
  <2>1. Deletes' = Deletes BY <1>4 DEF Deletes
  <2>2. QED BY <1>1, <1>2, <1>4, <2>1
<1>5. ASSUME NEW c \in Clients, NEW name \in Names, NEW path \in Spots, NEW ref \in Refs,
             FindDocset(c, name, path, ref)
      PROVE  Charged'
  <2>1. PICK i \in IdOf(name) : req' = [req EXCEPT ![c] =
            [Idle EXCEPT !.at = "adding", !.id = i, !.path = path, !.ref = ref]]
    BY <1>5 DEF FindDocset
  <2>2. Deletes' \subseteq Deletes /\ \A o \in Deletes' : req'[o] = req[o]
    BY <2>1 DEF Deletes, Idle, TypeOK
  <2>3. QED BY <1>1, <1>2, <1>5, <2>2 DEF FindDocset, Reads
<1>6. ASSUME NEW c \in Clients, FindSource(c) PROVE Charged'
  <2>1. CASE End(c) BY <1>3, <1>6, <2>1 DEF FindSource, Reads
  <2>2. CASE /\ req[c].at = "adding"
             /\ req' = [req EXCEPT ![c].at = "inserting", ![c].doc = binding[req[c].ref]]
    <3>1. Deletes' \subseteq Deletes /\ \A o \in Deletes' : req'[o] = req[o]
      BY <2>2 DEF Deletes, TypeOK, Requests
    <3>2. QED BY <1>1, <1>2, <1>6, <3>1 DEF FindSource, Reads
  <2>3. QED BY <1>6, <2>1, <2>2 DEF FindSource
<1>7. ASSUME NEW c \in Clients, NEW name \in Names, ChooseDocset(c, name) PROVE Charged'
  <2>1. PICK i \in IdOf(name) : req' = [req EXCEPT ![c] = [Idle EXCEPT !.at = "chosen", !.id = i]]
    BY <1>7 DEF ChooseDocset
  <2>2. i \in Ids /\ docsets[i] \in Names BY <2>1 DEF IdOf
  <2>3. \A o \in Deletes' : (o = c /\ req'[o].id = i) \/ (o \in Deletes /\ req'[o] = req[o])
    BY <2>1 DEF Deletes, Idle, TypeOK
  <2>4. QED BY <1>1, <1>2, <1>7, <2>2, <2>3 DEF ChooseDocset, Reads
<1>8. ASSUME NEW c \in Clients, DeleteMembers(c) PROVE Charged'
  <2>1. Deletes' = Deletes /\ \A o \in Deletes' : req'[o].id = req[o].id
    BY <1>8 DEF DeleteMembers, Deletes, TypeOK, Requests
  <2>2. QED BY <1>1, <1>2, <1>8, <2>1 DEF DeleteMembers, Reads
<1>9. ASSUME NEW c \in Clients, DeleteDocset(c) PROVE Charged'
  <2> DEFINE i == req[c].id
  <2>1. /\ c \in Deletes /\ i \in Ids /\ docsets[i] \in Names \cup {Gone} /\ UNCHANGED server
        /\ server = "up"
    BY <1>9 DEF DeleteDocset, Deletes, Charged, RequestsFit
  <2>2. Deletes' \subseteq Deletes \ {c} /\ \A o \in Deletes' : req'[o] = req[o]
    BY <1>9, EndTyped DEF DeleteDocset, Deletes, Idle
  <2>3. CASE UNCHANGED <<docsets, lost>> BY <1>3, <1>9, <2>3 DEF DeleteDocset
  <2>4. CASE i \notin Sets(docsets) /\ lost' = lost + 1 /\ UNCHANGED docsets
    <3>1. docsets[i] = Gone BY <2>1, <2>4 DEF Sets
    <3>2. c \in Late /\ Late' \subseteq Late \ {c} /\ Deleted' = Deleted
      BY <2>1, <2>2, <2>4, <3>1 DEF Late, Deleted
    <3>3. lost' + Cardinality(Late)' =< (Cardinality(Clients) - 1) * Cardinality(Deleted)'
      BY <1>0, <2>4, <3>2, LateEnds
    <3>4. QED BY <1>2, <2>1, <2>2, <2>4, <3>3 DEF Charged
  <2>5. CASE i \in Sets(docsets) /\ docsets' = [docsets EXCEPT ![i] = Gone] /\ UNCHANGED lost
    <3>1. i \in Ids \ Deleted BY <2>1, <2>5, DocsetsAssumption DEF Sets, Deleted
    <3>2. Deleted' = Deleted \cup {i} BY <2>1, <2>5 DEF Deleted, TypeOK
    <3>3. c \notin Late' BY <2>2 DEF Late
    <3>4. lost' + Cardinality(Late)' =< (Cardinality(Clients) - 1) * Cardinality(Deleted)'
      BY <1>0, <2>5, <3>1, <3>2, <3>3, OthersGetLate
    <3>5. \A o \in Deletes' : req'[o].id \in Ids /\ docsets'[req'[o].id] \in Names \cup {Gone}
      BY <2>2, <2>5 DEF Charged, TypeOK
    <3>6. QED BY <2>1, <3>4, <3>5 DEF Charged
  <2>6. QED BY <1>9, <2>3, <2>4, <2>5 DEF DeleteDocset
<1>10. ASSUME NEW c \in Clients, NEW name \in Names, CreateDocset(c, name) PROVE Charged'
  <2>1. PICK i \in Ids : docsets[i] = None /\ docsets' = [docsets EXCEPT ![i] = name]
    BY <1>10 DEF CreateDocset
  <2>2. UNCHANGED <<req, lost, server>> /\ Deletes' = Deletes BY <1>10 DEF CreateDocset, Deletes
  <2>3. Deleted' = Deleted BY <2>1, DocsetsAssumption DEF Deleted, TypeOK
  <2>4. \A o \in Deletes : req[o].id # i BY <2>1, DocsetsAssumption DEF Charged
  <2>5. \A o \in Deletes : docsets'[req[o].id] = docsets[req[o].id] BY <1>2, <2>1, <2>4 DEF TypeOK
  <2>6. Late' = Late BY <2>2, <2>5 DEF Late
  <2>7. lost' + Cardinality(Late)' =< (Cardinality(Clients) - 1) * Cardinality(Deleted)'
    BY <1>0, <2>2, <2>3, <2>6, NoneGetsLate
  <2>8. QED BY <2>2, <2>5, <2>7 DEF Charged
<1>11. ASSUME lost' = 0, \A c \in Clients : req'[c].at = "idle" PROVE Charged'
  <2>1. Deletes' = {} /\ Late' = {} BY <1>11 DEF Deletes, Late
  <2>2. Cardinality(Late)' = 0 BY <2>1, FS_EmptySet
  <2>3. Deleted' \in SUBSET Ids BY DEF Deleted
  <2>4. IsFiniteSet(Deleted') BY <2>3, FS_Subset, DocsetsAssumption
  <2>5. Cardinality(Deleted)' \in Nat BY <2>4, FS_CardinalityType
  <2>6. Cardinality(Clients) \in Nat \ {0} BY Counts
  <2>7. (Cardinality(Clients) - 1) * Cardinality(Deleted)' \in Nat BY <2>5, <2>6
  <2>8. lost' + Cardinality(Late)' =< (Cardinality(Clients) - 1) * Cardinality(Deleted)'
    BY <1>11, <2>2, <2>7
  <2>9. QED BY <1>11, <2>1, <2>8 DEF Charged
<1>12. ASSUME Stop PROVE Charged' BY <1>11, <1>12 DEF Stop, Idle
<1>13. ASSUME Migrate PROVE Charged'
  <2>1. server # "up" /\ UNCHANGED <<lost, req>> BY <1>13 DEF Migrate
  <2>2. lost' = 0 /\ \A c \in Clients : req'[c].at = "idle" BY <2>1 DEF Charged, RequestsFit
  <2>3. QED BY <1>11, <2>2
<1>14. ASSUME NEW c \in Clients, InsertMember(c) PROVE Charged' BY <1>3, <1>14 DEF InsertMember
<1>15. ASSUME NEW c \in Clients, NEW name \in Names, MissDocset(c, name) PROVE Charged'
  <2>1. lost' = lost BY <1>15 DEF MissDocset, StillOpen, TypeOK
  <2>2. QED BY <1>4, <1>15, <2>1 DEF MissDocset, tables
<1>16. QED
  BY <1>4, <1>5, <1>6, <1>7, <1>8, <1>9, <1>10, <1>12, <1>13, <1>14, <1>15
  DEF Next, Serve, RemoveDocsetMember, DeleteDocument, PutDocument, Collect, Backfill, vars

-----------------------------------------------------------------------------
(* Starts *)

\* No two documents are the import of one path.
LEMMA StepKeepsImports ==
    ASSUME TypeOK, ReferencesHold, OneImport, [Next]_vars
    PROVE  OneImport'
<1>1. ASSUME NEW r \in Refs, NEW content \in Contents, PutDocument(r, content) PROVE OneImport'
  <2>1. PICK d \in Docs :
        /\ docs' = [docs EXCEPT ![d] = [content |-> content,
                legacy |-> IF binding[r] = None THEN None ELSE docs[d].legacy]]
        /\ binding[r] = None \/ d \in Live(docs)
    BY <1>1 DEF PutDocument, TypeOK, ReferencesHold
  <2>2. docs'[d].legacy = None \/ (d \in Live(docs) /\ docs'[d].legacy = docs[d].legacy)
    BY <2>1 DEF TypeOK
  <2>3. \A e \in Docs \ {d} : docs'[e] = docs[e] BY <2>1 DEF TypeOK
  <2>4. QED BY <2>2, <2>3 DEF OneImport, Live
<1>2. ASSUME NEW orphans \in SUBSET Docs, Collect(orphans) PROVE OneImport'
  <2>1. \A d \in Live(docs') : d \in Live(docs) /\ docs'[d] = docs[d] BY <1>2 DEF Collect, Live
  <2>2. QED BY <2>1 DEF OneImport
<1>3. ASSUME Backfill PROVE OneImport'
  <2>1. PICK new \in [Missing -> {d \in Docs : docs[d] = None}] :
        /\ \A p, q \in Missing : new[p] = new[q] => p = q
        /\ docs' = BackfilledDocs(new)
    BY <1>3 DEF Backfill
  <2>2. ASSUME NEW d \in Live(docs'), NEW p \in LegacyFiles, docs'[d].legacy = p
        PROVE  d = Import(new, p)
    <3>1. ASSUME NEW q \in LegacyFiles, d = Import(new, q) PROVE d = Import(new, p)
      <4>1. docs'[d] = [content |-> LegacyContent[q], legacy |-> q] BY <2>1, <3>1, BackfilledDocsFacts
      <4>2. QED BY <2>2, <3>1, <4>1
    <3>2. CASE \A q \in LegacyFiles : d # Import(new, q)
      <4>1. d \in Docs /\ docs'[d] = docs[d] BY <2>1, <3>2, BackfilledDocsFacts DEF Live
      <4>2. d \in Imported(p) BY <2>2, <4>1 DEF Imported, Live
      <4>3. Import(new, p) \in Imported(p) BY <2>1, <4>2, ImportFacts DEF Missing
      <4>4. p # None BY DocsetsAssumption DEF LegacyFiles
      <4>5. QED BY <4>2, <4>3, <4>4 DEF OneImport, Imported
    <3>3. QED BY <3>1, <3>2
  <2>3. ASSUME NEW d \in Live(docs'), docs'[d].legacy \notin LegacyFiles
        PROVE  d \in Live(docs) /\ docs'[d] = docs[d]
    <3>1. ASSUME NEW q \in LegacyFiles, d = Import(new, q) PROVE FALSE
      <4>1. docs'[d] = [content |-> LegacyContent[q], legacy |-> q] BY <2>1, <3>1, BackfilledDocsFacts
      <4>2. QED BY <2>3, <4>1
    <3>2. QED BY <2>1, <3>1, BackfilledDocsFacts DEF Live
  <2>4. QED BY <2>2, <2>3 DEF OneImport
<1>4. ASSUME UNCHANGED docs PROVE OneImport'
  BY <1>4 DEF OneImport
<1>5. QED
  BY <1>1, <1>2, <1>3, <1>4
  DEF Next, Serve, CreateDocset, FindDocset, FindSource, InsertMember, RemoveDocsetMember, ChooseDocset,
      MissDocset, DeleteMembers, DeleteDocset, DeleteDocument, Stop, Migrate, Reads, tables, vars

\* The members of the older version stay unless a request removes one.
LEMMA StepKeepsOldMembers ==
    ASSUME TypeOK, RequestsFit, OldMembersStay, [Next]_vars
    PROVE  OldMembersStay'
<1>1. ASSUME NEW c \in Clients, InsertMember(c) PROVE OldMembersStay'
  BY <1>1 DEF InsertMember, Free, OldMembersStay
<1>2. ASSUME NEW c \in Clients, NEW name \in Names, NEW path \in Spots,
             RemoveDocsetMember(c, name, path)
      PROVE  OldMembersStay'
  BY <1>2 DEF RemoveDocsetMember, Free, OldMembersStay
<1>3. ASSUME NEW c \in Clients, DeleteDocset(c) PROVE OldMembersStay'
  <2>1. CASE UNCHANGED <<members, trimmed>> BY <1>3, <2>1 DEF DeleteDocset, OldMembersStay
  <2>2. CASE /\ members' = members \ req[c].gone
             /\ trimmed' = (trimmed \/ \E s \in OldSets : s.id = req[c].id)
    <3>1. \A m \in req[c].gone : m.set = req[c].id BY <1>3 DEF DeleteDocset, RequestsFit
    <3>2. ~trimmed' => \A m \in OldMembers : m.set # req[c].id BY <2>2, DocsetsAssumption
    <3>3. QED BY <1>3, <2>2, <3>1, <3>2 DEF DeleteDocset, OldMembersStay
  <2>3. QED BY <1>3, <2>1, <2>2 DEF DeleteDocset, history
<1>4. ASSUME Migrate PROVE OldMembersStay'
  <2>1. CASE server = "new"
    <3>1. NewMembers = OldMembers BY <2>1 DEF OldMembersStay, NewMembers
    <3>2. QED BY <1>4, <3>1 DEF Migrate, OldMembersStay
  <2>2. CASE server # "new" BY <1>4, <2>2 DEF Migrate, OldMembersStay, history
  <2>3. QED BY <2>1, <2>2
<1>5. ASSUME Stop PROVE OldMembersStay'
  BY <1>5 DEF Stop, tables, history, OldMembersStay
<1>6. ASSUME Backfill PROVE OldMembersStay'
  BY <1>6 DEF Backfill, OldMembersStay
<1>7. ASSUME UNCHANGED <<members, server, trimmed>> PROVE OldMembersStay'
  BY <1>7 DEF OldMembersStay
<1>8. QED
  BY <1>1, <1>2, <1>3, <1>4, <1>5, <1>6, <1>7
  DEF Next, Serve, CreateDocset, FindDocset, FindSource, ChooseDocset, MissDocset, DeleteMembers,
      DeleteDocument, PutDocument, Collect, Reads, tables, history, vars

\* As long as nothing is written after a start, another one has nothing to do.
LEMMA StepKeepsSettled ==
    ASSUME TypeOK, RequestsFit, ReferencesHold, OneImport, Settled, [Next]_vars
    PROVE  Settled'
<1>1. ASSUME Migrate PROVE Settled'
  BY <1>1, CopyIsIdempotent DEF Migrate, history, Settled, Imports
<1>2. ASSUME Backfill PROVE Settled'
  <2>1. PICK new \in [Missing -> {d \in Docs : docs[d] = None}] :
        /\ \A p, q \in Missing : new[p] = new[q] => p = q
        /\ docs' = BackfilledDocs(new) /\ binding' = BackfilledPaths(new)
    BY <1>2 DEF Backfill
  <2>2. ASSUME NEW p \in LegacyFiles
        PROVE  \E d \in Docs : /\ docs'[d] = [content |-> LegacyContent[p], legacy |-> p]
                               /\ \A r \in LegacyRefs[p] : binding'[r] = d
    <3>1. Import(new, p) \in Docs BY <2>1, ImportFacts
    <3>2. docs'[Import(new, p)] = [content |-> LegacyContent[p], legacy |-> p]
      BY <2>1, BackfilledDocsFacts
    <3>3. \A r \in LegacyRefs[p] : binding'[r] = Import(new, p) BY <2>1, BackfilledPathsFacts
    <3>4. QED BY <3>1, <3>2, <3>3
  <2>3. Imports' BY <2>2 DEF Imports
  <2>4. Copied' BY <1>2 DEF Backfill, Settled, Copied, CopiedSets, NewMembers, Sets, IdOf
  <2>5. QED BY <2>3, <2>4 DEF Settled
<1>3. ASSUME Stop PROVE Settled'
  BY <1>3 DEF Stop, tables, history, Settled, Copied, CopiedSets, NewMembers, Sets, IdOf, Imports
<1>4. ASSUME touched', server' # "migrated" \/ UNCHANGED <<server, docsets, members>> PROVE Settled'
  BY <1>4 DEF Settled, Copied, CopiedSets, NewMembers, Sets, IdOf
<1>5. ASSUME UNCHANGED <<tables, server, touched>> PROVE Settled'
  BY <1>5 DEF tables, Settled, Copied, CopiedSets, NewMembers, Sets, IdOf, Imports
<1>6. ASSUME NEW c \in Clients, Serve(c) PROVE Settled'
  <2>1. (touched' /\ server' # "migrated") \/ UNCHANGED <<tables, server, touched>>
        \/ UNCHANGED <<docs, binding, docsets, members, server, touched>> \/ DeleteDocset(c)
    BY <1>6 DEF Serve, CreateDocset, FindDocset, FindSource, InsertMember, RemoveDocsetMember, ChooseDocset,
                MissDocset, DeleteMembers, Reads, Free, tables, history
  <2>2. CASE DeleteDocset(c)
    <3>1. CASE UNCHANGED <<docsets, members, touched>> BY <1>5, <2>2, <3>1 DEF DeleteDocset, tables
    <3>2. CASE touched'
      <4>1. server = "up" BY <2>2 DEF DeleteDocset, RequestsFit
      <4>2. QED BY <1>4, <2>2, <3>2, <4>1 DEF DeleteDocset
    <3>3. QED BY <2>2, <3>1, <3>2 DEF DeleteDocset, history
  <2>3. QED BY <1>4, <1>5, <2>1, <2>2 DEF tables
<1>7. QED
  BY <1>1, <1>2, <1>3, <1>4, <1>5, <1>6
  DEF Next, DeleteDocument, PutDocument, Collect, Free, tables, vars

-----------------------------------------------------------------------------
(* Theorems *)

\* The invariant holds at the start.
LEMMA InvInit == Init => Inv
<1> SUFFICES ASSUME Init PROVE Inv OBVIOUS
<1>1. TypeOK
  <2>1. docs \in [Docs -> Documents \cup {None, Gone}] BY DEF Init, Documents
  <2>2. Idle \in Requests BY DEF Idle, Requests
  <2>3. QED BY <2>1, <2>2 DEF Init, TypeOK
<1>2. ReferencesHold /\ OldMembersStay /\ RequestsFit /\ Settled
  BY DEF Init, Idle, ReferencesHold, OldMembersStay, RequestsFit, Settled
<1>3. \A d \in Live(docs) : docs[d].legacy = None BY DEF Init, Live
<1>4. Charged
  <2>1. Deletes = {} /\ Late = {} BY DEF Init, Idle, Deletes, Late
  <2>2. Cardinality(Late) = 0 BY <2>1, FS_EmptySet
  <2>3. Deleted = {} BY DocsetsAssumption DEF Init, Deleted
  <2>4. Cardinality(Deleted) = 0 BY <2>3, FS_EmptySet
  <2>5. (Cardinality(Clients) - 1) * 0 = 0 BY <1>1, Counts
  <2>6. QED BY <2>1, <2>2, <2>4, <2>5 DEF Init, Charged
<1>5. QED BY <1>1, <1>2, <1>3, <1>4 DEF OneImport, Inv

\* Every step keeps it.
LEMMA InvNext == Inv /\ [Next]_vars => Inv'
BY StepTyped, StepKeepsReferences, StepKeepsCharge, StepKeepsImports, StepKeepsOldMembers,
   StepKeepsSettled DEF Inv

\* All conjuncts of the invariant hold in every state.
THEOREM DocsetsInvariant == Spec => []Inv
<1>1. Init => Inv BY InvInit
<1>2. Inv /\ [Next]_vars => Inv' BY InvNext
<1>3. QED BY <1>1, <1>2, PTL DEF Spec

\* Variables keep their types, whatever requests, the collector and restarts do.
THEOREM DocsetsTyped == Spec => []TypeOK
<1>1. Inv => TypeOK BY DEF Inv
<1>2. QED BY <1>1, DocsetsInvariant, PTL

\* No path and no member of a docset outlives its document, and no member its docset.
THEOREM DocsetReferencesHold == Spec => []ReferencesHold
<1>1. Inv => ReferencesHold BY DEF Inv
<1>2. QED BY <1>1, DocsetsInvariant, PTL

\* Each deleted docset costs at most one connection for each of the other requests,
\* for any number of clients, docsets and connections.
THEOREM DeletedDocsetsBoundTheLeak == Spec => []LeaksAreBounded
<1>1. Inv => LeaksAreBounded
  <2> SUFFICES ASSUME Inv PROVE LeaksAreBounded OBVIOUS
  <2> DEFINE bound == (Cardinality(Clients) - 1) * Cardinality(Deleted)
  <2>1. lost \in Nat /\ Cardinality(Late) \in Nat /\ bound \in Nat BY Counts DEF Inv, TypeOK
  <2>2. lost + Cardinality(Late) =< bound BY DEF Inv, Charged
  <2> HIDE DEF bound
  <2>3. lost =< bound BY <2>1, <2>2
  <2>4. QED BY <2>3 DEF bound, LeaksAreBounded, Deleted
<1>2. QED BY <1>1, DocsetsInvariant, PTL

\* A server that was started can start again unless old docsets or members went.
THEOREM ServerStartsAgain == Spec => []StartsAgain
<1>1. Inv => StartsAgain
  <2> SUFFICES ASSUME Inv, server = "down", ~trimmed PROVE Migrates BY DEF StartsAgain
  <2>1. OldMembers \subseteq members BY DEF Inv, OldMembersStay
  <2>2. NewMembers = {} BY <2>1 DEF NewMembers
  <2>3. QED BY <2>2 DEF Migrates
<1>2. QED BY <1>1, DocsetsInvariant, PTL

\* A second start in a row changes nothing in the tables.
THEOREM StartsSettle == Spec => BackfillSettles
<1>1. Inv /\ [Next]_vars => [(Migrate \/ Backfill) /\ ~touched => UNCHANGED tables]_vars
  <2> SUFFICES ASSUME Inv, Migrate \/ Backfill, ~touched PROVE UNCHANGED tables OBVIOUS
  <2>1. Copied /\ Imports BY DEF Inv, Settled
  <2>2. CASE Migrate BY <2>1, <2>2 DEF Migrate, Copied, tables
  <2>3. CASE Backfill
    <3>1. PICK new \in [Missing -> {d \in Docs : docs[d] = None}] :
          /\ \A p, q \in Missing : new[p] = new[q] => p = q
          /\ docs' = BackfilledDocs(new) /\ binding' = BackfilledPaths(new)
      BY <2>3 DEF Backfill
    <3>2. TypeOK /\ OneImport BY DEF Inv
    <3>3. ASSUME NEW p \in LegacyFiles
          PROVE  /\ docs[Import(new, p)] = [content |-> LegacyContent[p], legacy |-> p]
                 /\ \A r \in LegacyRefs[p] : binding[r] = Import(new, p)
      <4>1. PICK d \in Docs : /\ docs[d] = [content |-> LegacyContent[p], legacy |-> p]
                              /\ \A r \in LegacyRefs[p] : binding[r] = d
        BY <2>1 DEF Imports
      <4>2. docs[d] \in Documents BY <4>1, DocsetsAssumption DEF LegacyFiles, Documents
      <4>3. d \in Imported(p) BY <4>1, <4>2, DocsetsAssumption DEF Imported, Live
      <4>4. Import(new, p) \in Imported(p) BY <3>1, <3>2, <4>3, ImportFacts DEF Missing
      <4>5. p # None BY DocsetsAssumption DEF LegacyFiles
      <4>6. Import(new, p) = d BY <3>2, <4>3, <4>4, <4>5 DEF OneImport, Imported
      <4>7. QED BY <4>1, <4>6
    <3>4. ASSUME NEW d \in Docs PROVE docs'[d] = docs[d]
      <4>1. ASSUME NEW p \in LegacyFiles, d = Import(new, p) PROVE docs'[d] = docs[d]
        <5>1. docs'[d] = [content |-> LegacyContent[p], legacy |-> p]
          BY <3>1, <3>2, <4>1, BackfilledDocsFacts
        <5>2. QED BY <3>3, <4>1, <5>1
      <4>2. QED BY <3>1, <3>2, <4>1, BackfilledDocsFacts
    <3>5. ASSUME NEW r \in Refs PROVE binding'[r] = binding[r]
      <4>1. ASSUME NEW p \in LegacyFiles, r \in LegacyRefs[p] PROVE binding'[r] = binding[r]
        <5>1. binding'[r] = Import(new, p) BY <3>1, <3>2, <4>1, BackfilledPathsFacts
        <5>2. binding[r] = Import(new, p) BY <3>3, <4>1
        <5>3. QED BY <5>1, <5>2
      <4>2. QED BY <3>1, <3>2, <4>1, BackfilledPathsFacts
    <3>6. docs' \in [Docs -> Documents \cup {None, Gone}] /\ binding' \in [Refs -> Docs \cup {None}]
      BY <3>1, <3>2, BackfilledDocsFacts, BackfilledPathsFacts
    <3>7. docs' = docs /\ binding' = binding BY <3>2, <3>4, <3>5, <3>6 DEF TypeOK
    <3>8. QED BY <2>3, <3>7 DEF Backfill, tables
  <2>4. QED BY <2>2, <2>3
<1>2. QED BY <1>1, DocsetsInvariant, PTL DEF Spec, BackfillSettles

\* What the older tables do not name is as it was when the server stopped.
THEOREM StartsLeaveTheRest == Spec => StartsKeepTheRest
<1> DEFINE Kept ==
    /\ \A d \in Live(docs) : docs[d].legacy = None => docs'[d] = docs[d]
    /\ \A r \in Refs : (\A p \in LegacyFiles : r \notin LegacyRefs[p]) => binding'[r] = binding[r]
    /\ \A i \in Sets(docsets) : docsets'[i] = docsets[i]
    /\ members \subseteq members' /\ members' \subseteq members \cup OldMembers
<1>1. Inv /\ [Next]_vars => [Migrate \/ Backfill => Kept]_vars
  <2> SUFFICES ASSUME Inv, Migrate \/ Backfill PROVE Kept OBVIOUS
  <2>1. TypeOK BY DEF Inv
  <2>2. CASE Migrate BY <2>1, <2>2, CopyKeeps DEF Migrate, NewMembers, Live
  <2>3. CASE Backfill
    <3>1. PICK new \in [Missing -> {d \in Docs : docs[d] = None}] :
          /\ \A p, q \in Missing : new[p] = new[q] => p = q
          /\ docs' = BackfilledDocs(new) /\ binding' = BackfilledPaths(new)
      BY <2>3 DEF Backfill
    <3>2. ASSUME NEW d \in Live(docs), docs[d].legacy = None PROVE docs'[d] = docs[d]
      <4>1. ASSUME NEW p \in LegacyFiles, d = Import(new, p) PROVE FALSE
        <5>1. p # None BY DocsetsAssumption DEF LegacyFiles
        <5>2. p \notin Missing BY <2>1, <3>1, <4>1, ImportFacts DEF Live
        <5>3. Import(new, p) \in Imported(p) BY <2>1, <3>1, <5>2, ImportFacts
        <5>4. QED BY <3>2, <4>1, <5>1, <5>3 DEF Imported
      <4>2. QED BY <2>1, <3>1, <4>1, BackfilledDocsFacts DEF Live
    <3>3. \A r \in Refs : (\A p \in LegacyFiles : r \notin LegacyRefs[p]) => binding'[r] = binding[r]
      BY <2>1, <3>1, BackfilledPathsFacts
    <3>4. QED BY <2>3, <3>2, <3>3 DEF Backfill
  <2>4. QED BY <2>2, <2>3
<1>2. QED BY <1>1, DocsetsInvariant, PTL DEF Spec, StartsKeepTheRest
=============================================================================
