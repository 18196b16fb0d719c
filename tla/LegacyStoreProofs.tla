-------------------------- MODULE LegacyStoreProofs --------------------------
(***************************************************************************)
(* Proofs about LegacyStore, for every set of paths, repositories and      *)
(* clients.  First its tables: a hash is that of the stored content.  What *)
(* trees hold plays no part in that.  Then the cached trees, which agree   *)
(* with the tables.                                                        *)
(*                                                                         *)
(* Cat hands in a hash that it has computed from a content read earlier.   *)
(* It is filled in only where there is none, and no write leaves a content *)
(* without one, so that a content without a hash has not changed since the *)
(* migration, and is what Cat has read (Offered).                          *)
(***************************************************************************)
EXTENDS LegacyStore, TLAPS

-----------------------------------------------------------------------------
(* The tables *)

\* A request has its fields, whatever they hold, and a path while it runs.
Fields(q) ==
    /\ q \in [at : {q.at}, op : {q.op}, repo : {q.repo}, path : {q.path}, content : {q.content},
              edit : {q.edit}, tree : {q.tree}, paths : {q.paths}, orphans : {q.orphans}]
    /\ q.at # "idle" => q.path \in Paths

\* A request that has read a content, which has no hash yet, has read what is stored.
Offered(q) == q.at \in {"loaded", "hash"} /\ stored[q.path] # None /\ hash[q.path] = None
    => q.content = stored[q.path]

Tables ==
    /\ stored = [p \in Paths |-> stored[p]]
    /\ hash = [p \in Paths |-> hash[p]]
    /\ bound \in [Repos -> SUBSET Paths]

Hashed == \A p \in Paths : hash[p] # None => hash[p] = stored[p]

Requests ==
    /\ req = [c \in Clients |-> req[c]]
    /\ \A c \in Clients : Fields(req[c]) /\ Offered(req[c])

LegacyInv == Tables /\ Hashed /\ Requests

-----------------------------------------------------------------------------
(* Kinds of steps *)

\* An idle request has nothing to rely on.
LEMMA IdleKept == Fields(Idle) /\ Offered(Idle)
BY DEF Fields, Offered, Idle

\* A request goes on, and the tables stay as they are.
LEMMA RequestStep ==
    ASSUME LegacyInv, NEW c \in Clients, NEW q, Fields(q), Offered(q),
           req' = [req EXCEPT ![c] = q], UNCHANGED <<stored, hash, bound>>
    PROVE  LegacyInv'
<1>1. ASSUME NEW o \in Clients PROVE (Fields(req[o]) /\ Offered(req[o]))'
  <2>1. req'[o] = IF o = c THEN q ELSE req[o]
    BY DEF LegacyInv, Requests
  <2>2. Fields(req[o]) /\ Offered(req[o])
    BY DEF LegacyInv, Requests
  <2>3. ASSUME NEW x, Fields(x), Offered(x), req'[o] = x
        PROVE  Fields(req'[o]) /\ Offered(req[o])'
    <3>1. Fields(req'[o])
      BY <2>3
    <3>2. Offered(req[o])'
      BY <2>3 DEF Offered
    <3> QED
      BY <3>1, <3>2
  <2>4. Fields(req'[o]) /\ Offered(req[o])'
    BY <2>1, <2>2, <2>3
  <2> QED
    BY <2>4 DEF Fields
<1>2. req' = [o \in Clients |-> req'[o]]
  BY DEF LegacyInv, Requests
<1> QED
  BY <1>1, <1>2 DEF LegacyInv, Tables, Hashed, Requests

\* A request takes a step at which nothing is known of it.
LEMMA FreeStep ==
    ASSUME LegacyInv, NEW c \in Clients, NEW q, req' = [req EXCEPT ![c] = q], Fields(q),
           q.at \notin {"loaded", "hash", "commit"}, UNCHANGED <<stored, hash, bound>>
    PROVE  LegacyInv'
<1>1. Offered(q)
  BY DEF Offered
<1> QED
  BY <1>1, RequestStep

\* A request ends, and the tables stay as they are.
LEMMA EndStep ==
    ASSUME LegacyInv, NEW c \in Clients, End(c), UNCHANGED <<stored, hash, bound>>
    PROVE  LegacyInv'
BY IdleKept, RequestStep DEF End

\* A request goes on without a change to its fields.
LEMMA GoStep ==
    ASSUME LegacyInv, NEW c \in Clients, NEW step, Go(c, step), req[c].at # "idle",
           step \notin {"loaded", "hash", "commit"}, UNCHANGED <<stored, hash, bound>>
    PROVE  LegacyInv'
<1>1. Fields([req[c] EXCEPT !.at = step])
  BY DEF LegacyInv, Requests, Fields
<1>2. [req[c] EXCEPT !.at = step].at = step
  BY DEF LegacyInv, Requests, Fields
<1>3. req' = [req EXCEPT ![c] = [req[c] EXCEPT !.at = step]]
  BY DEF Go, LegacyInv, Requests
<1> QED
  BY <1>1, <1>2, <1>3, FreeStep

\* A step that writes a content without a hash nowhere: what others have read is
\* stored still where it has no hash.
LEMMA WriteStep ==
    ASSUME LegacyInv, Tables', Hashed', NEW c \in Clients, NEW q, Fields(q),
           q.at \notin {"loaded", "hash", "commit"}, req' = [req EXCEPT ![c] = q],
           \A p \in Paths : stored'[p] # None /\ hash'[p] = None
                => stored'[p] = stored[p] /\ hash[p] = None
    PROVE  LegacyInv'
<1>1. ASSUME NEW o \in Clients PROVE (Fields(req[o]) /\ Offered(req[o]))'
  <2>1. CASE o = c
    BY <2>1 DEF LegacyInv, Requests, Fields, Offered
  <2>2. CASE o # c
    <3>1. req'[o] = req[o]
      BY <2>2 DEF LegacyInv, Requests
    <3>2. Fields(req[o]) /\ Offered(req[o])
      BY DEF LegacyInv, Requests
    <3>3. req[o].at \in {"loaded", "hash"} => req[o].path \in Paths
      BY <3>2 DEF Fields
    <3>4. Offered(req[o])'
      BY <3>1, <3>2, <3>3 DEF Offered
    <3> QED
      BY <3>1, <3>2, <3>4 DEF Fields
  <2> QED
    BY <2>1, <2>2
<1>2. req' = [o \in Clients |-> req'[o]]
  BY DEF LegacyInv, Requests
<1> QED
  BY <1>1, <1>2 DEF LegacyInv, Requests

-----------------------------------------------------------------------------
(* Steps of requests *)

\* A request begins.
LEMMA ArriveStep == ASSUME LegacyInv, NEW c \in Clients, Arrive(c) PROVE LegacyInv'
<1>1. ASSUME NEW op, NEW r, NEW p \in Paths, NEW content, NEW edit, Begin(c, op, r, p, content, edit)
      PROVE  LegacyInv'
  <2> DEFINE q == [Idle EXCEPT !.at = "tree", !.op = op, !.repo = r,
                     !.path = p, !.content = content, !.edit = edit]
  <2>1. Fields(q) /\ q.at = "tree"
    BY DEF Fields, Idle
  <2>2. req' = [req EXCEPT ![c] = q] /\ UNCHANGED <<stored, hash, bound>>
    BY <1>1 DEF Begin, db
  <2> QED
    BY <2>1, <2>2, FreeStep
<1> QED
  BY <1>1 DEF Arrive

\* A request gets its tree.
LEMMA TreeStep ==
    ASSUME LegacyInv, NEW c \in Clients, UseTree(c) \/ LoadNewTree(c) PROVE LegacyInv'
<1>1. PICK t : /\ req' = [req EXCEPT ![c].tree = t, ![c].at = AfterTree(req[c].op)]
               /\ req[c].at = "tree" /\ UNCHANGED <<stored, hash, bound>>
  BY DEF UseTree, LoadNewTree, db
<1> DEFINE q == [req[c] EXCEPT !.tree = t, !.at = AfterTree(req[c].op)]
<1>2. Fields(req[c]) /\ req = [o \in Clients |-> req[o]]
  BY DEF LegacyInv, Requests
<1>3. AfterTree(req[c].op) \in {"write", "collect", "content"}
  BY DEF AfterTree
<1>4. Fields(q) /\ q.at = AfterTree(req[c].op)
  BY <1>1, <1>2 DEF Fields
<1>5. req' = [req EXCEPT ![c] = q]
  BY <1>1, <1>2 DEF Fields
<1> QED
  BY <1>1, <1>3, <1>4, <1>5, FreeStep

\* A request looks for its content, and loads it.
LEMMA ContentStep ==
    ASSUME LegacyInv, NEW c \in Clients, FindContent(c) \/ LoadContent(c) PROVE LegacyInv'
<1>1. UNCHANGED <<stored, hash, bound>> /\ req[c].at # "idle"
  BY DEF FindContent, LoadContent, db
<1>2. CASE FindContent(c)
  BY <1>1, <1>2, GoStep DEF FindContent
<1>3. CASE LoadContent(c)
  <2>1. CASE Go(c, "ready")
    BY <1>1, <2>1, GoStep
  <2>2. CASE End(c)
    BY <1>1, <2>2, EndStep
  <2>3. CASE req' = [req EXCEPT ![c].content = stored[req[c].path], ![c].at = "loaded"]
    <3> DEFINE q == [req[c] EXCEPT !.content = stored[req[c].path], !.at = "loaded"]
    <3>1. Fields(req[c]) /\ req = [o \in Clients |-> req[o]]
      BY DEF LegacyInv, Requests
    <3>2. Fields(q) /\ q.at = "loaded" /\ q.content = stored[req[c].path] /\ q.path = req[c].path
      BY <1>1, <3>1 DEF Fields
    <3>3. Offered(q)
      BY <3>2 DEF Offered
    <3>4. req' = [req EXCEPT ![c] = q]
      BY <2>3, <3>1 DEF Fields
    <3> QED
      BY <1>1, <3>2, <3>3, <3>4, RequestStep
  <2> QED
    BY <1>3, <2>1, <2>2, <2>3 DEF LoadContent
<1> QED
  BY <1>2, <1>3

\* A content is set in a tree; its hash is offered next.
LEMMA SetContentStep ==
    ASSUME LegacyInv, NEW c \in Clients, SetContent(c) PROVE LegacyInv'
<1> DEFINE q == [req[c] EXCEPT !.at = "hash"]
<1>1. /\ req[c].at = "loaded" /\ UNCHANGED <<stored, hash, bound>>
      /\ Fields(req[c]) /\ Offered(req[c]) /\ req = [o \in Clients |-> req[o]]
  BY DEF SetContent, db, LegacyInv, Requests
<1>2. Fields(q) /\ q.at = "hash" /\ q.content = req[c].content /\ q.path = req[c].path
  BY <1>1 DEF Fields
<1>3. Offered(q)
  BY <1>1, <1>2 DEF Offered
<1>4. req' = [req EXCEPT ![c] = q]
  BY <1>1 DEF SetContent, Go
<1> QED
  BY <1>1, <1>2, <1>3, <1>4, RequestStep

\* A hash is filled in: where there was none, the content is the one it is of.
LEMMA BackfillHashStep ==
    ASSUME LegacyInv, NEW c \in Clients, BackfillHash(c) PROVE LegacyInv'
<1> DEFINE q == [req[c] EXCEPT !.at = "ready"]
           p == req[c].path
<1>1. /\ req[c].at = "hash" /\ UNCHANGED <<stored, bound>>
      /\ Fields(req[c]) /\ Offered(req[c]) /\ req = [o \in Clients |-> req[o]]
      /\ Tables /\ Hashed
  BY DEF BackfillHash, db, LegacyInv, Requests
<1>2. Fields(q) /\ q.at = "ready" /\ p \in Paths
  BY <1>1 DEF Fields
<1>3. req' = [req EXCEPT ![c] = q]
  BY <1>1 DEF BackfillHash, Go
<1>4. \/ hash' = hash
      \/ hash' = [hash EXCEPT ![p] = IF stored[p] # None /\ @ = None THEN req[c].content ELSE @]
  BY DEF BackfillHash, HashFilled
<1>5. stored[p] # None /\ hash[p] = None => req[c].content = stored[p]
  BY <1>1 DEF Offered
<1> HIDE DEF q, p
<1>6. Tables'
  BY <1>1, <1>2, <1>4 DEF Tables
<1>7. ASSUME NEW x \in Paths PROVE hash'[x] = hash[x] \/ (hash[x] = None /\ hash'[x] = stored[x])
  <2>1. CASE hash' = hash
    BY <2>1
  <2>2. CASE hash' = [hash EXCEPT ![p] = IF stored[p] # None /\ @ = None THEN req[c].content ELSE @]
    <3>1. hash'[x] = IF x = p /\ stored[p] # None /\ hash[p] = None THEN req[c].content ELSE hash[x]
      BY <1>1, <2>2 DEF Tables
    <3> QED
      BY <1>5, <3>1
  <2> QED
    BY <1>4, <2>1, <2>2
<1>8. Hashed'
  BY <1>1, <1>7 DEF Hashed
<1> QED
  BY <1>1, <1>2, <1>3, <1>6, <1>7, <1>8, WriteStep

\* A read ends; an Edit changes its tree, or finds nothing to replace.
LEMMA ReadyStep ==
    ASSUME LegacyInv, NEW c \in Clients, Cat(c) \/ EditTree(c) PROVE LegacyInv'
<1>1. UNCHANGED <<stored, hash, bound>> /\ req[c].at = "ready"
  BY DEF Cat, EditTree, db
<1>2. CASE End(c)
  BY <1>1, <1>2, EndStep
<1>3. CASE req' = [req EXCEPT ![c].content = Edited(c), ![c].at = "write"]
  <2> DEFINE q == [req[c] EXCEPT !.content = Edited(c), !.at = "write"]
  <2>1. Fields(req[c]) /\ req = [o \in Clients |-> req[o]]
    BY DEF LegacyInv, Requests
  <2>2. Fields(q) /\ q.at = "write"
    BY <1>1, <2>1 DEF Fields
  <2>3. req' = [req EXCEPT ![c] = q]
    BY <1>3, <2>1 DEF Fields
  <2> QED
    BY <1>1, <2>2, <2>3, FreeStep
<1> QED
  BY <1>2, <1>3 DEF Cat, EditTree

\* Put and Edit write a content together with its hash.
LEMMA WriteBackPutStep ==
    ASSUME LegacyInv, NEW c \in Clients, WriteBackPut(c) PROVE LegacyInv'
<1> DEFINE p == req[c].path
<1>1. /\ req[c].at = "write" /\ Fields(req[c]) /\ req = [o \in Clients |-> req[o]]
      /\ Tables /\ Hashed /\ p \in Paths
  BY DEF WriteBackPut, LegacyInv, Requests, Fields
<1>2. /\ stored' = [stored EXCEPT ![p] = req[c].content]
      /\ hash' = [hash EXCEPT ![p] = req[c].content]
      /\ bound' = [bound EXCEPT ![req[c].repo] = @ \cup {p} \cup Above[p]]
  BY DEF WriteBackPut, PutRows
<1>3. PICK q : Fields(q) /\ q.at \in {"install", "idle"} /\ req' = [req EXCEPT ![c] = q]
  <2>1. CASE Go(c, "install")
    <3>1. Fields([req[c] EXCEPT !.at = "install"]) /\ [req[c] EXCEPT !.at = "install"].at = "install"
      BY <1>1 DEF Fields
    <3> QED
      BY <1>1, <2>1, <3>1 DEF Go
  <2>2. CASE End(c)
    BY <2>2, IdleKept DEF End, Idle
  <2> QED
    BY <2>1, <2>2 DEF WriteBackPut
<1> HIDE DEF p
<1>4. bound' \in [Repos -> SUBSET Paths]
  <2>1. {p} \cup Above[p] \subseteq Paths
    BY <1>1, TreeAssumption
  <2> QED
    BY <1>1, <1>2, <2>1 DEF Tables
<1>5. Tables'
  BY <1>1, <1>2, <1>4 DEF Tables
<1>6. \A x \in Paths : hash'[x] = stored'[x] \/ (hash'[x] = hash[x] /\ stored'[x] = stored[x])
  BY <1>1, <1>2 DEF Tables
<1>7. Hashed'
  BY <1>1, <1>6 DEF Hashed
<1> QED
  BY <1>3, <1>5, <1>6, <1>7, WriteStep

\* A write fails.
LEMMA FailsStep ==
    ASSUME LegacyInv, NEW c \in Clients, PutFails(c) \/ DeleteFails(c) PROVE LegacyInv'
BY EndStep DEF PutFails, DeleteFails, db

\* The clean-up of a Delete chooses among the nodes without other references.
LEMMA CollectPathsStep ==
    ASSUME LegacyInv, NEW c \in Clients, CollectPaths(c) PROVE LegacyInv'
<1>1. PICK paths :
        req' = [req EXCEPT ![c].at = "commit", ![c].paths = paths,
                           ![c].orphans = Orphans(req[c].repo, paths)]
  BY DEF CollectPaths
<1> DEFINE q == [req[c] EXCEPT !.at = "commit", !.paths = paths,
                               !.orphans = Orphans(req[c].repo, paths)]
<1>2. /\ req[c].at = "collect" /\ UNCHANGED <<stored, hash, bound>>
      /\ Fields(req[c]) /\ req = [o \in Clients |-> req[o]]
  BY DEF CollectPaths, db, LegacyInv, Requests
<1>3. /\ Fields(q) /\ q.at = "commit" /\ q.repo = req[c].repo
      /\ q.orphans = Orphans(req[c].repo, paths)
  BY <1>2 DEF Fields
<1>4. Offered(q)
  BY <1>3 DEF Offered, Orphans
<1>5. req' = [req EXCEPT ![c] = q]
  BY <1>1, <1>2 DEF Fields
<1> QED
  BY <1>2, <1>3, <1>4, <1>5, RequestStep

\* A Delete takes contents and hashes away together.
LEMMA WriteBackDeleteStep ==
    ASSUME LegacyInv, NEW c \in Clients, WriteBackDelete(c) PROVE LegacyInv'
<1> DEFINE q == [req[c] EXCEPT !.at = "install"]
           orphans == req[c].orphans
<1>1. /\ req[c].at = "commit" /\ Fields(req[c]) /\ req = [o \in Clients |-> req[o]]
      /\ Tables /\ Hashed
  BY DEF WriteBackDelete, LegacyInv, Requests
<1>2. Fields(q) /\ q.at = "install" /\ req' = [req EXCEPT ![c] = q]
  BY <1>1 DEF Fields, WriteBackDelete, Go
<1>3. /\ stored' = [p \in Paths |-> IF p \in orphans THEN None ELSE stored[p]]
      /\ hash' = [p \in Paths |-> IF p \in orphans THEN None ELSE hash[p]]
      /\ bound' = [s \in Repos |->
           (bound[s] \ (IF s = req[c].repo THEN req[c].paths ELSE {})) \ orphans]
  BY DEF WriteBackDelete, DeleteRows
<1> HIDE DEF q, orphans
<1>4. Tables'
  BY <1>1, <1>3 DEF Tables
<1>5. \A x \in Paths : (hash'[x] = None /\ stored'[x] = None)
                       \/ (hash'[x] = hash[x] /\ stored'[x] = stored[x])
  BY <1>3
<1>6. Hashed'
  BY <1>1, <1>5 DEF Hashed
<1> QED
  BY <1>2, <1>4, <1>5, <1>6, WriteStep

\* Every step keeps the invariant.
LEMMA LegacyInvStep == ASSUME LegacyInv, [Next]_vars PROVE LegacyInv'
<1>1. ASSUME NEW c \in Clients, Proceed(c) PROVE LegacyInv'
  <2>1. CASE Install(c)
    BY <2>1, EndStep DEF Install, db
  <2> QED
    BY <1>1, <2>1, TreeStep, ContentStep, SetContentStep, BackfillHashStep, ReadyStep,
       WriteBackPutStep, FailsStep, CollectPathsStep, WriteBackDeleteStep DEF Proceed
<1>2. ASSUME UNCHANGED <<stored, hash, bound, req>> PROVE LegacyInv'
  BY <1>2 DEF LegacyInv, Tables, Hashed, Requests, Fields, Offered
<1>3. ASSUME NEW r \in Repos, Invalidate(r) \/ Expire(r) PROVE LegacyInv'
  BY <1>2, <1>3 DEF Invalidate, Expire, db
<1>4. CASE Crash
  <2>1. /\ UNCHANGED <<stored, hash, bound>> /\ req' = [c \in Clients |-> Idle]
    BY <1>4 DEF Crash, db
  <2>2. (Fields(Idle) /\ Offered(Idle))'
    BY DEF Fields, Offered, Idle
  <2>3. \A c \in Clients : (Fields(req[c]) /\ Offered(req[c]))'
    BY <2>1, <2>2
  <2> QED
    BY <2>1, <2>3 DEF LegacyInv, Tables, Hashed, Requests
<1>5. CASE UNCHANGED vars
  BY <1>2, <1>5 DEF vars
<1> QED
  BY <1>1, <1>3, <1>4, <1>5, ArriveStep DEF Next

\* The initial states: hashes are there for all contents or for none.
LEMMA LegacyInvInit == ASSUME Init PROVE LegacyInv
<1>1. Tables
  <2>1. bound \in [Repos -> SUBSET Paths]
    BY DEF Init
  <2>2. stored = [p \in Paths |-> stored[p]]
    BY DEF Init
  <2>3. hash = [p \in Paths |-> None] \/ hash = stored
    BY DEF Init
  <2> QED
    BY <2>1, <2>2, <2>3 DEF Tables
<1>2. Hashed
  BY DEF Init, Hashed
<1>3. Requests
  BY IdleKept DEF Init, Requests
<1> QED
  BY <1>1, <1>2, <1>3 DEF LegacyInv

\* The inductive invariant holds in every state.
THEOREM LegacyInvariant == Spec => []LegacyInv
BY LegacyInvInit, LegacyInvStep, PTL DEF Spec

\* A hash that BatchHashes hands out is that of the stored content, whatever
\* requests load, write and delete beside each other.
THEOREM HashesAreOfContents == Spec => []HashesMatch
<1>1. LegacyInv => HashesMatch
  BY DEF LegacyInv, Tables, Hashed, HashesMatch, BatchHashes, Readable, FileRows
<1> QED
  BY <1>1, LegacyInvariant, PTL

-----------------------------------------------------------------------------
(* The cached trees *)

RequestType == [at : Steps, op : Ops, repo : Repos, path : Paths,
    content : Contents \cup {None}, edit : Edits \cup {None}, tree : Trees \cup {None},
    paths : SUBSET Paths, orphans : SUBSET Paths]

TreeType == [nodes : [Paths -> Kinds \cup {None}], content : [Paths -> Contents \cup {None}]]

\* What a request has at each of its steps.
WellFormed(q) ==
    /\ q.at \in {"idle", "tree"} <=> q.tree = None
    /\ q.at \in {"content", "locked", "loaded", "hash", "ready"} => q.op \in {"cat", "edit"}
    /\ q.at = "write" => q.op \in {"put", "edit"}
    /\ q.at \in {"collect", "commit"} => q.op \in {"delete", "clear"}
    /\ q.at \in {"content", "locked", "loaded", "hash", "ready"} => q.op # "clear"
    /\ q.at = "install" => q.op \in {"put", "delete", "clear"}
    /\ q.at # "idle" /\ q.op = "edit" => q.edit \in Edits
    /\ q.at # "idle" /\ q.op = "put" => q.content # None
    /\ q.at \in {"loaded", "hash", "write"} => q.content # None
    /\ q.at = "commit" => q.orphans \subseteq q.paths
    /\ q.at = "commit" /\ q.op = "delete" => q.paths \subseteq {q.path} \cup Below(q.path)

Shapes == \A c \in Clients : WellFormed(req[c])

\* A file has a content.
Stored == \A p \in Paths : kind[p] = "file" => stored[p] # None

\* No two repositories use one tree.
Owned ==
    /\ \A c, o \in Clients : req[c].tree # None /\ req[c].tree = req[o].tree => req[c].repo = req[o].repo
    /\ \A c \in Clients, r \in Repos :
        cached[r] # None /\ req[c].tree # None /\ req[c].tree = cached[r].tree => req[c].repo = r
    /\ \A r, s \in Repos :
        cached[r] # None /\ cached[s] # None /\ cached[r].tree = cached[s].tree => r = s

Base == TypeOK /\ Shapes /\ Stored /\ Owned

-----------------------------------------------------------------------------
(* Paths *)

\* What is near a path is near what is below that, and the other way around.
LEMMA PathFacts ==
    /\ \A p \in Paths : /\ Above[p] \subseteq Paths /\ Below(p) \subseteq Paths
                        /\ Near(p) \subseteq Paths /\ p \in Near(p) /\ p \notin Above[p]
                        /\ Upward(p) \subseteq Near(p) /\ p # Root
    /\ \A p, q \in Paths : q \in Near(p) => Above[q] \subseteq Near(p) /\ p \in Near(q)
    /\ \A p, q, x \in Paths : x \in Near(p) /\ (x = q \/ q \in Above[x]) => p \in Near(q) /\ q \in Near(p)
<1>1. \A p \in Paths : /\ Above[p] \subseteq Paths /\ Below(p) \subseteq Paths
                       /\ Near(p) \subseteq Paths /\ p \in Near(p) /\ p \notin Above[p]
                       /\ Upward(p) \subseteq Near(p) /\ p # Root
  BY TreeAssumption DEF Near, Upward, Below
<1>2. ASSUME NEW p \in Paths, NEW q \in Paths, q \in Near(p)
      PROVE  Above[q] \subseteq Near(p) /\ p \in Near(q)
  <2>1. CASE q = p
    BY <2>1 DEF Near, Upward
  <2>2. CASE q \in Above[p]
    <3>1. Above[q] \subseteq Above[p]
      BY <2>2, TreeAssumption
    <3> QED
      BY <2>2, <3>1 DEF Near, Upward, Below
  <2>3. CASE p \in Above[q]
    <3>1. ASSUME NEW x \in Above[q] PROVE x \in Near(p)
      <4>1. x = p \/ x \in Above[p] \/ p \in Above[x]
        BY <2>3, TreeAssumption
      <4> QED
        BY <4>1, <1>1 DEF Near, Upward, Below
    <3> QED
      BY <2>3, <3>1 DEF Near, Upward
  <2> QED
    BY <1>2, <2>1, <2>2, <2>3 DEF Near, Upward, Below
<1>3. ASSUME NEW p \in Paths, NEW q \in Paths, NEW x \in Paths, x \in Near(p), x = q \/ q \in Above[x]
      PROVE  p \in Near(q) /\ q \in Near(p)
  <2>1. q \in Near(p)
    BY <1>2, <1>3
  <2> QED
    BY <2>1, <1>2
<1> QED
  BY <1>1, <1>2, <1>3

-----------------------------------------------------------------------------
(* Trees *)

\* The nodes that a Delete of p takes away with it.
Taken(nodes, p) == {q \in Paths :
    q = p \/ /\ q \in Below(p) /\ nodes[p] = "dir"
             /\ \A e \in Between(p, q) : nodes[e] = "dir"
             /\ \A e \in Between(p, q) \cup {q} : nodes[e] # None}

\* A walk comes to what is linked to a directory through directories.
LEMMA WalkIs ==
    ASSUME NEW t \in Trees, NEW d \in Paths, NEW q \in Paths
    PROVE  q \in Tree(t)!Walk(d) <=>
            /\ d \in Above[q]
            /\ \A e \in Between(d, q) : trees[t].nodes[e] = "dir"
            /\ \A e \in Between(d, q) \cup {q} : trees[t].nodes[e] # None
<1>1. Tree(t)!Between(d, q) = Between(d, q)
  BY DEF Tree!Between, Between
<1>2. \A e \in Between(d, q) \cup {q} : e \in Paths /\ Parent[e] \in Paths \cup {Root}
  BY TreeAssumption DEF Between, Dirs
<1>3. d # Root
  BY TreeAssumption
<1> QED
  BY <1>1, <1>2, <1>3 DEF Tree!Walk, Lists

\* A Delete takes what a walk comes to.
LEMMA DeletedIs ==
    ASSUME NEW t \in Trees, NEW p \in Paths
    PROVE  Tree(t)!Deleted(p) = Taken(trees[t].nodes, p)
<1>1. \A q \in Paths : q \in Tree(t)!Walk(p) <=>
            /\ p \in Above[q]
            /\ \A e \in Between(p, q) : trees[t].nodes[e] = "dir"
            /\ \A e \in Between(p, q) \cup {q} : trees[t].nodes[e] # None
  BY WalkIs
<1>2. Tree(t)!Walk(p) \subseteq Paths
  BY DEF Tree!Walk
<1> QED
  BY <1>1, <1>2 DEF Tree!Deleted, Taken, Below

\* What a load puts into a tree: the files of the repository and what is above them.
LEMMA LoadTreeIs ==
    ASSUME NEW r \in Repos, bound \in [Repos -> SUBSET Paths]
    PROVE  /\ LoadTree(r) \in TreeType
           /\ \A p \in Paths : LoadTree(r).nodes[p] =
                IF p \in FileRows(r) THEN "file"
                ELSE IF \E q \in FileRows(r) : p \in Above[q] THEN "dir" ELSE None
           /\ \A p \in Paths : LoadTree(r).content[p] = None
<1> DEFINE t == CHOOSE t \in Trees : TRUE
           files == [p \in Paths |-> IF p \in FileRows(r) THEN "file" ELSE None]
<1>1. \A kinds, S : /\ Tree(t)!MissingAbove(kinds, S) = {d \in UNION {Above[p] : p \in S} : kinds[d] = None}
                    /\ Tree(t)!WithParents(kinds, S) =
                        [p \in Paths |-> IF p \in Tree(t)!MissingAbove(kinds, S) THEN "dir" ELSE kinds[p]]
  BY DEF Tree!WithParents, Tree!MissingAbove
<1>2. FileRows(r) = {q \in Paths : files[q] # None}
  BY TreeAssumption DEF Kinds, FileRows
<1>3. Tree(t)!Grown(files) = Tree(t)!WithParents(files, {p \in Paths : files[p] # None})
  BY DEF Tree!Grown
<1>4. LoadTree(r) = [nodes |-> Tree(t)!Grown(files), content |-> [p \in Paths |-> None]]
  BY DEF LoadTree, NoTree
<1>5. \A p \in Paths : files[p] = IF p \in FileRows(r) THEN "file" ELSE None
  OBVIOUS
<1>6. \A p \in Paths : Above[p] \subseteq Paths
  BY TreeAssumption
<1> HIDE DEF t, files
<1> DEFINE nodes == [p \in Paths |->
        IF p \in {d \in UNION {Above[q] : q \in FileRows(r)} : files[d] = None} THEN "dir" ELSE files[p]]
<1>7. LoadTree(r) = [nodes |-> nodes, content |-> [p \in Paths |-> None]]
  BY <1>1, <1>2, <1>3, <1>4
<1>8. \A p \in Paths : nodes[p] =
                IF p \in FileRows(r) THEN "file"
                ELSE IF \E q \in FileRows(r) : p \in Above[q] THEN "dir" ELSE None
  BY <1>5, TreeAssumption DEF Kinds
<1>9. nodes \in [Paths -> Kinds \cup {None}]
  BY <1>8 DEF Kinds
<1> HIDE DEF nodes
<1> QED
  BY <1>7, <1>8, <1>9 DEF TreeType

\* What a Put does to a tree.
LEMMA TreePutIs ==
    ASSUME NEW t \in Trees, trees[t] \in TreeType, NEW p \in Paths, NEW c \in Contents
    PROVE  /\ TreePut(t, p, c) \in TreeType
           /\ \A q \in Paths : TreePut(t, p, c).nodes[q] =
                IF q = p THEN "file" ELSE IF q \in Above[p] /\ trees[t].nodes[q] = None THEN "dir"
                ELSE trees[t].nodes[q]
           /\ \A q \in Paths : TreePut(t, p, c).content[q] = IF q = p THEN c ELSE trees[t].content[q]
<1>1. Tree(t)!WithParents(trees[t].nodes, {p}) =
        [q \in Paths |-> IF q \in {d \in Above[p] : trees[t].nodes[d] = None} THEN "dir" ELSE trees[t].nodes[q]]
  BY DEF Tree!WithParents, Tree!MissingAbove
<1> DEFINE nodes == [Tree(t)!WithParents(trees[t].nodes, {p}) EXCEPT ![p] = "file"]
<1>2. nodes \in [Paths -> Kinds \cup {None}]
  BY <1>1 DEF TreeType, Kinds
<1>3. \A q \in Paths : nodes[q] =
        IF q = p THEN "file" ELSE IF q \in Above[p] /\ trees[t].nodes[q] = None THEN "dir"
        ELSE trees[t].nodes[q]
  BY <1>1
<1>4. TreePut(t, p, c) = [nodes |-> nodes, content |-> [trees[t].content EXCEPT ![p] = c]]
  BY DEF TreePut
<1> HIDE DEF nodes
<1> QED
  BY <1>2, <1>3, <1>4 DEF TreeType

\* What a Delete does to a tree: beside what it takes, only directories above go.
LEMMA TreeDeleteIs ==
    ASSUME NEW t \in Trees, trees[t] \in TreeType, NEW p \in Paths
    PROVE  /\ TreeDelete(t, p) \in TreeType
           /\ trees[t].nodes[p] = None => TreeDelete(t, p) = trees[t]
           /\ trees[t].nodes[p] # None => \A q \in Paths :
                /\ TreeDelete(t, p).nodes[q] =
                    IF q \in Taken(trees[t].nodes, p) \cup Tree(t)!Emptied(p) THEN None ELSE trees[t].nodes[q]
                /\ TreeDelete(t, p).content[q] =
                    IF q \in Taken(trees[t].nodes, p) THEN None ELSE trees[t].content[q]
<1>1. Tree(t)!Deleted(p) = Taken(trees[t].nodes, p)
  BY DeletedIs
<1> QED
  BY <1>1 DEF TreeDelete, TreeType

-----------------------------------------------------------------------------
(* Types, the shape of requests, and whose the trees are *)

\* What Base asks of the memory.
MemoryTypes ==
    /\ trees \in [Trees -> TreeType]
    /\ cached \in [Repos -> {None} \cup [tree : Trees, fresh : BOOLEAN]]
    /\ loading \in [Repos -> Clients \cup {None}]

TableTypes ==
    /\ kind \in [Paths -> Kinds \cup {None}]
    /\ stored \in [Paths -> Contents \cup {None}]
    /\ hash \in [Paths -> Contents \cup {None}]
    /\ bound \in [Repos -> SUBSET Paths]

CountTypes == served \in 0..MaxRequests /\ raced \in [Repos -> SUBSET Paths]

RequestTypes == req \in [Clients -> RequestType] /\ Shapes

LEMMA BaseIs ==
    /\ Base <=> /\ TableTypes /\ MemoryTypes /\ CountTypes /\ RequestTypes
                /\ Stored /\ Owned
    /\ Base' <=> /\ TableTypes' /\ MemoryTypes' /\ CountTypes' /\ RequestTypes'
                 /\ Stored' /\ Owned'
BY DEF Base, TypeOK, TableTypes, MemoryTypes, CountTypes, RequestTypes, RequestType, TreeType

\* A request that changes to one with its type and shape.
LEMMA RequestTyped ==
    ASSUME RequestTypes, NEW c \in Clients, NEW q \in RequestType, WellFormed(q),
           req' = [req EXCEPT ![c] = q]
    PROVE  RequestTypes'
<1>1. \A o \in Clients : req'[o] = IF o = c THEN q ELSE req[o]
  BY DEF RequestTypes
<1>2. WellFormed(q)' <=> WellFormed(q)
  BY DEF WellFormed
<1>3. \A o \in Clients : WellFormed(req[o])
  BY DEF RequestTypes, Shapes
<1>4. \A o \in Clients : WellFormed(req[o])'
  <2> SUFFICES ASSUME NEW o \in Clients PROVE WellFormed(req'[o])
    BY DEF WellFormed
  <2> QED
    BY <1>1, <1>2, <1>3
<1> QED
  BY <1>4 DEF RequestTypes, Shapes

\* The idle request is one.
LEMMA IdleTyped == Idle \in RequestType /\ WellFormed(Idle)
<1>1. (CHOOSE r \in Repos : TRUE) \in Repos /\ (CHOOSE p \in Paths : TRUE) \in Paths
  BY TablesAssumption
<1> QED
  BY <1>1 DEF Idle, RequestType, WellFormed, Steps, Ops

\* Trees that nobody uses any more are gone, the others as they should be.
LEMMA HeapIs ==
    ASSUME NEW heap, Heap(heap)
    PROVE  /\ \A c \in Clients : req'[c].tree \in Trees => trees'[req'[c].tree] = heap[req'[c].tree]
           /\ \A r \in Repos : cached'[r] # None /\ cached'[r].tree \in Trees
                => trees'[cached'[r].tree] = heap[cached'[r].tree]
           /\ heap \in [Trees -> TreeType] => trees' \in [Trees -> TreeType]
<1>1. NoTree \in TreeType
  BY DEF NoTree, TreeType
<1> QED
  BY <1>1 DEF Heap, InUse

\* The request of a step.
LEMMA GoTyped ==
    ASSUME RequestTypes, NEW c \in Clients, NEW step \in Steps, Go(c, step),
           WellFormed([req[c] EXCEPT !.at = step])
    PROVE  RequestTypes'
<1>1. req[c] \in RequestType /\ req' = [req EXCEPT ![c] = [req[c] EXCEPT !.at = step]]
  BY DEF RequestTypes, Go
<1>2. [req[c] EXCEPT !.at = step] \in RequestType
  BY <1>1 DEF RequestType
<1> QED
  BY <1>1, <1>2, RequestTyped

LEMMA EndTyped == ASSUME RequestTypes, NEW c \in Clients, End(c) PROVE RequestTypes'
BY IdleTyped, RequestTyped DEF End

\* Trees stay with their repositories when requests keep theirs or let them go,
\* and caches theirs.
LEMMA OwnedKept ==
    ASSUME Owned,
           \A c \in Clients : req'[c].tree = None
                            \/ (req'[c].tree = req[c].tree /\ req'[c].repo = req[c].repo),
           \A r \in Repos : cached'[r] = None
                          \/ (cached[r] # None /\ cached'[r].tree = cached[r].tree)
    PROVE  Owned'
<1>1. ASSUME NEW c \in Clients, NEW o \in Clients, req'[c].tree # None, req'[c].tree = req'[o].tree
      PROVE  req'[c].repo = req'[o].repo
  BY <1>1 DEF Owned
<1>2. ASSUME NEW c \in Clients, NEW r \in Repos, cached'[r] # None, req'[c].tree = cached'[r].tree,
             req'[c].tree # None
      PROVE  req'[c].repo = r
  BY <1>2 DEF Owned
<1>3. ASSUME NEW r \in Repos, NEW s \in Repos, cached'[r] # None, cached'[s] # None,
             cached'[r].tree = cached'[s].tree
      PROVE  r = s
  BY <1>3 DEF Owned
<1> QED
  BY <1>1, <1>2, <1>3 DEF Owned

\* Steps at which a request keeps its fields but for those named, and its tree.
LEMMA FieldsKept ==
    ASSUME RequestTypes, NEW c \in Clients, NEW q,
           req' = [req EXCEPT ![c] = q],
           q.tree = None \/ (q.tree = req[c].tree /\ q.repo = req[c].repo)
    PROVE  \A o \in Clients : req'[o].tree = None
                            \/ (req'[o].tree = req[o].tree /\ req'[o].repo = req[o].repo)
BY DEF RequestTypes

LEMMA GoKeeps ==
    ASSUME RequestTypes, NEW c \in Clients, NEW step, Go(c, step)
    PROVE  \A o \in Clients : req'[o].tree = req[o].tree /\ req'[o].repo = req[o].repo
BY DEF RequestTypes, RequestType, Go

LEMMA EndKeeps ==
    ASSUME RequestTypes, NEW c \in Clients, End(c)
    PROVE  \A o \in Clients : req'[o].tree = None
                            \/ (req'[o].tree = req[o].tree /\ req'[o].repo = req[o].repo)
BY DEF RequestTypes, End, Idle

\* The tables stay, or the memory does.
LEMMA TablesKept == ASSUME TableTypes, Stored, UNCHANGED db PROVE TableTypes' /\ Stored'
BY DEF TableTypes, Stored, db

\* A request begins.
LEMMA ArriveBase == ASSUME Base, NEW c \in Clients, Arrive(c) PROVE Base'
<1> USE DEF Ops, Steps
<1>1. ASSUME NEW op \in Ops, NEW r \in Repos, NEW p \in Paths, NEW content \in Contents \cup {None},
             NEW edit \in Edits \cup {None}, Begin(c, op, r, p, content, edit),
             op = "put" => content # None, op = "edit" => edit \in Edits
      PROVE  Base'
  <2> DEFINE q == [Idle EXCEPT !.at = "tree", !.op = op, !.repo = r,
                     !.path = p, !.content = content, !.edit = edit]
  <2>1. q \in RequestType
    BY IdleTyped DEF RequestType
  <2>2. /\ q.at = "tree" /\ q.tree = None /\ q.op = op /\ q.content = content /\ q.edit = edit
    BY DEF Idle
  <2>3. req' = [req EXCEPT ![c] = q]
    BY <1>1 DEF Begin
  <2> HIDE DEF q
  <2>4. WellFormed(q)
    BY <1>1, <2>1, <2>2 DEF WellFormed
  <2>5. RequestTypes'
    BY <2>1, <2>3, <2>4, RequestTyped, BaseIs
  <2>6. raced' \in [Repos -> SUBSET Paths]
    <3>1. \A o \in Clients : Near(req[o].path) \subseteq Paths
      BY PathFacts, BaseIs DEF RequestTypes, RequestType
    <3>2. Near(p) \subseteq Paths
      BY PathFacts
    <3>3. raced \in [Repos -> SUBSET Paths]
      BY BaseIs DEF CountTypes
    <3> DEFINE R == Rivals(c, op, r, p)
    <3>4. raced' = [raced EXCEPT ![r] = IF R = {} THEN @
            ELSE @ \cup Near(p) \cup UNION {Near(req[o].path) : o \in R}] /\ R \subseteq Clients
      BY <1>1 DEF Begin, Rivals
    <3> HIDE DEF R
    <3> QED
      BY <3>1, <3>2, <3>3, <3>4
  <2>7. /\ UNCHANGED <<db, trees, cached, loading>> /\ served' = served + 1 /\ served < MaxRequests
    BY <1>1 DEF Begin, memory
  <2>8. CountTypes'
    BY <2>6, <2>7, BaseIs, TablesAssumption DEF CountTypes
  <2>9. Owned'
    BY <2>2, <2>3, <2>7, OwnedKept, FieldsKept, BaseIs
  <2> QED
    BY <2>5, <2>7, <2>8, <2>9, TablesKept, BaseIs DEF MemoryTypes
<1> QED
  BY <1>1, TreeAssumption DEF Arrive

\* A request takes the tree that is cached.
LEMMA UseTreeBase == ASSUME Base, NEW c \in Clients, UseTree(c) PROVE Base'
<1> DEFINE t == cached[req[c].repo].tree
           q == [req[c] EXCEPT !.tree = t, !.at = AfterTree(req[c].op)]
<1>1. /\ req[c] \in RequestType /\ WellFormed(req[c]) /\ req[c].at = "tree"
      /\ cached[req[c].repo] # None /\ t \in Trees
  BY BaseIs DEF RequestTypes, RequestType, Shapes, UseTree, HasTree, MemoryTypes
<1>2. req' = [req EXCEPT ![c] = q]
  BY <1>1 DEF UseTree, RequestType
<1>3. q \in RequestType
  BY <1>1 DEF RequestType, AfterTree, Steps
<1>4. t # None
  BY <1>1, TablesAssumption
<1>5. q.at = AfterTree(req[c].op) /\ q.tree = t /\ q.repo = req[c].repo /\ q.op = req[c].op
      /\ q.content = req[c].content /\ q.edit = req[c].edit
  BY <1>1 DEF RequestType
<1>6. UNCHANGED <<db, memory, served, raced>>
  BY DEF UseTree
<1> HIDE DEF q, t
<1>7. WellFormed(q)
  BY <1>1, <1>3, <1>4, <1>5 DEF WellFormed, AfterTree, RequestType, Ops
<1>8. RequestTypes'
  BY <1>2, <1>3, <1>7, RequestTyped, BaseIs
<1>9. Owned'
  <2>1. Owned /\ UNCHANGED cached
    BY <1>6, BaseIs DEF memory
  <2>2. \A o \in Clients : req'[o] = IF o = c THEN q ELSE req[o]
    BY <1>2, BaseIs DEF RequestTypes
  <2>3. t = cached[req[c].repo].tree /\ req[c].repo \in Repos
    BY <1>1 DEF t, RequestType
  <2> QED
    BY <1>1, <1>5, <2>1, <2>2, <2>3 DEF Owned
<1> QED
  BY <1>6, <1>8, <1>9, TablesKept, BaseIs DEF MemoryTypes, CountTypes, memory

\* A request loads a tree that nobody uses.
LEMMA LoadNewTreeBase == ASSUME Base, NEW c \in Clients, LoadNewTree(c) PROVE Base'
<1> DEFINE r == req[c].repo
           t == CHOOSE t \in Trees : t \notin InUse
           q == [req[c] EXCEPT !.tree = t, !.at = AfterTree(req[c].op)]
<1>1. t \in Trees /\ t \notin InUse
  BY DEF LoadNewTree
<1>2. t # None
  BY <1>1, TablesAssumption
<1>3. /\ req[c] \in RequestType /\ WellFormed(req[c]) /\ req[c].at = "tree"
  BY BaseIs DEF RequestTypes, RequestType, Shapes, LoadNewTree
<1>4. req' = [req EXCEPT ![c] = q]
  BY <1>3 DEF LoadNewTree, RequestType
<1>5. q \in RequestType
  BY <1>1, <1>3 DEF RequestType, AfterTree, Steps
<1>6. q.at = AfterTree(req[c].op) /\ q.tree = t /\ q.repo = r /\ q.op = req[c].op
      /\ q.content = req[c].content /\ q.edit = req[c].edit
  BY <1>3 DEF RequestType
<1>7. /\ UNCHANGED <<db, loading, served>>
      /\ cached' = [cached EXCEPT ![r] = [tree |-> t, fresh |-> TRUE]]
      /\ Heap([trees EXCEPT ![t] = LoadTree(r)])
      /\ raced' = [raced EXCEPT ![r] = @ \cap Pending(c, r)]
  BY DEF LoadNewTree
<1>8. r \in Repos
  BY <1>3 DEF RequestType
<1> HIDE DEF q, t, r
<1>9. RequestTypes'
  <2>1. WellFormed(q)
    BY <1>2, <1>3, <1>5, <1>6 DEF WellFormed, AfterTree, RequestType, Ops
  <2> QED
    BY <1>4, <1>5, <2>1, RequestTyped, BaseIs
<1>10. MemoryTypes'
  <2>1. [trees EXCEPT ![t] = LoadTree(r)] \in [Trees -> TreeType]
    BY <1>1, <1>8, LoadTreeIs, BaseIs DEF MemoryTypes, TableTypes
  <2>2. trees' \in [Trees -> TreeType]
    BY <1>7, <2>1, HeapIs
  <2> QED
    BY <1>1, <1>7, <2>2, BaseIs DEF MemoryTypes
<1>11. CountTypes'
  BY <1>7, BaseIs DEF CountTypes
<1>12. Owned'
  <2>1. \A o \in Clients : req'[o] = IF o = c THEN q ELSE req[o]
    BY <1>4, BaseIs DEF RequestTypes
  <2>2. \A s \in Repos : cached'[s] = IF s = r THEN [tree |-> t, fresh |-> TRUE] ELSE cached[s]
    BY <1>7, BaseIs DEF MemoryTypes
  <2>3. /\ \A o \in Clients : req[o].tree # t
        /\ \A s \in Repos : cached[s] # None => cached[s].tree # t
    BY <1>1 DEF InUse
  <2>4. Owned
    BY BaseIs
  <2>5. ASSUME NEW a \in Clients, NEW o \in Clients, req'[a].tree # None, req'[a].tree = req'[o].tree
        PROVE  req'[a].repo = req'[o].repo
    BY <1>6, <2>1, <2>3, <2>4, <2>5 DEF Owned
  <2>6. ASSUME NEW a \in Clients, NEW s \in Repos, cached'[s] # None, req'[a].tree # None,
               req'[a].tree = cached'[s].tree
        PROVE  req'[a].repo = s
    BY <1>6, <2>1, <2>2, <2>3, <2>4, <2>6 DEF Owned
  <2>7. ASSUME NEW s \in Repos, NEW u \in Repos, cached'[s] # None, cached'[u] # None,
               cached'[s].tree = cached'[u].tree
        PROVE  s = u
    BY <2>2, <2>3, <2>4, <2>7 DEF Owned
  <2> QED
    BY <2>5, <2>6, <2>7 DEF Owned
<1> QED
  BY <1>7, <1>9, <1>10, <1>11, <1>12, TablesKept, BaseIs

\* A request goes on or ends, with the same trees.
LEMMA MoveBase ==
    ASSUME Base, NEW c \in Clients, UNCHANGED <<db, cached, served>>, CountTypes', MemoryTypes',
           \/ \E step \in Steps : Go(c, step) /\ WellFormed([req[c] EXCEPT !.at = step])
           \/ End(c)
    PROVE  Base'
<1>1. CASE End(c)
  BY <1>1, EndTyped, EndKeeps, OwnedKept, TablesKept, BaseIs
<1>2. ASSUME NEW step \in Steps, Go(c, step), WellFormed([req[c] EXCEPT !.at = step]) PROVE Base'
  BY <1>2, GoTyped, GoKeeps, OwnedKept, TablesKept, BaseIs
<1> QED
  BY <1>1, <1>2

\* What a request has at a step it takes without a change to its fields.
LEMMA GoFormed ==
    ASSUME Base, NEW c \in Clients, NEW step \in Steps,
           \/ req[c].at = "content" /\ step \in {"ready", "locked"}
           \/ req[c].at = "locked" /\ step = "ready"
           \/ req[c].at = "loaded" /\ step = "hash"
           \/ req[c].at = "hash" /\ step = "ready"
           \/ req[c].at = "write" /\ req[c].op = "put" /\ step = "install"
           \/ req[c].at = "commit" /\ step = "install"
    PROVE  WellFormed([req[c] EXCEPT !.at = step])
<1>1. req[c] \in RequestType /\ WellFormed(req[c])
  BY BaseIs DEF RequestTypes, Shapes
<1> DEFINE q == [req[c] EXCEPT !.at = step]
<1>2. /\ q.at = step /\ q.tree = req[c].tree /\ q.op = req[c].op /\ q.edit = req[c].edit
      /\ q.content = req[c].content /\ q.paths = req[c].paths /\ q.orphans = req[c].orphans
      /\ q.path = req[c].path
  BY <1>1 DEF RequestType
<1> HIDE DEF q
<1>3. WellFormed(q)
  BY <1>1, <1>2 DEF WellFormed, Ops
<1> QED
  BY <1>3 DEF q

\* Reads: a request looks for its content, loads it, fills in its hash, or ends.
LEMMA ReadBase ==
    ASSUME Base, NEW c \in Clients,
           FindContent(c) \/ LoadContent(c) \/ SetContent(c) \/ BackfillHash(c) \/ Cat(c)
    PROVE  Base'
<1>1. /\ req[c] \in RequestType /\ WellFormed(req[c]) /\ req[c].repo \in Repos
      /\ req[c].path \in Paths
  BY BaseIs DEF RequestTypes, Shapes, RequestType
<1>2. MemoryTypes /\ CountTypes /\ TableTypes
  BY BaseIs
<1>3. \A r \in Repos : [loading EXCEPT ![r] = None] \in [Repos -> Clients \cup {None}]
  BY <1>2 DEF MemoryTypes
<1>4. trees \in [Trees -> TreeType]
  BY <1>2 DEF MemoryTypes
<1>5. CASE FindContent(c)
  <2>1. UNCHANGED <<db, trees, cached, served, raced>> /\ req[c].at = "content"
    BY <1>5 DEF FindContent
  <2>2. \/ Go(c, "ready") /\ UNCHANGED loading
        \/ Go(c, "locked") /\ loading' = [loading EXCEPT ![req[c].repo] = c]
    BY <1>5 DEF FindContent
  <2>3. \E step \in Steps : Go(c, step) /\ WellFormed([req[c] EXCEPT !.at = step])
    BY <2>1, <2>2, GoFormed DEF Steps
  <2>4. MemoryTypes' /\ CountTypes'
    BY <1>1, <1>2, <2>1, <2>2 DEF MemoryTypes, CountTypes
  <2> QED
    BY <2>1, <2>3, <2>4, MoveBase
<1>6. CASE LoadContent(c)
  <2>1. UNCHANGED <<db, cached, served, raced>> /\ req[c].at = "locked" /\ CountTypes'
    BY <1>2, <1>6 DEF LoadContent, CountTypes
  <2>2. CASE Go(c, "ready") /\ Unlock(c) /\ UNCHANGED trees
    <3>1. MemoryTypes'
      BY <1>1, <1>2, <1>3, <2>1, <2>2 DEF MemoryTypes, Unlock
    <3>2. \E step \in Steps : Go(c, step) /\ WellFormed([req[c] EXCEPT !.at = step])
      BY <2>1, <2>2, GoFormed DEF Steps
    <3> QED
      BY <2>1, <3>1, <3>2, MoveBase
  <2>3. CASE End(c) /\ Unlock(c) /\ Heap(trees)
    <3>1. MemoryTypes'
      BY <1>1, <1>2, <1>3, <1>4, <2>1, <2>3, HeapIs DEF MemoryTypes, Unlock
    <3> QED
      BY <2>1, <2>3, <3>1, MoveBase
  <2>4. CASE /\ stored[req[c].path] # None /\ UNCHANGED <<loading, trees>>
             /\ req' = [req EXCEPT ![c].content = stored[req[c].path], ![c].at = "loaded"]
    <3> DEFINE q == [req[c] EXCEPT !.content = stored[req[c].path], !.at = "loaded"]
    <3>1. req' = [req EXCEPT ![c] = q]
      BY <1>1, <2>4 DEF RequestType
    <3>2. stored[req[c].path] \in Contents \cup {None}
      BY <1>1, <1>2 DEF TableTypes
    <3>3. q \in RequestType
      BY <1>1, <3>2 DEF RequestType, Steps
    <3>4. /\ q.at = "loaded" /\ q.tree = req[c].tree /\ q.repo = req[c].repo
          /\ q.op = req[c].op /\ q.edit = req[c].edit /\ q.content = stored[req[c].path]
      BY <1>1 DEF RequestType
    <3> HIDE DEF q
    <3>5. WellFormed(q)
      BY <1>1, <2>1, <2>4, <3>4 DEF WellFormed
    <3>6. RequestTypes'
      BY <3>1, <3>3, <3>5, RequestTyped, BaseIs
    <3>7. Owned'
      BY <2>1, <3>1, <3>4, OwnedKept, FieldsKept, BaseIs
    <3> QED
      BY <1>2, <2>1, <2>4, <3>6, <3>7, TablesKept, BaseIs DEF MemoryTypes
  <2> QED
    BY <1>6, <2>2, <2>3, <2>4 DEF LoadContent
<1>7. CASE SetContent(c)
  <2> DEFINE p == req[c].path
             t == req[c].tree
  <2>1. /\ UNCHANGED <<db, cached, loading, served, raced>> /\ req[c].at = "loaded" /\ CountTypes'
        /\ Go(c, "hash")
        /\ trees' = [trees EXCEPT ![t].content[p] =
                IF trees[t].nodes[p] # None THEN req[c].content ELSE @]
    BY <1>2, <1>7 DEF SetContent, CountTypes
  <2>2. \E step \in Steps : Go(c, step) /\ WellFormed([req[c] EXCEPT !.at = step])
    BY <2>1, GoFormed DEF Steps
  <2>3. t \in Trees /\ req[c].content \in Contents \cup {None}
    BY <1>1, <2>1 DEF WellFormed, RequestType
  <2>4. trees' \in [Trees -> TreeType]
    BY <1>1, <1>4, <2>1, <2>3 DEF TreeType
  <2> QED
    BY <1>2, <2>1, <2>2, <2>4, MoveBase DEF MemoryTypes
<1>8. CASE BackfillHash(c)
  <2>1. /\ UNCHANGED <<kind, stored, bound, trees, cached, served, raced>> /\ Unlock(c)
        /\ req[c].at = "hash" /\ CountTypes' /\ Go(c, "ready")
    BY <1>2, <1>8 DEF BackfillHash, CountTypes
  <2>2. WellFormed([req[c] EXCEPT !.at = "ready"])
    BY <2>1, GoFormed DEF Steps
  <2>3. hash' \in [Paths -> Contents \cup {None}]
    <3>1. req[c].content \in Contents \cup {None}
      BY <1>1 DEF RequestType
    <3> QED
      BY <1>1, <1>2, <1>8, <3>1 DEF BackfillHash, HashFilled, TableTypes
  <2>4. TableTypes' /\ Stored'
    BY <1>2, <2>1, <2>3, BaseIs DEF TableTypes, Stored
  <2>5. MemoryTypes'
    BY <1>1, <1>2, <1>3, <2>1 DEF MemoryTypes, Unlock
  <2>6. RequestTypes' /\ Owned'
    BY <2>1, <2>2, GoTyped, GoKeeps, OwnedKept, BaseIs DEF Steps
  <2> QED
    BY <2>1, <2>4, <2>5, <2>6, BaseIs
<1>9. CASE Cat(c)
  <2>1. UNCHANGED <<db, cached, loading, served, raced>> /\ End(c) /\ Heap(trees)
    BY <1>9 DEF Cat
  <2>2. MemoryTypes' /\ CountTypes'
    BY <1>2, <1>4, <2>1, HeapIs DEF MemoryTypes, CountTypes
  <2> QED
    BY <2>1, <2>2, MoveBase
<1> QED
  BY <1>5, <1>6, <1>7, <1>8, <1>9

\* Edit changes its tree.
LEMMA EditTreeBase == ASSUME Base, NEW c \in Clients, EditTree(c) PROVE Base'
<1> DEFINE p == req[c].path
           t == req[c].tree
<1>1. /\ req[c] \in RequestType /\ WellFormed(req[c]) /\ p \in Paths
      /\ MemoryTypes /\ CountTypes
  BY BaseIs DEF RequestTypes, Shapes, RequestType
<1>2. UNCHANGED <<db, cached, loading, served, raced>> /\ req[c].at = "ready" /\ req[c].op = "edit"
      /\ CountTypes'
  BY <1>1 DEF EditTree, CountTypes
<1>3. trees \in [Trees -> TreeType] /\ t \in Trees
  BY <1>1, <1>2 DEF MemoryTypes, WellFormed, RequestType
<1>4. CASE End(c) /\ Heap(trees)
  <2>1. MemoryTypes'
    BY <1>1, <1>2, <1>3, <1>4, HeapIs DEF MemoryTypes
  <2> QED
    BY <1>2, <1>4, <2>1, MoveBase
<1>5. CASE /\ Edited(c) # None
           /\ req' = [req EXCEPT ![c].content = Edited(c), ![c].at = "write"]
           /\ trees' = [trees EXCEPT ![t] = TreePut(t, p, Edited(c))]
  <2>1. Edited(c) \in Contents
    <3>1. Edited(c) = IF trees[t].nodes[p] = "file" /\ trees[t].content[p] # None
                      THEN req[c].edit[trees[t].content[p]] ELSE None
      BY DEF Edited, Tree!Readable
    <3>2. req[c].edit \in [Contents -> Contents \cup {None}]
      BY <1>1, <1>2, TreeAssumption DEF WellFormed
    <3>3. trees[t].content[p] \in Contents \cup {None}
      BY <1>1, <1>3 DEF TreeType
    <3> QED
      BY <1>5, <3>1, <3>2, <3>3
  <2> DEFINE q == [req[c] EXCEPT !.content = Edited(c), !.at = "write"]
  <2>2. req' = [req EXCEPT ![c] = q]
    BY <1>1, <1>5 DEF RequestType
  <2>3. q \in RequestType
    BY <1>1, <2>1 DEF RequestType, Steps
  <2>4. /\ q.at = "write" /\ q.tree = t /\ q.repo = req[c].repo
        /\ q.op = req[c].op /\ q.edit = req[c].edit /\ q.content = Edited(c)
    BY <1>1 DEF RequestType
  <2> HIDE DEF q
  <2>5. WellFormed(q)
    BY <1>1, <1>2, <1>5, <2>4 DEF WellFormed
  <2>6. RequestTypes'
    BY <2>2, <2>3, <2>5, RequestTyped, BaseIs
  <2>7. Owned'
    BY <1>2, <2>2, <2>4, OwnedKept, FieldsKept, BaseIs
  <2>8. TreePut(t, p, Edited(c)) \in TreeType
    BY <1>1, <1>3, <2>1, TreePutIs
  <2>9. MemoryTypes'
    BY <1>1, <1>2, <1>3, <1>5, <2>8 DEF MemoryTypes
  <2> QED
    BY <1>2, <2>6, <2>7, <2>9, TablesKept, BaseIs
<1> QED
  BY <1>4, <1>5 DEF EditTree

\* A transaction fails.
LEMMA FailsBase == ASSUME Base, NEW c \in Clients, PutFails(c) \/ DeleteFails(c) PROVE Base'
<1>1. MemoryTypes /\ CountTypes /\ req[c].path \in Paths
  BY BaseIs DEF RequestTypes, RequestType
<1>2. UNCHANGED <<db, cached, loading, served>> /\ End(c) /\ Heap(trees)
  BY DEF PutFails, DeleteFails
<1>3. MemoryTypes'
  BY <1>1, <1>2, HeapIs DEF MemoryTypes
<1>4. CountTypes'
  <2>1. Upward(req[c].path) \subseteq Paths
    BY <1>1, PathFacts
  <2> QED
    BY <1>1, <1>2, <2>1 DEF CountTypes, PutFails, DeleteFails
<1> QED
  BY <1>2, <1>3, <1>4, MoveBase

\* The clean-up of a Delete looks among the paths that its tree has below its own.
LEMMA CollectPathsBase == ASSUME Base, NEW c \in Clients, CollectPaths(c) PROVE Base'
<1> DEFINE p == req[c].path
           t == req[c].tree
           paths == IF req[c].op = "clear" THEN Tree(t)!Walk(Root)
                    ELSE {p} \cup IF trees[t].nodes[p] = "dir" THEN Tree(t)!Walk(p) ELSE {}
           q == [req[c] EXCEPT !.at = "commit", !.paths = paths,
                               !.orphans = Orphans(req[c].repo, paths)]
<1>1. /\ req[c] \in RequestType /\ WellFormed(req[c]) /\ req[c].at = "collect" /\ p \in Paths
      /\ MemoryTypes /\ TableTypes /\ CountTypes
  BY BaseIs DEF RequestTypes, Shapes, RequestType, CollectPaths
<1>2. UNCHANGED <<db, memory, served, raced>> /\ req' = [req EXCEPT ![c] = q]
  BY <1>1 DEF CollectPaths, RequestType
<1>3. req[c].op = "delete" => paths \subseteq {p} \cup Below(p)
  BY PathFacts, <1>1 DEF Tree!Walk, Below
<1>4. Orphans(req[c].repo, paths) \subseteq paths
  BY DEF Orphans
<1>5. bound \in [Repos -> SUBSET Paths]
  BY <1>1 DEF TableTypes
<1>6. paths \subseteq Paths
  BY <1>1 DEF Tree!Walk
<1>7. /\ q.at = "commit" /\ q.tree = t /\ q.repo = req[c].repo /\ q.op = req[c].op
      /\ q.edit = req[c].edit /\ q.content = req[c].content /\ q.path = p /\ q.paths = paths
      /\ q.orphans = Orphans(req[c].repo, paths)
  BY <1>1 DEF RequestType
<1>8. q \in RequestType
  <2> HIDE DEF paths
  <2> QED
    BY <1>1, <1>4, <1>5, <1>6 DEF RequestType, Steps
<1> HIDE DEF q, paths
<1>9. WellFormed(q)
  BY <1>1, <1>3, <1>4, <1>7 DEF WellFormed
<1>10. RequestTypes'
  BY <1>2, <1>8, <1>9, RequestTyped, BaseIs
<1>11. Owned'
  BY <1>2, <1>7, OwnedKept, FieldsKept, BaseIs DEF memory
<1> QED
  BY <1>1, <1>2, <1>10, <1>11, TablesKept, BaseIs DEF MemoryTypes, CountTypes, memory

\* What becomes stale by a write are paths.
LEMMA RacedTyped ==
    ASSUME Base, NEW c \in Clients, req[c].path \in Paths, req[c].orphans \subseteq Paths,
           \/ raced' = RacedByPut(c)
           \/ raced' = [s \in Repos |-> raced[s] \cup
                IF s # req[c].repo THEN Shared(s, req[c].orphans)
                ELSE IF req[c].op = "clear" THEN Paths
                ELSE IF req[c].path \in raced[req[c].repo] \/ Nested(req[c].repo, req[c].path)
                     THEN Near(req[c].path) ELSE {}]
    PROVE  raced' \in [Repos -> SUBSET Paths]
<1>1. raced \in [Repos -> SUBSET Paths] /\ Near(req[c].path) \subseteq Paths
  BY PathFacts, BaseIs DEF CountTypes
<1>2. \A s \in Repos : \A rows : rows \subseteq Paths => Shared(s, rows) \subseteq Paths
  BY PathFacts DEF Shared
<1>3. \A s \in Repos : Shared(s, Upward(req[c].path)) \subseteq Paths /\ Shared(s, req[c].orphans) \subseteq Paths
  BY <1>2, PathFacts
<1> QED
  BY <1>1, <1>3 DEF RacedByPut

\* Put and Edit write a file.
LEMMA WriteBackPutBase == ASSUME Base, NEW c \in Clients, WriteBackPut(c) PROVE Base'
<1> DEFINE r == req[c].repo
           p == req[c].path
<1>1. /\ req[c] \in RequestType /\ WellFormed(req[c]) /\ req[c].at = "write" /\ p \in Paths
      /\ r \in Repos /\ req[c].content \in Contents /\ req[c].orphans \subseteq Paths
  BY BaseIs DEF RequestTypes, Shapes, RequestType, WriteBackPut, WellFormed
<1>2. MemoryTypes /\ TableTypes /\ CountTypes /\ Stored
  BY BaseIs
<1>3. /\ UNCHANGED <<cached, loading, served>> /\ raced' = RacedByPut(c)
      /\ kind' = [q \in Paths |-> IF q = p THEN "file" ELSE IF q \in Above[p] THEN "dir" ELSE kind[q]]
      /\ stored' = [stored EXCEPT ![p] = req[c].content]
      /\ hash' = [hash EXCEPT ![p] = req[c].content]
      /\ bound' = [bound EXCEPT ![r] = @ \cup {p} \cup Above[p]]
  BY DEF WriteBackPut, PutRows
<1>4. TableTypes'
  <2>1. Above[p] \subseteq Paths
    BY <1>1, PathFacts
  <2>2. kind' \in [Paths -> Kinds \cup {None}]
    BY <1>2, <1>3 DEF TableTypes, Kinds
  <2>3. bound' \in [Repos -> SUBSET Paths]
    BY <1>1, <1>2, <1>3, <2>1 DEF TableTypes
  <2> QED
    BY <1>1, <1>2, <1>3, <2>2, <2>3 DEF TableTypes
<1>5. Stored'
  <2>1. req[c].content # None
    BY <1>1, TreeAssumption
  <2>2. ASSUME NEW q \in Paths, kind'[q] = "file" PROVE stored'[q] # None
    BY <1>1, <1>2, <1>3, <2>1, <2>2 DEF Stored, TableTypes
  <2> QED
    BY <2>2 DEF Stored
<1>6. CountTypes'
  BY <1>1, <1>2, <1>3, RacedTyped DEF CountTypes
<1>7. CASE req[c].op = "put" /\ Go(c, "install") /\ UNCHANGED trees
  <2>1. MemoryTypes'
    BY <1>2, <1>3, <1>7 DEF MemoryTypes
  <2>2. WellFormed([req[c] EXCEPT !.at = "install"])
    BY <1>1, <1>7, GoFormed DEF Steps
  <2>3. RequestTypes' /\ Owned'
    BY <1>3, <1>7, <2>2, GoTyped, GoKeeps, OwnedKept, BaseIs DEF Steps
  <2> QED
    BY <1>4, <1>5, <1>6, <2>1, <2>3, BaseIs
<1>8. CASE End(c) /\ Heap(trees)
  <2>1. MemoryTypes'
    BY <1>2, <1>3, <1>8, HeapIs DEF MemoryTypes
  <2>2. RequestTypes' /\ Owned'
    BY <1>3, <1>8, EndTyped, EndKeeps, OwnedKept, BaseIs
  <2> QED
    BY <1>4, <1>5, <1>6, <2>1, <2>2, BaseIs
<1> QED
  BY <1>7, <1>8 DEF WriteBackPut

\* Delete takes rows away.
LEMMA WriteBackDeleteBase == ASSUME Base, NEW c \in Clients, WriteBackDelete(c) PROVE Base'
<1> DEFINE r == req[c].repo
           p == req[c].path
<1>1. /\ req[c] \in RequestType /\ WellFormed(req[c]) /\ req[c].at = "commit" /\ p \in Paths
      /\ r \in Repos /\ req[c].orphans \subseteq Paths
  BY BaseIs DEF RequestTypes, Shapes, RequestType, WriteBackDelete, WellFormed
<1>2. MemoryTypes /\ TableTypes /\ CountTypes /\ Stored
  BY BaseIs
<1> DEFINE orphans == req[c].orphans
           paths == req[c].paths
<1>3. /\ UNCHANGED <<memory, served>> /\ Go(c, "install")
      /\ kind' = [q \in Paths |-> IF q \in orphans THEN None ELSE kind[q]]
      /\ stored' = [q \in Paths |-> IF q \in orphans THEN None ELSE stored[q]]
      /\ hash' = [q \in Paths |-> IF q \in orphans THEN None ELSE hash[q]]
      /\ bound' = [s \in Repos |-> (bound[s] \ (IF s = r THEN paths ELSE {})) \ orphans]
  BY DEF WriteBackDelete, DeleteRows
<1>4. TableTypes' /\ Stored'
  <2> HIDE DEF orphans, paths
  <2>1. bound' \in [Repos -> SUBSET Paths]
    BY <1>2, <1>3 DEF TableTypes
  <2>2. TableTypes'
    BY <1>2, <1>3, <2>1 DEF TableTypes
  <2>3. ASSUME NEW q \in Paths, kind'[q] = "file" PROVE stored'[q] # None
    BY <1>2, <1>3, <2>3, TreeAssumption DEF Stored, Kinds
  <2> QED
    BY <2>2, <2>3 DEF Stored
<1>5. CountTypes'
  <2>1. raced' \in [Repos -> SUBSET Paths]
    BY <1>1, RacedTyped DEF WriteBackDelete
  <2> QED
    BY <1>2, <1>3, <2>1 DEF CountTypes
<1>6. MemoryTypes'
  BY <1>2, <1>3 DEF MemoryTypes, memory
<1>7. WellFormed([req[c] EXCEPT !.at = "install"])
  BY <1>1, GoFormed DEF Steps
<1>8. RequestTypes' /\ Owned'
  BY <1>3, <1>7, GoTyped, GoKeeps, OwnedKept, BaseIs DEF Steps, memory
<1> QED
  BY <1>4, <1>5, <1>6, <1>8, BaseIs

\* Put and Delete change the tree that is cached, or put their own back.
LEMMA InstallBase == ASSUME Base, NEW c \in Clients, Install(c) PROVE Base'
<1> DEFINE r == req[c].repo
           p == req[c].path
           t == TreeToChange(c)
           X == CASE req[c].op = "put"    -> TreePut(t, p, req[c].content)
                  [] req[c].op = "delete" -> TreeDelete(t, p)
                  [] OTHER                -> trees[t]
<1>1. /\ req[c] \in RequestType /\ WellFormed(req[c]) /\ req[c].at = "install" /\ p \in Paths
      /\ r \in Repos
  BY BaseIs DEF RequestTypes, Shapes, RequestType, Install
<1>2. MemoryTypes /\ CountTypes
  BY BaseIs
<1>3. t \in Trees /\ t = IF cached[r] = None THEN req[c].tree ELSE cached[r].tree
  BY <1>1, <1>2 DEF TreeToChange, MemoryTypes, WellFormed, RequestType
<1>4. trees \in [Trees -> TreeType] /\ X \in TreeType
  <2>1. req[c].op = "put" => req[c].content \in Contents
    BY <1>1 DEF WellFormed, RequestType
  <2> QED
    BY <1>1, <1>2, <1>3, <2>1, TreePutIs, TreeDeleteIs DEF MemoryTypes
<1>5. /\ UNCHANGED <<db, loading, served>> /\ End(c) /\ Heap([trees EXCEPT ![t] = X])
      /\ cached' = [cached EXCEPT ![r] = IF @ = None THEN [tree |-> t, fresh |-> TRUE] ELSE @]
      /\ raced' = [raced EXCEPT ![r] = IF cached[r] = None THEN Paths ELSE @]
  BY DEF Install
<1> HIDE DEF X, t
<1>6. MemoryTypes'
  <2>1. [trees EXCEPT ![t] = X] \in [Trees -> TreeType]
    BY <1>4
  <2>2. trees' \in [Trees -> TreeType]
    BY <1>5, <2>1, HeapIs
  <2>3. cached' \in [Repos -> {None} \cup [tree : Trees, fresh : BOOLEAN]]
    BY <1>2, <1>3, <1>5 DEF MemoryTypes
  <2> QED
    BY <1>2, <1>5, <2>2, <2>3 DEF MemoryTypes
<1>7. CountTypes'
  BY <1>2, <1>5 DEF CountTypes
<1>8. RequestTypes'
  BY <1>5, EndTyped, BaseIs
<1>9. Owned'
  <2>1. \A o \in Clients : req'[o].tree = None
                          \/ (req'[o].tree = req[o].tree /\ req'[o].repo = req[o].repo)
    BY <1>5, EndKeeps, BaseIs
  <2>2. \A s \in Repos : cached'[s] = IF s = r /\ cached[r] = None THEN [tree |-> t, fresh |-> TRUE]
                                     ELSE cached[s]
    BY <1>2, <1>5 DEF MemoryTypes
  <2>3. cached[r] = None => t = req[c].tree /\ req[c].tree # None
    BY <1>1, <1>3 DEF WellFormed
  <2>4. Owned /\ [tree |-> t, fresh |-> TRUE].tree = t
    BY BaseIs
  <2>5. ASSUME NEW a \in Clients, NEW o \in Clients, req'[a].tree # None, req'[a].tree = req'[o].tree
        PROVE  req'[a].repo = req'[o].repo
    BY <2>1, <2>4, <2>5 DEF Owned
  <2>6. ASSUME NEW a \in Clients, NEW s \in Repos, cached'[s] # None, req'[a].tree # None,
               req'[a].tree = cached'[s].tree
        PROVE  req'[a].repo = s
    BY <1>1, <2>1, <2>2, <2>3, <2>4, <2>6 DEF Owned
  <2>7. ASSUME NEW s \in Repos, NEW u \in Repos, cached'[s] # None, cached'[u] # None,
               cached'[s].tree = cached'[u].tree
        PROVE  s = u
    BY <1>1, <2>2, <2>3, <2>4, <2>7 DEF Owned
  <2> QED
    BY <2>5, <2>6, <2>7 DEF Owned
<1> QED
  BY <1>5, <1>6, <1>7, <1>8, <1>9, TablesKept, BaseIs

\* A cache is dropped, or its tree is too old.
LEMMA CacheBase == ASSUME Base, NEW r \in Repos, Invalidate(r) \/ Expire(r) PROVE Base'
<1>1. MemoryTypes /\ CountTypes /\ RequestTypes /\ Owned
  BY BaseIs
<1>2. /\ UNCHANGED <<db, loading, raced, req>> /\ served' = served + 1 /\ served < MaxRequests
      /\ Heap(trees) \/ UNCHANGED trees
  BY DEF Invalidate, Expire
<1>3. \/ cached' = [cached EXCEPT ![r] = None]
      \/ cached[r] # None /\ cached' = [cached EXCEPT ![r].fresh = FALSE]
  BY DEF Invalidate, Expire, HasTree
<1>4. CountTypes'
  BY <1>1, <1>2, TablesAssumption DEF CountTypes
<1>5. cached' \in [Repos -> {None} \cup [tree : Trees, fresh : BOOLEAN]]
      /\ \A s \in Repos : cached'[s] = None \/ (cached[s] # None /\ cached'[s].tree = cached[s].tree)
  <2>1. CASE cached' = [cached EXCEPT ![r] = None]
    BY <1>1, <2>1 DEF MemoryTypes
  <2>2. CASE cached[r] # None /\ cached' = [cached EXCEPT ![r].fresh = FALSE]
    <3> DEFINE e == [cached[r] EXCEPT !.fresh = FALSE]
    <3>1. e \in [tree : Trees, fresh : BOOLEAN] /\ e.tree = cached[r].tree
      BY <1>1, <2>2 DEF MemoryTypes
    <3>2. cached' = [cached EXCEPT ![r] = e]
      BY <2>2
    <3> HIDE DEF e
    <3> QED
      BY <1>1, <2>2, <3>1, <3>2 DEF MemoryTypes
  <2> QED
    BY <1>3, <2>1, <2>2
<1>6. MemoryTypes'
  BY <1>1, <1>2, <1>5, HeapIs DEF MemoryTypes
<1>7. RequestTypes' /\ Owned'
  BY <1>1, <1>2, <1>5, OwnedKept DEF RequestTypes, Shapes, WellFormed
<1> QED
  BY <1>2, <1>4, <1>6, <1>7, TablesKept, BaseIs

\* The server stops.
LEMMA CrashBase == ASSUME Base, Crash PROVE Base'
<1>1. RequestTypes'
  <2>1. \A c \in Clients : req'[c] = Idle
    BY DEF Crash
  <2>2. WellFormed(Idle)' <=> WellFormed(Idle)
    BY DEF WellFormed, Idle
  <2>3. \A c \in Clients : WellFormed(req[c])'
    BY <2>1, <2>2, IdleTyped DEF WellFormed
  <2> QED
    BY <2>3, IdleTyped DEF RequestTypes, Shapes, Crash
<1>2. MemoryTypes' /\ CountTypes'
  BY BaseIs DEF MemoryTypes, CountTypes, Crash, NoTree, TreeType
<1>3. Owned'
  <2>1. Idle.tree = None
    BY DEF Idle
  <2> QED
    BY <2>1 DEF Owned, Crash
<1> QED
  BY <1>1, <1>2, <1>3, TablesKept, BaseIs DEF Crash

\* Every step keeps Base.
LEMMA BaseStep == ASSUME Base, [Next]_vars PROVE Base'
<1>1. ASSUME NEW c \in Clients, Proceed(c) PROVE Base'
  BY <1>1, UseTreeBase, LoadNewTreeBase, ReadBase, EditTreeBase, WriteBackPutBase, FailsBase,
     CollectPathsBase, WriteBackDeleteBase, InstallBase DEF Proceed
<1>2. CASE UNCHANGED vars
  BY <1>2, BaseIs DEF vars, TableTypes, MemoryTypes, CountTypes, RequestTypes, Shapes, WellFormed,
     Stored, Owned
<1> QED
  BY <1>1, <1>2, ArriveBase, CacheBase, CrashBase DEF Next

LEMMA BaseInit == ASSUME Init PROVE Base
<1>1. RequestTypes
  BY IdleTyped DEF Init, RequestTypes, Shapes
<1>2. MemoryTypes
  BY DEF Init, MemoryTypes, NoTree, TreeType
<1>3. TableTypes /\ Stored
  BY DEF Init, TableTypes, Stored
<1>4. CountTypes
  BY TablesAssumption DEF Init, CountTypes
<1>5. Owned
  BY DEF Init, Owned, Idle
<1> QED
  BY <1>1, <1>2, <1>3, <1>4, <1>5, BaseIs

\* Types of all variables hold in every state.
THEOREM LegacyTyped == Spec => []TypeOK
<1>1. Base => TypeOK
  BY DEF Base
<1> QED
  BY <1>1, BaseInit, BaseStep, PTL DEF Spec

-----------------------------------------------------------------------------
(* What a request relies on *)

Subtree(p) == {p} \cup Below(p)

Upclosed(S) == \A x \in S : Above[x] \subseteq S

IsFile(X, x) == X.nodes[x] = "file"

\* Above the files of a tree are nodes.
NoGap(X, x) == X.nodes[x] = None => \A y \in Below(x) : ~IsFile(X, y)

\* A file among rows that another one is below.
Chain(rows, p) == \E f \in rows \cap Subtree(p) : Below(f) \cap rows # {}

\* Near its path, and outside of bad, the tree X that an Edit or a Delete holds has
\* the files that rows has.
OwnFits(q, X, rows, bad) ==
    q.op \in {"edit", "delete"} /\ q.at \notin {"idle", "tree", "commit", "install"} =>
        \A x \in Near(q.path) \ bad : (IsFile(X, x) <=> x \in rows) /\ NoGap(X, x)

\* The paths of a Delete are all that rows has below its own.
CollectsAll(q, rows, bad) ==
    q.at = "commit" /\ q.op = "delete" /\ q.path \notin bad /\ ~Chain(rows, q.path) =>
        rows \cap Subtree(q.path) \subseteq q.paths

\* After the commit of a Delete, rows has none of them, and those that the cached tree
\* Y still has will go.
DeleteDone(q, Y, rows, bad) == q.at = "install" /\ q.op = "delete" =>
    \A x \in Subtree(q.path) \ bad : x \notin rows /\ (IsFile(Y, x) => x \in Taken(Y.nodes, q.path))

\* After the commit of a Put, what is stored is its content.
PutDone(q, rows, store, bad) == q.at = "install" /\ q.op = "put" /\ q.path \notin bad =>
    q.path \in rows /\ store[q.path] = q.content

\* An Edit writes what its tree has; a tree Y that is cached instead has no content.
EditHeld(q, X, Y, own, bad) == q.op = "edit" /\ q.tree # None /\ q.path \notin bad =>
    /\ q.at = "write" => IsFile(X, q.path) /\ X.content[q.path] = q.content
    /\ own \/ Y.content[q.path] = None

\* A content that was read is stored still.
ReadHeld(q, rows, store, bad) == q.at = "loaded" /\ q.path \in rows \ bad =>
    q.content = store[q.path]

Fits(q, X, Y, own, rows, store, bad) ==
    /\ OwnFits(q, X, rows, bad)
    /\ CollectsAll(q, rows, bad)
    /\ DeleteDone(q, Y, rows, bad)
    /\ PutDone(q, rows, store, bad)
    /\ EditHeld(q, X, Y, own, bad)
    /\ ReadHeld(q, rows, store, bad)

\* A request that has no tree yet relies on nothing.
LEMMA NothingYet ==
    ASSUME NEW q, q.at \in {"idle", "tree"}, WellFormed(q), NEW X, NEW Y, NEW own, NEW rows, NEW store, NEW bad
    PROVE  Fits(q, X, Y, own, rows, store, bad)
BY DEF Fits, OwnFits, CollectsAll, DeleteDone, PutDone, EditHeld, ReadHeld, WellFormed

\* Neither does a Delete of the root.
LEMMA ClearFits ==
    ASSUME NEW q, q.op = "clear", WellFormed(q), NEW X, NEW Y, NEW own, NEW rows, NEW store, NEW bad
    PROVE  Fits(q, X, Y, own, rows, store, bad)
BY DEF Fits, OwnFits, CollectsAll, DeleteDone, PutDone, EditHeld, ReadHeld, WellFormed

\* A request can rely on what it did as long as what it looks at stays.
LEMMA FitsKept ==
    ASSUME NEW q, q.path \in Paths, NEW X, NEW Y, NEW own, NEW rows, NEW store, NEW bad,
           Fits(q, X, Y, own, rows, store, bad), WellFormed(q),
           NEW X2, NEW Y2, NEW own2, NEW rows2, NEW store2, NEW bad2,
           rows \subseteq Paths, rows2 \subseteq Paths,
           bad \cap Near(q.path) \subseteq bad2, Upclosed(bad2),
           \A x \in Near(q.path) \ bad2 : /\ x \in rows2 <=> x \in rows
                                          /\ x \in rows => store2[x] = store[x],
           q.tree # None => \A x \in Near(q.path) \ bad2 :
               (IsFile(X2, x) <=> IsFile(X, x)) /\ (NoGap(X, x) => NoGap(X2, x)),
           q.tree # None /\ q.op = "edit" /\ q.path \notin bad2 => X2.content[q.path] = X.content[q.path],
           q.op = "delete" /\ q.at = "install" =>
               \/ \A x \in Subtree(q.path) \ bad2 : IsFile(Y2, x) => x \in rows2
               \/ \A x \in Subtree(q.path) : Y2.nodes[x] = Y.nodes[x],
           q.op = "edit" /\ q.tree # None /\ q.path \notin bad2 =>
               /\ own => own2 \/ Y2.content[q.path] = None
               /\ Y.content[q.path] = None => own2 \/ Y2.content[q.path] = None
    PROVE  Fits(q, X2, Y2, own2, rows2, store2, bad2)
<1> DEFINE p == q.path
<1>1. /\ p \in Near(p) /\ Subtree(p) \subseteq Near(p) /\ Near(p) \subseteq Paths
      /\ \A x \in Near(p) \ bad2 : x \notin bad
  BY PathFacts DEF Subtree, Near
<1>2. OwnFits(q, X2, rows2, bad2)
  <2>1. q.at \notin {"idle", "tree"} => q.tree # None
    BY DEF WellFormed
  <2> QED
    BY <1>1, <2>1 DEF Fits, OwnFits
<1>3. CollectsAll(q, rows2, bad2)
  <2> SUFFICES ASSUME p \notin bad2 PROVE CollectsAll(q, rows2, bad2)
    BY DEF CollectsAll
  <2>1. Subtree(p) \cap bad2 = {}
    BY DEF Upclosed, Subtree, Below
  <2>2. rows2 \cap Subtree(p) = rows \cap Subtree(p) /\ p \notin bad
    BY <1>1, <2>1
  <2>3. Chain(rows, p) => Chain(rows2, p)
    <3>1. ASSUME NEW f \in Subtree(p) PROVE Below(f) \subseteq Subtree(p)
      BY TreeAssumption, <1>1 DEF Subtree, Below
    <3> QED
      BY <2>2, <3>1 DEF Chain
  <2> QED
    BY <2>2, <2>3 DEF Fits, CollectsAll
<1>4. DeleteDone(q, Y2, rows2, bad2)
  <2> SUFFICES ASSUME q.at = "install", q.op = "delete", NEW x \in Subtree(p) \ bad2
               PROVE  x \notin rows2 /\ (IsFile(Y2, x) => x \in Taken(Y2.nodes, p))
    BY DEF DeleteDone
  <2>1. x \notin rows2 /\ (IsFile(Y, x) => x \in Taken(Y.nodes, p))
    BY <1>1 DEF Fits, DeleteDone
  <2>2. CASE \A y \in Subtree(p) \ bad2 : IsFile(Y2, y) => y \in rows2
    BY <2>1, <2>2
  <2>3. CASE \A y \in Subtree(p) : Y2.nodes[y] = Y.nodes[y]
    <3>1. \A y \in Subtree(p) : Between(p, y) \subseteq Subtree(p)
      BY PathFacts DEF Between, Subtree, Below
    <3>2. x \in Taken(Y.nodes, p) => x \in Taken(Y2.nodes, p)
      BY <2>3, <3>1 DEF Taken, Subtree
    <3> QED
      BY <2>1, <2>3, <3>2 DEF IsFile
  <2> QED
    BY <2>2, <2>3
<1>5. PutDone(q, rows2, store2, bad2) /\ ReadHeld(q, rows2, store2, bad2)
  BY <1>1 DEF Fits, PutDone, ReadHeld
<1>6. EditHeld(q, X2, Y2, own2, bad2)
  BY <1>1 DEF Fits, EditHeld
<1> QED
  BY <1>2, <1>3, <1>4, <1>5, <1>6 DEF Fits

-----------------------------------------------------------------------------
(* The invariant of the trees *)

\* The tree that is cached, and whether it is that of a request.
Cached(r) == IF cached[r] = None THEN NoTree ELSE trees[cached[r].tree]

Holds(c) == cached[req[c].repo] # None /\ cached[req[c].repo].tree = req[c].tree

Fit(c) == LET r == req[c].repo IN
    Fits(req[c], trees[req[c].tree], Cached(r), Holds(c), FileRows(r), stored, raced[r])

\* Two requests of one repository on paths near each other, of which one writes.
Rival(q, o) ==
    /\ q.at # "idle" /\ o.at # "idle" /\ q.repo = o.repo
    /\ o.path \in Near(q.path)
    /\ Writes(q.op) \/ Writes(o.op)
    /\ "clear" \notin {q.op, o.op}

\* Where they meet the tree may be wrong; all that one of them deletes, once it has
\* been deleted from the tables.
Meet(q, o, bad) == Rival(q, o) =>
    /\ Near(q.path) \cap Near(o.path) \subseteq bad
    /\ q.at = "install" /\ q.op = "delete" => Near(q.path) \subseteq bad

Meets == \A c, o \in Clients : c # o => Meet(req[c], req[o], raced[req[c].repo])

\* Paths where the tree will be changed, as the tables have been.
DueOf(q, x) == q.at = "install" /\
    \/ q.op = "put" /\ x = q.path
    \/ q.op = "delete" /\ x \in Subtree(q.path)

\* Paths where the tables will be changed, as the tree has been.
EditOf(q, x) == q.at = "write" /\ q.op = "edit" /\ x = q.path

Due(r, x)     == \E c \in Clients : req[c].repo = r /\ DueOf(req[c], x)
Editing(r, x) == \E c \in Clients : req[c].repo = r /\ EditOf(req[c], x)

\* The cached tree of r is right at x.
CacheFitsAt(r, x) == LET X == Cached(r) IN
    /\ (IsFile(X, x) <=> x \in FileRows(r)) \/ Due(r, x)
    /\ IsFile(X, x) /\ X.content[x] # None => X.content[x] = stored[x] \/ Due(r, x) \/ Editing(r, x)
    /\ NoGap(X, x)

CacheFits(r) == cached[r] # None => \A x \in Paths \ raced[r] : CacheFitsAt(r, x)

TreeInv ==
    /\ Base /\ Meets
    /\ \A r \in Repos : Upclosed(raced[r]) /\ CacheFits(r)
    /\ \A c \in Clients : Fit(c)

-----------------------------------------------------------------------------
(* Steps that change few rows and one tree *)

SameRow(s, x) ==
    /\ (x \in FileRows(s))' <=> x \in FileRows(s)
    /\ x \in FileRows(s) => stored'[x] = stored[x]

\* The rows and trees that a step of c leaves to others: rows of its repository change
\* in W, and nodes and contents of one of its trees t, which becomes Z, in V.
Effect(c, W, V, t, Z) == LET r == req[c].repo  p == req[c].path IN
    /\ req[c].at # "idle"
    /\ \A o \in Clients \ {c} : req'[o] = req[o]
    /\ \A s \in Repos : raced[s] \subseteq raced'[s] /\ Upclosed(raced'[s])
    /\ W \subseteq Subtree(p) /\ V \subseteq Subtree(p)
    /\ W = {} \/ Writes(req[c].op)
    /\ Z = trees[t] \/ req[c].op # "clear"
    /\ \A s \in Repos : \A x \in Paths \ raced'[s] : s # r \/ x \notin W => SameRow(s, x)
    /\ \A o \in Clients \ {c} : req[o].tree # None =>
        trees'[req[o].tree] = IF req[o].tree = t THEN Z ELSE trees[req[o].tree]
    /\ \A s \in Repos : \/ cached'[s] = None \/ raced'[s] = Paths
                        \/ /\ cached[s] # None /\ cached'[s].tree = cached[s].tree
                           /\ trees'[cached[s].tree] = IF cached[s].tree = t THEN Z ELSE trees[cached[s].tree]
    /\ Z = trees[t] \/ (t = req[c].tree /\ t # None) \/ (cached[r] # None /\ t = cached[r].tree)
    /\ \A x \in Paths : (Writes(req[c].op) /\ x \in V) \/ (IsFile(Z, x) <=> IsFile(trees[t], x))
    /\ \A x \in Paths : x \in V \/ Z.content[x] = trees[t].content[x]
    /\ \A x \in Paths \ Near(p) : Z.nodes[x] = trees[t].nodes[x]
    /\ \A x \in Paths \ raced'[r] : NoGap(trees[t], x) => NoGap(Z, x)

\* Requests that meet do so in what may be wrong.
LEMMA RivalsMeet ==
    ASSUME TreeInv, NEW c \in Clients, NEW o \in Clients \ {c}, req[c].at # "idle", req[o].at # "idle",
           req[o].repo = req[c].repo, Writes(req[c].op) \/ Writes(req[o].op),
           "clear" \notin {req[c].op, req[o].op},
           NEW x \in Near(req[o].path), x \in Near(req[c].path),
           x \in Subtree(req[c].path) \/ x \in Subtree(req[o].path)
    PROVE  /\ Near(req[c].path) \cap Near(req[o].path) \subseteq raced[req[c].repo]
           /\ req[o].at = "install" /\ req[o].op = "delete" => Near(req[o].path) \subseteq raced[req[c].repo]
<1>1. req[c].path \in Paths /\ req[o].path \in Paths /\ Meets
  BY BaseIs DEF RequestTypes, RequestType, TreeInv
<1>2. x \in Paths
  BY <1>1, PathFacts
<1>3. req[o].path \in Near(req[c].path) /\ req[c].path \in Near(req[o].path)
  BY <1>1, <1>2, PathFacts DEF Subtree, Below
<1> QED
  BY <1>1, <1>3 DEF Meets, Meet, Rival

\* What other requests rely on stays.
LEMMA OthersFit ==
    ASSUME TreeInv, Base', NEW c \in Clients, NEW W, NEW V, NEW t, NEW Z, Effect(c, W, V, t, Z),
           NEW o \in Clients \ {c}
    PROVE  Fit(o)'
<1> DEFINE q == req[o]
           s == req[o].repo
           r == req[c].repo
           p == req[c].path
<1>1. /\ q \in RequestType /\ WellFormed(q) /\ q.path \in Paths /\ s \in Repos
      /\ r \in Repos /\ p \in Paths /\ req'[o] = q
  BY BaseIs DEF TreeInv, RequestTypes, RequestType, Shapes, Effect
<1>2. CASE q.at = "idle" \/ q.op = "clear"
  <2>1. Fits(q, trees'[q.tree], Cached(s)', Holds(o)', FileRows(s)', stored', raced'[s])
    BY <1>1, <1>2, NothingYet, ClearFits
  <2> QED
    BY <1>1, <2>1 DEF Fit
<1>3. CASE q.at # "idle" /\ q.op # "clear"
  <2>1. Fits(q, trees[q.tree], Cached(s), Holds(o), FileRows(s), stored, raced[s])
    BY DEF TreeInv, Fit
  <2>2. FileRows(s) \subseteq Paths /\ FileRows(s)' \subseteq Paths
    BY <1>1, BaseIs DEF TreeInv, FileRows, TableTypes
  <2>3. raced[s] \subseteq raced'[s] /\ Upclosed(raced'[s])
    BY <1>1 DEF Effect
  <2>4. ASSUME s = r, req[c].op # "clear", Writes(req[c].op) \/ Writes(q.op), NEW x \in Subtree(p), x \in Near(q.path)
        PROVE  x \in raced'[s] /\ (q.at = "install" /\ q.op = "delete" => Near(q.path) \subseteq raced'[s])
    <3>1. x \in Near(p)
      BY <2>4 DEF Subtree, Near, Upward
    <3> QED
      BY <1>3, <2>3, <2>4, <3>1, RivalsMeet DEF Effect
  <2>5. ASSUME NEW x \in Near(q.path) \ raced'[s]
        PROVE  SameRow(s, x)
    <3>1. x \in Paths
      BY <1>1, PathFacts
    <3> QED
      BY <1>1, <2>4, <2>5, <3>1 DEF Effect, Writes
  <2>6. \A x \in Near(q.path) \ raced'[s] : /\ x \in FileRows(s)' <=> x \in FileRows(s)
                                            /\ x \in FileRows(s) => stored'[x] = stored[x]
    BY <2>5 DEF SameRow
  <2>7. q.tree = t /\ q.tree # None => Z = trees[t] \/ s = r
    BY <1>1, BaseIs DEF TreeInv, Owned, Effect
  <2>8. ASSUME q.tree # None, NEW x \in Near(q.path) \ raced'[s]
        PROVE  /\ IsFile(trees'[q.tree], x) <=> IsFile(trees[q.tree], x)
               /\ NoGap(trees[q.tree], x) => NoGap(trees'[q.tree], x)
    <3>1. x \in Paths
      BY <1>1, PathFacts
    <3>2. trees'[q.tree] = IF q.tree = t THEN Z ELSE trees[q.tree]
      BY <2>8 DEF Effect
    <3>3. CASE q.tree # t \/ Z = trees[t]
      BY <3>2, <3>3
    <3>4. CASE q.tree = t /\ s = r
      <4>1. NoGap(trees[t], x) => NoGap(Z, x)
        BY <2>8, <3>1, <3>4 DEF Effect
      <4>2. (Writes(req[c].op) /\ x \in V) \/ (IsFile(Z, x) <=> IsFile(trees[t], x))
        BY <3>1 DEF Effect
      <4>3. ~(Writes(req[c].op) /\ x \in V)
        BY <2>4, <2>8, <3>4 DEF Effect, Writes
      <4> QED
        BY <3>2, <3>4, <4>1, <4>2, <4>3
    <3> QED
      BY <2>7, <2>8, <3>3, <3>4
  <2>9. ASSUME q.tree # None, q.op = "edit", q.path \notin raced'[s]
        PROVE  trees'[q.tree].content[q.path] = trees[q.tree].content[q.path]
    <3>1. trees'[q.tree] = IF q.tree = t THEN Z ELSE trees[q.tree]
      BY <2>9 DEF Effect
    <3>2. CASE q.tree # t \/ Z = trees[t]
      BY <3>1, <3>2
    <3>3. CASE q.tree = t /\ s = r /\ Z # trees[t]
      <4>1. q.path \notin V
        BY <1>1, <2>4, <2>9, <3>3, PathFacts DEF Effect, Writes
      <4> QED
        BY <1>1, <3>1, <3>3, <4>1 DEF Effect
    <3> QED
      BY <2>7, <2>9, <3>2, <3>3
  <2>10. \/ cached'[s] = None /\ Cached(s)' = NoTree
         \/ raced'[s] = Paths
         \/ /\ cached[s] # None /\ cached'[s] # None /\ cached'[s].tree = cached[s].tree
            /\ Cached(s)' = IF cached[s].tree = t THEN Z ELSE Cached(s)
            /\ cached[s].tree = t => Cached(s) = trees[t] /\ (Z = trees[t] \/ s = r)
    <3>1. CASE cached'[s] = None
      BY <1>1, <3>1 DEF Cached, NoTree
    <3>2. CASE /\ cached'[s] # None /\ cached[s] # None /\ cached'[s].tree = cached[s].tree
               /\ trees'[cached[s].tree] = IF cached[s].tree = t THEN Z ELSE trees[cached[s].tree]
      <4>1. cached[s].tree = t => Z = trees[t] \/ s = r
        BY <1>1, <3>2, BaseIs DEF TreeInv, Owned, Effect
      <4> QED
        BY <1>1, <3>2, <4>1 DEF Cached
    <3> QED
      BY <1>1, <3>1, <3>2 DEF Effect
  <2>11. ASSUME q.op = "delete", q.at = "install"
         PROVE  \/ \A x \in Subtree(q.path) \ raced'[s] : IsFile(Cached(s)', x) => x \in FileRows(s)'
                \/ \A x \in Subtree(q.path) : Cached(s)'.nodes[x] = Cached(s).nodes[x]
    <3>1. Subtree(q.path) \subseteq Near(q.path) /\ Near(q.path) \subseteq Paths
      BY <1>1, PathFacts DEF Subtree, Near, Upward
    <3>2. CASE cached'[s] = None /\ Cached(s)' = NoTree
      BY <3>1, <3>2, TreeAssumption DEF NoTree, IsFile, Kinds
    <3>3. CASE raced'[s] = Paths \/ Near(q.path) \subseteq raced'[s]
      BY <3>1, <3>3
    <3>4. CASE Cached(s)' = Cached(s)
      BY <3>4
    <3>5. CASE /\ Cached(s)' = Z /\ Cached(s) = trees[t] /\ s = r /\ Z # trees[t]
               /\ ~(Near(q.path) \subseteq raced'[s])
      <4>1. ASSUME NEW x \in Subtree(q.path), x \in Near(p) PROVE FALSE
        <5>1. x \in Near(q.path)
          BY <3>1
        <5>2. Near(q.path) \subseteq raced[s]
          BY <1>3, <2>11, <3>5, <4>1, <5>1, RivalsMeet DEF Effect, Writes
        <5> QED
          BY <2>3, <3>5, <5>2
      <4> QED
        BY <3>1, <3>5, <4>1 DEF Effect
    <3> QED
      BY <2>10, <3>2, <3>3, <3>4, <3>5
  <2>12. ASSUME q.op = "edit", q.tree # None, q.path \notin raced'[s]
         PROVE  /\ Holds(o) => Holds(o)' \/ Cached(s)'.content[q.path] = None
                /\ Cached(s).content[q.path] = None => Cached(s)'.content[q.path] = None
    <3>1. CASE Cached(s)' = NoTree
      BY <1>1, <3>1 DEF NoTree
    <3>2. CASE /\ cached[s] # None /\ cached'[s] # None /\ cached'[s].tree = cached[s].tree
               /\ Cached(s)' = IF cached[s].tree = t THEN Z ELSE Cached(s)
               /\ cached[s].tree = t => Cached(s) = trees[t] /\ (Z = trees[t] \/ s = r)
      <4>1. s = r /\ Z # trees[t] => q.path \notin V
        BY <1>1, <2>4, <2>12, PathFacts DEF Effect, Writes
      <4>2. Cached(s)'.content[q.path] = Cached(s).content[q.path]
        BY <1>1, <3>2, <4>1 DEF Effect
      <4> QED
        BY <1>1, <3>2, <4>2 DEF Holds
    <3> QED
      BY <1>1, <2>10, <2>12, <3>1, <3>2
  <2> DEFINE own == Holds(o)
             own2 == Holds(o)'
             rows2 == FileRows(s)'
             Y2 == Cached(s)'
  <2> HIDE DEF own, own2, rows2, Y2
  <2>13. Fits(q, trees'[q.tree], Y2, own2, rows2, stored', raced'[s])
    BY <1>1, <2>1, <2>2, <2>3, <2>6, <2>8, <2>9, <2>11, <2>12, FitsKept DEF own, own2, rows2, Y2
  <2> QED
    BY <1>1, <2>13 DEF Fit, own2, rows2, Y2
<1> QED
  BY <1>2, <1>3

\* The cached trees stay right elsewhere.
LEMMA OtherPathsFit ==
    ASSUME TreeInv, Base', NEW c \in Clients, NEW W, NEW V, NEW t, NEW Z, Effect(c, W, V, t, Z),
           NEW s \in Repos, cached'[s] # None, NEW x \in Paths \ raced'[s],
           s = req[c].repo =>
               /\ x \notin W \cup V
               /\ DueOf(req[c], x) => DueOf(req'[c], x) /\ req'[c].repo = s
               /\ EditOf(req[c], x) => EditOf(req'[c], x) /\ req'[c].repo = s
    PROVE  CacheFitsAt(s, x)'
<1> DEFINE r == req[c].repo
<1>1. /\ cached[s] # None /\ cached'[s].tree = cached[s].tree
      /\ trees'[cached[s].tree] = IF cached[s].tree = t THEN Z ELSE trees[cached[s].tree]
      /\ x \notin raced[s] /\ SameRow(s, x) /\ r \in Repos
  BY BaseIs DEF TreeInv, RequestTypes, RequestType, Effect
<1>2. CacheFitsAt(s, x)
  BY <1>1 DEF TreeInv, CacheFits
<1>3. cached[s].tree = t => Z = trees[t] \/ s = r
  BY <1>1, BaseIs DEF TreeInv, Owned, Effect
<1>4. /\ Cached(s) = trees[cached[s].tree]
      /\ Cached(s)' = IF cached[s].tree = t THEN Z ELSE Cached(s)
  BY <1>1 DEF Cached
<1>5. /\ IsFile(Cached(s)', x) <=> IsFile(Cached(s), x)
      /\ Cached(s)'.content[x] = Cached(s).content[x]
      /\ NoGap(Cached(s), x) => NoGap(Cached(s)', x)
  <2>1. CASE Z = trees[t] \/ cached[s].tree # t
    BY <1>4, <2>1
  <2>2. CASE cached[s].tree = t /\ s = r
    BY <1>4, <2>2 DEF Effect
  <2> QED
    BY <1>3, <2>1, <2>2
<1>6. Due(s, x) => Due(s, x)'
  <2>1. ASSUME NEW o \in Clients, req[o].repo = s, DueOf(req[o], x)
        PROVE  \E d \in Clients : req'[d].repo = s /\ DueOf(req'[d], x)
    BY <2>1 DEF Effect
  <2> QED
    BY <2>1 DEF Due, DueOf
<1>7. Editing(s, x) => Editing(s, x)'
  <2>1. ASSUME NEW o \in Clients, req[o].repo = s, EditOf(req[o], x)
        PROVE  \E d \in Clients : req'[d].repo = s /\ EditOf(req'[d], x)
    BY <2>1 DEF Effect
  <2> QED
    BY <2>1 DEF Editing, EditOf
<1>8. CASE Due(s, x)
  <2>1. NoGap(Cached(s), x)
    BY <1>2 DEF CacheFitsAt
  <2> HIDE DEF Due
  <2> QED
    BY <1>5, <1>6, <1>8, <2>1 DEF CacheFitsAt, IsFile, NoGap
<1>9. CASE ~Due(s, x)
  <2>1. /\ IsFile(Cached(s), x) <=> x \in FileRows(s)
        /\ IsFile(Cached(s), x) /\ Cached(s).content[x] # None => Cached(s).content[x] = stored[x] \/ Editing(s, x)
        /\ NoGap(Cached(s), x)
    BY <1>2, <1>9 DEF CacheFitsAt
  <2> QED
    BY <1>1, <1>5, <1>7, <2>1 DEF CacheFitsAt, IsFile, NoGap, SameRow
<1> QED
  BY <1>8, <1>9

\* Requests meet where they met.
LEMMA MeetsKept ==
    ASSUME TreeInv, NEW c \in Clients, req[c].at # "idle",
           \A o \in Clients \ {c} : req'[o] = req[o],
           \A s \in Repos : raced[s] \subseteq raced'[s],
           \/ req'[c].at = "idle"
           \/ /\ req'[c].repo = req[c].repo /\ req'[c].path = req[c].path /\ req'[c].op = req[c].op
              /\ req'[c].at = "install" /\ req[c].op = "delete" /\ req[c].path \in raced[req[c].repo] =>
                     Near(req[c].path) \subseteq raced'[req[c].repo]
    PROVE  Meets'
<1>1. \A o \in Clients : req[o].repo \in Repos /\ req[o].path \in Paths
  BY BaseIs DEF TreeInv, RequestTypes, RequestType
<1>2. \A a, o \in Clients : a # o => Meet(req[a], req[o], raced[req[a].repo])
  BY DEF TreeInv, Meets
<1>3. ASSUME NEW a \in Clients, NEW o \in Clients, a # o PROVE Meet(req'[a], req'[o], raced'[req'[a].repo])
  <2>1. CASE a # c /\ o # c
    BY <1>1, <1>2, <1>3, <2>1 DEF Meet
  <2>2. CASE a # c /\ o = c
    BY <1>1, <1>2, <1>3, <2>2 DEF Meet, Rival
  <2>3. CASE a = c
    <3> SUFFICES ASSUME Rival(req'[c], req'[o])
                 PROVE  /\ Near(req'[c].path) \cap Near(req'[o].path) \subseteq raced'[req'[c].repo]
                        /\ req'[c].at = "install" /\ req'[c].op = "delete" =>
                                Near(req'[c].path) \subseteq raced'[req'[c].repo]
      BY <2>3 DEF Meet
    <3>1. /\ req'[c].repo = req[c].repo /\ req'[c].path = req[c].path /\ req'[c].op = req[c].op
          /\ req'[c].at = "install" /\ req[c].op = "delete" /\ req[c].path \in raced[req[c].repo] =>
                 Near(req[c].path) \subseteq raced'[req[c].repo]
          /\ req'[o] = req[o]
      BY <1>3, <2>3 DEF Rival
    <3>2. Rival(req[c], req[o])
      BY <3>1 DEF Rival
    <3>3. Near(req[c].path) \cap Near(req[o].path) \subseteq raced[req[c].repo]
      BY <1>2, <1>3, <2>3, <3>2 DEF Meet
    <3>4. req[c].path \in Near(req[c].path) \cap Near(req[o].path)
      BY <1>1, <3>2, PathFacts DEF Rival
    <3> QED
      BY <1>1, <3>1, <3>3, <3>4
  <2> QED
    BY <2>1, <2>2, <2>3
<1> QED
  BY <1>3 DEF Meets, Meet, Rival

\* A step keeps the invariant if it leaves what it changes as it should be.
LEMMA EffectKeeps ==
    ASSUME TreeInv, Base', Meets', NEW c \in Clients, NEW W, NEW V, NEW t, NEW Z, Effect(c, W, V, t, Z),
           Fit(c)', NEW r \in Repos, r = req[c].repo,
           cached'[r] # None => \A x \in (W \cup V) \ raced'[r] : CacheFitsAt(r, x)',
           \A x \in Paths \ (raced'[r] \cup W \cup V) :
               /\ DueOf(req[c], x) => DueOf(req'[c], x) /\ req'[c].repo = r
               /\ EditOf(req[c], x) => EditOf(req'[c], x) /\ req'[c].repo = r
    PROVE  TreeInv'
<1>1. \A o \in Clients : Fit(o)'
  BY OthersFit
<1>2. ASSUME NEW s \in Repos, cached'[s] # None, NEW x \in Paths \ raced'[s] PROVE CacheFitsAt(s, x)'
  <2>1. CASE s = r /\ x \in W \cup V
    BY <1>2, <2>1
  <2>2. CASE s # r \/ x \notin W \cup V
    BY <1>2, <2>2, OtherPathsFit
  <2> QED
    BY <2>1, <2>2
<1>3. \A s \in Repos : Upclosed(raced'[s])
  BY DEF Effect
<1> QED
  BY <1>1, <1>2, <1>3 DEF TreeInv, CacheFits, Upclosed

-----------------------------------------------------------------------------
(* Steps that leave tables and trees alone *)

\* A step changes a request only, or what may be wrong.
Quiet(c) ==
    /\ req[c].at # "idle" /\ \A o \in Clients \ {c} : req'[o] = req[o]
    /\ \A s \in Repos : raced[s] \subseteq raced'[s] /\ Upclosed(raced'[s])
    /\ UNCHANGED <<kind, stored, bound, cached>>
    /\ UNCHANGED trees \/ Heap(trees)

LEMMA QuietIs ==
    ASSUME TreeInv, Base', NEW c \in Clients, Quiet(c)
    PROVE  /\ \E t, Z : Effect(c, {}, {}, t, Z)
           /\ \A s \in Repos : Cached(s)' = Cached(s) /\ FileRows(s)' = FileRows(s)
           /\ req'[c].tree \in Trees => trees'[req'[c].tree] = trees[req'[c].tree]
<1>1. \A o \in Clients : req[o] \in RequestType
  BY BaseIs DEF TreeInv, RequestTypes
<1>2. \A s \in Repos : cached[s] # None => cached[s].tree \in Trees
  BY BaseIs DEF TreeInv, MemoryTypes
<1>3. /\ \A o \in Clients : req'[o].tree \in Trees => trees'[req'[o].tree] = trees[req'[o].tree]
      /\ \A s \in Repos : cached'[s] # None => trees'[cached[s].tree] = trees[cached[s].tree]
  BY <1>2, HeapIs DEF Quiet
<1>4. \A s \in Repos : Cached(s)' = Cached(s) /\ FileRows(s)' = FileRows(s)
  BY <1>3 DEF Quiet, Cached, FileRows, NoTree
<1>5. \A o \in Clients \ {c} : req[o].tree # None => trees'[req[o].tree] = trees[req[o].tree]
  BY <1>1, <1>3 DEF Quiet, RequestType
<1>6. \A s \in Repos : \A x \in Paths \ raced'[s] : SameRow(s, x)
  BY <1>4 DEF SameRow, Quiet
<1>7. PICK t, Z : t = req[c].tree /\ Z = trees[t]
  OBVIOUS
<1>8. Effect(c, {}, {}, t, Z)
  BY <1>3, <1>5, <1>6, <1>7 DEF Effect, Quiet
<1> QED
  BY <1>3, <1>4, <1>8

\* What a request relies on after a step, with the repository that it has then.
LEMMA FitIs ==
    ASSUME NEW c \in Clients, NEW r \in Repos, req'[c].repo = r
    PROVE  Fit(c)' <=> Fits(req'[c], trees'[req'[c].tree], Cached(r)',
                            cached'[r] # None /\ cached'[r].tree = req'[c].tree,
                            FileRows(r)', stored', raced'[r])
BY DEF Fit, Cached, Holds, FileRows

\* A request ends or has not begun to rely on anything.
LEMMA EndFits == ASSUME Base', NEW c \in Clients, req'[c].at \in {"idle", "tree"} PROVE Fit(c)'
<1>1. WellFormed(req'[c])
  BY BaseIs DEF RequestTypes, Shapes, WellFormed
<1> QED
  BY <1>1, NothingYet DEF Fit

LEMMA EndIs ==
    ASSUME Base, NEW c \in Clients, End(c)
    PROVE  req'[c].at = "idle" /\ \A o \in Clients \ {c} : req'[o] = req[o]
BY BaseIs DEF RequestTypes, End, Idle

LEMMA GoIs ==
    ASSUME Base, NEW c \in Clients, NEW step, Go(c, step)
    PROVE  /\ req'[c] = [req[c] EXCEPT !.at = step]
           /\ req'[c].at = step /\ req'[c].repo = req[c].repo /\ req'[c].path = req[c].path
           /\ req'[c].op = req[c].op /\ req'[c].tree = req[c].tree /\ req'[c].content = req[c].content
           /\ req'[c].paths = req[c].paths
           /\ \A o \in Clients \ {c} : req'[o] = req[o]
BY BaseIs DEF RequestTypes, RequestType, Go

\* If neither rows nor trees change.
LEMMA QuietKeeps ==
    ASSUME TreeInv, Base', Meets', NEW c \in Clients, Quiet(c), Fit(c)', NEW r \in Repos, r = req[c].repo,
           \A x \in Paths \ raced'[r] : ~DueOf(req[c], x) /\ ~EditOf(req[c], x)
    PROVE  TreeInv'
<1>1. PICK t, Z : Effect(c, {}, {}, t, Z)
  BY QuietIs
<1>2. \A x \in ({} \cup {}) \ raced'[r] : CacheFitsAt(r, x)'
  OBVIOUS
<1>3. \A x \in Paths \ (raced'[r] \cup {} \cup {}) :
        /\ DueOf(req[c], x) => DueOf(req'[c], x) /\ req'[c].repo = r
        /\ EditOf(req[c], x) => EditOf(req'[c], x) /\ req'[c].repo = r
  OBVIOUS
<1> QED
  BY <1>1, <1>2, <1>3, EffectKeeps

\* A request ends without a change that it has still to make.
LEMMA QuietEnd ==
    ASSUME TreeInv, Base', NEW c \in Clients, Quiet(c), req'[c].at = "idle", req[c].at # "install",
           EditOf(req[c], req[c].path) => req[c].path \in raced'[req[c].repo]
    PROVE  TreeInv'
<1>1. PICK r \in Repos : r = req[c].repo
  BY BaseIs DEF TreeInv, RequestTypes, RequestType
<1>2. Fit(c)'
  BY EndFits
<1>3. Meets'
  BY MeetsKept DEF Quiet
<1>4. \A x \in Paths \ raced'[r] : ~DueOf(req[c], x) /\ ~EditOf(req[c], x)
  BY <1>1 DEF DueOf, EditOf
<1> QED
  BY <1>1, <1>2, <1>3, <1>4, QuietKeeps

\* A request goes on, and relies on what it finds.
LEMMA QuietGo ==
    ASSUME TreeInv, Base', NEW c \in Clients, Quiet(c), req[c].at \notin {"write", "install"},
           req'[c].repo = req[c].repo, req'[c].path = req[c].path, req'[c].op = req[c].op,
           req'[c].at # "install", NEW r \in Repos, r = req[c].repo,
           Fits(req'[c], trees[req'[c].tree], Cached(r), cached[r] # None /\ cached[r].tree = req'[c].tree,
                FileRows(r), stored, raced'[r])
    PROVE  TreeInv'
<1> DEFINE q == req'[c]
<1>1. q \in RequestType /\ WellFormed(q)
  BY BaseIs DEF TreeInv, RequestTypes, RequestType, Shapes, WellFormed
<1>3. Fit(c)'
  <2>1. CASE q.at \in {"idle", "tree"}
    BY <2>1, EndFits
  <2>2. CASE q.at \notin {"idle", "tree"}
    <3>1. q.tree \in Trees
      BY <1>1, <2>2 DEF WellFormed, RequestType
    <3>2. trees'[q.tree] = trees[q.tree] /\ Cached(r)' = Cached(r) /\ FileRows(r)' = FileRows(r)
      BY <1>1, <3>1, QuietIs DEF Cached, FileRows
    <3>3. stored' = stored /\ cached' = cached
      BY DEF Quiet
    <3> QED
      BY <3>2, <3>3, FitIs
  <2> QED
    BY <2>1, <2>2
<1>4. Meets'
  BY MeetsKept DEF Quiet
<1>5. \A x \in Paths \ raced'[r] : ~DueOf(req[c], x) /\ ~EditOf(req[c], x)
  BY DEF DueOf, EditOf
<1> QED
  BY <1>3, <1>4, <1>5, QuietKeeps

\* A request takes the cached tree: where that is not right yet, it meets the request
\* that will change it.
LEMMA UseTreeKeeps == ASSUME TreeInv, Base', NEW c \in Clients, UseTree(c) PROVE TreeInv'
<1>1. PICK r \in Repos, p \in Paths : r = req[c].repo /\ p = req[c].path
  BY BaseIs DEF TreeInv, RequestTypes, RequestType
<1> DEFINE t == cached[r].tree
           q == req'[c]
<1>2. /\ q = [req[c] EXCEPT !.tree = t, !.at = AfterTree(req[c].op)]
      /\ q.tree = t /\ q.at = AfterTree(req[c].op) /\ q.repo = r /\ q.path = p /\ q.op = req[c].op
      /\ \A o \in Clients \ {c} : req'[o] = req[o]
  BY <1>1, BaseIs DEF TreeInv, RequestTypes, RequestType, UseTree
<1>3. Quiet(c) /\ req[c].at = "tree" /\ cached[r] # None /\ raced' = raced
  BY <1>1, <1>2 DEF UseTree, HasTree, Quiet, TreeInv, db, memory
<1>4. Cached(r) = trees[t] /\ CacheFits(r) /\ q.at \in {"write", "collect", "content"}
  BY <1>2, <1>3 DEF Cached, TreeInv, AfterTree
<1>5. OwnFits(q, trees[t], FileRows(r), raced[r])
  <2> SUFFICES ASSUME q.op \in {"edit", "delete"}, NEW x \in Near(p) \ raced[r]
               PROVE  (IsFile(trees[t], x) <=> x \in FileRows(r)) /\ NoGap(trees[t], x)
    BY <1>2 DEF OwnFits
  <2>1. x \in Paths
    BY PathFacts
  <2>2. CacheFitsAt(r, x)
    BY <1>3, <1>4, <2>1 DEF CacheFits
  <2>3. ASSUME NEW o \in Clients, req[o].repo = r, DueOf(req[o], x) PROVE FALSE
    <3>1. o # c /\ req[o].at # "idle" /\ req[o].op # "clear" /\ x \in Subtree(req[o].path) /\ req[o].path \in Paths
      BY <1>3, <2>3, BaseIs DEF DueOf, Subtree, TreeInv, RequestTypes, RequestType
    <3>2. x \in Near(req[o].path)
      BY <3>1 DEF Subtree, Near, Upward
    <3>3. Near(p) \cap Near(req[o].path) \subseteq raced[r]
      BY <1>1, <1>2, <1>3, <2>3, <3>1, <3>2, RivalsMeet DEF Writes
    <3> QED
      BY <3>2, <3>3
  <2>4. ~Due(r, x)
    BY <2>3 DEF Due
  <2> QED
    BY <1>4, <2>2, <2>4 DEF CacheFitsAt
<1>6. Fits(q, trees[q.tree], Cached(r), cached[r] # None /\ cached[r].tree = q.tree,
           FileRows(r), stored, raced'[r])
  <2>1. q.at \notin {"commit", "install", "loaded"} /\ (q.op = "edit" => q.at # "write")
    BY <1>2, <1>4, BaseIs DEF AfterTree, TreeInv
  <2> QED
    BY <1>2, <1>3, <1>5, <2>1 DEF Fits, CollectsAll, DeleteDone, PutDone, EditHeld, ReadHeld
<1> QED
  BY <1>1, <1>2, <1>3, <1>4, <1>6, QuietGo

\* A read goes on.
LEMMA ReadGoKeeps ==
    ASSUME TreeInv, Base', NEW c \in Clients, UNCHANGED <<kind, stored, bound, cached, trees, raced>>,
           NEW step \in {"locked", "hash", "ready"}, Go(c, step),
           req[c].at \in {"content", "locked", "hash"}
    PROVE  TreeInv'
<1>1. PICK r \in Repos : r = req[c].repo
  BY BaseIs DEF TreeInv, RequestTypes, RequestType
<1> DEFINE q == req'[c]
<1>2. /\ q.at = step /\ q.repo = req[c].repo /\ q.path = req[c].path
      /\ q.op = req[c].op /\ q.tree = req[c].tree /\ q.content = req[c].content
      /\ \A o \in Clients \ {c} : req'[o] = req[o]
  BY GoIs DEF TreeInv
<1>3. Quiet(c)
  BY <1>2 DEF Quiet, TreeInv
<1>4. Fits(req[c], trees[req[c].tree], Cached(r), Holds(c), FileRows(r), stored, raced[r])
  BY <1>1 DEF TreeInv, Fit, Cached, FileRows
<1>5. Holds(c) <=> cached[r] # None /\ cached[r].tree = q.tree
  BY <1>1, <1>2 DEF Holds
<1>6. Fits(q, trees[q.tree], Cached(r), cached[r] # None /\ cached[r].tree = q.tree,
           FileRows(r), stored, raced'[r])
  BY <1>2, <1>4, <1>5 DEF Fits, OwnFits, CollectsAll, DeleteDone, PutDone, EditHeld, ReadHeld
<1> QED
  BY <1>1, <1>2, <1>3, <1>6, QuietGo

\* A request ends without a write.
LEMMA ReadEndKeeps ==
    ASSUME TreeInv, Base', NEW c \in Clients, UNCHANGED <<kind, stored, bound, cached>>, End(c), Heap(trees),
           req[c].at \in {"locked", "ready", "commit", "write"},
           \A s \in Repos : raced[s] \subseteq raced'[s] /\ Upclosed(raced'[s]),
           EditOf(req[c], req[c].path) => req[c].path \in raced'[req[c].repo]
    PROVE  TreeInv'
<1>1. req'[c].at = "idle" /\ \A o \in Clients \ {c} : req'[o] = req[o]
  BY EndIs DEF TreeInv
<1>2. Quiet(c)
  BY <1>1 DEF Quiet
<1> QED
  BY <1>1, <1>2, QuietEnd

\* Reads.
LEMMA ContentKeeps ==
    ASSUME TreeInv, Base', NEW c \in Clients,
           FindContent(c) \/ LoadContent(c) \/ BackfillHash(c) \/ Cat(c)
    PROVE  TreeInv'
<1>1. CASE FindContent(c)
  BY <1>1, ReadGoKeeps DEF FindContent, db
<1>2. CASE BackfillHash(c)
  BY <1>2, ReadGoKeeps DEF BackfillHash
<1>3. CASE Cat(c)
  BY <1>3, ReadEndKeeps DEF Cat, db, TreeInv, EditOf
<1>4. CASE LoadContent(c)
  <2>1. UNCHANGED <<kind, stored, bound, cached, raced>> /\ req[c].at = "locked"
    BY <1>4 DEF LoadContent, db
  <2>2. CASE Go(c, "ready") /\ UNCHANGED trees
    BY <2>1, <2>2, ReadGoKeeps
  <2>3. CASE End(c) /\ Heap(trees)
    BY <2>1, <2>3, ReadEndKeeps DEF TreeInv, EditOf
  <2>4. CASE /\ stored[req[c].path] # None /\ UNCHANGED <<loading, trees>>
             /\ req' = [req EXCEPT ![c].content = stored[req[c].path], ![c].at = "loaded"]
    <3>1. PICK r \in Repos : r = req[c].repo
      BY BaseIs DEF TreeInv, RequestTypes, RequestType
    <3> DEFINE q == req'[c]
    <3>2. /\ q.at = "loaded" /\ q.repo = req[c].repo /\ q.path = req[c].path
          /\ q.op = req[c].op /\ q.tree = req[c].tree /\ q.content = stored[req[c].path]
          /\ \A o \in Clients \ {c} : req'[o] = req[o]
      BY <2>4, BaseIs DEF TreeInv, RequestTypes, RequestType
    <3>3. Quiet(c)
      BY <2>1, <2>4, <3>2 DEF Quiet, TreeInv
    <3>4. Fits(req[c], trees[req[c].tree], Cached(r), Holds(c), FileRows(r), stored, raced[r])
      BY <3>1 DEF TreeInv, Fit, Cached, FileRows
    <3>5. Holds(c) <=> cached[r] # None /\ cached[r].tree = q.tree
      BY <3>1, <3>2 DEF Holds
    <3>6. Fits(q, trees[q.tree], Cached(r), cached[r] # None /\ cached[r].tree = q.tree,
               FileRows(r), stored, raced'[r])
      BY <2>1, <3>2, <3>4, <3>5 DEF Fits, OwnFits, CollectsAll, DeleteDone, PutDone, EditHeld, ReadHeld
    <3> QED
      BY <2>1, <3>1, <3>2, <3>3, <3>6, QuietGo
  <2> QED
    BY <1>4, <2>2, <2>3, <2>4 DEF LoadContent
<1> QED
  BY <1>1, <1>2, <1>3, <1>4

\* What is above a path is as wrong as the path.
LEMMA UpclosedUp ==
    ASSUME NEW p \in Paths, NEW S, Upclosed(S)
    PROVE  Upclosed(S \cup Upward(p)) /\ Upclosed(S \cup Near(p))
<1>1. \A x \in Upward(p) : Above[x] \subseteq Upward(p)
  BY TreeAssumption DEF Upward
<1>2. \A x \in Near(p) : x \in Paths /\ Above[x] \subseteq Near(p)
  BY PathFacts
<1> QED
  BY <1>1, <1>2 DEF Upclosed

\* A transaction fails: what an Edit has changed in the tree is wrong now.
LEMMA FailsKeeps ==
    ASSUME TreeInv, Base', NEW c \in Clients, PutFails(c) \/ DeleteFails(c) PROVE TreeInv'
<1>1. /\ UNCHANGED <<kind, stored, bound, cached>> /\ End(c) /\ Heap(trees)
      /\ req[c].at \in {"commit", "write"} /\ req[c].path \in Paths /\ req[c].repo \in Repos
      /\ raced \in [Repos -> SUBSET Paths]
  BY BaseIs DEF PutFails, DeleteFails, db, TreeInv, RequestTypes, RequestType, CountTypes
<1>2. CASE DeleteFails(c)
  BY <1>1, <1>2, ReadEndKeeps DEF DeleteFails, TreeInv, EditOf
<1>3. CASE PutFails(c)
  <2>1. raced' = [raced EXCEPT ![req[c].repo] = @ \cup
                    IF req[c].op = "edit" THEN Upward(req[c].path) ELSE {}]
    BY <1>3 DEF PutFails
  <2>2. \A s \in Repos : raced[s] \subseteq raced'[s] /\ Upclosed(raced'[s])
    BY <1>1, <2>1, UpclosedUp DEF TreeInv
  <2>3. EditOf(req[c], req[c].path) => req[c].path \in raced'[req[c].repo]
    BY <1>1, <2>1 DEF EditOf, Upward
  <2> QED
    BY <1>1, <2>2, <2>3, ReadEndKeeps
<1> QED
  BY <1>2, <1>3

\* A Delete finds in its tree all files below its path, if there is no chain.
LEMMA CollectPathsKeeps == ASSUME TreeInv, Base', NEW c \in Clients, CollectPaths(c) PROVE TreeInv'
<1>1. PICK r \in Repos, p \in Paths : r = req[c].repo /\ p = req[c].path
  BY BaseIs DEF TreeInv, RequestTypes, RequestType
<1> DEFINE t == req[c].tree
           q == req'[c]
           rows == FileRows(r)
           paths == IF req[c].op = "clear" THEN Tree(t)!Walk(Root)
                    ELSE {p} \cup IF trees[t].nodes[p] = "dir" THEN Tree(t)!Walk(p) ELSE {}
<1>2. /\ q.at = "commit" /\ q.repo = r /\ q.path = p /\ q.op = req[c].op
      /\ q.tree = t /\ q.paths = paths
      /\ \A o \in Clients \ {c} : req'[o] = req[o]
      /\ req[c].at = "collect" /\ req[c].op \in {"delete", "clear"} /\ t \in Trees
  <2>1. req[c].at = "collect" /\ req[c] \in RequestType /\ WellFormed(req[c])
        /\ req \in [Clients -> RequestType]
    BY BaseIs DEF TreeInv, RequestTypes, CollectPaths, Shapes
  <2>2. req' = [req EXCEPT ![c].at = "commit", ![c].paths = paths,
            ![c].orphans = Orphans(req[c].repo, paths)]
    BY <1>1 DEF CollectPaths
  <2> HIDE DEF paths
  <2> QED
    BY <1>1, <2>1, <2>2 DEF RequestType, WellFormed
<1>3. Quiet(c) /\ raced' = raced
  BY <1>2 DEF CollectPaths, Quiet, TreeInv, db, memory
<1>4. Upclosed(raced[r]) /\ OwnFits(req[c], trees[t], rows, raced[r]) /\ rows \subseteq Paths
  BY <1>1, BaseIs DEF TreeInv, Fit, Fits, FileRows, TableTypes
<1>5. CollectsAll(q, rows, raced[r])
  <2> SUFFICES ASSUME req[c].op = "delete", p \notin raced[r], ~Chain(rows, p),
                      NEW x \in rows \cap Subtree(p)
               PROVE  x \in paths
    BY <1>2 DEF CollectsAll
  <2>1. \A y \in Subtree(p) : y \in Near(p) \ raced[r] /\ y \in Paths
    BY <1>4, PathFacts DEF Upclosed, Subtree, Below, Near, Upward
  <2>2. \A y \in Subtree(p) : (IsFile(trees[t], y) <=> y \in rows) /\ NoGap(trees[t], y)
    BY <1>1, <1>2, <1>4, <2>1 DEF OwnFits
  <2>3. CASE x = p
    BY <2>3
  <2>4. CASE x # p
    <3>1. x \in Below(p) /\ x \in Paths /\ p \in Above[x]
      BY <2>4 DEF Subtree, Below
    <3>2. ASSUME NEW e \in {p} \cup Between(p, x) PROVE trees[t].nodes[e] = "dir"
      <4>1. e \in Subtree(p) /\ x \in Below(e) /\ e \in Paths
        BY <3>1, <3>2, PathFacts DEF Between, Subtree, Below
      <4>2. ~IsFile(trees[t], e)
        BY <2>2, <4>1 DEF Chain
      <4>3. trees[t].nodes[e] # None
        BY <2>1, <2>2, <4>1 DEF NoGap
      <4>4. trees[t].nodes[e] \in Kinds \cup {None}
        BY <1>2, <4>1, BaseIs DEF TreeInv, MemoryTypes, TreeType
      <4> QED
        BY <4>2, <4>3, <4>4 DEF IsFile, Kinds
    <3>3. IsFile(trees[t], x)
      BY <2>2
    <3>4. \A e \in Between(p, x) \cup {x} : trees[t].nodes[e] # None
      BY <3>2, <3>3, TreeAssumption DEF IsFile, Kinds
    <3>5. x \in Tree(t)!Walk(p)
      BY <1>2, <3>1, <3>2, <3>4, WalkIs
    <3> QED
      BY <3>2, <3>5
  <2> QED
    BY <2>3, <2>4
<1>6. Fits(req[c], trees[t], Cached(r), Holds(c), rows, stored, raced[r])
  BY <1>1 DEF TreeInv, Fit, Cached, FileRows
<1>7. Fits(q, trees[q.tree], Cached(r), cached[r] # None /\ cached[r].tree = q.tree,
           rows, stored, raced'[r])
  <2>1. CASE req[c].op = "clear"
    <3>1. WellFormed(q)
      BY BaseIs DEF RequestTypes, Shapes, WellFormed
    <3> QED
      BY <1>2, <2>1, <3>1, ClearFits
  <2>2. CASE req[c].op = "delete"
    <3> HIDE DEF paths
    <3> QED
      BY <1>2, <1>3, <1>5, <1>6, <2>2 DEF Fits, OwnFits, DeleteDone, PutDone, EditHeld, ReadHeld
  <2> QED
    BY <1>2, <2>1, <2>2
<1> QED
  BY <1>1, <1>2, <1>3, <1>7, QuietGo

-----------------------------------------------------------------------------
(* Requests that begin, caches and the server that end *)

\* Requests that meet make their paths wrong from the start.
LEMMA ArriveKeeps == ASSUME TreeInv, Base', NEW c \in Clients, Arrive(c) PROVE TreeInv'
<1>1. PICK r \in Repos, p \in Paths, op \in Ops, content \in Contents \cup {None}, edit \in Edits \cup {None} :
        Begin(c, op, r, p, content, edit)
  BY DEF Arrive, Ops
<1> DEFINE q == req'[c]
           R == Rivals(c, op, r, p)
<1>2. /\ q.at = "tree" /\ q.op = op /\ q.repo = r /\ q.path = p
      /\ \A o \in Clients \ {c} : req'[o] = req[o]
      /\ req[c].at = "idle" /\ UNCHANGED <<kind, stored, bound, trees, cached>>
  BY <1>1, BaseIs DEF TreeInv, RequestTypes, Begin, Idle, db, memory
<1>3. \A o \in Clients : req[o].path \in Paths /\ req[o].repo \in Repos
  BY BaseIs DEF TreeInv, RequestTypes, RequestType
<1>4. raced \in [Repos -> SUBSET Paths]
  BY BaseIs DEF TreeInv, CountTypes
<1>5. raced' = [raced EXCEPT ![r] = IF R = {} THEN @
            ELSE @ \cup Near(p) \cup UNION {Near(req[o].path) : o \in R}]
  BY <1>1 DEF Begin
<1>6. R = {o \in Clients \ {c} :
              /\ req[o].at # "idle" /\ req[o].repo = r /\ req[o].path \in Near(p)
              /\ Writes(op) \/ Writes(req[o].op)
              /\ "clear" \notin {op, req[o].op}}
  BY DEF Rivals
<1> HIDE DEF R
<1>7. \A s \in Repos : raced[s] \subseteq raced'[s] /\ Upclosed(raced'[s])
  <2>1. \A o \in Clients : \A x \in Near(req[o].path) : Above[x] \subseteq Near(req[o].path)
    BY <1>3, PathFacts
  <2>2. \A x \in Near(p) : Above[x] \subseteq Near(p)
    BY PathFacts
  <2>3. \A s \in Repos : Upclosed(raced[s])
    BY DEF TreeInv
  <2>4. R \subseteq Clients
    BY <1>6
  <2> HIDE DEF Upclosed
  <2>5. Upclosed(raced'[r]) /\ raced[r] \subseteq raced'[r]
    <3>1. CASE R = {}
      BY <1>4, <1>5, <2>3, <3>1
    <3>2. CASE R # {}
      <4>1. raced'[r] = raced[r] \cup Near(p) \cup UNION {Near(req[o].path) : o \in R}
        BY <1>4, <1>5, <3>2
      <4> QED
        BY <2>1, <2>2, <2>3, <2>4, <4>1 DEF Upclosed
    <3> QED
      BY <3>1, <3>2
  <2>6. \A s \in Repos : s # r => raced'[s] = raced[s]
    BY <1>4, <1>5
  <2> QED
    BY <2>3, <2>5, <2>6
<1>8. ASSUME NEW o \in Clients \ {c}, o \in R
      PROVE  Near(p) \subseteq raced'[r] /\ Near(req[o].path) \subseteq raced'[r]
  BY <1>4, <1>5, <1>8
<1>9. Meets'
  <2>1. \A a, o \in Clients : a # o => Meet(req[a], req[o], raced[req[a].repo])
    BY DEF TreeInv, Meets
  <2>2. ASSUME NEW a \in Clients, NEW o \in Clients, a # o PROVE Meet(req'[a], req'[o], raced'[req'[a].repo])
    <3>1. CASE a # c /\ o # c
      BY <1>2, <1>3, <1>7, <2>1, <2>2, <3>1 DEF Meet
    <3>2. CASE a = c
      <4>1. o # c /\ req'[o] = req[o]
        BY <1>2, <2>2, <3>2
      <4>2. Rival(q, req[o]) => o \in R
        BY <1>2, <1>6, <4>1 DEF Rival
      <4> QED
        BY <1>2, <1>8, <3>2, <4>1, <4>2 DEF Meet
    <3>3. CASE o = c
      <4>1. a # c /\ req'[a] = req[a]
        BY <1>2, <2>2, <3>3
      <4>2. Rival(req[a], q) => a \in R /\ req[a].repo = r
        BY <1>2, <1>3, <1>6, <4>1, PathFacts DEF Rival
      <4> QED
        BY <1>2, <1>8, <3>3, <4>1, <4>2 DEF Meet
    <3> QED
      BY <3>1, <3>2, <3>3
  <2> QED
    BY <2>2 DEF Meets, Meet, Rival
<1>10. \A s \in Repos : Cached(s)' = Cached(s) /\ FileRows(s)' = FileRows(s)
  BY <1>2 DEF Cached, FileRows, NoTree
<1>11. ASSUME NEW o \in Clients PROVE Fit(o)'
  <2>1. CASE o = c
    BY <1>2, <2>1, EndFits
  <2>2. CASE o # c
    <3>1. PICK s \in Repos : s = req[o].repo /\ s = req'[o].repo /\ req'[o] = req[o]
      BY <1>2, <1>3, <2>2
    <3>2. Fits(req[o], trees[req[o].tree], Cached(s), Holds(o), FileRows(s), stored, raced[s])
      BY <3>1 DEF TreeInv, Fit, Cached, FileRows
    <3>3. WellFormed(req[o]) /\ Near(req[o].path) \subseteq Paths /\ FileRows(s) \subseteq Paths
      BY <1>3, PathFacts, BaseIs DEF TreeInv, RequestTypes, Shapes, FileRows, TableTypes
    <3>4. Fits(req[o], trees[req[o].tree], Cached(s), Holds(o), FileRows(s), stored, raced'[s])
      BY <1>3, <1>7, <3>2, <3>3, FitsKept
    <3>5. Holds(o) <=> cached[s] # None /\ cached[s].tree = req[o].tree
      BY <3>1 DEF Holds
    <3>6. Fits(req[o], trees[req[o].tree], Cached(s), cached[s] # None /\ cached[s].tree = req[o].tree,
               FileRows(s), stored, raced'[s])
      BY <3>4, <3>5 DEF Fits, EditHeld
    <3> QED
      BY <1>2, <1>10, <3>1, <3>6, FitIs
  <2> QED
    BY <2>1, <2>2
<1>12. ASSUME NEW s \in Repos, cached'[s] # None, NEW x \in Paths \ raced'[s] PROVE CacheFitsAt(s, x)'
  <2>1. CacheFitsAt(s, x)
    BY <1>2, <1>7, <1>12 DEF TreeInv, CacheFits
  <2>2. Due(s, x) => Due(s, x)'
    <3>1. ASSUME NEW o \in Clients, req[o].repo = s, DueOf(req[o], x)
          PROVE  \E d \in Clients : req'[d].repo = s /\ DueOf(req'[d], x)
      BY <1>2, <3>1 DEF DueOf
    <3> QED
      BY <3>1 DEF Due, DueOf
  <2>3. Editing(s, x) => Editing(s, x)'
    <3>1. ASSUME NEW o \in Clients, req[o].repo = s, EditOf(req[o], x)
          PROVE  \E d \in Clients : req'[d].repo = s /\ EditOf(req'[d], x)
      BY <1>2, <3>1 DEF EditOf
    <3> QED
      BY <3>1 DEF Editing, EditOf
  <2> QED
    BY <1>2, <1>10, <2>1, <2>2, <2>3 DEF CacheFitsAt, NoGap, IsFile
<1> QED
  BY <1>7, <1>9, <1>11, <1>12 DEF TreeInv, CacheFits, Upclosed

\* A cache is dropped, or its tree is too old.
LEMMA CacheKeeps == ASSUME TreeInv, Base', NEW r \in Repos, Invalidate(r) \/ Expire(r) PROVE TreeInv'
<1>1. UNCHANGED <<kind, stored, bound, req, raced>> /\ (UNCHANGED trees \/ Heap(trees))
  BY DEF Invalidate, Expire, db
<1>2. \A s \in Repos : cached'[s] = None \/ (cached[s] # None /\ cached'[s].tree = cached[s].tree)
  <2>1. MemoryTypes
    BY BaseIs DEF TreeInv
  <2>2. CASE Invalidate(r)
    BY <2>1, <2>2 DEF Invalidate, MemoryTypes
  <2>3. CASE Expire(r)
    <3> DEFINE e == [cached[r] EXCEPT !.fresh = FALSE]
    <3>1. cached[r] # None /\ e.tree = cached[r].tree
      BY <2>1, <2>3 DEF Expire, HasTree, MemoryTypes
    <3>2. cached' = [cached EXCEPT ![r] = e]
      BY <2>3 DEF Expire
    <3> HIDE DEF e
    <3> QED
      BY <2>1, <3>1, <3>2 DEF MemoryTypes
  <2> QED
    BY <2>2, <2>3
<1>3. \A o \in Clients : /\ req[o] \in RequestType /\ WellFormed(req[o]) /\ req[o].repo \in Repos
                         /\ req[o].path \in Paths
  BY BaseIs DEF TreeInv, RequestTypes, RequestType, Shapes
<1>4. \A o \in Clients : req[o].tree # None => trees'[req[o].tree] = trees[req[o].tree]
  BY <1>1, <1>3, HeapIs DEF RequestType
<1>5. \A s \in Repos : /\ cached'[s] = None => Cached(s)' = NoTree
                       /\ cached'[s] # None => Cached(s)' = Cached(s)
  <2>1. \A s \in Repos : cached'[s] # None => cached'[s].tree \in Trees
    BY BaseIs DEF MemoryTypes
  <2>2. \A s \in Repos : cached'[s] # None => trees'[cached'[s].tree] = trees[cached'[s].tree]
    BY <1>1, <2>1, HeapIs
  <2> QED
    BY <1>2, <2>2 DEF Cached, NoTree
<1>6. \A s \in Repos : FileRows(s)' = FileRows(s)
  BY <1>1 DEF FileRows
<1>7. ASSUME NEW o \in Clients PROVE Fit(o)'
  <2>1. PICK s \in Repos : s = req[o].repo
    BY <1>3
  <2> DEFINE q == req[o]
             own == cached[s] # None /\ cached[s].tree = q.tree
             own2 == cached'[s] # None /\ cached'[s].tree = q.tree
  <2>2. Fits(q, trees[q.tree], Cached(s), own, FileRows(s), stored, raced[s])
    <3>1. Holds(o) <=> own
      BY <2>1 DEF Holds
    <3> QED
      BY <2>1, <3>1 DEF TreeInv, Fit, Cached, FileRows, Fits, EditHeld
  <2>3. FileRows(s) \subseteq Paths /\ Near(q.path) \subseteq Paths /\ Upclosed(raced[s])
        /\ Subtree(q.path) \subseteq Paths
    BY <1>3, PathFacts, BaseIs DEF TreeInv, FileRows, TableTypes, Subtree
  <2>4. \/ \A x \in Subtree(q.path) \ raced[s] : IsFile(Cached(s)', x) => x \in FileRows(s)
        \/ \A x \in Subtree(q.path) : Cached(s)'.nodes[x] = Cached(s).nodes[x]
    <3>1. CASE Cached(s)' = NoTree
      BY <2>3, <3>1, TreeAssumption DEF IsFile, NoTree, Kinds
    <3> QED
      BY <1>5, <3>1
  <2>5. /\ own => own2 \/ Cached(s)'.content[q.path] = None
        /\ Cached(s).content[q.path] = None => own2 \/ Cached(s)'.content[q.path] = None
    <3>1. CASE cached'[s] = None
      BY <1>3, <1>5, <3>1 DEF NoTree
    <3>2. CASE cached'[s] # None
      BY <1>2, <1>5, <3>2
    <3> QED
      BY <3>1, <3>2
  <2> DEFINE Y2 == Cached(s)'
  <2> HIDE DEF own, own2, Y2
  <2>6. Fits(q, trees'[q.tree], Y2, own2, FileRows(s), stored, raced[s])
    BY <1>3, <1>4, <2>2, <2>3, <2>4, <2>5, FitsKept DEF Y2
  <2> USE DEF own2, Y2
  <2>7. q = req'[o] /\ req'[o].repo = s /\ stored' = stored /\ raced' = raced
    BY <1>1, <2>1
  <2> QED
    BY <1>6, <2>6, <2>7, FitIs
<1>8. ASSUME NEW s \in Repos, cached'[s] # None, NEW x \in Paths \ raced'[s] PROVE CacheFitsAt(s, x)'
  <2>1. CacheFitsAt(s, x) /\ Cached(s)' = Cached(s) /\ FileRows(s)' = FileRows(s)
    BY <1>1, <1>2, <1>5, <1>6, <1>8 DEF TreeInv, CacheFits
  <2>2. (Due(s, x)' <=> Due(s, x)) /\ (Editing(s, x)' <=> Editing(s, x))
    BY <1>1 DEF Due, DueOf, Editing, EditOf
  <2> QED
    BY <1>1, <2>1, <2>2 DEF CacheFitsAt, NoGap, IsFile
<1>9. Meets'
  BY <1>1 DEF TreeInv, Meets, Meet, Rival
<1> QED
  BY <1>1, <1>7, <1>8, <1>9 DEF TreeInv, CacheFits, Upclosed

\* The server stops, and with it all that could be wrong.
LEMMA CrashKeeps == ASSUME TreeInv, Base', Crash PROVE TreeInv'
<1>1. Idle.at = "idle"
  BY DEF Idle
<1>2. /\ \A c \in Clients : req'[c].at = "idle"
      /\ \A r \in Repos : raced'[r] = {} /\ cached'[r] = None
  BY <1>1 DEF Crash
<1>3. \A c \in Clients : Fit(c)'
  BY <1>2, EndFits
<1> QED
  BY <1>2, <1>3 DEF TreeInv, Meets, Meet, Rival, CacheFits, Upclosed

\* A tree that is loaded is right, but for what requests will still do to it.
LEMMA LoadNewTreeKeeps == ASSUME TreeInv, Base', NEW c \in Clients, LoadNewTree(c) PROVE TreeInv'
<1>1. PICK r \in Repos, p \in Paths : r = req[c].repo /\ p = req[c].path
  BY BaseIs DEF TreeInv, RequestTypes, RequestType
<1>2. PICK t \in Trees : t = CHOOSE u \in Trees : u \notin InUse
  BY DEF LoadNewTree
<1> DEFINE q == req'[c]
           P == Pending(c, r)
<1>3. t \notin InUse
  BY <1>2 DEF LoadNewTree
<1>4. /\ UNCHANGED <<kind, stored, bound>> /\ req[c].at = "tree"
      /\ cached' = [cached EXCEPT ![r] = [tree |-> t, fresh |-> TRUE]]
      /\ req' = [req EXCEPT ![c].tree = t, ![c].at = AfterTree(req[c].op)]
      /\ Heap([trees EXCEPT ![t] = LoadTree(r)])
      /\ raced' = [raced EXCEPT ![r] = @ \cap P]
  BY <1>1, <1>2 DEF LoadNewTree, db
<1>5. /\ TableTypes /\ MemoryTypes /\ CountTypes /\ req \in [Clients -> RequestType] /\ Shapes
      /\ MemoryTypes' /\ \A o \in Clients : req'[o] \in RequestType
  BY BaseIs DEF TreeInv, RequestTypes
<1>6. /\ q.tree = t /\ q.at = AfterTree(req[c].op) /\ q.at \in {"write", "collect", "content"}
      /\ q.repo = r /\ q.path = p /\ q.op = req[c].op
      /\ \A o \in Clients \ {c} : req'[o] = req[o]
  BY <1>1, <1>4, <1>5 DEF RequestType, AfterTree
<1>7. /\ \A s \in Repos : cached'[s] = IF s = r THEN [tree |-> t, fresh |-> TRUE] ELSE cached[s]
      /\ cached'[r] # None /\ cached'[r].tree = t
  <2> DEFINE e == [tree |-> t, fresh |-> TRUE]
  <2>1. e \in [tree : Trees, fresh : BOOLEAN] /\ e.tree = t
    OBVIOUS
  <2>2. e # None
    BY <2>1, TablesAssumption
  <2> HIDE DEF e
  <2>3. cached' = [cached EXCEPT ![r] = e]
    BY <1>4 DEF e
  <2>4. \A s \in Repos : cached'[s] = IF s = r THEN e ELSE cached[s]
    BY <1>5, <2>3 DEF MemoryTypes
  <2> QED
    BY <2>1, <2>2, <2>4 DEF e
<1>8. \A s \in Repos : raced'[s] = IF s = r THEN raced[r] \cap P ELSE raced[s]
  BY <1>4, <1>5 DEF CountTypes
<1>9. /\ trees'[t] = LoadTree(r)
      /\ \A o \in Clients \ {c} : req[o].tree # None => trees'[req[o].tree] = trees[req[o].tree]
      /\ \A s \in Repos \ {r} : cached[s] # None => trees'[cached[s].tree] = trees[cached[s].tree]
  <2> DEFINE heap == [trees EXCEPT ![t] = LoadTree(r)]
  <2>1. \A u \in Trees : heap[u] = IF u = t THEN LoadTree(r) ELSE trees[u]
    BY <1>5 DEF MemoryTypes
  <2>2. /\ \A o \in Clients : req'[o].tree \in Trees => trees'[req'[o].tree] = heap[req'[o].tree]
        /\ \A s \in Repos : cached'[s] # None /\ cached'[s].tree \in Trees
                => trees'[cached'[s].tree] = heap[cached'[s].tree]
    BY <1>4, HeapIs
  <2>3. /\ \A o \in Clients : req[o].tree # t
        /\ \A s \in Repos : cached[s] # None => cached[s].tree # t
    BY <1>3 DEF InUse
  <2> HIDE DEF heap
  <2>4. trees'[t] = LoadTree(r)
    BY <1>7, <2>1, <2>2
  <2>5. ASSUME NEW o \in Clients \ {c}, req[o].tree # None PROVE trees'[req[o].tree] = trees[req[o].tree]
    BY <1>5, <1>6, <2>1, <2>2, <2>3, <2>5 DEF RequestType
  <2>6. ASSUME NEW s \in Repos \ {r}, cached[s] # None PROVE trees'[cached[s].tree] = trees[cached[s].tree]
    <3>1. cached'[s] = cached[s] /\ cached[s].tree \in Trees
      BY <1>5, <1>7, <2>6 DEF MemoryTypes
    <3> QED
      BY <2>1, <2>2, <2>3, <2>6, <3>1
  <2> QED
    BY <2>4, <2>5, <2>6
<1>10. /\ \A s \in Repos : FileRows(s)' = FileRows(s) /\ FileRows(s) \subseteq Paths
       /\ \A s \in Repos \ {r} : Cached(s)' = Cached(s)
       /\ Cached(r)' = LoadTree(r)
  BY <1>4, <1>5, <1>7, <1>9 DEF FileRows, Cached, NoTree, TableTypes
<1>11. \A x \in Paths : /\ IsFile(LoadTree(r), x) <=> x \in FileRows(r)
                        /\ LoadTree(r).content[x] = None /\ NoGap(LoadTree(r), x)
  <2>1. bound \in [Repos -> SUBSET Paths]
    BY <1>5 DEF TableTypes
  <2>2. \A x \in Paths : LoadTree(r).nodes[x] =
                IF x \in FileRows(r) THEN "file"
                ELSE IF \E y \in FileRows(r) : x \in Above[y] THEN "dir" ELSE None
    BY <2>1, LoadTreeIs
  <2>3. \A x \in Paths : LoadTree(r).content[x] = None
    BY <2>1, LoadTreeIs
  <2>4. \A x \in Paths : IsFile(LoadTree(r), x) <=> x \in FileRows(r)
    BY <2>2, TreeAssumption DEF IsFile, Kinds
  <2>5. \A x \in Paths : NoGap(LoadTree(r), x)
    BY <2>2, <2>4, TreeAssumption DEF NoGap, Below, Kinds
  <2> QED
    BY <2>3, <2>4, <2>5
<1>12. ASSUME NEW o \in Clients \ {c}, req[o].at # "idle", req[o].repo = r, req[o].op # "clear"
       PROVE  Near(req[o].path) \subseteq P
  BY <1>12 DEF Pending
<1>13. \A s \in Repos : Upclosed(raced'[s])
  <2>1. \A o \in Clients : \A x \in Near(req[o].path) : Above[x] \subseteq Near(req[o].path)
    BY <1>5, PathFacts DEF RequestType
  <2>2. Upclosed(P)
    BY <2>1 DEF Pending, Upclosed
  <2> HIDE DEF P
  <2> QED
    BY <1>8, <2>2 DEF TreeInv, Upclosed
<1>14. Meets'
  <2>1. \A a, o \in Clients : a # o => Meet(req[a], req[o], raced[req[a].repo])
    BY DEF TreeInv, Meets
  <2>2. ASSUME NEW a \in Clients, NEW o \in Clients, a # o, Rival(req'[a], req'[o])
        PROVE  /\ Near(req'[a].path) \cap Near(req'[o].path) \subseteq raced'[req'[a].repo]
               /\ req'[a].at = "install" /\ req'[a].op = "delete" =>
                    Near(req'[a].path) \subseteq raced'[req'[a].repo]
    <3>1. PICK s \in Repos : s = req'[a].repo
      BY <1>5 DEF RequestType
    <3>2. /\ req'[a].repo = req[a].repo /\ req'[a].path = req[a].path /\ req'[a].op = req[a].op
          /\ req'[o].repo = req[o].repo /\ req'[o].path = req[o].path /\ req'[o].op = req[o].op
          /\ req[a].at # "idle" /\ req[o].at # "idle"
          /\ req'[a].at = "install" => req[a].at = "install"
      BY <1>1, <1>4, <1>6, <2>2 DEF Rival
    <3>3. Rival(req[a], req[o])
      BY <2>2, <3>2 DEF Rival
    <3>4. /\ Near(req[a].path) \cap Near(req[o].path) \subseteq raced[s]
          /\ req[a].at = "install" /\ req[a].op = "delete" => Near(req[a].path) \subseteq raced[s]
      BY <2>1, <2>2, <3>1, <3>2, <3>3 DEF Meet
    <3>5. CASE s # r
      BY <1>8, <3>1, <3>2, <3>4, <3>5
    <3>6. CASE s = r
      <4>1. a # c => Near(req[a].path) \subseteq P
        BY <1>12, <3>1, <3>2, <3>3, <3>6 DEF Rival
      <4>2. o # c => Near(req[o].path) \subseteq P
        BY <1>12, <3>1, <3>2, <3>3, <3>6 DEF Rival
      <4>3. a = c => req[a].at # "install"
        BY <1>4
      <4> QED
        BY <1>8, <2>2, <3>1, <3>2, <3>4, <3>6, <4>1, <4>2, <4>3
    <3> QED
      BY <3>5, <3>6
  <2> QED
    BY <2>2 DEF Meets, Meet, Rival
<1>15. ASSUME NEW o \in Clients \ {c}, req[o].at # "idle", req[o].op # "clear" PROVE Fit(o)'
  <2>1. PICK s \in Repos : s = req[o].repo
    BY <1>5 DEF RequestType
  <2> DEFINE o1 == req[o]
             own2 == cached'[s] # None /\ cached'[s].tree = o1.tree
  <2>2. o1 \in RequestType /\ WellFormed(o1) /\ o1.path \in Paths /\ req'[o] = o1
    BY <1>5, <1>6 DEF Shapes, RequestType
  <2>3. Fits(o1, trees[o1.tree], Cached(s), Holds(o), FileRows(s), stored, raced[s])
    BY <2>1 DEF TreeInv, Fit, Cached, FileRows
  <2>4. raced[s] \cap Near(o1.path) \subseteq raced'[s] /\ Upclosed(raced'[s]) /\ FileRows(s) \subseteq Paths
    BY <1>8, <1>10, <1>12, <1>13, <1>15, <2>1
  <2>5. Near(o1.path) \subseteq Paths /\ Subtree(o1.path) \subseteq Paths
    BY <2>2, PathFacts DEF Subtree
  <2>6. o1.tree # None => trees'[o1.tree] = trees[o1.tree]
    BY <1>9
  <2>7. \/ \A x \in Subtree(o1.path) \ raced'[s] : IsFile(Cached(s)', x) => x \in FileRows(s)
        \/ \A x \in Subtree(o1.path) : Cached(s)'.nodes[x] = Cached(s).nodes[x]
    <3>1. CASE s = r
      BY <1>10, <1>11, <2>5, <3>1
    <3>2. CASE s # r
      BY <1>10, <3>2
    <3> QED
      BY <3>1, <3>2
  <2>8. /\ Holds(o) => own2 \/ Cached(s)'.content[o1.path] = None
        /\ Cached(s).content[o1.path] = None => own2 \/ Cached(s)'.content[o1.path] = None
    <3>1. CASE s = r
      BY <1>10, <1>11, <2>2, <3>1
    <3>2. CASE s # r
      BY <1>7, <1>10, <2>1, <3>2 DEF Holds
    <3> QED
      BY <3>1, <3>2
  <2> DEFINE Y2 == Cached(s)'
             own == Holds(o)
             bad2 == raced'[s]
  <2> HIDE DEF own, own2, Y2, bad2, o1
  <2>9. Fits(o1, trees'[o1.tree], Y2, own2, FileRows(s), stored, bad2)
    BY <2>2, <2>3, <2>4, <2>5, <2>6, <2>7, <2>8, FitsKept DEF Y2, own, bad2
  <2> USE DEF own2, Y2, bad2, o1
  <2>10. req'[o].repo = s /\ stored' = stored /\ FileRows(s)' = FileRows(s)
    BY <1>4, <1>10, <2>1, <2>2
  <2> QED
    BY <2>2, <2>9, <2>10, FitIs
<1>16. Fit(c)'
  <2>1. OwnFits(q, LoadTree(r), FileRows(r), raced'[r])
    BY <1>6, <1>11, PathFacts DEF OwnFits
  <2>2. q.op = "edit" => q.at = "content"
    BY <1>6 DEF AfterTree
  <2>3. Fits(q, LoadTree(r), LoadTree(r), TRUE, FileRows(r), stored, raced'[r])
    BY <1>6, <2>1, <2>2 DEF Fits, CollectsAll, DeleteDone, PutDone, EditHeld, ReadHeld
  <2>4. cached'[r] # None /\ cached'[r].tree = q.tree
    BY <1>6, <1>7
  <2>5. Fits(q, trees'[q.tree], Cached(r)', cached'[r] # None /\ cached'[r].tree = q.tree,
             FileRows(r)', stored', raced'[r])
    BY <1>4, <1>6, <1>9, <1>10, <2>3, <2>4 DEF Fits, EditHeld
  <2> QED
    BY <1>6, <2>5, FitIs
<1>17. \A o \in Clients : Fit(o)'
  <2>1. ASSUME NEW o \in Clients \ {c}, req[o].at = "idle" PROVE Fit(o)'
    <3>1. req'[o].at = "idle"
      BY <1>6, <2>1
    <3> QED
      BY <3>1, EndFits
  <2>2. ASSUME NEW o \in Clients \ {c}, req[o].op = "clear" PROVE Fit(o)'
    <3>1. req'[o].op = "clear" /\ WellFormed(req'[o])
      BY <1>6, <2>2, BaseIs DEF RequestTypes, Shapes, WellFormed
    <3> QED
      BY <3>1, ClearFits DEF Fit
  <2> QED
    BY <1>15, <1>16, <2>1, <2>2
<1>18. ASSUME NEW s \in Repos, cached'[s] # None, NEW x \in Paths \ raced'[s] PROVE CacheFitsAt(s, x)'
  <2>1. CASE s = r
    BY <1>10, <1>11, <2>1 DEF CacheFitsAt, IsFile, NoGap
  <2>2. CASE s # r
    <3>1. CacheFitsAt(s, x) /\ Cached(s)' = Cached(s) /\ FileRows(s)' = FileRows(s)
      BY <1>7, <1>8, <1>10, <1>18, <2>2 DEF TreeInv, CacheFits
    <3>2. \A o \in Clients : req[o].repo = s => req'[o] = req[o]
      BY <1>1, <1>6, <2>2
    <3>3. (Due(s, x) => Due(s, x)') /\ (Editing(s, x) => Editing(s, x)')
      BY <3>2 DEF Due, DueOf, Editing, EditOf
    <3> QED
      BY <1>4, <3>1, <3>3 DEF CacheFitsAt, NoGap, IsFile
  <2> QED
    BY <2>1, <2>2
<1> QED
  BY <1>13, <1>14, <1>17, <1>18 DEF TreeInv, CacheFits, Upclosed

-----------------------------------------------------------------------------
(* Steps that change a tree *)

\* What is cached when a request changes its own tree.
LEMMA OwnTreeIs ==
    ASSUME TreeInv, Base', NEW c \in Clients, NEW t \in Trees, t = req[c].tree,
           NEW r \in Repos, r = req[c].repo, \A u \in Trees \ {t} : trees'[u] = trees[u],
           UNCHANGED <<kind, stored, bound, cached>>
    PROVE  /\ \A o \in Clients : req[o].tree # None /\ req[o].tree # t =>
                   trees'[req[o].tree] = trees[req[o].tree]
           /\ \A s \in Repos :
                   /\ FileRows(s)' = FileRows(s)
                   /\ Cached(s)' = IF cached[s] # None /\ cached[s].tree = t THEN trees'[t] ELSE Cached(s)
                   /\ cached[s] # None /\ cached[s].tree = t => Cached(s) = trees[t] /\ s = r
                   /\ cached[s] # None /\ cached[s].tree # t => trees'[cached[s].tree] = trees[cached[s].tree]
<1>1. MemoryTypes /\ req \in [Clients -> RequestType] /\ Owned
  BY BaseIs DEF TreeInv, RequestTypes
<1>2. t # None
  BY TablesAssumption
<1>3. ASSUME NEW o \in Clients, req[o].tree # None, req[o].tree # t
      PROVE  trees'[req[o].tree] = trees[req[o].tree]
  BY <1>1, <1>3 DEF RequestType
<1>4. ASSUME NEW s \in Repos
      PROVE  /\ FileRows(s)' = FileRows(s)
             /\ Cached(s)' = IF cached[s] # None /\ cached[s].tree = t THEN trees'[t] ELSE Cached(s)
             /\ cached[s] # None /\ cached[s].tree = t => Cached(s) = trees[t] /\ s = r
             /\ cached[s] # None /\ cached[s].tree # t => trees'[cached[s].tree] = trees[cached[s].tree]
  <2>1. cached[s] # None => cached[s].tree \in Trees
    BY <1>1 DEF MemoryTypes
  <2>2. cached[s] # None /\ cached[s].tree = t => s = r
    BY <1>1, <1>2 DEF Owned
  <2>3. FileRows(s)' = FileRows(s)
    BY DEF FileRows
  <2> QED
    BY <2>1, <2>2, <2>3 DEF Cached, NoTree
<1> QED
  BY <1>3, <1>4

\* A content is set that was read before: it is stored still, or will be changed.
LEMMA SetContentKeeps == ASSUME TreeInv, Base', NEW c \in Clients, SetContent(c) PROVE TreeInv'
<1>1. PICK r \in Repos, p \in Paths : r = req[c].repo /\ p = req[c].path
  BY BaseIs DEF TreeInv, RequestTypes, RequestType
<1>2. req[c].at = "loaded" /\ req[c].op # "clear" /\ req[c].tree \in Trees /\ req[c] \in RequestType
  BY BaseIs DEF TreeInv, RequestTypes, RequestType, Shapes, WellFormed, SetContent
<1>3. PICK t \in Trees : t = req[c].tree
  BY <1>2
<1>4. PICK Z : Z = [trees[t] EXCEPT !.content[p] = IF trees[t].nodes[p] # None THEN req[c].content ELSE @]
  OBVIOUS
<1>5. trees[t] \in TreeType
  BY BaseIs DEF TreeInv, MemoryTypes
<1>6. /\ Z.nodes = trees[t].nodes
      /\ \A x \in Paths \ {p} : Z.content[x] = trees[t].content[x]
      /\ Z.content[p] = IF trees[t].nodes[p] # None THEN req[c].content ELSE trees[t].content[p]
  BY <1>4, <1>5 DEF TreeType
<1> DEFINE q == req'[c]
<1>7. /\ q.at = "hash" /\ q.repo = r /\ q.path = p /\ q.op = req[c].op /\ q.tree = t
      /\ q.content = req[c].content /\ \A o \in Clients \ {c} : req'[o] = req[o]
  BY <1>1, <1>3, GoIs DEF SetContent, TreeInv
<1>8. UNCHANGED <<kind, stored, bound, cached, raced>> /\ trees' = [trees EXCEPT ![t] = Z]
  BY <1>1, <1>3, <1>4 DEF SetContent, db
<1>9. /\ trees'[t] = Z
      /\ \A o \in Clients : req[o].tree # None =>
              trees'[req[o].tree] = IF req[o].tree = t THEN Z ELSE trees[req[o].tree]
      /\ \A s \in Repos :
              /\ FileRows(s)' = FileRows(s)
              /\ Cached(s)' = IF cached[s] # None /\ cached[s].tree = t THEN Z ELSE Cached(s)
              /\ cached[s] # None /\ cached[s].tree = t => Cached(s) = trees[t] /\ s = r
              /\ cached[s] # None => trees'[cached[s].tree] =
                        IF cached[s].tree = t THEN Z ELSE trees[cached[s].tree]
  <2>1. UNCHANGED <<kind, stored, bound, cached>>
    BY <1>8
  <2>2. trees'[t] = Z /\ \A u \in Trees \ {t} : trees'[u] = trees[u]
    BY <1>8, BaseIs DEF TreeInv, MemoryTypes
  <2> QED
    BY <1>1, <1>3, <2>1, <2>2, OwnTreeIs
<1>10. Effect(c, {}, {p}, t, Z)
  <2>1. \A s \in Repos : \A x \in Paths : SameRow(s, x)
    BY <1>8, <1>9 DEF SameRow
  <2>2. \A s \in Repos : raced[s] \subseteq raced'[s] /\ Upclosed(raced'[s])
    BY <1>8 DEF TreeInv
  <2>3. \A x \in Paths : /\ IsFile(Z, x) <=> IsFile(trees[t], x)
                         /\ NoGap(trees[t], x) => NoGap(Z, x)
    BY <1>6 DEF IsFile, NoGap
  <2>4. {p} \subseteq Subtree(req[c].path)
    BY <1>1 DEF Subtree
  <2>5. t # None
    BY TablesAssumption
  <2> QED
    BY <1>1, <1>2, <1>3, <1>6, <1>7, <1>8, <1>9, <2>1, <2>2, <2>3, <2>4, <2>5 DEF Effect
<1>11. Fits(req[c], trees[t], Cached(r), Holds(c), FileRows(r), stored, raced[r])
  BY <1>1, <1>3 DEF TreeInv, Fit, Cached, FileRows
<1>12. Fit(c)'
  <2>1. OwnFits(q, Z, FileRows(r), raced[r])
    BY <1>1, <1>2, <1>6, <1>7, <1>11 DEF Fits, OwnFits, IsFile, NoGap
  <2>2. EditHeld(q, Z, Cached(r)', cached[r] # None /\ cached[r].tree = t, raced[r])
    BY <1>1, <1>2, <1>3, <1>7, <1>9, <1>11 DEF Fits, EditHeld, Holds
  <2> DEFINE Y2 == Cached(r)'
  <2> HIDE DEF Y2
  <2>3. Fits(q, Z, Y2, cached[r] # None /\ cached[r].tree = t, FileRows(r), stored, raced[r])
    BY <1>7, <2>1, <2>2 DEF Fits, CollectsAll, DeleteDone, PutDone, ReadHeld, Y2
  <2>4. Fits(q, trees'[q.tree], Cached(r)', cached'[r] # None /\ cached'[r].tree = q.tree,
             FileRows(r)', stored', raced'[r])
    BY <1>7, <1>8, <1>9, <2>3 DEF Y2
  <2> QED
    BY <1>7, <2>4, FitIs
<1>13. ASSUME cached'[r] # None, p \notin raced'[r] PROVE CacheFitsAt(r, p)'
  <2>1. CacheFitsAt(r, p)
    BY <1>8, <1>13 DEF TreeInv, CacheFits
  <2>2. (Due(r, p) => Due(r, p)') /\ (Editing(r, p) => Editing(r, p)')
    <3>1. \A o \in Clients : req[o].at \in {"write", "install"} => req'[o] = req[o]
      BY <1>2, <1>7
    <3> QED
      BY <3>1 DEF Due, DueOf, Editing, EditOf
  <2>3. p \in FileRows(r) => req[c].content = stored[p]
    BY <1>1, <1>2, <1>8, <1>11, <1>13 DEF Fits, ReadHeld
  <2>4. CASE cached[r].tree = t
    <3>1. Cached(r)' = Z /\ Cached(r) = trees[t]
      BY <1>8, <1>9, <1>13, <2>4
    <3>2. (IsFile(Z, p) <=> IsFile(trees[t], p)) /\ (NoGap(trees[t], p) => NoGap(Z, p))
      BY <1>6 DEF IsFile, NoGap
    <3>3. (IsFile(trees[t], p) <=> p \in FileRows(r)) \/ Due(r, p)
      BY <2>1, <3>1 DEF CacheFitsAt
    <3>4. IsFile(Z, p) => Z.content[p] = req[c].content
      BY <1>6, TreeAssumption DEF IsFile, Kinds
    <3>5. NoGap(Cached(r)', p)
      BY <2>1, <3>1, <3>2 DEF CacheFitsAt
    <3> QED
      BY <1>8, <1>9, <2>2, <2>3, <3>1, <3>2, <3>3, <3>4, <3>5 DEF CacheFitsAt, NoGap, IsFile
  <2>5. CASE cached[r].tree # t
    <3>1. Cached(r)' = Cached(r)
      BY <1>9, <2>5
    <3> QED
      BY <1>8, <1>9, <2>1, <2>2, <3>1 DEF CacheFitsAt, NoGap, IsFile
  <2> QED
    BY <2>4, <2>5
<1>14. Meets'
  BY <1>1, <1>2, <1>7, <1>8, MeetsKept
<1>15. \A x \in Paths : ~DueOf(req[c], x) /\ ~EditOf(req[c], x)
  BY <1>2 DEF DueOf, EditOf
<1>16. cached'[r] # None => \A x \in ({} \cup {p}) \ raced'[r] : CacheFitsAt(r, x)'
  BY <1>13
<1> QED
  BY <1>1, <1>10, <1>12, <1>14, <1>15, <1>16, EffectKeeps

\* An Edit changes a file of its own tree.
LEMMA EditTreeKeeps == ASSUME TreeInv, Base', NEW c \in Clients, EditTree(c) PROVE TreeInv'
<1>1. PICK r \in Repos, p \in Paths : r = req[c].repo /\ p = req[c].path
  BY BaseIs DEF TreeInv, RequestTypes, RequestType
<1>2. req[c].at = "ready" /\ req[c].op = "edit" /\ req[c].tree \in Trees /\ req[c].edit \in Edits
      /\ WellFormed(req[c])
  BY BaseIs DEF TreeInv, RequestTypes, RequestType, Shapes, WellFormed, EditTree
<1>3. PICK t \in Trees : t = req[c].tree
  BY <1>2
<1>4. UNCHANGED <<kind, stored, bound, cached, raced>>
  BY DEF EditTree, db
<1>5. CASE End(c) /\ Heap(trees)
  BY <1>2, <1>4, <1>5, ReadEndKeeps DEF TreeInv, EditOf
<1>6. CASE Edited(c) # None /\ req' = [req EXCEPT ![c].content = Edited(c), ![c].at = "write"]
           /\ trees' = [trees EXCEPT ![t] = TreePut(t, p, Edited(c))]
  <2>1. trees[t] \in TreeType
    BY BaseIs DEF TreeInv, MemoryTypes
  <2>2. PICK e \in Contents : e = Edited(c) /\ IsFile(trees[t], p)
    <3>1. Edited(c) = req[c].edit[trees[t].content[p]] /\ IsFile(trees[t], p) /\ trees[t].content[p] # None
      BY <1>1, <1>3, <1>6 DEF Edited, Tree!Readable, IsFile
    <3>2. trees[t].content[p] \in Contents
      BY <2>1, <3>1 DEF TreeType
    <3>3. Edited(c) \in Contents
      BY <1>2, <1>6, <3>1, <3>2, TreeAssumption
    <3> QED
      BY <3>1, <3>3
  <2>3. PICK Z : Z = TreePut(t, p, e)
    OBVIOUS
  <2>4. /\ \A x \in Paths : Z.nodes[x] =
              IF x = p THEN "file" ELSE IF x \in Above[p] /\ trees[t].nodes[x] = None THEN "dir"
              ELSE trees[t].nodes[x]
        /\ \A x \in Paths : Z.content[x] = IF x = p THEN e ELSE trees[t].content[x]
    BY <2>1, <2>3, TreePutIs
  <2>5. \A x \in Paths : /\ IsFile(Z, x) <=> IsFile(trees[t], x)
                         /\ NoGap(trees[t], x) => NoGap(Z, x)
                         /\ x \notin Near(p) => Z.nodes[x] = trees[t].nodes[x]
    <3>1. \A x \in Paths : IsFile(Z, x) <=> IsFile(trees[t], x)
      BY <2>2, <2>4, TreeAssumption DEF IsFile, Kinds
    <3>2. \A x \in Paths : Z.nodes[x] = None => trees[t].nodes[x] = None
      BY <2>4, TreeAssumption DEF Kinds
    <3>3. \A x \in Paths : NoGap(trees[t], x) => NoGap(Z, x)
      BY <3>1, <3>2 DEF NoGap, Below
    <3>4. \A x \in Paths \ Near(p) : x # p /\ x \notin Above[p]
      BY DEF Near, Upward
    <3> QED
      BY <2>4, <3>1, <3>3, <3>4
  <2> DEFINE q == req'[c]
  <2>6. /\ q.at = "write" /\ q.repo = r /\ q.path = p /\ q.op = "edit" /\ q.tree = t
        /\ q.content = e /\ \A o \in Clients \ {c} : req'[o] = req[o]
    BY <1>1, <1>2, <1>3, <1>6, <2>2, BaseIs DEF TreeInv, RequestTypes, RequestType
  <2>7. trees'[t] = Z /\ \A u \in Trees \ {t} : trees'[u] = trees[u]
    BY <1>6, <2>2, <2>3, BaseIs DEF TreeInv, MemoryTypes
  <2>8. /\ \A o \in Clients : req[o].tree # None =>
                trees'[req[o].tree] = IF req[o].tree = t THEN Z ELSE trees[req[o].tree]
        /\ \A s \in Repos :
                /\ FileRows(s)' = FileRows(s)
                /\ Cached(s)' = IF cached[s] # None /\ cached[s].tree = t THEN Z ELSE Cached(s)
                /\ cached[s] # None /\ cached[s].tree = t => Cached(s) = trees[t] /\ s = r
                /\ cached[s] # None => trees'[cached[s].tree] =
                          IF cached[s].tree = t THEN Z ELSE trees[cached[s].tree]
    <3>1. UNCHANGED <<kind, stored, bound, cached>>
      BY <1>4
    <3> QED
      BY <1>1, <1>3, <2>7, <3>1, OwnTreeIs
  <2>9. Effect(c, {}, {p}, t, Z)
    <3>1. \A s \in Repos : \A x \in Paths : SameRow(s, x)
      BY <1>4, <2>8 DEF SameRow
    <3>2. \A s \in Repos : raced[s] \subseteq raced'[s] /\ Upclosed(raced'[s])
      BY <1>4 DEF TreeInv
    <3>3. {p} \subseteq Subtree(req[c].path)
      BY <1>1 DEF Subtree
    <3>4. t # None
      BY TablesAssumption
    <3> QED
      BY <1>1, <1>2, <1>3, <1>4, <2>4, <2>5, <2>6, <2>8, <3>1, <3>2, <3>3, <3>4 DEF Effect
  <2>10. Fits(req[c], trees[t], Cached(r), Holds(c), FileRows(r), stored, raced[r])
    BY <1>1, <1>3 DEF TreeInv, Fit, Cached, FileRows
  <2>11. Fit(c)'
    <3>1. OwnFits(q, Z, FileRows(r), raced[r])
      <4>1. \A x \in Near(p) : x \in Paths
        BY PathFacts
      <4> QED
        BY <1>1, <1>2, <2>5, <2>6, <2>10, <4>1 DEF Fits, OwnFits
    <3>2. EditHeld(q, Z, Cached(r)', cached[r] # None /\ cached[r].tree = t, raced[r])
      <4>1. IsFile(Z, p) /\ Z.content[p] = e
        BY <2>2, <2>4, <2>5
      <4>2. req[c].tree # None
        BY <1>3, TablesAssumption
      <4> QED
        BY <1>1, <1>2, <1>3, <2>6, <2>8, <2>10, <4>1, <4>2 DEF Fits, EditHeld, Holds
    <3> DEFINE Y2 == Cached(r)'
    <3> HIDE DEF Y2
    <3>3. Fits(q, Z, Y2, cached[r] # None /\ cached[r].tree = t, FileRows(r), stored, raced[r])
      BY <2>6, <3>1, <3>2 DEF Fits, CollectsAll, DeleteDone, PutDone, ReadHeld, Y2
    <3>4. Fits(q, trees'[q.tree], Cached(r)', cached'[r] # None /\ cached'[r].tree = q.tree,
               FileRows(r)', stored', raced'[r])
      BY <1>4, <2>6, <2>7, <2>8, <3>3 DEF Y2
    <3> QED
      BY <2>6, <3>4, FitIs
  <2>12. ASSUME cached'[r] # None, p \notin raced'[r] PROVE CacheFitsAt(r, p)'
    <3>1. CacheFitsAt(r, p)
      BY <1>4, <2>12 DEF TreeInv, CacheFits
    <3>2. Due(r, p) => Due(r, p)'
      <4>1. \A o \in Clients : req[o].at = "install" => req'[o] = req[o]
        BY <1>2, <2>6
      <4> QED
        BY <4>1 DEF Due, DueOf
    <3>3. Editing(r, p)'
      BY <2>6 DEF Editing, EditOf
    <3>4. /\ IsFile(Cached(r)', p) <=> IsFile(Cached(r), p)
          /\ NoGap(Cached(r), p) => NoGap(Cached(r)', p)
      BY <2>5, <2>8
    <3> QED
      BY <2>8, <3>1, <3>2, <3>3, <3>4 DEF CacheFitsAt, NoGap, IsFile
  <2>13. Meets'
    BY <1>1, <1>2, <1>4, <2>6, MeetsKept
  <2>14. \A x \in Paths : ~DueOf(req[c], x) /\ ~EditOf(req[c], x)
    BY <1>2 DEF DueOf, EditOf
  <2>15. cached'[r] # None => \A x \in ({} \cup {p}) \ raced'[r] : CacheFitsAt(r, x)'
    BY <2>12
  <2> QED
    BY <1>1, <2>9, <2>11, <2>13, <2>14, <2>15, EffectKeeps
<1> QED
  BY <1>1, <1>3, <1>5, <1>6 DEF EditTree

-----------------------------------------------------------------------------
(* Commits *)

\* What a repository shares is as wrong above as below.
LEMMA SharedIs ==
    ASSUME NEW s \in Repos, NEW rows \in SUBSET Paths, NEW S, Upclosed(S)
    PROVE  Upclosed(S \cup Shared(s, rows)) /\ \A x \in rows \cap bound[s] : x \in Shared(s, rows)
<1>1. \A x \in Paths : \A y \in Upward(x) : Above[y] \subseteq Upward(x)
  BY TreeAssumption DEF Upward
<1>2. Upclosed(Shared(s, rows))
  BY <1>1 DEF Upclosed, Shared
<1>3. \A x \in rows \cap bound[s] : x \in Shared(s, rows)
  BY DEF Shared, Upward
<1> QED
  BY <1>2, <1>3 DEF Upclosed

\* The rows that the commit of a Put or an Edit changes, outside of what is wrong then.
LEMMA PutRowsAre ==
    ASSUME TreeInv, Base', NEW c \in Clients, WriteBackPut(c),
           NEW r \in Repos, r = req[c].repo, NEW p \in Paths, p = req[c].path
    PROVE  /\ \A s \in Repos : raced[s] \subseteq raced'[s] /\ Upclosed(raced'[s])
           /\ \A s \in Repos : \A x \in Paths \ raced'[s] : s # r \/ x # p => SameRow(s, x)
           /\ p \in FileRows(r)' /\ stored'[p] = req[c].content
<1>1. TableTypes /\ CountTypes
  BY BaseIs DEF TreeInv
<1>2. /\ \A x \in Paths : kind'[x] = IF x = p THEN "file" ELSE IF x \in Above[p] THEN "dir" ELSE kind[x]
      /\ \A x \in Paths : stored'[x] = IF x = p THEN req[c].content ELSE stored[x]
      /\ \A s \in Repos : bound'[s] = IF s = r THEN bound[s] \cup {p} \cup Above[p] ELSE bound[s]
  BY <1>1 DEF WriteBackPut, PutRows, TableTypes
<1>3. \A s \in Repos : raced'[s] = raced[s] \cup
        IF s # r THEN Shared(s, Upward(p))
        ELSE IF Above[p] \cap FileRows(r) # {} THEN Near(p) ELSE {}
  BY <1>1 DEF WriteBackPut, RacedByPut, CountTypes
<1>4. Upward(p) \subseteq Paths
  BY PathFacts DEF Upward
<1>5. ASSUME NEW s \in Repos PROVE Upclosed(raced'[s])
  <2>1. Upclosed(raced[s])
    BY DEF TreeInv
  <2>2. Upclosed(raced[s] \cup Shared(s, Upward(p)))
    BY <1>4, <2>1, SharedIs
  <2>3. Upclosed(raced[s] \cup Near(p)) /\ raced[s] \cup {} = raced[s]
    BY <2>1, UpclosedUp
  <2> QED
    BY <1>3, <2>1, <2>2, <2>3
<1>6. ASSUME NEW s \in Repos, NEW x \in Paths \ raced'[s], s # r \/ x # p PROVE SameRow(s, x)
  <2>1. CASE x \notin Upward(p)
    BY <1>2, <2>1 DEF SameRow, FileRows, Upward
  <2>2. CASE x \in Upward(p) /\ s # r
    <3>1. x \notin bound[s]
      <4>1. \A y \in Upward(p) \cap bound[s] : y \in Shared(s, Upward(p))
        <5>1. Upclosed({})
          BY DEF Upclosed
        <5> QED
          BY <1>4, <5>1, SharedIs
      <4> QED
        BY <1>3, <1>6, <2>2, <4>1
    <3> QED
      BY <1>2, <2>2, <3>1 DEF SameRow, FileRows
  <2>3. CASE x \in Above[p] /\ s = r
    <3>1. x \notin FileRows(r)
      BY <1>3, <1>6, <2>3 DEF Near, Upward
    <3> QED
      BY <1>2, <1>6, <2>3, <3>1 DEF SameRow, FileRows
  <2> QED
    BY <1>6, <2>1, <2>2, <2>3 DEF Upward
<1>7. p \in FileRows(r)' /\ stored'[p] = req[c].content
  BY <1>2 DEF FileRows
<1>8. \A s \in Repos : raced[s] \subseteq raced'[s]
  BY <1>3
<1> QED
  BY <1>5, <1>6, <1>7, <1>8

\* What of the memory a step keeps that changes requests, and forgets trees.
LEMMA TreesStay ==
    ASSUME TreeInv, Base', NEW c \in Clients, \A o \in Clients \ {c} : req'[o] = req[o],
           UNCHANGED cached, UNCHANGED trees \/ Heap(trees)
    PROVE  /\ \A o \in Clients \ {c} : req[o].tree # None => trees'[req[o].tree] = trees[req[o].tree]
           /\ \A s \in Repos : /\ cached[s] # None => trees'[cached[s].tree] = trees[cached[s].tree]
                               /\ Cached(s)' = Cached(s)
<1>1. MemoryTypes /\ req \in [Clients -> RequestType]
  BY BaseIs DEF TreeInv, RequestTypes
<1>2. \A o \in Clients \ {c} : req[o].tree # None => req'[o].tree \in Trees /\ req'[o].tree = req[o].tree
  BY <1>1 DEF RequestType
<1>3. \A s \in Repos : cached[s] # None => cached[s].tree \in Trees
  BY <1>1 DEF MemoryTypes
<1>4. /\ \A o \in Clients : req'[o].tree \in Trees => trees'[req'[o].tree] = trees[req'[o].tree]
      /\ \A s \in Repos : cached'[s] # None /\ cached'[s].tree \in Trees
            => trees'[cached'[s].tree] = trees[cached'[s].tree]
  BY HeapIs
<1>5. \A o \in Clients \ {c} : req[o].tree # None => trees'[req[o].tree] = trees[req[o].tree]
  BY <1>2, <1>4
<1>6. \A s \in Repos : cached[s] # None => trees'[cached[s].tree] = trees[cached[s].tree]
  BY <1>3, <1>4
<1>7. \A s \in Repos : Cached(s)' = Cached(s)
  BY <1>6 DEF Cached, NoTree
<1> QED
  BY <1>5, <1>6, <1>7

\* The commit of a Put, which the tree will follow, or of an Edit, which follows its tree.
LEMMA WriteBackPutKeeps == ASSUME TreeInv, Base', NEW c \in Clients, WriteBackPut(c) PROVE TreeInv'
<1>1. PICK r \in Repos, p \in Paths : r = req[c].repo /\ p = req[c].path
  BY BaseIs DEF TreeInv, RequestTypes, RequestType
<1>2. /\ req[c].at = "write" /\ req[c].op \in {"put", "edit"} /\ req[c].tree # None
      /\ UNCHANGED cached
      /\ UNCHANGED trees \/ Heap(trees)
  BY BaseIs DEF TreeInv, RequestTypes, RequestType, Shapes, WellFormed, WriteBackPut
<1>3. PICK t, Z : t = req[c].tree /\ Z = trees[t]
  OBVIOUS
<1> DEFINE q == req'[c]
<1>4. /\ \A o \in Clients \ {c} : req'[o] = req[o]
      /\ \/ q.at = "idle" /\ req[c].op = "edit"
         \/ /\ q.at = "install" /\ q.repo = r /\ q.path = p /\ q.op = "put" /\ req[c].op = "put"
            /\ q.content = req[c].content /\ q.tree = t
  BY <1>1, <1>2, <1>3, GoIs, EndIs DEF WriteBackPut, TreeInv
<1>5. /\ \A s \in Repos : raced[s] \subseteq raced'[s] /\ Upclosed(raced'[s])
      /\ \A s \in Repos : \A x \in Paths \ raced'[s] : s # r \/ x # p => SameRow(s, x)
      /\ p \in FileRows(r)' /\ stored'[p] = req[c].content
  BY <1>1, PutRowsAre
<1>6. /\ \A o \in Clients \ {c} : req[o].tree # None => trees'[req[o].tree] = trees[req[o].tree]
      /\ \A s \in Repos : /\ cached[s] # None => trees'[cached[s].tree] = trees[cached[s].tree]
                          /\ Cached(s)' = Cached(s)
  BY <1>2, <1>4, TreesStay
<1>7. Effect(c, {p}, {}, t, Z)
  <2>1. {p} \subseteq Subtree(req[c].path) /\ Writes(req[c].op)
    BY <1>1, <1>2 DEF Subtree, Writes
  <2> QED
    BY <1>1, <1>2, <1>3, <1>4, <1>5, <1>6, <2>1 DEF Effect
<1>8. Fit(c)'
  <2>1. CASE q.at = "idle"
    BY <2>1, EndFits
  <2>2. CASE q.at = "install" /\ q.op = "put"
    <3>1. q.repo = r /\ q.path = p /\ q.content = req[c].content
      BY <1>4, <2>2
    <3> DEFINE rows2 == FileRows(r)'
               Y2 == Cached(r)'
               own2 == cached'[r] # None /\ cached'[r].tree = q.tree
    <3>2. p \in rows2 /\ stored'[p] = q.content
      BY <1>5, <3>1
    <3> HIDE DEF rows2, Y2, own2
    <3>3. Fits(q, trees'[q.tree], Y2, own2, rows2, stored', raced'[r])
      BY <2>2, <3>1, <3>2 DEF Fits, OwnFits, CollectsAll, DeleteDone, PutDone, EditHeld, ReadHeld
    <3> QED
      BY <3>1, <3>3, FitIs DEF rows2, Y2, own2
  <2> QED
    BY <1>4, <2>1, <2>2
<1>9. ASSUME cached'[r] # None, p \notin raced'[r] PROVE CacheFitsAt(r, p)'
  <2>1. CacheFitsAt(r, p) /\ cached[r] # None /\ p \notin raced[r]
    BY <1>2, <1>5, <1>9 DEF TreeInv, CacheFits
  <2>2. CASE q.at = "install" /\ q.op = "put"
    <3>1. Due(r, p)'
      BY <1>4, <2>2 DEF Due, DueOf
    <3> QED
      BY <1>6, <2>1, <3>1 DEF CacheFitsAt, NoGap, IsFile
  <2>3. CASE req[c].op = "edit"
    <3>1. Fits(req[c], trees[t], Cached(r), Holds(c), FileRows(r), stored, raced[r])
      BY <1>1, <1>3 DEF TreeInv, Fit, Cached, FileRows
    <3>2. /\ IsFile(trees[t], p) /\ trees[t].content[p] = req[c].content
          /\ Holds(c) \/ Cached(r).content[p] = None
      BY <1>1, <1>2, <2>1, <2>3, <3>1 DEF Fits, EditHeld
    <3>3. p \in FileRows(r)
      BY <1>1, <1>2, <2>1, <2>3, <3>1, <3>2, PathFacts DEF Fits, OwnFits
    <3>4. Holds(c) => Cached(r) = trees[t]
      BY <1>1, <1>3 DEF Holds, Cached
    <3>5. ~Due(r, p)
      <4> SUFFICES ASSUME NEW o \in Clients, req[o].repo = r, DueOf(req[o], p) PROVE FALSE
        BY DEF Due
      <4>1. o # c /\ req[o].at # "idle" /\ req[o].op # "clear" /\ p \in Subtree(req[o].path) /\ req[o].path \in Paths
        BY <1>2, BaseIs DEF DueOf, Subtree, TreeInv, RequestTypes, RequestType
      <4>2. p \in Near(req[o].path) /\ p \in Near(p) /\ p \in Subtree(p)
        BY <4>1, PathFacts DEF Subtree, Near, Upward
      <4>3. Near(p) \cap Near(req[o].path) \subseteq raced[r]
        BY <1>1, <1>2, <4>1, <4>2, RivalsMeet DEF Writes
      <4> QED
        BY <2>1, <4>2, <4>3
    <3>6. /\ IsFile(Cached(r), p) /\ NoGap(Cached(r), p)
          /\ Cached(r).content[p] # None => Cached(r).content[p] = req[c].content
      BY <2>1, <3>2, <3>3, <3>4, <3>5 DEF CacheFitsAt
    <3> QED
      BY <1>5, <1>6, <3>6 DEF CacheFitsAt, NoGap, IsFile
  <2> QED
    BY <1>4, <2>2, <2>3
<1>10. Meets'
  BY <1>1, <1>2, <1>4, <1>5, MeetsKept
<1>11. cached'[r] # None => \A x \in ({p} \cup {}) \ raced'[r] : CacheFitsAt(r, x)'
  BY <1>9
<1>12. \A x \in Paths \ (raced'[r] \cup {p} \cup {}) : ~DueOf(req[c], x) /\ ~EditOf(req[c], x)
  BY <1>1, <1>2 DEF DueOf, EditOf
<1> QED
  BY <1>1, <1>7, <1>8, <1>10, <1>11, <1>12, EffectKeeps

\* Without a file below another, a Delete takes all files of a tree that has no gaps.
LEMMA TakesAll ==
    ASSUME NEW X \in TreeType, NEW p \in Paths, NEW rows, ~Chain(rows, p),
           \A y \in Subtree(p) : (IsFile(X, y) <=> y \in rows) /\ NoGap(X, y),
           NEW x \in Subtree(p), IsFile(X, x)
    PROVE  x \in Taken(X.nodes, p)
<1>1. x \in Paths /\ x \in rows
  BY PathFacts DEF Subtree
<1>2. CASE x = p
  BY <1>2 DEF Taken
<1>3. CASE x # p
  <2>1. x \in Below(p) /\ p \in Above[x]
    BY <1>3 DEF Subtree, Below
  <2>2. ASSUME NEW e \in {p} \cup Between(p, x) PROVE X.nodes[e] = "dir"
    <3>1. e \in Subtree(p) /\ x \in Below(e) /\ e \in Paths
      BY <1>1, <2>1, <2>2, PathFacts DEF Between, Subtree, Below
    <3>2. ~IsFile(X, e)
      BY <1>1, <3>1 DEF Chain
    <3>3. X.nodes[e] # None
      BY <3>1 DEF NoGap
    <3>4. X.nodes[e] \in Kinds \cup {None}
      BY <3>1 DEF TreeType
    <3> QED
      BY <3>2, <3>3, <3>4 DEF IsFile, Kinds
  <2>3. \A e \in Between(p, x) \cup {x} : X.nodes[e] # None
    BY <2>2, TreeAssumption DEF IsFile, Kinds
  <2> QED
    BY <1>1, <2>1, <2>2, <2>3 DEF Taken
<1> QED
  BY <1>2, <1>3

\* The rows that the commit of a Delete changes, outside of what is wrong then.
LEMMA DeleteRowsAre ==
    ASSUME TreeInv, Base', NEW c \in Clients, WriteBackDelete(c), req[c].op = "delete",
           NEW r \in Repos, r = req[c].repo, NEW p \in Paths, p = req[c].path
    PROVE  /\ \A s \in Repos : raced[s] \subseteq raced'[s] /\ Upclosed(raced'[s])
           /\ \A s \in Repos : \A x \in Paths \ raced'[s] : s # r \/ x \notin Subtree(p) => SameRow(s, x)
           /\ \A x \in FileRows(r)' : x \in FileRows(r) /\ x \notin req[c].paths
           /\ p \in raced[r] \/ Chain(FileRows(r), p) => Near(p) \subseteq raced'[r]
<1>1. TableTypes /\ CountTypes
  BY BaseIs DEF TreeInv
<1>2. PICK paths \in SUBSET Paths, orphans \in SUBSET Paths :
        /\ paths = req[c].paths /\ orphans = req[c].orphans
        /\ paths \subseteq Subtree(p) /\ orphans \subseteq paths
  BY BaseIs DEF TreeInv, RequestTypes, RequestType, Shapes, WellFormed, WriteBackDelete, Subtree
<1>3. /\ \A x \in Paths : kind'[x] = IF x \in orphans THEN None ELSE kind[x]
      /\ \A x \in Paths : stored'[x] = IF x \in orphans THEN None ELSE stored[x]
      /\ \A s \in Repos : bound'[s] = (bound[s] \ (IF s = r THEN paths ELSE {})) \ orphans
  BY <1>1, <1>2 DEF WriteBackDelete, DeleteRows, TableTypes
<1>4. \A s \in Repos : raced'[s] = raced[s] \cup
        IF s # r THEN Shared(s, orphans)
        ELSE IF p \in raced[r] \/ Nested(r, p) THEN Near(p) ELSE {}
  BY <1>2 DEF WriteBackDelete
<1>5. ASSUME NEW s \in Repos PROVE Upclosed(raced'[s])
  <2>1. Upclosed(raced[s])
    BY DEF TreeInv
  <2>2. Upclosed(raced[s] \cup Shared(s, orphans))
    BY <2>1, SharedIs
  <2>3. Upclosed(raced[s] \cup Near(p)) /\ raced[s] \cup {} = raced[s]
    BY <2>1, UpclosedUp
  <2> QED
    BY <1>4, <2>1, <2>2, <2>3
<1>6. ASSUME NEW s \in Repos, NEW x \in Paths \ raced'[s], s # r \/ x \notin Subtree(p)
      PROVE  SameRow(s, x)
  <2>1. CASE s = r
    <3>1. x \notin paths /\ x \notin orphans
      BY <1>2, <1>6, <2>1
    <3> QED
      BY <1>3, <3>1 DEF SameRow, FileRows
  <2>2. CASE s # r
    <3>1. \A y \in orphans \cap bound[s] : y \in Shared(s, orphans)
      <4>1. Upclosed({})
        BY DEF Upclosed
      <4> QED
        BY <4>1, SharedIs
    <3>2. x \in orphans => x \notin bound[s]
      BY <1>4, <1>6, <2>2, <3>1
    <3> QED
      BY <1>3, <2>2, <3>2 DEF SameRow, FileRows
  <2> QED
    BY <2>1, <2>2
<1>7. \A x \in FileRows(r)' : x \in FileRows(r) /\ x \notin paths
  <2> SUFFICES ASSUME NEW x \in FileRows(r)' PROVE x \in FileRows(r) /\ x \notin paths
    OBVIOUS
  <2>1. x \in bound'[r] /\ kind'[x] = "file"
    BY DEF FileRows
  <2>2. x \in bound[r] /\ x \notin paths /\ x \notin orphans /\ x \in Paths
    BY <1>1, <1>2, <1>3, <2>1 DEF TableTypes
  <2> QED
    BY <1>3, <2>1, <2>2 DEF FileRows
<1>8. Chain(FileRows(r), p) => Nested(r, p)
  BY DEF Chain, Nested, Subtree
<1>9. \A s \in Repos : raced[s] \subseteq raced'[s]
  BY <1>4
<1>10. p \in raced[r] \/ Chain(FileRows(r), p) => Near(p) \subseteq raced'[r]
  BY <1>4, <1>8
<1> QED
  BY <1>2, <1>5, <1>6, <1>7, <1>9, <1>10

\* The commit of a Delete: what is cached loses the same files later.
LEMMA WriteBackDeleteKeeps ==
    ASSUME TreeInv, Base', NEW c \in Clients, WriteBackDelete(c), req[c].op = "delete" PROVE TreeInv'
<1>1. PICK r \in Repos, p \in Paths : r = req[c].repo /\ p = req[c].path
  BY BaseIs DEF TreeInv, RequestTypes, RequestType
<1>2. /\ req[c].at = "commit" /\ req[c].op = "delete" /\ req[c].tree # None
      /\ UNCHANGED cached /\ UNCHANGED trees
  BY BaseIs DEF TreeInv, RequestTypes, RequestType, Shapes, WellFormed, WriteBackDelete, memory
<1>3. PICK t, Z : t = req[c].tree /\ Z = trees[t]
  OBVIOUS
<1> DEFINE q == req'[c]
<1>4. /\ \A o \in Clients \ {c} : req'[o] = req[o]
      /\ q.at = "install" /\ q.repo = r /\ q.path = p /\ q.op = "delete" /\ q.tree = t
  BY <1>1, <1>2, <1>3, GoIs DEF WriteBackDelete, TreeInv, Steps
<1>5. /\ \A s \in Repos : raced[s] \subseteq raced'[s] /\ Upclosed(raced'[s])
      /\ \A s \in Repos : \A x \in Paths \ raced'[s] : s # r \/ x \notin Subtree(p) => SameRow(s, x)
      /\ \A x \in FileRows(r)' : x \in FileRows(r) /\ x \notin req[c].paths
      /\ p \in raced[r] \/ Chain(FileRows(r), p) => Near(p) \subseteq raced'[r]
  BY <1>1, DeleteRowsAre
<1>6. /\ \A o \in Clients \ {c} : req[o].tree # None => trees'[req[o].tree] = trees[req[o].tree]
      /\ \A s \in Repos : /\ cached[s] # None => trees'[cached[s].tree] = trees[cached[s].tree]
                          /\ Cached(s)' = Cached(s)
  BY <1>2, <1>4, TreesStay
<1>7. Effect(c, Subtree(p), {}, t, Z)
  <2>1. Writes(req[c].op)
    BY <1>2 DEF Writes
  <2> QED
    BY <1>1, <1>2, <1>3, <1>4, <1>5, <1>6, <2>1 DEF Effect
<1>8. \A x \in Subtree(p) : x \in Paths /\ x \in Near(p)
  BY PathFacts DEF Subtree, Near, Upward
<1>9. DeleteDone(q, Cached(r)', FileRows(r)', raced'[r])
  <2> SUFFICES ASSUME NEW x \in Subtree(p) \ raced'[r]
               PROVE  x \notin FileRows(r)' /\ (IsFile(Cached(r), x) => x \in Taken(Cached(r).nodes, p))
    BY <1>4, <1>6 DEF DeleteDone
  <2>1. p \notin raced[r] /\ ~Chain(FileRows(r), p)
    BY <1>5, <1>8
  <2>2. Subtree(p) \cap raced[r] = {}
    BY <2>1 DEF TreeInv, Upclosed, Subtree, Below
  <2>3. FileRows(r) \cap Subtree(p) \subseteq req[c].paths
    <3>1. Fits(req[c], trees[t], Cached(r), Holds(c), FileRows(r), stored, raced[r])
      BY <1>1, <1>3 DEF TreeInv, Fit, Cached, FileRows
    <3> QED
      BY <1>1, <1>2, <2>1, <3>1 DEF Fits, CollectsAll
  <2>4. ASSUME cached[r] # None, NEW y \in Subtree(p)
        PROVE  (IsFile(Cached(r), y) <=> y \in FileRows(r)) /\ NoGap(Cached(r), y)
    <3>1. CacheFitsAt(r, y)
      BY <1>8, <2>2, <2>4 DEF TreeInv, CacheFits
    <3>2. ~Due(r, y)
      <4> SUFFICES ASSUME NEW o \in Clients, req[o].repo = r, DueOf(req[o], y) PROVE FALSE
        BY DEF Due
      <4>1. o # c /\ req[o].at # "idle" /\ req[o].op # "clear" /\ y \in Subtree(req[o].path) /\ req[o].path \in Paths
        BY <1>2, BaseIs DEF DueOf, Subtree, TreeInv, RequestTypes, RequestType
      <4>2. y \in Near(req[o].path) /\ y \in Near(p)
        BY <1>8, <4>1, PathFacts DEF Subtree, Near, Upward
      <4>3. Near(p) \cap Near(req[o].path) \subseteq raced[r]
        BY <1>1, <1>2, <4>1, <4>2, RivalsMeet DEF Writes
      <4> QED
        BY <2>2, <4>2, <4>3
    <3> QED
      BY <3>1, <3>2 DEF CacheFitsAt
  <2>5. ASSUME IsFile(Cached(r), x) PROVE x \in Taken(Cached(r).nodes, p)
    <3>1. cached[r] # None
      BY <1>8, <2>5, TreeAssumption DEF Cached, NoTree, IsFile, Kinds
    <3>2. Cached(r) \in TreeType
      BY <3>1, BaseIs DEF TreeInv, MemoryTypes, Cached
    <3> QED
      BY <2>1, <2>4, <2>5, <3>1, <3>2, TakesAll
  <2> QED
    BY <1>5, <2>3, <2>5
<1>10. Fit(c)'
  <2> DEFINE rows2 == FileRows(r)'
             Y2 == Cached(r)'
             own2 == cached'[r] # None /\ cached'[r].tree = q.tree
  <2>1. DeleteDone(q, Y2, rows2, raced'[r])
    BY <1>9
  <2> HIDE DEF rows2, Y2, own2
  <2>2. Fits(q, trees'[q.tree], Y2, own2, rows2, stored', raced'[r])
    BY <1>4, <2>1 DEF Fits, OwnFits, CollectsAll, PutDone, EditHeld, ReadHeld
  <2> QED
    BY <1>4, <2>2, FitIs DEF rows2, Y2, own2
<1>11. ASSUME cached'[r] # None, NEW x \in Subtree(p) \ raced'[r] PROVE CacheFitsAt(r, x)'
  <2>1. CacheFitsAt(r, x)
    BY <1>2, <1>5, <1>8, <1>11 DEF TreeInv, CacheFits
  <2>2. Due(r, x)'
    BY <1>4 DEF Due, DueOf
  <2> QED
    BY <1>6, <2>1, <2>2 DEF CacheFitsAt, NoGap, IsFile
<1>12. Meets'
  BY <1>1, <1>2, <1>4, <1>5, MeetsKept
<1>13. cached'[r] # None => \A x \in (Subtree(p) \cup {}) \ raced'[r] : CacheFitsAt(r, x)'
  BY <1>11
<1>14. \A x \in Paths \ (raced'[r] \cup Subtree(p) \cup {}) : ~DueOf(req[c], x) /\ ~EditOf(req[c], x)
  BY <1>2 DEF DueOf, EditOf
<1> QED
  BY <1>1, <1>7, <1>10, <1>12, <1>13, <1>14, EffectKeeps

\* The commit of a Delete of the root: nothing is known of the tree any more.
LEMMA ClearKeeps ==
    ASSUME TreeInv, Base', NEW c \in Clients, WriteBackDelete(c), req[c].op = "clear" PROVE TreeInv'
<1>1. PICK r \in Repos, p \in Paths, orphans \in SUBSET Paths :
        r = req[c].repo /\ p = req[c].path /\ orphans = req[c].orphans
  BY BaseIs DEF TreeInv, RequestTypes, RequestType
<1>2. req[c].at = "commit" /\ UNCHANGED <<cached, trees>> /\ req[c].tree # None
  BY BaseIs DEF TreeInv, RequestTypes, Shapes, WellFormed, WriteBackDelete, memory
<1>3. TableTypes /\ CountTypes
  BY BaseIs DEF TreeInv
<1>4. /\ \A x \in Paths : kind'[x] = IF x \in orphans THEN None ELSE kind[x]
      /\ \A x \in Paths : stored'[x] = IF x \in orphans THEN None ELSE stored[x]
      /\ \A s \in Repos \ {r} : bound'[s] = bound[s] \ orphans
  BY <1>1, <1>3 DEF WriteBackDelete, DeleteRows, TableTypes
<1>5. \A s \in Repos : raced'[s] = IF s = r THEN Paths ELSE raced[s] \cup Shared(s, orphans)
  BY <1>1, <1>3 DEF WriteBackDelete, CountTypes
<1>6. ASSUME NEW s \in Repos PROVE raced[s] \subseteq raced'[s] /\ Upclosed(raced'[s])
  <2>1. Upclosed(raced[s]) /\ raced[s] \subseteq Paths
    BY <1>3 DEF TreeInv, CountTypes
  <2>2. Upclosed(raced[s] \cup Shared(s, orphans)) /\ Upclosed(Paths)
    BY <2>1, SharedIs, TreeAssumption DEF Upclosed
  <2> QED
    BY <1>5, <2>1, <2>2
<1>7. ASSUME NEW s \in Repos, NEW x \in Paths \ raced'[s] PROVE SameRow(s, x)
  <2>1. s # r
    BY <1>5, <1>7
  <2>2. Upclosed({})
    BY DEF Upclosed
  <2>3. x \in orphans => x \notin bound[s]
    BY <1>5, <1>7, <2>1, <2>2, SharedIs
  <2> QED
    BY <1>4, <2>1, <2>3 DEF SameRow, FileRows
<1>8. PICK t, Z : t = req[c].tree /\ Z = trees[t]
  OBVIOUS
<1>9. /\ \A o \in Clients \ {c} : req'[o] = req[o]
      /\ req'[c].at = "install" /\ req'[c].repo = r /\ req'[c].path = p /\ req'[c].op = "clear"
  BY <1>1, <1>2, GoIs DEF WriteBackDelete, TreeInv, Steps
<1>10. /\ \A o \in Clients \ {c} : req[o].tree # None => trees'[req[o].tree] = trees[req[o].tree]
       /\ \A s \in Repos : cached[s] # None => trees'[cached[s].tree] = trees[cached[s].tree]
  BY <1>2
<1>11. Effect(c, {}, {}, t, Z)
  BY <1>1, <1>2, <1>6, <1>7, <1>8, <1>9, <1>10 DEF Effect
<1>12. Fit(c)'
  <2>1. WellFormed(req'[c])
    BY BaseIs DEF RequestTypes, Shapes, WellFormed
  <2>2. Fits(req'[c], trees'[req'[c].tree], Cached(r)',
             cached'[r] # None /\ cached'[r].tree = req'[c].tree, FileRows(r)', stored', raced'[r])
    BY <1>9, <2>1, ClearFits
  <2> QED
    BY <1>9, <2>2, FitIs
<1>13. Meets'
  BY <1>1, <1>2, <1>6, <1>9, MeetsKept
<1>14. \A x \in Paths \ (raced'[r] \cup {} \cup {}) : ~DueOf(req[c], x) /\ ~EditOf(req[c], x)
  BY <1>2 DEF DueOf, EditOf
<1> QED
  BY <1>1, <1>11, <1>12, <1>13, <1>14, EffectKeeps

-----------------------------------------------------------------------------
(* The end of Put and Delete *)

\* A directory that a Delete of p empties has no file but at p and below.
LEMMA EmptiedIs ==
    ASSUME NEW t \in Trees, NEW p \in Paths, NEW x \in Tree(t)!Emptied(p),
           \A e \in Subtree(x) : NoGap(trees[t], e),
           NEW y \in Below(x), IsFile(trees[t], y)
    PROVE  x \in Above[p] /\ y \in Subtree(p)
<1> DEFINE S == {e \in Between(x, p) \cup {x} : e \in Above[y]}
<1>1. Tree(t)!Between(x, p) = Between(x, p)
  BY DEF Tree!Between, Between
<1>2. /\ x \in Above[p]
      /\ \A e \in Between(x, p) \cup {x} :
            /\ trees[t].nodes[e] = "dir"
            /\ Lists(trees[t].nodes)[e] \subseteq {q \in Above[p] \cup {p} : Parent[q] = e}
  BY <1>1 DEF Tree!Emptied
<1>3. x \in Paths /\ y \in Paths /\ x \in Above[y] /\ x \notin Above[x]
  BY <1>2, PathFacts DEF Below
<1>4. S \in (SUBSET Above[y]) \ {{}}
  BY <1>3
<1>5. PICK d \in S : \A e \in S : d \notin Above[e]
  <2> HIDE DEF S
  <2>1. \A U \in (SUBSET Above[y]) \ {{}} : \E d \in U : \A e \in U : d \notin Above[e]
    BY <1>3, TreeAssumption
  <2> QED
    BY <1>4, <2>1
<1>6. /\ d \in Above[y] /\ d \in Between(x, p) \cup {x} /\ d \in Paths
      /\ d = x \/ x \in Above[d]
  BY <1>3, <1>5, PathFacts, TreeAssumption DEF Between
<1>7. PICK z \in Above[y] \cup {y} : Parent[z] = d
  BY <1>3, <1>6, TreeAssumption
<1>8. z \in Paths /\ d \in Above[z] /\ x \in Above[z]
  <2>1. z \in Paths /\ d # Root
    BY <1>3, <1>6, <1>7, PathFacts
  <2>2. d \in Above[z]
    BY <1>7, <2>1, TreeAssumption
  <2> QED
    BY <1>6, <2>1, <2>2, TreeAssumption
<1>9. trees[t].nodes[z] # None
  <2>1. CASE z = y
    BY <2>1, TreeAssumption DEF IsFile, Kinds
  <2>2. CASE z \in Above[y]
    BY <1>3, <1>8, <2>2 DEF NoGap, Subtree, Below
  <2> QED
    BY <1>7, <2>1, <2>2
<1>10. z \in Above[p] \cup {p}
  <2>1. z \in Lists(trees[t].nodes)[d]
    BY <1>6, <1>7, <1>8, <1>9 DEF Lists
  <2> QED
    BY <1>2, <1>6, <2>1
<1>11. CASE z = p
  BY <1>2, <1>3, <1>7, <1>11 DEF Subtree, Below
<1>12. CASE z \in Above[p]
  <2>1. z \in Between(x, p)
    BY <1>8, <1>12 DEF Between
  <2>2. CASE z \in Above[y]
    BY <1>5, <1>8, <2>1, <2>2
  <2>3. CASE z = y
    BY <1>2, <2>1, <2>3 DEF IsFile
  <2> QED
    BY <1>7, <2>2, <2>3
<1> QED
  BY <1>2, <1>10, <1>11, <1>12

\* What the end of a Put changes in a tree.
LEMMA InstalledPutIs ==
    ASSUME NEW t \in Trees, trees[t] \in TreeType, NEW p \in Paths, NEW e \in Contents,
           NEW Z, Z = TreePut(t, p, e)
    PROVE  /\ \A x \in Paths : x # p => (IsFile(Z, x) <=> IsFile(trees[t], x))
           /\ \A x \in Paths : x # p => Z.content[x] = trees[t].content[x]
           /\ \A x \in Paths \ Near(p) : Z.nodes[x] = trees[t].nodes[x]
           /\ \A x \in Paths : NoGap(trees[t], x) => NoGap(Z, x)
           /\ IsFile(Z, p) /\ Z.content[p] = e
<1>1. /\ \A x \in Paths : Z.nodes[x] =
            IF x = p THEN "file" ELSE IF x \in Above[p] /\ trees[t].nodes[x] = None THEN "dir"
            ELSE trees[t].nodes[x]
      /\ \A x \in Paths : Z.content[x] = IF x = p THEN e ELSE trees[t].content[x]
  BY TreePutIs
<1>2. \A x \in Paths : x # p => (IsFile(Z, x) <=> IsFile(trees[t], x))
  BY <1>1, TreeAssumption DEF IsFile, Kinds
<1>3. \A x \in Paths \ Near(p) : x # p /\ x \notin Above[p]
  BY DEF Near, Upward
<1>4. ASSUME NEW x \in Paths, NoGap(trees[t], x) PROVE NoGap(Z, x)
  <2> SUFFICES ASSUME Z.nodes[x] = None, NEW y \in Below(x) PROVE ~IsFile(Z, y)
    BY DEF NoGap
  <2>1. x \notin Above[p] /\ trees[t].nodes[x] = None
    BY <1>1, TreeAssumption DEF Kinds
  <2>2. y \in Paths /\ y # p
    BY <2>1 DEF Below
  <2> QED
    BY <1>2, <1>4, <2>1, <2>2 DEF NoGap
<1> QED
  BY <1>1, <1>2, <1>3, <1>4 DEF IsFile

\* What the end of a Delete changes in a tree.
LEMMA InstalledDeleteIs ==
    ASSUME NEW t \in Trees, trees[t] \in TreeType, NEW p \in Paths, NEW Z, Z = TreeDelete(t, p)
    PROVE  /\ \A x \in Paths \ Subtree(p) : IsFile(Z, x) <=> IsFile(trees[t], x)
           /\ \A x \in Paths \ Subtree(p) : Z.content[x] = trees[t].content[x]
           /\ \A x \in Paths \ Near(p) : Z.nodes[x] = trees[t].nodes[x]
           /\ \A x \in Paths : IsFile(Z, x) => IsFile(trees[t], x) /\ x \notin Taken(trees[t].nodes, p)
           /\ \A x \in Paths : Z.nodes[x] = None =>
                trees[t].nodes[x] = None \/ x \in Subtree(p) \/ x \in Tree(t)!Emptied(p)
<1>1. /\ trees[t].nodes[p] = None => Z = trees[t]
      /\ trees[t].nodes[p] # None => \A x \in Paths :
            /\ Z.nodes[x] = IF x \in Taken(trees[t].nodes, p) \cup Tree(t)!Emptied(p) THEN None
                            ELSE trees[t].nodes[x]
            /\ Z.content[x] = IF x \in Taken(trees[t].nodes, p) THEN None ELSE trees[t].content[x]
  BY TreeDeleteIs
<1>2. Taken(trees[t].nodes, p) \subseteq Subtree(p)
  BY DEF Taken, Subtree
<1>3. \A x \in Tree(t)!Emptied(p) : x \in Above[p] /\ trees[t].nodes[x] = "dir"
  BY DEF Tree!Emptied
<1>4. \A x \in Paths \ Near(p) : x \notin Subtree(p) /\ x \notin Above[p]
  BY DEF Near, Upward, Subtree
<1>5. None # "file"
  BY TreeAssumption DEF Kinds
<1>6. CASE trees[t].nodes[p] = None
  <2>1. \A x \in Taken(trees[t].nodes, p) : x = p
    BY <1>6, TreeAssumption DEF Taken, Kinds
  <2> QED
    BY <1>1, <1>5, <1>6, <2>1 DEF IsFile
<1>7. CASE trees[t].nodes[p] # None
  <2> HIDE DEF Subtree, Taken
  <2>1. \A x \in Paths \ Subtree(p) : IsFile(Z, x) <=> IsFile(trees[t], x)
    BY <1>1, <1>2, <1>3, <1>5, <1>7 DEF IsFile
  <2>2. \A x \in Paths : IsFile(Z, x) => IsFile(trees[t], x) /\ x \notin Taken(trees[t].nodes, p)
    BY <1>1, <1>5, <1>7 DEF IsFile
  <2> QED
    BY <1>1, <1>2, <1>3, <1>4, <1>7, <2>1, <2>2
<1> QED
  BY <1>6, <1>7

\* The tree that is cached by then is changed, as the tables have been; one that is put
\* back may be wrong everywhere.
LEMMA InstallKeeps == ASSUME TreeInv, Base', NEW c \in Clients, Install(c) PROVE TreeInv'
<1>1. PICK r \in Repos, p \in Paths : r = req[c].repo /\ p = req[c].path
  BY BaseIs DEF TreeInv, RequestTypes, RequestType
<1>2. /\ req[c].at = "install" /\ req[c].op \in {"put", "delete", "clear"} /\ req[c].tree \in Trees
      /\ req[c].op = "put" => req[c].content \in Contents
  BY BaseIs DEF TreeInv, RequestTypes, RequestType, Shapes, WellFormed, Install
<1>3. PICK t \in Trees : t = TreeToChange(c)
  BY <1>1, <1>2, BaseIs DEF TreeInv, MemoryTypes, TreeToChange
<1>4. PICK Z : Z = CASE req[c].op = "put"    -> TreePut(t, p, req[c].content)
                     [] req[c].op = "delete" -> TreeDelete(t, p)
                     [] OTHER                -> trees[t]
  OBVIOUS
<1>5. PICK V : V = CASE req[c].op = "put"    -> {p}
                     [] req[c].op = "delete" -> Subtree(p)
                     [] OTHER                -> {}
  OBVIOUS
<1>6. /\ MemoryTypes /\ CountTypes /\ req \in [Clients -> RequestType]
      /\ trees[t] \in TreeType /\ Upclosed(raced[r])
      /\ \A o \in Clients : req'[o] \in RequestType
  BY BaseIs DEF TreeInv, MemoryTypes, RequestTypes
<1>7. /\ UNCHANGED <<kind, stored, bound>> /\ Heap([trees EXCEPT ![t] = Z])
      /\ req'[c].at = "idle" /\ \A o \in Clients \ {c} : req'[o] = req[o]
      /\ \A s \in Repos : s # r \/ cached[r] # None => cached'[s] = cached[s]
      /\ \A s \in Repos : raced'[s] = IF s = r /\ cached[r] = None THEN Paths ELSE raced[s]
      /\ t = IF cached[r] = None THEN req[c].tree ELSE cached[r].tree
  <2>1. req'[c].at = "idle" /\ \A o \in Clients \ {c} : req'[o] = req[o]
    BY EndIs DEF Install, TreeInv
  <2>2. /\ cached' = [cached EXCEPT ![r] = IF @ = None THEN [tree |-> t, fresh |-> TRUE] ELSE @]
        /\ raced' = [raced EXCEPT ![r] = IF cached[r] = None THEN Paths ELSE @]
        /\ UNCHANGED <<kind, stored, bound>>
        /\ t = IF cached[r] = None THEN req[c].tree ELSE cached[r].tree
    BY <1>1, <1>3 DEF Install, db, TreeToChange
  <2>3. Heap([trees EXCEPT ![t] = Z])
    BY <1>1, <1>3, <1>4 DEF Install
  <2> QED
    BY <1>6, <2>1, <2>2, <2>3 DEF MemoryTypes, CountTypes
<1>8. /\ V \subseteq Subtree(p)
      /\ \A x \in Paths : x \in V \/ (IsFile(Z, x) <=> IsFile(trees[t], x))
      /\ \A x \in Paths : x \in V \/ Z.content[x] = trees[t].content[x]
      /\ \A x \in Paths \ Near(p) : Z.nodes[x] = trees[t].nodes[x]
  <2>1. CASE req[c].op = "put"
    <3>1. Z = TreePut(t, p, req[c].content) /\ V = {p} /\ req[c].content \in Contents
      BY <1>2, <1>4, <1>5, <2>1
    <3>2. V \subseteq Subtree(p)
      BY <3>1 DEF Subtree
    <3> QED
      BY <1>6, <3>1, <3>2, InstalledPutIs
  <2>2. CASE req[c].op = "delete"
    BY <1>4, <1>5, <1>6, <2>2, InstalledDeleteIs
  <2>3. CASE req[c].op = "clear"
    BY <1>4, <1>5, <2>3
  <2> QED
    BY <1>2, <2>1, <2>2, <2>3
<1>9. \A x \in Subtree(p) : x \in Paths /\ x \in Near(p)
  BY PathFacts DEF Subtree, Near, Upward
<1>10. Fits(req[c], trees[req[c].tree], Cached(r), Holds(c), FileRows(r), stored, raced[r])
  BY <1>1 DEF TreeInv, Fit, Cached, FileRows
<1>11. ASSUME cached[r] # None, req[c].op = "delete", NEW x \in Subtree(p) \ raced[r]
       PROVE  x \notin FileRows(r) /\ ~IsFile(Z, x)
  <2>1. x \notin FileRows(r) /\ (IsFile(trees[t], x) => x \in Taken(trees[t].nodes, p))
    BY <1>1, <1>2, <1>7, <1>10, <1>11 DEF Fits, DeleteDone, Cached
  <2> QED
    BY <1>4, <1>6, <1>9, <1>11, <2>1, InstalledDeleteIs
<1>12. ASSUME cached[r] # None, NEW x \in Paths \ raced[r] PROVE CacheFitsAt(r, x) /\ NoGap(trees[t], x)
  <2>1. CacheFitsAt(r, x)
    BY <1>12 DEF TreeInv, CacheFits
  <2> QED
    BY <1>7, <1>12, <2>1 DEF CacheFitsAt, Cached
<1>13. ASSUME cached[r] # None, NEW x \in Paths \ raced[r] PROVE NoGap(Z, x)
  <2>1. CASE req[c].op = "put"
    BY <1>2, <1>4, <1>6, <1>12, <1>13, <2>1, InstalledPutIs
  <2>2. CASE req[c].op = "delete"
    <3> SUFFICES ASSUME Z.nodes[x] = None, NEW y \in Below(x), IsFile(Z, y) PROVE FALSE
      BY DEF NoGap
    <3>1. \A e \in Subtree(x) : e \in Paths \ raced[r]
      BY <1>6, <1>13, PathFacts DEF Upclosed, Subtree, Below
    <3>2. y \in Paths /\ y \in Subtree(x)
      BY DEF Below, Subtree
    <3>3. IsFile(trees[t], y) /\ y \notin Subtree(p)
      <4>1. IsFile(trees[t], y)
        BY <1>4, <1>6, <2>2, <3>2, InstalledDeleteIs
      <4>2. y \notin Subtree(p)
        BY <1>11, <1>13, <2>2, <3>1, <3>2
      <4> QED
        BY <4>1, <4>2
    <3>4. trees[t].nodes[x] = None \/ x \in Subtree(p) \/ x \in Tree(t)!Emptied(p)
      BY <1>4, <1>6, <2>2, InstalledDeleteIs
    <3>5. CASE trees[t].nodes[x] = None
      BY <1>12, <1>13, <3>3, <3>5 DEF NoGap
    <3>6. CASE x \in Subtree(p)
      BY <3>3, <3>6, TreeAssumption DEF Subtree, Below
    <3>7. CASE x \in Tree(t)!Emptied(p)
      <4>1. \A e \in Subtree(x) : NoGap(trees[t], e)
        BY <1>12, <1>13, <3>1
      <4> QED
        BY <3>3, <3>7, <4>1, EmptiedIs
    <3> QED
      BY <3>4, <3>5, <3>6, <3>7
  <2>3. CASE req[c].op = "clear"
    BY <1>4, <1>12, <1>13, <2>3
  <2> QED
    BY <1>2, <2>1, <2>2, <2>3
<1>14. /\ \A s \in Repos : raced[s] \subseteq raced'[s] /\ Upclosed(raced'[s])
       /\ \A s \in Repos : FileRows(s)' = FileRows(s) /\ \A x \in Paths : SameRow(s, x)
  <2>1. Upclosed(Paths)
    BY TreeAssumption DEF Upclosed
  <2>2. \A s \in Repos : raced[s] \subseteq Paths /\ Upclosed(raced[s])
    BY <1>6 DEF TreeInv, CountTypes
  <2>3. \A s \in Repos : FileRows(s)' = FileRows(s)
    BY <1>7 DEF FileRows
  <2> QED
    BY <1>7, <2>1, <2>2, <2>3 DEF SameRow
<1>15. /\ \A o \in Clients \ {c} : req[o].tree # None =>
            trees'[req[o].tree] = IF req[o].tree = t THEN Z ELSE trees[req[o].tree]
       /\ \A s \in Repos : cached[s] # None =>
            trees'[cached[s].tree] = IF cached[s].tree = t THEN Z ELSE trees[cached[s].tree]
  <2> DEFINE heap == [trees EXCEPT ![t] = Z]
  <2>1. \A u \in Trees : heap[u] = IF u = t THEN Z ELSE trees[u]
    BY <1>6 DEF MemoryTypes
  <2>2. /\ \A o \in Clients : req'[o].tree \in Trees => trees'[req'[o].tree] = heap[req'[o].tree]
        /\ \A s \in Repos : cached'[s] # None /\ cached'[s].tree \in Trees
                => trees'[cached'[s].tree] = heap[cached'[s].tree]
    BY <1>7, HeapIs
  <2> HIDE DEF heap
  <2>3. ASSUME NEW o \in Clients \ {c}, req[o].tree # None
        PROVE  trees'[req[o].tree] = IF req[o].tree = t THEN Z ELSE trees[req[o].tree]
    <3>1. req'[o].tree = req[o].tree /\ req[o].tree \in Trees
      BY <1>6, <1>7, <2>3 DEF RequestType
    <3> QED
      BY <2>1, <2>2, <3>1
  <2>4. ASSUME NEW s \in Repos, cached[s] # None
        PROVE  trees'[cached[s].tree] = IF cached[s].tree = t THEN Z ELSE trees[cached[s].tree]
    <3>1. cached'[s] = cached[s] /\ cached[s].tree \in Trees
      BY <1>6, <1>7, <2>4 DEF MemoryTypes
    <3> QED
      BY <2>1, <2>2, <2>4, <3>1
  <2> QED
    BY <2>3, <2>4
<1>16. Effect(c, {}, V, t, Z)
  <2>1. /\ t # None
        /\ Writes(req[c].op) \/ (req[c].op = "clear" /\ Z = trees[t] /\ V = {})
    BY <1>2, <1>4, <1>5, TablesAssumption DEF Writes
  <2>2. \A s \in Repos : \/ cached'[s] = None \/ raced'[s] = Paths
                         \/ /\ cached[s] # None /\ cached'[s].tree = cached[s].tree
                            /\ trees'[cached[s].tree] = IF cached[s].tree = t THEN Z ELSE trees[cached[s].tree]
    BY <1>7, <1>15
  <2>3. \A x \in Paths \ raced'[r] : NoGap(trees[t], x) => NoGap(Z, x)
    BY <1>7, <1>13
  <2>4. t = req[c].tree \/ (cached[r] # None /\ t = cached[r].tree)
    BY <1>7
  <2>5. CASE Writes(req[c].op)
    BY <1>1, <1>2, <1>7, <1>8, <1>14, <1>15, <2>1, <2>2, <2>3, <2>4, <2>5 DEF Effect, Writes
  <2>6. CASE Z = trees[t] /\ V = {}
    BY <1>1, <1>2, <1>7, <1>14, <1>15, <2>1, <2>2, <2>4, <2>6 DEF Effect
  <2> QED
    BY <2>1, <2>5, <2>6
<1>17. Fit(c)'
  BY <1>7, EndFits
<1>18. ASSUME cached'[r] # None, NEW x \in V \ raced'[r] PROVE CacheFitsAt(r, x)'
  <2>1. cached[r] # None /\ x \in Paths \ raced[r] /\ x \in Subtree(p)
    BY <1>7, <1>8, <1>9, <1>18
  <2>2. Cached(r)' = Z /\ FileRows(r)' = FileRows(r) /\ NoGap(Z, x)
    BY <1>7, <1>13, <1>14, <1>15, <2>1 DEF Cached
  <2>3. CASE req[c].op = "put"
    <3>1. x = p /\ p \in FileRows(r) /\ stored[p] = req[c].content
      BY <1>1, <1>2, <1>5, <1>10, <1>18, <2>1, <2>3 DEF Fits, PutDone
    <3>2. IsFile(Z, p) /\ Z.content[p] = req[c].content
      BY <1>2, <1>4, <1>6, <2>3, InstalledPutIs
    <3> QED
      BY <1>7, <2>2, <3>1, <3>2 DEF CacheFitsAt, NoGap, IsFile
  <2>4. CASE req[c].op = "delete"
    <3>1. x \notin FileRows(r) /\ ~IsFile(Z, x)
      BY <1>11, <2>1, <2>4
    <3> QED
      BY <2>2, <3>1 DEF CacheFitsAt, NoGap, IsFile
  <2> QED
    BY <1>2, <1>5, <1>18, <2>3, <2>4
<1>19. Meets'
  BY <1>1, <1>2, <1>7, <1>14, MeetsKept
<1>20. cached'[r] # None => \A x \in ({} \cup V) \ raced'[r] : CacheFitsAt(r, x)'
  BY <1>18
<1>21. \A x \in Paths \ (raced'[r] \cup {} \cup V) : ~DueOf(req[c], x) /\ ~EditOf(req[c], x)
  BY <1>1, <1>2, <1>5 DEF DueOf, EditOf
<1> QED
  BY <1>1, <1>16, <1>17, <1>19, <1>20, <1>21, EffectKeeps

-----------------------------------------------------------------------------
(* The trees agree with the tables *)

LEMMA TreeInvInit == ASSUME Init PROVE TreeInv
<1>1. Base
  BY BaseInit
<1>2. /\ req = [c \in Clients |-> Idle] /\ Idle.at = "idle"
      /\ raced = [r \in Repos |-> {}] /\ cached = [r \in Repos |-> None]
  BY DEF Init, Idle
<1>3. Meets
  BY <1>2 DEF Meets, Meet, Rival
<1>4. \A r \in Repos : Upclosed(raced[r]) /\ CacheFits(r)
  BY <1>2 DEF Upclosed, CacheFits
<1>5. \A c \in Clients : Fit(c)
  <2>1. \A c \in Clients : req[c].at = "idle" /\ WellFormed(req[c])
    BY <1>2, IdleTyped
  <2> QED
    BY <2>1, NothingYet DEF Fit
<1> QED
  BY <1>1, <1>3, <1>4, <1>5 DEF TreeInv

LEMMA TreeInvStep == ASSUME TreeInv, [Next]_vars PROVE TreeInv'
<1>1. Base'
  BY BaseStep DEF TreeInv
<1>2. ASSUME NEW c \in Clients, Arrive(c) \/ Proceed(c) PROVE TreeInv'
  <2>1. CASE Arrive(c)
    BY <1>1, <2>1, ArriveKeeps
  <2>2. CASE WriteBackDelete(c)
    <3>1. req[c].op \in {"delete", "clear"}
      BY <2>2, BaseIs DEF TreeInv, RequestTypes, Shapes, WellFormed, WriteBackDelete
    <3> QED
      BY <1>1, <2>2, <3>1, WriteBackDeleteKeeps, ClearKeeps
  <2>3. CASE Proceed(c)
    BY <1>1, <2>2, <2>3, UseTreeKeeps, LoadNewTreeKeeps, ContentKeeps, SetContentKeeps, EditTreeKeeps,
       WriteBackPutKeeps, FailsKeeps, CollectPathsKeeps, InstallKeeps
       DEF Proceed
  <2> QED
    BY <1>2, <2>1, <2>3
<1>3. ASSUME NEW r \in Repos, Invalidate(r) \/ Expire(r) PROVE TreeInv'
  BY <1>1, <1>3, CacheKeeps
<1>4. CASE Crash
  BY <1>1, <1>4, CrashKeeps
<1>5. CASE UNCHANGED vars
  <2>1. UNCHANGED <<kind, stored, bound, trees, cached, req, raced>>
    BY <1>5 DEF vars
  <2>2. \A r \in Repos : Cached(r)' = Cached(r) /\ FileRows(r)' = FileRows(r)
    BY <2>1 DEF Cached, FileRows, NoTree
  <2>3. Meets'
    BY <2>1 DEF TreeInv, Meets
  <2>4. \A r \in Repos : Upclosed(raced'[r])
    BY <2>1 DEF TreeInv
  <2>5. ASSUME NEW r \in Repos PROVE CacheFits(r)'
    <3>1. \A x \in Paths : (Due(r, x)' <=> Due(r, x)) /\ (Editing(r, x)' <=> Editing(r, x))
      BY <2>1 DEF Due, Editing
    <3> QED
      BY <2>1, <2>2, <3>1 DEF TreeInv, CacheFits, CacheFitsAt, NoGap, IsFile
  <2>6. ASSUME NEW c \in Clients PROVE Fit(c)'
    BY <2>1 DEF TreeInv, Fit, Cached, Holds, FileRows, NoTree
  <2> QED
    BY <1>1, <2>3, <2>4, <2>5, <2>6 DEF TreeInv, Upclosed
<1> QED
  BY <1>2, <1>3, <1>4, <1>5 DEF Next

\* Where nothing is under way and nothing has gone wrong, the files of a cached tree
\* are those of the tables, with their contents.
LEMMA KnownIs ==
    ASSUME TreeInv, NEW r \in Repos, cached[r] # None,
           NEW x \in Paths \ (raced[r] \cup InFlight(r))
    PROVE  /\ IsFile(Cached(r), x) <=> x \in FileRows(r)
           /\ IsFile(Cached(r), x) /\ Cached(r).content[x] # None => Cached(r).content[x] = stored[x]
<1>1. CacheFitsAt(r, x)
  BY DEF TreeInv, CacheFits
<1>2. ~Due(r, x) /\ ~Editing(r, x)
  <2> SUFFICES ASSUME NEW o \in Clients, req[o].repo = r, DueOf(req[o], x) \/ EditOf(req[o], x) PROVE FALSE
    BY DEF Due, Editing
  <2>1. req[o].path \in Paths /\ req[o].at # "idle" /\ Writes(req[o].op)
    BY BaseIs DEF TreeInv, RequestTypes, RequestType, DueOf, EditOf, Writes
  <2>2. x \in Near(req[o].path)
    BY <2>1, PathFacts DEF DueOf, EditOf, Subtree, Near, Upward
  <2> QED
    BY <2>1, <2>2 DEF InFlight
<1> QED
  BY <1>1, <1>2 DEF CacheFitsAt

\* The invariant of the trees holds in every state.
THEOREM TreeInvariant == Spec => []TreeInv
BY TreeInvInit, TreeInvStep, PTL DEF Spec

\* A cached tree has exactly the files that a query of the tables finds below the
\* directory that is asked for, with their contents, outside of the paths that are known
\* to be wrong and those that requests are about to write.
THEOREM TreesAgreeHolds == Spec => []TreesAgree
<1>1. ASSUME TreeInv PROVE TreesAgree
  <2> SUFFICES ASSUME NEW r \in Repos, cached[r] # None
               PROVE  LET t == cached[r].tree
                          known == Paths \ (raced[r] \cup InFlight(r)) IN
                      /\ \A d \in Paths \cup {Root}, all \in BOOLEAN : Tree(t)!IsDir(d) =>
                            Tree(t)!Find(d, {"file"}, None, all) \cap known =
                                (Grep(r, d, all, Contents) \ Elsewhere(d)) \cap known
                      /\ \A p \in known : Tree(t)!Readable(p) => p \in Locate(r, {trees[t].content[p]})
    BY DEF TreesAgree
  <2> DEFINE t == cached[r].tree
             known == Paths \ (raced[r] \cup InFlight(r))
  <2>1. TableTypes /\ Stored /\ Cached(r) = trees[t]
    BY <1>1, BaseIs DEF TreeInv, Cached
  <2>2. \A x \in known : /\ trees[t].nodes[x] = "file" <=> x \in FileRows(r)
                         /\ trees[t].nodes[x] = "file" /\ trees[t].content[x] # None =>
                                trees[t].content[x] = stored[x]
    BY <1>1, <2>1, KnownIs DEF IsFile
  <2>3. \A x \in Paths : x \in FileRows(r) <=> x \in Readable(r)
    BY <2>1 DEF FileRows, Readable, Stored
  <2>4. ASSUME NEW d \in Paths \cup {Root}, NEW all \in BOOLEAN
        PROVE  Tree(t)!Find(d, {"file"}, None, all) \cap known =
                                (Grep(r, d, all, Contents) \ Elsewhere(d)) \cap known
    <3> SUFFICES ASSUME NEW x \in known
                 PROVE  x \in Tree(t)!Find(d, {"file"}, None, all) <=>
                            x \in Grep(r, d, all, Contents) /\ x \notin Elsewhere(d)
      OBVIOUS
    <3> DEFINE parts == {x} \cup {q \in Above[x] : d = Root \/ d \in Above[q]}
               under == d = Root \/ d \in Above[x]
    <3>1. Tree(t)!PartsUnder(d, x) = parts
      BY DEF Tree!PartsUnder, Tree!Between
    <3>4. under => Parts(d, x) = parts
      BY TreeAssumption DEF Parts, Between
    <3>5. under <=> (d = Root \/ x \in Matches[d]) /\ x \notin Elsewhere(d)
      BY TablesAssumption, TreeAssumption DEF Elsewhere, Below
    <3>2. x \in Tree(t)!Find(d, {"file"}, None, all) <=>
            /\ d = Root \/ d \in Above[x]
            /\ all \/ parts \cap Hidden = {}
            /\ trees[t].nodes[x] = "file"
      BY <3>1, TreeAssumption DEF Tree!Find, Tree!NodesUnder, Tree!HasHiddenPart, Kinds
    <3>3. x \in Grep(r, d, all, Contents) /\ x \notin Elsewhere(d) <=>
            /\ under
            /\ all \/ parts \cap Hidden = {}
            /\ x \in Readable(r)
      BY <2>1, <3>4, <3>5 DEF Grep, Readable, TableTypes
    <3> HIDE DEF parts
    <3> QED
      BY <2>2, <2>3, <3>2, <3>3
  <2>5. ASSUME NEW p \in known, Tree(t)!Readable(p) PROVE p \in Locate(r, {trees[t].content[p]})
    <3>1. trees[t].nodes[p] = "file" /\ trees[t].content[p] # None
      BY <2>5 DEF Tree!Readable
    <3>2. p \in Readable(r) /\ stored[p] = trees[t].content[p]
      BY <2>2, <2>3, <3>1
    <3> QED
      BY <3>2 DEF Locate, Search, Under
  <2> QED
    BY <2>4, <2>5
<1> QED
  BY <1>1, TreeInvariant, PTL
==============================================================================
