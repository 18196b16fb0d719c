------------------------ MODULE SourceRegistryProofs ------------------------
(***************************************************************************)
(* Proofs about SourceRegistry: readers are routed to the tree that writes *)
(* invalidate, for every set of sources, adapters and requests.            *)
(*                                                                         *)
(* The argument is about the adapters that somebody still refers to.  As   *)
(* long as a source is not disturbed it has at most one of them (Single).  *)
(* Before the table has an entry of the source nobody can have reached the *)
(* adapter, so it has no tree (Unrouted).  Hence whoever clears the tree,  *)
(* the request that wrote through the adapter it holds or the handler that *)
(* clears what the table has, clears the only tree there is (CaughtUp).    *)
(***************************************************************************)
EXTENDS SourceRegistry, TLAPS

\* A request in state r has changed s and has still to invalidate.
Awaits(r, s) == r.src = s /\ (r.pc \in {"invalidate", "purge"} \/ r.after = "purge")

\* What the program counter says of the other locals.
WellFormed(r) ==
    /\ r.adapter # None <=> r.pc \in {"use", "invalidate"}
    /\ r.after # None <=> r.pc \in Kinds \cup {"build", "swap"}
    /\ r.pc \in {"gate", "gateAgain", "lookup", "lookupAgain", "use", "invalidate", "purge"}
         \/ r.after \in {"gateAgain", "lookupAgain", "purge"}
            => r.src \in Sources

\* References lead to adapters of the source they are looked up for.
Owned ==
    /\ \A s \in Sources : table[s] # None => owner[table[s].adapter] = s
    /\ \A k \in Procs : run[k].adapter # None => owner[run[k].adapter] = run[k].src
    /\ \A k \in Procs, s \in Sources : run[k].next[s] # None => owner[run[k].next[s].adapter] = s

Single == \A a, b \in Adapters :
    InUse(a) /\ InUse(b) /\ owner[a] = owner[b] /\ owner[a] \notin disturbed => a = b

Unrouted == \A s \in Sources \ disturbed : table[s] = None =>
    /\ \A k \in Procs : run[k].adapter # None => run[k].src # s
    /\ \A a \in Adapters : InUse(a) /\ owner[a] = s => tree[a] = "none"

CaughtUp == \A a \in Adapters :
    InUse(a) /\ owner[a] \notin disturbed /\ tree[a] = "stale" =>
        \E k \in Procs : Awaits(run[k], owner[a])

Inv ==
    /\ TypeOK
    /\ \A k \in Procs : WellFormed(run[k])
    /\ Owned /\ Single /\ Unrouted /\ CaughtUp

-----------------------------------------------------------------------------
\* An adapter in use has an owner.
LEMMA UsedIsOwned == ASSUME Inv, NEW a \in Adapters, InUse(a) PROVE owner[a] \in Sources
<1>1. CASE \E s \in Sources : table[s] # None /\ table[s].adapter = a
  BY <1>1 DEF Inv, Owned
<1>2. CASE \E k \in Procs : run[k].adapter = a
  <2>1. PICK k \in Procs : run[k].adapter = a  BY <1>2
  <2>2. run[k].adapter # None  BY <2>1, RegistryAssumption
  <2>3. run[k].src \in Sources  BY <2>2 DEF Inv, WellFormed
  <2>. QED  BY <2>1, <2>2, <2>3 DEF Inv, Owned
<1>3. CASE \E k \in Procs, s \in Sources : run[k].next[s] # None /\ run[k].next[s].adapter = a
  BY <1>3 DEF Inv, Owned
<1>. QED  BY <1>1, <1>2, <1>3 DEF InUse

\* The steps of a request that creates no adapter and leaves the table alone.
LEMMA RunStep ==
    ASSUME Inv, NEW k \in Procs, NEW r \in Runs, Becomes(k, r),
           catalog' \in [Sources -> Rows \cup {None}], opened' \subseteq Sources,
           table' = table, owner' = owner,
           tree' \in [Adapters -> {"none", "fresh", "foreign", "stale"}],
           disturbed \subseteq disturbed', disturbed' \subseteq Sources,
           WellFormed(r),
           r.adapter # None => /\ owner[r.adapter] = r.src /\ InUse(r.adapter)
                               /\ r.src \notin disturbed' => table[r.src] # None,
           \A s \in Sources : r.next[s] # None =>
                owner[r.next[s].adapter] = s /\ InUse(r.next[s].adapter),
           \A s \in Sources \ disturbed', a \in Adapters :
                table[s] = None /\ InUse(a) /\ owner[a] = s => tree'[a] = "none",
           \A a \in Adapters : InUse(a) /\ owner[a] \notin disturbed' /\ tree'[a] = "stale" =>
                \/ Awaits(r, owner[a])
                \/ \E j \in Procs \ {k} : Awaits(run[j], owner[a])
    PROVE  Inv'
<1>1. /\ run \in [Procs -> Runs]
      /\ run' = [run EXCEPT ![k] = r]
      /\ \A j \in Procs : run'[j] = IF j = k THEN r ELSE run[j]
  BY DEF Inv, TypeOK, Becomes
<1>2. TypeOK'
  <2>1. run' \in [Procs -> Runs]  BY <1>1
  <2>. QED  BY <2>1 DEF Inv, TypeOK
<1>3. \A j \in Procs : WellFormed(run'[j])  BY <1>1 DEF Inv
<1>4. ASSUME NEW a \in Adapters, InUse(a)' PROVE InUse(a)
  <2>1. CASE \E s \in Sources : table'[s] # None /\ table'[s].adapter = a
    BY <2>1 DEF InUse
  <2>2. CASE \E j \in Procs : run'[j].adapter = a
    <3>1. PICK j \in Procs : run'[j].adapter = a  BY <2>2
    <3>2. CASE j = k
      <4>1. r.adapter = a /\ a # None  BY <1>1, <3>1, <3>2, RegistryAssumption
      <4>. QED  BY <4>1
    <3>3. CASE j # k  BY <1>1, <3>1, <3>3 DEF InUse
    <3>. QED  BY <3>2, <3>3
  <2>3. CASE \E j \in Procs, s \in Sources : run'[j].next[s] # None /\ run'[j].next[s].adapter = a
    <3>1. PICK j \in Procs, s \in Sources : run'[j].next[s] # None /\ run'[j].next[s].adapter = a
      BY <2>3
    <3>2. CASE j = k  BY <1>1, <3>1, <3>2
    <3>3. CASE j # k  BY <1>1, <3>1, <3>3 DEF InUse
    <3>. QED  BY <3>2, <3>3
  <2>. QED  BY <1>4, <2>1, <2>2, <2>3 DEF InUse
<1>5. Owned'
  <2>1. \A s \in Sources : table'[s] # None => owner'[table'[s].adapter] = s  BY DEF Inv, Owned
  <2>2. \A j \in Procs : run'[j].adapter # None => owner'[run'[j].adapter] = run'[j].src
    BY <1>1 DEF Inv, Owned
  <2>3. \A j \in Procs, s \in Sources : run'[j].next[s] # None => owner'[run'[j].next[s].adapter] = s
    BY <1>1 DEF Inv, Owned
  <2>. QED  BY <2>1, <2>2, <2>3 DEF Owned
<1>6. Single'  BY <1>4 DEF Inv, Single
<1>7. Unrouted'
  <2>. SUFFICES ASSUME NEW s \in Sources \ disturbed', table[s] = None
                PROVE  /\ \A j \in Procs : run'[j].adapter # None => run'[j].src # s
                       /\ \A a \in Adapters : InUse(a)' /\ owner[a] = s => tree'[a] = "none"
    BY DEF Unrouted
  <2>1. \A j \in Procs : run'[j].adapter # None => run'[j].src # s
    BY <1>1 DEF Inv, Unrouted
  <2>. QED  BY <1>4, <2>1
<1>8. CaughtUp'
  <2>. SUFFICES ASSUME NEW a \in Adapters, InUse(a)', owner[a] \notin disturbed', tree'[a] = "stale"
                PROVE  \E j \in Procs : Awaits(run'[j], owner[a])
    BY DEF CaughtUp
  <2>1. \/ Awaits(r, owner[a])
        \/ \E j \in Procs \ {k} : Awaits(run[j], owner[a])
    BY <1>4
  <2>. QED  BY <1>1, <2>1
<1>. QED  BY <1>2, <1>3, <1>5, <1>6, <1>7, <1>8 DEF Inv

\* Steps that leave the trees alone: the request goes on to invalidate what it had
\* to invalidate before.
LEMMA QuietStep ==
    ASSUME Inv, NEW k \in Procs, NEW r \in Runs, Becomes(k, r),
           catalog' \in [Sources -> Rows \cup {None}], opened' \subseteq Sources,
           table' = table, owner' = owner, tree' = tree,
           disturbed \subseteq disturbed', disturbed' \subseteq Sources,
           WellFormed(r),
           r.adapter # None => /\ owner[r.adapter] = r.src /\ InUse(r.adapter)
                               /\ r.src \notin disturbed' => table[r.src] # None,
           r.next = run[k].next \/ r.next = NoRun.next,
           \A s \in Sources \ disturbed' : Awaits(run[k], s) => Awaits(r, s)
    PROVE  Inv'
<1>1. tree' \in [Adapters -> {"none", "fresh", "foreign", "stale"}]  BY DEF Inv, TypeOK
<1>2. ASSUME NEW s \in Sources, r.next[s] # None
      PROVE  owner[r.next[s].adapter] = s /\ InUse(r.next[s].adapter)
  <2>1. NoRun.next[s] = None  BY DEF NoRun
  <2>2. run[k].next[s] = r.next[s]  BY <1>2, <2>1
  <2>. QED  BY <1>2, <2>2 DEF Inv, Owned, InUse
<1>3. \A s \in Sources \ disturbed', a \in Adapters :
        table[s] = None /\ InUse(a) /\ owner[a] = s => tree'[a] = "none"
  BY DEF Inv, Unrouted
<1>4. ASSUME NEW a \in Adapters, InUse(a), owner[a] \notin disturbed', tree'[a] = "stale"
      PROVE  \/ Awaits(r, owner[a])
             \/ \E j \in Procs \ {k} : Awaits(run[j], owner[a])
  <2>1. PICK j \in Procs : Awaits(run[j], owner[a])  BY <1>4 DEF Inv, CaughtUp
  <2>2. owner[a] \in Sources  BY <1>4, UsedIsOwned
  <2>. QED  BY <1>4, <2>1, <2>2
<1>. QED  BY <1>1, <1>2, <1>3, <1>4, RunStep

\* A request that is over has no locals.
LEMMA NoRunType == NoRun \in Runs /\ WellFormed(NoRun)
<1>1. NoRun \in Runs  BY DEF NoRun, Runs
<1>2. /\ NoRun.pc = "idle" /\ NoRun.after = None /\ NoRun.adapter = None
  BY DEF NoRun
<1>. QED  BY <1>1, <1>2, RegistryAssumption DEF WellFormed, Kinds, Afters

\* A refresh begins with a listing, or with the look at the table.
LEMMA FirstListingType == FirstListing \in Kinds \cup {"build"}
BY DEF FirstListing, AfterListing, Kinds

\* A listing is followed by another one or by the look at the table.
LEMMA AfterListingType == ASSUME NEW kind PROVE AfterListing(kind) \in Kinds \cup {"build"}
BY DEF AfterListing, Kinds

\* The request is answered and nothing else happens.
LEMMA AnswerStep ==
    ASSUME Inv, NEW k \in Procs, Answer(k),
           catalog' \in [Sources -> Rows \cup {None}], opened' \subseteq Sources,
           table' = table, owner' = owner, tree' = tree,
           disturbed \subseteq disturbed', disturbed' \subseteq Sources,
           \A s \in Sources \ disturbed' : ~Awaits(run[k], s)
    PROVE  Inv'
<1>1. Becomes(k, NoRun)  BY DEF Answer
<1>2. NoRun.adapter = None  BY DEF NoRun
<1>. QED  BY <1>1, <1>2, NoRunType, QuietStep

\* A refresh begins.
LEMMA RefreshStep ==
    ASSUME Inv, NEW k \in Procs, NEW r \in Runs, NEW after \in {"idle", "gateAgain", "lookupAgain"},
           Refresh(k, r, after), r.adapter = None, r.src \in Sources \/ after = "idle",
           r.next = run[k].next \/ r.next = NoRun.next,
           catalog' \in [Sources -> Rows \cup {None}], opened' \subseteq Sources,
           table' = table, owner' = owner, tree' = tree, disturbed' = disturbed,
           \A s \in Sources : ~Awaits(run[k], s)
    PROVE  Inv'
<1>. DEFINE q == [r EXCEPT !.pc = FirstListing, !.after = after]
<1>1. Becomes(k, q)  BY DEF Refresh
<1>2. q \in Runs
  <2>1. after \in Afters \cup {None}  BY DEF Afters
  <2>. QED  BY <2>1, FirstListingType DEF Runs
<1>3. /\ q.adapter = None /\ q.next = r.next /\ q.src = r.src
      /\ q.pc \in Kinds \cup {"build"} /\ q.after = after
  BY FirstListingType DEF Runs, Afters
<1>4. WellFormed(q)
  <2>1. q.pc \notin {"use", "invalidate", "gate", "gateAgain", "lookup", "lookupAgain", "purge"}
    BY <1>3 DEF Kinds
  <2>2. q.after # None  BY <1>3, RegistryAssumption DEF Afters
  <2>. QED  BY <1>3, <2>1, <2>2 DEF WellFormed
<1>5. disturbed' \subseteq Sources  BY DEF Inv, TypeOK
<1>. HIDE DEF q
<1>. QED  BY <1>1, <1>2, <1>3, <1>4, <1>5, QuietStep

-----------------------------------------------------------------------------
\* A listing keeps what the refresh is for.
LEMMA ListStep == ASSUME Inv, NEW k \in Procs, List(k) PROVE Inv'
<1>1. PICK kind \in Kinds :
        /\ At(k, kind)
        /\ Becomes(k, [run[k] EXCEPT
                !.listed = [s \in Sources |-> IF Kind[s] = kind THEN catalog[s] ELSE @[s]],
                !.pc = AfterListing(kind)])
  BY DEF List
<1>. DEFINE r == [run[k] EXCEPT
                !.listed = [s \in Sources |-> IF Kind[s] = kind THEN catalog[s] ELSE @[s]],
                !.pc = AfterListing(kind)]
<1>2. run[k] \in Runs /\ WellFormed(run[k])  BY DEF Inv, TypeOK
<1>3. [s \in Sources |-> IF Kind[s] = kind THEN catalog[s] ELSE run[k].listed[s]]
        \in [Sources -> Rows \cup {None}]
  BY <1>2 DEF Inv, TypeOK, Runs
<1>4. r \in Runs  BY <1>2, <1>3, AfterListingType DEF Runs
<1>5. /\ r.pc \in Kinds \cup {"build"} /\ r.after = run[k].after /\ r.adapter = run[k].adapter
      /\ r.src = run[k].src /\ r.next = run[k].next
  BY <1>2, AfterListingType DEF Runs
<1>6. run[k].pc \in Kinds  BY <1>1 DEF At
<1>7. run[k].adapter = None /\ WellFormed(r)
  BY <1>2, <1>5, <1>6 DEF WellFormed, Kinds
<1>8. \A s \in Sources : Awaits(run[k], s) => Awaits(r, s)
  BY <1>5, <1>6 DEF Awaits, Kinds
<1>9. Becomes(k, r)  BY <1>1
<1>10. /\ catalog' = catalog /\ table' = table /\ owner' = owner /\ tree' = tree
       /\ opened' = opened /\ disturbed' = disturbed
       /\ catalog \in [Sources -> Rows \cup {None}] /\ opened \subseteq Sources
       /\ disturbed \subseteq Sources
  BY DEF List, Inv, TypeOK
<1>. HIDE DEF r
<1>. QED  BY <1>4, <1>5, <1>7, <1>8, <1>9, <1>10, QuietStep

\* A refresh that fails after a committed change disturbs the source.
LEMMA ListFailsStep == ASSUME Inv, NEW k \in Procs, ListFails(k) PROVE Inv'
<1>1. run[k] \in Runs /\ WellFormed(run[k])  BY DEF Inv, TypeOK
<1>2. run[k].pc \in Kinds  BY DEF ListFails
<1>3. disturbed' = disturbed \cup (IF run[k].after = "purge" THEN {run[k].src} ELSE {})
  BY DEF ListFails
<1>4. disturbed' \subseteq Sources
  BY <1>1, <1>3 DEF WellFormed, Inv, TypeOK
<1>5. \A s \in Sources \ disturbed' : ~Awaits(run[k], s)
  BY <1>2, <1>3 DEF Awaits, Kinds
<1>6. /\ catalog' = catalog /\ table' = table /\ owner' = owner /\ tree' = tree
      /\ opened' = opened
      /\ catalog \in [Sources -> Rows \cup {None}] /\ opened \subseteq Sources
  BY DEF ListFails, Inv, TypeOK
<1>7. Answer(k) /\ disturbed \subseteq disturbed'  BY <1>3 DEF ListFails
<1>. QED  BY <1>4, <1>5, <1>6, <1>7, AnswerStep

\* A process with nothing to do awaits nothing.
LEMMA IdleAwaits == ASSUME Inv, NEW k \in Procs, At(k, "idle")
                    PROVE  run[k].after = None /\ \A s \in Sources : ~Awaits(run[k], s)
<1>1. WellFormed(run[k]) /\ run[k].pc = "idle"  BY DEF Inv, At
<1>2. run[k].after = None  BY <1>1 DEF WellFormed, Kinds
<1>3. run[k].after # "purge"  BY <1>2, RegistryAssumption DEF Afters
<1>. QED  BY <1>1, <1>2, <1>3 DEF Awaits

\* A refresh on behalf of nobody, and one that follows a registration.
LEMMA IdleRefreshStep ==
    ASSUME Inv, NEW k \in Procs, At(k, "idle"), Refresh(k, NoRun, "idle"),
           catalog' \in [Sources -> Rows \cup {None}], opened' \subseteq Sources,
           table' = table, owner' = owner, tree' = tree, disturbed' = disturbed
    PROVE  Inv'
<1>1. NoRun.adapter = None  BY DEF NoRun
<1>2. \A s \in Sources : ~Awaits(run[k], s)  BY IdleAwaits
<1>. QED  BY <1>1, <1>2, NoRunType, RefreshStep

\* The refresh loop starts a refresh (StartRefreshLoop).
LEMMA TickStep == ASSUME Inv, Tick PROVE Inv'
<1>1. Loop \in Procs  BY DEF Procs
<1>2. catalog \in [Sources -> Rows \cup {None}] /\ opened \subseteq Sources  BY DEF Inv, TypeOK
<1>. QED  BY <1>1, <1>2, IdleRefreshStep DEF Tick

\* GET /v1/mount-sources starts a refresh (MountSources).
LEMMA MountSourcesStep == ASSUME Inv, NEW k \in Procs, MountSources(k) PROVE Inv'
<1>1. catalog \in [Sources -> Rows \cup {None}] /\ opened \subseteq Sources  BY DEF Inv, TypeOK
<1>. QED  BY <1>1, IdleRefreshStep DEF MountSources

\* A registration inserts a row and starts a refresh (RegisterRepo).
LEMMA RegisterRepoStep ==
    ASSUME Inv, NEW k \in Procs, NEW s \in Sources, RegisterRepo(k, s) PROVE Inv'
<1>1. PICK w \in BOOLEAN : catalog' = [catalog EXCEPT ![s] = w]
                           /\ opened' = opened \cup (IF w THEN {s} ELSE {})
  BY DEF RegisterRepo
<1>2. catalog' \in [Sources -> Rows \cup {None}]  BY <1>1 DEF Inv, TypeOK, Rows
<1>3. opened' \subseteq Sources  BY <1>1 DEF Inv, TypeOK
<1>. QED  BY <1>2, <1>3, IdleRefreshStep DEF RegisterRepo

\* What a change of s does to the trees.
LEMMA OutdatedTrees ==
    ASSUME Inv, NEW s \in Sources, Outdated(s)
    PROVE  /\ tree' \in [Adapters -> {"none", "fresh", "foreign", "stale"}]
           /\ \A a \in Adapters : tree[a] = "none" => tree'[a] = "none"
           /\ \A a \in Adapters : tree'[a] = "stale" => tree[a] = "stale" \/ owner[a] = s
BY DEF Outdated, Worse, Inv, TypeOK

\* The handler that has changed a docset awaits the purge.
LEMMA ManageDocsetStep ==
    ASSUME Inv, NEW k \in Procs, NEW s \in Sources, ManageDocset(k, s) PROVE Inv'
<1>. DEFINE r == [[NoRun EXCEPT !.op = "manage", !.src = s] EXCEPT
                    !.pc = FirstListing, !.after = "purge"]
<1>1. Becomes(k, r)  BY DEF ManageDocset, Refresh
<1>2. /\ r.pc = FirstListing /\ r.after = "purge" /\ r.adapter = None /\ r.src = s
      /\ r.next = NoRun.next
  BY DEF NoRun
<1>3. r \in Runs
  <2>1. "purge" \in Afters \cup {None}  BY DEF Afters
  <2>. QED  BY <2>1, FirstListingType, NoRunType DEF Runs
<1>4. WellFormed(r)
  <2>1. r.after # None  BY <1>2, RegistryAssumption DEF Afters
  <2>2. r.pc \in Kinds \cup {"build"} /\ r.pc \notin {"use", "invalidate"}
    BY <1>2, FirstListingType DEF Kinds
  <2>. QED  BY <1>2, <2>1, <2>2 DEF WellFormed
<1>5. catalog' \in [Sources -> Rows \cup {None}]
  BY DEF ManageDocset, Inv, TypeOK, Rows
<1>6. \A t \in Sources : r.next[t] = None  BY <1>2 DEF NoRun
<1>7. Outdated(s)  BY DEF ManageDocset
<1>8. ASSUME NEW t \in Sources \ disturbed', NEW a \in Adapters,
             table[t] = None, InUse(a), owner[a] = t
      PROVE  tree'[a] = "none"
  BY <1>7, <1>8, OutdatedTrees DEF ManageDocset, Inv, Unrouted
<1>9. ASSUME NEW a \in Adapters, InUse(a), owner[a] \notin disturbed', tree'[a] = "stale"
      PROVE  \/ Awaits(r, owner[a])
             \/ \E j \in Procs \ {k} : Awaits(run[j], owner[a])
  <2>1. CASE owner[a] = s  BY <1>2, <2>1 DEF Awaits
  <2>2. CASE owner[a] # s
    <3>1. tree[a] = "stale"  BY <1>7, <1>9, <2>2, OutdatedTrees
    <3>2. PICK j \in Procs : Awaits(run[j], owner[a])
      BY <1>9, <3>1 DEF Inv, CaughtUp, ManageDocset
    <3>3. owner[a] \in Sources  BY <1>9, UsedIsOwned
    <3>4. j # k  BY <3>2, <3>3, IdleAwaits DEF ManageDocset
    <3>. QED  BY <3>2, <3>4
  <2>. QED  BY <2>1, <2>2
<1>10. /\ table' = table /\ owner' = owner /\ opened' = opened /\ disturbed' = disturbed
       /\ opened \subseteq Sources /\ disturbed \subseteq Sources
       /\ tree' \in [Adapters -> {"none", "fresh", "foreign", "stale"}]
  BY <1>7, OutdatedTrees DEF ManageDocset, Inv, TypeOK
<1>. HIDE DEF r
<1>. QED  BY <1>1, <1>2, <1>3, <1>4, <1>5, <1>6, <1>8, <1>9, <1>10, RunStep

\* Clearing the trees of the adapters in the table clears the tree of a source
\* that has an entry, and one that has none has no tree.
LEMMA PurgedTrees ==
    ASSUME Inv, Purged
    PROVE  /\ tree' \in [Adapters -> {"none", "fresh", "foreign", "stale"}]
           /\ \A a \in Adapters : tree'[a] # "none" => tree'[a] = tree[a]
           /\ \A a \in Adapters : InUse(a) /\ owner[a] \notin disturbed => tree'[a] = "none"
<1>1. tree' = [a \in Adapters |->
        IF \E s \in Sources : table[s] # None /\ table[s].adapter = a THEN "none" ELSE tree[a]]
  BY DEF Purged
<1>2. tree \in [Adapters -> {"none", "fresh", "foreign", "stale"}]  BY DEF Inv, TypeOK
<1>3. ASSUME NEW a \in Adapters, InUse(a), owner[a] \notin disturbed PROVE tree'[a] = "none"
  <2>. DEFINE s == owner[a]
  <2>1. s \in Sources  BY <1>3, UsedIsOwned
  <2>2. CASE table[s] = None
    <3>1. tree[a] = "none"  BY <1>3, <2>1, <2>2 DEF Inv, Unrouted
    <3>. QED  BY <1>1, <3>1
  <2>3. CASE table[s] # None
    <3>1. table[s].adapter \in Adapters  BY <2>1, <2>3 DEF Inv, TypeOK, Entries
    <3>2. InUse(table[s].adapter) /\ owner[table[s].adapter] = s
      BY <2>1, <2>3 DEF InUse, Inv, Owned
    <3>3. table[s].adapter = a  BY <1>3, <3>1, <3>2 DEF Inv, Single
    <3>. QED  BY <1>1, <2>1, <2>3, <3>3
  <2>. QED  BY <2>2, <2>3
<1>. QED  BY <1>1, <1>2, <1>3

\* Clearing the trees that the table leads to answers every waiting write (Invalidate).
LEMMA PurgeStep == ASSUME Inv, NEW k \in Procs, Purge(k) PROVE Inv'
<1>1. Becomes(k, NoRun) /\ Purged  BY DEF Purge, Answer
<1>2. /\ catalog' = catalog /\ table' = table /\ owner' = owner /\ opened' = opened
      /\ disturbed' = disturbed
      /\ catalog \in [Sources -> Rows \cup {None}] /\ opened \subseteq Sources
      /\ disturbed \subseteq Sources
  BY DEF Purge, Inv, TypeOK
<1>3. NoRun.adapter = None /\ \A s \in Sources : NoRun.next[s] = None  BY DEF NoRun
<1>4. \A s \in Sources \ disturbed', a \in Adapters :
        table[s] = None /\ InUse(a) /\ owner[a] = s => tree'[a] = "none"
  BY <1>1, <1>2, PurgedTrees
<1>5. \A a \in Adapters : InUse(a) /\ owner[a] \notin disturbed' => tree'[a] = "none"
  BY <1>1, <1>2, PurgedTrees
<1>6. tree' \in [Adapters -> {"none", "fresh", "foreign", "stale"}]  BY <1>1, PurgedTrees
<1>. QED  BY <1>1, <1>2, <1>3, <1>4, <1>5, <1>6, NoRunType, RunStep

\* Steps that concern no request and make no tree worse than "foreign".
LEMMA TreeStep ==
    ASSUME Inv, run' = run, table' = table, owner' = owner, disturbed' = disturbed,
           catalog' \in [Sources -> Rows \cup {None}], opened' \subseteq Sources,
           tree' \in [Adapters -> {"none", "fresh", "foreign", "stale"}],
           \A a \in Adapters : tree[a] = "none" => tree'[a] = "none",
           \A a \in Adapters : tree'[a] = "stale" => tree[a] = "stale"
    PROVE  Inv'
<1>1. TypeOK'  BY DEF Inv, TypeOK
<1>2. \A a \in Adapters : InUse(a)' <=> InUse(a)  BY DEF InUse
<1>3. (\A k \in Procs : WellFormed(run[k]))'  BY DEF Inv
<1>4. Owned'  BY DEF Inv, Owned
<1>5. Single'  BY <1>2 DEF Inv, Single
<1>6. Unrouted'  BY <1>2 DEF Inv, Unrouted
<1>7. CaughtUp'  BY <1>2 DEF Inv, CaughtUp
<1>. QED  BY <1>1, <1>3, <1>4, <1>5, <1>6, <1>7 DEF Inv

\* DELETE /v1/cache clears the same trees on behalf of nobody.
LEMMA DropCachesStep == ASSUME Inv, DropCaches PROVE Inv'
<1>1. Purged  BY DEF DropCaches
<1>2. catalog \in [Sources -> Rows \cup {None}] /\ opened \subseteq Sources  BY DEF Inv, TypeOK
<1>3. \A a \in Adapters : tree[a] = "none" => tree'[a] = "none"  BY <1>1, PurgedTrees
<1>4. \A a \in Adapters : tree'[a] = "stale" => tree[a] = "stale"  BY <1>1, PurgedTrees
<1>. QED  BY <1>1, <1>2, <1>3, <1>4, PurgedTrees, TreeStep DEF DropCaches

\* What a change that no request of this server made does to the trees.
LEMMA ElsewhereTrees ==
    ASSUME Inv, NEW s \in Sources, ChangedElsewhere(s)
    PROVE  /\ tree' \in [Adapters -> {"none", "fresh", "foreign", "stale"}]
           /\ \A a \in Adapters : tree[a] = "none" => tree'[a] = "none"
           /\ \A a \in Adapters : tree'[a] = "stale" => tree[a] = "stale"
BY DEF ChangedElsewhere, Worse, Inv, TypeOK

\* A write of another server makes trees "foreign" at worst.
LEMMA ElsewhereWriteStep == ASSUME Inv, NEW s \in Sources, ElsewhereWrite(s) PROVE Inv'
<1>1. catalog \in [Sources -> Rows \cup {None}] /\ opened \subseteq Sources  BY DEF Inv, TypeOK
<1>. QED  BY <1>1, ElsewhereTrees, TreeStep DEF ElsewhereWrite

\* So does a change of the catalog by another server.
LEMMA ElsewhereCatalogStep == ASSUME Inv, NEW s \in Sources, ElsewhereCatalog(s) PROVE Inv'
<1>1. PICK row \in Rows \cup {None} :
        /\ catalog' = [catalog EXCEPT ![s] = row]
        /\ opened' = opened \cup (IF row = TRUE THEN {s} ELSE {})
  BY DEF ElsewhereCatalog
<1>2. catalog' \in [Sources -> Rows \cup {None}] /\ opened' \subseteq Sources
  BY <1>1 DEF Inv, TypeOK
<1>. QED  BY <1>2, ElsewhereTrees, TreeStep DEF ElsewhereCatalog

\* A request arrives.
LEMMA ArriveStep ==
    ASSUME Inv, NEW k \in Procs, NEW op \in Ops, NEW s \in Sources, Arrive(k, op, s) PROVE Inv'
<1>. DEFINE r == [NoRun EXCEPT !.op = op, !.src = s,
                    !.pc = IF op = "cross" /\ Kind[s] = "repo" THEN "gate" ELSE "lookup"]
<1>1. Becomes(k, r)  BY DEF Arrive
<1>2. /\ r.pc \in {"gate", "lookup"} /\ r.after = None /\ r.adapter = None /\ r.src = s
      /\ r.next = NoRun.next
  BY DEF NoRun
<1>3. r \in Runs  BY NoRunType DEF Runs
<1>4. WellFormed(r)  BY <1>2 DEF WellFormed, Kinds
<1>5. \A t \in Sources : ~Awaits(run[k], t)  BY IdleAwaits DEF Arrive
<1>6. /\ catalog' = catalog /\ table' = table /\ owner' = owner /\ tree' = tree
      /\ opened' = opened /\ disturbed' = disturbed
      /\ catalog \in [Sources -> Rows \cup {None}] /\ opened \subseteq Sources
      /\ disturbed \subseteq Sources
  BY DEF Arrive, Inv, TypeOK
<1>. HIDE DEF r
<1>. QED  BY <1>1, <1>2, <1>3, <1>4, <1>5, <1>6, QuietStep

\* A request that is before its lookup has no adapter and awaits nothing.
LEMMA EarlyRun ==
    ASSUME Inv, NEW k \in Procs, run[k].pc \in {"gate", "gateAgain", "lookup", "lookupAgain"}
    PROVE  /\ run[k] \in Runs /\ run[k].adapter = None /\ run[k].after = None
           /\ run[k].src \in Sources
           /\ \A s \in Sources : ~Awaits(run[k], s)
<1>1. run[k] \in Runs /\ WellFormed(run[k])  BY DEF Inv, TypeOK
<1>2. run[k].adapter = None /\ run[k].after = None /\ run[k].src \in Sources
  BY <1>1 DEF WellFormed, Kinds
<1>3. run[k].after # "purge"  BY <1>2, RegistryAssumption DEF Afters
<1>. QED  BY <1>1, <1>2, <1>3 DEF Awaits

\* The gate of cross-repo writes touches no tree (RepoWritableWithRefresh).
LEMMA GateStep == ASSUME Inv, NEW k \in Procs, Gate(k) PROVE Inv'
<1>1. run[k].pc \in {"gate", "gateAgain"}  BY DEF Gate, At
<1>2. /\ run[k] \in Runs /\ run[k].adapter = None /\ run[k].after = None
      /\ run[k].src \in Sources
      /\ \A s \in Sources : ~Awaits(run[k], s)
  BY <1>1, EarlyRun
<1>3. /\ catalog' = catalog /\ table' = table /\ owner' = owner /\ tree' = tree
      /\ opened' = opened /\ disturbed' = disturbed
      /\ catalog \in [Sources -> Rows \cup {None}] /\ opened \subseteq Sources
      /\ disturbed \subseteq Sources
  BY DEF Gate, Inv, TypeOK
<1>4. CASE Refresh(k, run[k], "gateAgain")  BY <1>2, <1>3, <1>4, RefreshStep
<1>5. CASE Goto(k, "lookup")
  <2>. DEFINE r == [run[k] EXCEPT !.pc = "lookup"]
  <2>1. Becomes(k, r)  BY <1>5 DEF Goto
  <2>2. /\ r.pc = "lookup" /\ r.after = None /\ r.adapter = None /\ r.src \in Sources
        /\ r.next = run[k].next
    BY <1>2 DEF Runs
  <2>3. r \in Runs  BY <1>2 DEF Runs
  <2>4. WellFormed(r)  BY <2>2 DEF WellFormed, Kinds
  <2>. HIDE DEF r
  <2>. QED  BY <1>2, <1>3, <2>1, <2>2, <2>3, <2>4, QuietStep
<1>6. CASE Answer(k)  BY <1>2, <1>3, <1>6, AnswerStep
<1>. QED  BY <1>4, <1>5, <1>6 DEF Gate

\* A request gets the adapter that the table has (AdapterForSource).
LEMMA LookupStep == ASSUME Inv, NEW k \in Procs, Lookup(k) PROVE Inv'
<1>1. run[k].pc \in {"lookup", "lookupAgain"}  BY DEF Lookup, At
<1>2. /\ run[k] \in Runs /\ run[k].adapter = None /\ run[k].after = None
      /\ run[k].src \in Sources
      /\ \A s \in Sources : ~Awaits(run[k], s)
  BY <1>1, EarlyRun
<1>3. /\ catalog' = catalog /\ table' = table /\ owner' = owner /\ tree' = tree
      /\ opened' = opened /\ disturbed' = disturbed
      /\ catalog \in [Sources -> Rows \cup {None}] /\ opened \subseteq Sources
      /\ disturbed \subseteq Sources
  BY DEF Lookup, Inv, TypeOK
<1>. DEFINE entry == table[run[k].src]
            r == [run[k] EXCEPT !.pc = "use", !.adapter = entry.adapter]
<1>4. CASE Refresh(k, run[k], "lookupAgain")  BY <1>2, <1>3, <1>4, RefreshStep
<1>5. CASE entry # None /\ Becomes(k, r)
  <2>1. entry.adapter \in Adapters  BY <1>2, <1>5 DEF Inv, TypeOK, Entries
  <2>2. InUse(entry.adapter) /\ owner[entry.adapter] = run[k].src
    BY <1>2, <1>5 DEF InUse, Inv, Owned
  <2>3. /\ r.pc = "use" /\ r.after = None /\ r.adapter = entry.adapter
        /\ r.src = run[k].src /\ r.next = run[k].next
    BY <1>2 DEF Runs
  <2>4. r \in Runs  BY <1>2, <2>1 DEF Runs
  <2>5. WellFormed(r)  BY <1>2, <2>1, <2>3, RegistryAssumption DEF WellFormed, Kinds
  <2>. HIDE DEF r
  <2>. QED  BY <1>2, <1>3, <1>5, <2>2, <2>3, <2>4, <2>5, QuietStep
<1>6. CASE Answer(k)  BY <1>2, <1>3, <1>6, AnswerStep
<1>. QED  BY <1>4, <1>5, <1>6 DEF Lookup

\* A request that uses an adapter awaits nothing.
LEMMA UsingRun ==
    ASSUME Inv, NEW k \in Procs, run[k].pc = "use"
    PROVE  /\ run[k] \in Runs /\ run[k].after = None /\ run[k].src \in Sources
           /\ run[k].adapter \in Adapters /\ run[k].adapter # None
           /\ InUse(run[k].adapter) /\ owner[run[k].adapter] = run[k].src
           /\ \A s \in Sources : ~Awaits(run[k], s)
<1>1. run[k] \in Runs /\ WellFormed(run[k])  BY DEF Inv, TypeOK
<1>2. run[k].adapter # None /\ run[k].after = None /\ run[k].src \in Sources
  BY <1>1 DEF WellFormed, Kinds
<1>3. run[k].after # "purge"  BY <1>2, RegistryAssumption DEF Afters
<1>4. run[k].adapter \in Adapters  BY <1>1, <1>2 DEF Runs
<1>5. InUse(run[k].adapter) /\ owner[run[k].adapter] = run[k].src
  BY <1>2 DEF InUse, Inv, Owned
<1>. QED  BY <1>1, <1>2, <1>3, <1>4, <1>5 DEF Awaits

\* A tree that is built anew is not stale, and its source has an entry.
LEMMA ReadStep == ASSUME Inv, NEW k \in Procs, Read(k) PROVE Inv'
<1>1. run[k].pc = "use" /\ Becomes(k, NoRun)  BY DEF Read, At, Answer
<1>2. tree' = [tree EXCEPT ![run[k].adapter] = IF @ = "none" THEN "fresh" ELSE @]  BY DEF Read
<1>3. /\ catalog' = catalog /\ table' = table /\ owner' = owner /\ opened' = opened
      /\ disturbed' = disturbed
      /\ catalog \in [Sources -> Rows \cup {None}] /\ opened \subseteq Sources
      /\ disturbed \subseteq Sources
      /\ tree \in [Adapters -> {"none", "fresh", "foreign", "stale"}]
  BY DEF Read, Inv, TypeOK
<1>4. NoRun.adapter = None /\ \A s \in Sources : NoRun.next[s] = None  BY DEF NoRun
<1>5. tree' \in [Adapters -> {"none", "fresh", "foreign", "stale"}]  BY <1>2, <1>3
<1>6. ASSUME NEW s \in Sources \ disturbed', NEW a \in Adapters,
             table[s] = None, InUse(a), owner[a] = s
      PROVE  tree'[a] = "none"
  <2>1. tree[a] = "none"  BY <1>3, <1>6 DEF Inv, Unrouted
  <2>2. run[k].src # s  BY <1>1, <1>3, <1>6, UsingRun DEF Inv, Unrouted
  <2>3. a # run[k].adapter  BY <1>1, <1>6, <2>2, UsingRun
  <2>. QED  BY <1>2, <1>3, <2>1, <2>3
<1>7. ASSUME NEW a \in Adapters, InUse(a), owner[a] \notin disturbed', tree'[a] = "stale"
      PROVE  \E j \in Procs \ {k} : Awaits(run[j], owner[a])
  <2>1. tree[a] = "stale"  BY <1>2, <1>3, <1>7
  <2>2. PICK j \in Procs : Awaits(run[j], owner[a])  BY <1>3, <1>7, <2>1 DEF Inv, CaughtUp
  <2>3. owner[a] \in Sources  BY <1>7, UsedIsOwned
  <2>4. j # k  BY <1>1, <2>2, <2>3, UsingRun
  <2>. QED  BY <2>2, <2>4
<1>. QED  BY <1>1, <1>3, <1>4, <1>5, <1>6, <1>7, NoRunType, RunStep

\* A request that has committed a write awaits the invalidation.
LEMMA WriteStep == ASSUME Inv, NEW k \in Procs, Write(k) PROVE Inv'
<1>. DEFINE r == [run[k] EXCEPT !.pc = "invalidate"]
<1>1. run[k].pc = "use" /\ Becomes(k, r)  BY DEF Write, At, Goto
<1>2. /\ run[k] \in Runs /\ run[k].after = None /\ run[k].src \in Sources
      /\ run[k].adapter \in Adapters /\ run[k].adapter # None
      /\ InUse(run[k].adapter) /\ owner[run[k].adapter] = run[k].src
      /\ \A s \in Sources : ~Awaits(run[k], s)
  BY <1>1, UsingRun
<1>3. /\ r.pc = "invalidate" /\ r.after = None /\ r.adapter = run[k].adapter
      /\ r.src = run[k].src /\ r.next = run[k].next
  BY <1>2 DEF Runs
<1>4. r \in Runs  BY <1>2 DEF Runs
<1>5. WellFormed(r)  BY <1>2, <1>3 DEF WellFormed, Kinds
<1>6. Outdated(run[k].src)  BY DEF Write
<1>7. /\ catalog' = catalog /\ table' = table /\ owner' = owner /\ opened' = opened
      /\ disturbed' = disturbed
      /\ catalog \in [Sources -> Rows \cup {None}] /\ opened \subseteq Sources
      /\ disturbed \subseteq Sources
      /\ tree' \in [Adapters -> {"none", "fresh", "foreign", "stale"}]
  BY <1>2, <1>6, OutdatedTrees DEF Write, Inv, TypeOK
<1>8. r.src \notin disturbed' => table[r.src] # None
  BY <1>2, <1>3, <1>7 DEF Inv, Unrouted
<1>9. ASSUME NEW s \in Sources, r.next[s] # None
      PROVE  owner[r.next[s].adapter] = s /\ InUse(r.next[s].adapter)
  BY <1>3, <1>9 DEF Inv, Owned, InUse
<1>10. ASSUME NEW s \in Sources \ disturbed', NEW a \in Adapters,
              table[s] = None, InUse(a), owner[a] = s
       PROVE  tree'[a] = "none"
  <2>1. tree[a] = "none"  BY <1>7, <1>10 DEF Inv, Unrouted
  <2>. QED  BY <1>2, <1>6, <2>1, OutdatedTrees
<1>11. ASSUME NEW a \in Adapters, InUse(a), owner[a] \notin disturbed', tree'[a] = "stale"
       PROVE  \/ Awaits(r, owner[a])
              \/ \E j \in Procs \ {k} : Awaits(run[j], owner[a])
  <2>1. CASE owner[a] = run[k].src  BY <1>3, <2>1 DEF Awaits
  <2>2. CASE owner[a] # run[k].src
    <3>1. tree[a] = "stale"  BY <1>2, <1>6, <1>11, <2>2, OutdatedTrees
    <3>2. PICK j \in Procs : Awaits(run[j], owner[a])  BY <1>7, <1>11, <3>1 DEF Inv, CaughtUp
    <3>3. owner[a] \in Sources  BY <1>11, UsedIsOwned
    <3>4. j # k  BY <1>2, <3>2, <3>3
    <3>. QED  BY <3>2, <3>4
  <2>. QED  BY <2>1, <2>2
<1>. HIDE DEF r
<1>12. r.adapter # None => /\ owner[r.adapter] = r.src /\ InUse(r.adapter)
                           /\ r.src \notin disturbed' => table[r.src] # None
  BY <1>2, <1>3, <1>8
<1>. QED  BY <1>1, <1>4, <1>5, <1>7, <1>9, <1>10, <1>11, <1>12, RunStep

\* A refused write has changed nothing.
LEMMA RefuseStep == ASSUME Inv, NEW k \in Procs, Refuse(k) PROVE Inv'
<1>1. run[k].pc = "use"  BY DEF Refuse, At
<1>2. \A s \in Sources : ~Awaits(run[k], s)  BY <1>1, UsingRun
<1>3. /\ catalog' = catalog /\ table' = table /\ owner' = owner /\ tree' = tree
      /\ opened' = opened /\ disturbed' = disturbed
      /\ catalog \in [Sources -> Rows \cup {None}] /\ opened \subseteq Sources
      /\ disturbed \subseteq Sources
  BY DEF Refuse, Inv, TypeOK
<1>. QED  BY <1>2, <1>3, AnswerStep DEF Refuse

\* The adapter that the request holds is the only one of an undisturbed source.
LEMMA InvalidateStep == ASSUME Inv, NEW k \in Procs, Invalidate(k) PROVE Inv'
<1>. DEFINE b == run[k].adapter
<1>1. run[k].pc = "invalidate" /\ Becomes(k, NoRun)  BY DEF Invalidate, At, Answer
<1>2. tree' = [tree EXCEPT ![b] = "none"]  BY DEF Invalidate
<1>3. /\ catalog' = catalog /\ table' = table /\ owner' = owner /\ opened' = opened
      /\ disturbed' = disturbed
      /\ catalog \in [Sources -> Rows \cup {None}] /\ opened \subseteq Sources
      /\ disturbed \subseteq Sources
      /\ tree \in [Adapters -> {"none", "fresh", "foreign", "stale"}]
  BY DEF Invalidate, Inv, TypeOK
<1>4. run[k] \in Runs /\ WellFormed(run[k])  BY DEF Inv, TypeOK
<1>5. b # None /\ run[k].after = None  BY <1>1, <1>4 DEF WellFormed, Kinds
<1>6. b \in Adapters /\ InUse(b) /\ owner[b] = run[k].src
  BY <1>4, <1>5 DEF Runs, InUse, Inv, Owned
<1>7. NoRun.adapter = None /\ \A s \in Sources : NoRun.next[s] = None  BY DEF NoRun
<1>8. tree' \in [Adapters -> {"none", "fresh", "foreign", "stale"}]  BY <1>2, <1>3
<1>9. \A s \in Sources \ disturbed', a \in Adapters :
        table[s] = None /\ InUse(a) /\ owner[a] = s => tree'[a] = "none"
  BY <1>2, <1>3 DEF Inv, Unrouted
<1>10. ASSUME NEW a \in Adapters, InUse(a), owner[a] \notin disturbed', tree'[a] = "stale"
       PROVE  \E j \in Procs \ {k} : Awaits(run[j], owner[a])
  <2>1. tree[a] = "stale" /\ a # b  BY <1>2, <1>3, <1>6, <1>10
  <2>2. PICK j \in Procs : Awaits(run[j], owner[a])  BY <1>3, <1>10, <2>1 DEF Inv, CaughtUp
  <2>3. owner[a] # owner[b]  BY <1>3, <1>6, <1>10, <2>1 DEF Inv, Single
  <2>4. j # k  BY <1>6, <2>2, <2>3 DEF Awaits
  <2>. QED  BY <2>2, <2>4
<1>. HIDE DEF b
<1>. QED  BY <1>1, <1>3, <1>7, <1>8, <1>9, <1>10, NoRunType, RunStep

-----------------------------------------------------------------------------
\* Building the new table: a source gets a new adapter only if the table has none,
\* and one that has an adapter elsewhere is disturbed by it.
LEMMA BuildStep == ASSUME Inv, NEW k \in Procs, Build(k) PROVE Inv'
<1>1. PICK new \in [Missing(k) -> {a \in Adapters : ~InUse(a)}] :
        /\ \A s, t \in Missing(k) : new[s] = new[t] => s = t
        /\ Becomes(k, [run[k] EXCEPT
                !.next = [s \in Sources |->
                    IF run[k].listed[s] = None THEN None ELSE NextEntry(k, new, s)],
                !.listed = NoRun.listed, !.pc = "swap"])
        /\ owner' = [a \in Adapters |->
                IF a \in {new[s] : s \in Missing(k)}
                THEN CHOOSE s \in Missing(k) : new[s] = a ELSE owner[a]]
        /\ tree' = [a \in Adapters |->
                IF a \in {new[s] : s \in Missing(k)} THEN "none" ELSE tree[a]]
  BY DEF Build
<1>. DEFINE made == {new[s] : s \in Missing(k)}
            next == [s \in Sources |->
                        IF run[k].listed[s] = None THEN None ELSE NextEntry(k, new, s)]
            r == [run[k] EXCEPT !.next = next, !.listed = NoRun.listed, !.pc = "swap"]
<1>2. /\ run \in [Procs -> Runs] /\ run[k] \in Runs /\ WellFormed(run[k])
      /\ table \in [Sources -> Entries \cup {None}]
      /\ tree \in [Adapters -> {"none", "fresh", "foreign", "stale"}]
      /\ owner \in [Adapters -> Sources \cup {None}]
  BY DEF Inv, TypeOK
<1>3. Missing(k) \subseteq Sources /\ made \subseteq Adapters /\ \A a \in made : ~InUse(a)
  BY <1>1 DEF Missing
<1>4. \A s \in Missing(k) : owner'[new[s]] = s /\ tree'[new[s]] = "none"
  BY <1>1, <1>3
<1>5. \A a \in Adapters : a \notin made => owner'[a] = owner[a] /\ tree'[a] = tree[a]
  BY <1>1
<1>6. \A a \in Adapters : InUse(a) => a \notin made  BY <1>3
<1>7. \A s \in Sources : next[s] # None =>
        /\ next[s].writable = run[k].listed[s] /\ next[s].writable \in BOOLEAN
        /\ \/ s \in Missing(k) /\ next[s].adapter = new[s]
           \/ table[s] # None /\ next[s].adapter = table[s].adapter
  <2>. SUFFICES ASSUME NEW s \in Sources, next[s] # None
                PROVE  /\ next[s].writable = run[k].listed[s] /\ next[s].writable \in BOOLEAN
                       /\ \/ s \in Missing(k) /\ next[s].adapter = new[s]
                          \/ table[s] # None /\ next[s].adapter = table[s].adapter
    OBVIOUS
  <2>1. run[k].listed[s] # None /\ next[s] = NextEntry(k, new, s)  OBVIOUS
  <2>2. run[k].listed[s] \in BOOLEAN  BY <1>2, <2>1 DEF Runs, Rows
  <2>3. next[s].writable = run[k].listed[s]  BY <2>1 DEF NextEntry
  <2>4. s \in Missing(k) => next[s].adapter = new[s]  BY <2>1 DEF NextEntry
  <2>5. s \notin Missing(k) => table[s] # None /\ next[s].adapter = table[s].adapter
    BY <2>1 DEF NextEntry, Missing
  <2>. QED  BY <2>2, <2>3, <2>4, <2>5
<1>8. next \in [Sources -> Entries \cup {None}]
  <2>. SUFFICES ASSUME NEW s \in Sources, run[k].listed[s] # None
                PROVE  NextEntry(k, new, s) \in Entries
    OBVIOUS
  <2>1. run[k].listed[s] \in BOOLEAN  BY <1>2 DEF Runs, Rows
  <2>2. s \in Missing(k) => new[s] \in Adapters  BY <1>1
  <2>3. s \notin Missing(k) => table[s].adapter \in Adapters  BY <1>2 DEF Missing, Entries
  <2>. QED  BY <2>1, <2>2, <2>3 DEF NextEntry, Entries
<1>9. r \in Runs /\ r.next = next /\ r.pc = "swap" /\ r.after = run[k].after
      /\ r.adapter = run[k].adapter /\ r.src = run[k].src
  <2>1. NoRun.listed \in [Sources -> Rows \cup {None}]  BY NoRunType DEF Runs
  <2>. HIDE DEF next
  <2>. QED  BY <1>2, <1>8, <2>1 DEF Runs
<1>10. run[k].pc = "build"  BY DEF Build, At
<1>11. WellFormed(r)  BY <1>2, <1>9, <1>10 DEF WellFormed, Kinds
<1>12. /\ run' = [run EXCEPT ![k] = r]
       /\ \A j \in Procs : run'[j] = IF j = k THEN r ELSE run[j]
  BY <1>1, <1>2 DEF Becomes
<1>13. /\ catalog' = catalog /\ table' = table /\ opened' = opened
       /\ disturbed' = disturbed \cup {s \in Missing(k) :
             table[s] = None /\ \E a \in Adapters : InUse(a) /\ owner[a] = s}
  BY DEF Build
<1>. HIDE DEF next, r
<1>14. ASSUME NEW a \in Adapters, InUse(a)' PROVE a \in made \/ InUse(a)
  <2>1. CASE \E s \in Sources : table'[s] # None /\ table'[s].adapter = a
    BY <1>13, <2>1 DEF InUse
  <2>2. CASE \E j \in Procs : run'[j].adapter = a
    BY <1>9, <1>12, <2>2 DEF InUse
  <2>3. CASE \E j \in Procs, s \in Sources : run'[j].next[s] # None /\ run'[j].next[s].adapter = a
    <3>1. PICK j \in Procs, s \in Sources : run'[j].next[s] # None /\ run'[j].next[s].adapter = a
      BY <2>3
    <3>2. CASE j = k
      <4>1. next[s] # None /\ next[s].adapter = a  BY <1>9, <1>12, <3>1, <3>2
      <4>. QED  BY <1>7, <4>1 DEF InUse
    <3>3. CASE j # k  BY <1>12, <3>1, <3>3 DEF InUse
    <3>. QED  BY <3>2, <3>3
  <2>. QED  BY <1>14, <2>1, <2>2, <2>3 DEF InUse
<1>15. TypeOK'
  <2>1. run' \in [Procs -> Runs]  BY <1>2, <1>9, <1>12
  <2>2. owner' \in [Adapters -> Sources \cup {None}]
    <3>1. \A a \in Adapters : a \in made => owner'[a] \in Sources  BY <1>3, <1>4
    <3>2. \A a \in Adapters : owner'[a] \in Sources \cup {None}  BY <1>2, <1>5, <3>1
    <3>3. owner' = [a \in Adapters |-> owner'[a]]  BY <1>1
    <3>. QED  BY <3>2, <3>3
  <2>3. tree' \in [Adapters -> {"none", "fresh", "foreign", "stale"}]  BY <1>1, <1>2
  <2>4. disturbed' \subseteq Sources  BY <1>3, <1>13 DEF Inv, TypeOK
  <2>. QED  BY <1>13, <2>1, <2>2, <2>3, <2>4 DEF Inv, TypeOK
<1>16. \A j \in Procs : WellFormed(run'[j])  BY <1>11, <1>12 DEF Inv
<1>17. Owned'
  <2>1. ASSUME NEW s \in Sources, table[s] # None PROVE owner'[table[s].adapter] = s
    <3>1. InUse(table[s].adapter) /\ table[s].adapter \in Adapters
          /\ owner[table[s].adapter] = s
      BY <1>2, <2>1 DEF InUse, Entries, Inv, Owned
    <3>. QED  BY <1>5, <1>6, <3>1
  <2>2. ASSUME NEW j \in Procs, run'[j].adapter # None
        PROVE  owner'[run'[j].adapter] = run'[j].src
    <3>1. run'[j].adapter = run[j].adapter /\ run'[j].src = run[j].src  BY <1>9, <1>12
    <3>2. InUse(run[j].adapter) /\ run[j].adapter \in Adapters
          /\ owner[run[j].adapter] = run[j].src
      BY <1>2, <2>2, <3>1 DEF InUse, Runs, Inv, Owned
    <3>. QED  BY <1>5, <1>6, <3>1, <3>2
  <2>3. ASSUME NEW j \in Procs, NEW s \in Sources, run'[j].next[s] # None
        PROVE  owner'[run'[j].next[s].adapter] = s
    <3>1. CASE j = k
      <4>1. next[s] # None /\ run'[j].next[s] = next[s]  BY <1>9, <1>12, <2>3, <3>1
      <4>2. CASE s \in Missing(k) /\ next[s].adapter = new[s]  BY <1>4, <4>1, <4>2
      <4>3. CASE table[s] # None /\ next[s].adapter = table[s].adapter
        BY <2>1, <4>1, <4>3
      <4>. QED  BY <1>7, <4>1, <4>2, <4>3
    <3>2. CASE j # k
      <4>1. run[j].next[s] # None /\ run'[j].next[s] = run[j].next[s]  BY <1>12, <2>3, <3>2
      <4>2. InUse(run[j].next[s].adapter) /\ run[j].next[s].adapter \in Adapters
            /\ owner[run[j].next[s].adapter] = s
        BY <1>2, <4>1 DEF InUse, Runs, Entries, Inv, Owned
      <4>. QED  BY <1>5, <1>6, <4>1, <4>2
    <3>. QED  BY <3>1, <3>2
  <2>. QED  BY <1>13, <2>1, <2>2, <2>3 DEF Owned
<1>18. ASSUME NEW a \in Adapters, NEW b \in Adapters, a \in made, InUse(b)
       PROVE  owner'[a] = owner[b] => owner[b] \in disturbed'
  <2>1. PICK s \in Missing(k) : a = new[s]  BY <1>18
  <2>2. owner'[a] = s /\ table[s] = None  BY <1>4, <2>1 DEF Missing
  <2>. QED  BY <1>13, <1>18, <2>2
<1>19. Single'
  <2>. SUFFICES ASSUME NEW a \in Adapters, NEW b \in Adapters, InUse(a)', InUse(b)',
                       owner'[a] = owner'[b], owner'[a] \notin disturbed'
                PROVE  a = b
    BY DEF Single
  <2>1. CASE a \in made /\ b \in made  BY <1>4, <2>1
  <2>2. CASE a \in made /\ b \notin made  BY <1>5, <1>14, <1>18, <2>2
  <2>3. CASE a \notin made /\ b \in made  BY <1>5, <1>14, <1>18, <2>3
  <2>4. CASE a \notin made /\ b \notin made
    BY <1>5, <1>13, <1>14, <2>4 DEF Inv, Single
  <2>. QED  BY <2>1, <2>2, <2>3, <2>4
<1>20. Unrouted'
  <2>. SUFFICES ASSUME NEW s \in Sources \ disturbed', table[s] = None
                PROVE  /\ \A j \in Procs : run'[j].adapter # None => run'[j].src # s
                       /\ \A a \in Adapters : InUse(a)' /\ owner'[a] = s => tree'[a] = "none"
    BY <1>13 DEF Unrouted
  <2>1. s \notin disturbed  BY <1>13
  <2>2. \A j \in Procs : run'[j].adapter # None => run'[j].src # s
    BY <1>9, <1>12, <2>1 DEF Inv, Unrouted
  <2>3. ASSUME NEW a \in Adapters, InUse(a)', owner'[a] = s PROVE tree'[a] = "none"
    <3>1. CASE a \in made  BY <1>4, <3>1
    <3>2. CASE a \notin made  BY <1>5, <1>14, <2>1, <2>3, <3>2 DEF Inv, Unrouted
    <3>. QED  BY <3>1, <3>2
  <2>. QED  BY <2>2, <2>3
<1>21. CaughtUp'
  <2>. SUFFICES ASSUME NEW a \in Adapters, InUse(a)', owner'[a] \notin disturbed',
                       tree'[a] = "stale"
                PROVE  \E j \in Procs : Awaits(run'[j], owner'[a])
    BY DEF CaughtUp
  <2>1. a \notin made  BY <1>4
  <2>2. PICK j \in Procs : Awaits(run[j], owner[a])
    BY <1>5, <1>13, <1>14, <2>1 DEF Inv, CaughtUp
  <2>3. Awaits(run'[j], owner[a])  BY <1>9, <1>10, <1>12, <2>2 DEF Awaits
  <2>. QED  BY <1>5, <2>1, <2>3
<1>. QED  BY <1>15, <1>16, <1>17, <1>19, <1>20, <1>21 DEF Inv

\* The swap: the adapters of the new table were in use before, and the request
\* that awaits the purge goes on to it.
LEMMA SwapStep == ASSUME Inv, NEW k \in Procs, Swap(k) PROVE Inv'
<1>. DEFINE r == IF run[k].after = "idle" THEN NoRun
                 ELSE [run[k] EXCEPT !.pc = run[k].after, !.after = None, !.next = NoRun.next]
<1>1. Becomes(k, r)  BY DEF Swap, Answer
<1>2. /\ run \in [Procs -> Runs] /\ run[k] \in Runs /\ WellFormed(run[k])
      /\ table \in [Sources -> Entries \cup {None}]
  BY DEF Inv, TypeOK
<1>3. run[k].pc = "swap"  BY DEF Swap, At
<1>4. run[k].adapter = None /\ run[k].after # None  BY <1>2, <1>3 DEF WellFormed, Kinds
<1>5. run[k].after \in Afters  BY <1>2, <1>4 DEF Runs
<1>6. run[k].next \in [Sources -> Entries \cup {None}]  BY <1>2 DEF Runs
<1>7. /\ r.adapter = None /\ r.after = None /\ r.next = NoRun.next
      /\ run[k].after # "idle" => r.pc = run[k].after /\ r.src = run[k].src
  BY <1>2, <1>4 DEF NoRun, Runs
<1>8. r \in Runs
  <2>1. CASE run[k].after = "idle"  BY <2>1, NoRunType
  <2>2. CASE run[k].after # "idle"
    <3>1. run[k].after \in {"purge", "gateAgain", "lookupAgain"}  BY <1>5, <2>2 DEF Afters
    <3>2. NoRun.next \in [Sources -> Entries \cup {None}]  BY NoRunType DEF Runs
    <3>3. r = [run[k] EXCEPT !.pc = run[k].after, !.after = None, !.next = NoRun.next]
      BY <2>2
    <3>. HIDE DEF r
    <3>. QED  BY <1>2, <3>1, <3>2, <3>3 DEF Runs
  <2>. QED  BY <2>1, <2>2
<1>9. WellFormed(r)
  <2>1. CASE run[k].after = "idle"  BY <2>1, NoRunType
  <2>2. CASE run[k].after # "idle"
    <3>1. r.pc \in {"purge", "gateAgain", "lookupAgain"} /\ r.src \in Sources
      BY <1>2, <1>5, <1>7, <2>2 DEF Afters, WellFormed
    <3>2. r.after \notin Afters  BY <1>7, RegistryAssumption
    <3>. QED  BY <1>7, <3>1, <3>2 DEF WellFormed, Kinds
  <2>. QED  BY <2>1, <2>2
<1>10. \A s \in Sources : Awaits(run[k], s) => Awaits(r, s)
  BY <1>3, <1>7 DEF Awaits
<1>11. \A j \in Procs : run'[j] = IF j = k THEN r ELSE run[j]  BY <1>1, <1>2 DEF Becomes
<1>12. /\ catalog' = catalog /\ owner' = owner /\ tree' = tree /\ opened' = opened
       /\ table' = run[k].next
       /\ disturbed' = disturbed \cup {s \in Sources : table[s] # None /\ table'[s] = None}
  BY DEF Swap
<1>13. \A s \in Sources : r.next[s] = None  BY <1>7 DEF NoRun
<1>. HIDE DEF r
<1>14. ASSUME NEW a \in Adapters, InUse(a)' PROVE InUse(a)
  <2>1. CASE \E s \in Sources : table'[s] # None /\ table'[s].adapter = a
    BY <1>12, <2>1 DEF InUse
  <2>2. CASE \E j \in Procs : run'[j].adapter = a
    <3>1. PICK j \in Procs : run'[j].adapter = a  BY <2>2
    <3>2. a # None  BY RegistryAssumption
    <3>. QED  BY <1>7, <1>11, <3>1, <3>2 DEF InUse
  <2>3. CASE \E j \in Procs, s \in Sources : run'[j].next[s] # None /\ run'[j].next[s].adapter = a
    BY <1>11, <1>13, <2>3 DEF InUse
  <2>. QED  BY <1>14, <2>1, <2>2, <2>3 DEF InUse
<1>15. TypeOK'
  <2>1. run' \in [Procs -> Runs]  BY <1>1, <1>2, <1>8 DEF Becomes
  <2>2. disturbed' \subseteq Sources  BY <1>12 DEF Inv, TypeOK
  <2>. QED  BY <1>6, <1>12, <2>1, <2>2 DEF Inv, TypeOK
<1>16. \A j \in Procs : WellFormed(run'[j])  BY <1>9, <1>11 DEF Inv
<1>17. Owned'
  <2>1. \A s \in Sources : table'[s] # None => owner'[table'[s].adapter] = s
    BY <1>12 DEF Inv, Owned
  <2>2. \A j \in Procs : run'[j].adapter # None => owner'[run'[j].adapter] = run'[j].src
    BY <1>7, <1>11, <1>12 DEF Inv, Owned
  <2>3. \A j \in Procs, s \in Sources : run'[j].next[s] # None => owner'[run'[j].next[s].adapter] = s
    BY <1>11, <1>12, <1>13 DEF Inv, Owned
  <2>. QED  BY <2>1, <2>2, <2>3 DEF Owned
<1>18. Single'  BY <1>12, <1>14 DEF Inv, Single
<1>19. Unrouted'
  <2>. SUFFICES ASSUME NEW s \in Sources \ disturbed', table'[s] = None
                PROVE  /\ \A j \in Procs : run'[j].adapter # None => run'[j].src # s
                       /\ \A a \in Adapters : InUse(a)' /\ owner'[a] = s => tree'[a] = "none"
    BY DEF Unrouted
  <2>1. s \notin disturbed /\ table[s] = None  BY <1>12
  <2>2. \A j \in Procs : run'[j].adapter # None => run'[j].src # s
    BY <1>7, <1>11, <2>1 DEF Inv, Unrouted
  <2>3. \A a \in Adapters : InUse(a)' /\ owner'[a] = s => tree'[a] = "none"
    BY <1>12, <1>14, <2>1 DEF Inv, Unrouted
  <2>. QED  BY <2>2, <2>3
<1>20. CaughtUp'
  <2>. SUFFICES ASSUME NEW a \in Adapters, InUse(a)', owner'[a] \notin disturbed',
                       tree'[a] = "stale"
                PROVE  \E j \in Procs : Awaits(run'[j], owner'[a])
    BY DEF CaughtUp
  <2>1. InUse(a)  BY <1>14
  <2>2. PICK j \in Procs : Awaits(run[j], owner[a])
    BY <1>12, <2>1 DEF Inv, CaughtUp
  <2>3. owner[a] \in Sources  BY <2>1, UsedIsOwned
  <2>. QED  BY <1>10, <1>11, <1>12, <2>2, <2>3
<1>. QED  BY <1>15, <1>16, <1>17, <1>18, <1>19, <1>20 DEF Inv

-----------------------------------------------------------------------------
\* A server that has just started has no tree.
LEMMA InitInv == Init => Inv
<1>. SUFFICES ASSUME Init PROVE Inv
  OBVIOUS
<1>1. PICK a \in [Sources -> Adapters] :
        /\ \A s, t \in Sources : a[s] = a[t] => s = t
        /\ table = [s \in Sources |-> EntryOf(a, s)]
        /\ owner = [b \in Adapters |->
                IF \E s \in Sources : a[s] = b THEN CHOOSE s \in Sources : a[s] = b ELSE None]
  BY DEF Init
<1>2. /\ catalog \in [Sources -> Rows \cup {None}]
      /\ tree = [b \in Adapters |-> "none"] /\ run = [k \in Procs |-> NoRun]
      /\ opened = {s \in Sources : catalog[s] = TRUE} /\ disturbed = {}
  BY DEF Init
<1>3. \A s \in Sources : owner[a[s]] = s  BY <1>1
<1>4. \A s \in Sources : table[s] # None => table[s] \in Entries /\ table[s].adapter = a[s]
  BY <1>1, <1>2 DEF EntryOf, Entries, Rows
<1>5. \A k \in Procs : run[k].adapter = None /\ \A s \in Sources : run[k].next[s] = None
  BY <1>2 DEF NoRun
<1>6. TypeOK
  <2>1. table \in [Sources -> Entries \cup {None}]
    <3>1. \A s \in Sources : table[s] \in Entries \cup {None}  BY <1>4
    <3>. QED  BY <1>1, <3>1
  <2>2. owner \in [Adapters -> Sources \cup {None}]  BY <1>1
  <2>3. run \in [Procs -> Runs]  BY <1>2, NoRunType
  <2>. QED  BY <1>2, <2>1, <2>2, <2>3 DEF TypeOK
<1>7. \A k \in Procs : WellFormed(run[k])  BY <1>2, NoRunType
<1>8. Owned  BY <1>3, <1>4, <1>5 DEF Owned
<1>9. ASSUME NEW b \in Adapters, InUse(b) PROVE \E s \in Sources : b = a[s]
  <2>1. b # None  BY RegistryAssumption
  <2>. QED  BY <1>4, <1>5, <1>9, <2>1 DEF InUse
<1>10. Single  BY <1>3, <1>9 DEF Single
<1>11. Unrouted  BY <1>2, <1>5 DEF Unrouted
<1>12. CaughtUp  BY <1>2 DEF CaughtUp
<1>. QED  BY <1>6, <1>7, <1>8, <1>10, <1>11, <1>12 DEF Inv

\* Every step keeps the invariant.
LEMMA NextInv == Inv /\ [Next]_vars => Inv'
<1>. SUFFICES ASSUME Inv, [Next]_vars PROVE Inv'
  OBVIOUS
<1>1. CASE Tick  BY <1>1, TickStep
<1>2. CASE DropCaches  BY <1>2, DropCachesStep
<1>3. CASE Elsewhere  BY <1>3, ElsewhereWriteStep, ElsewhereCatalogStep DEF Elsewhere
<1>4. ASSUME NEW k \in Requests, Begin(k) PROVE Inv'
  <2>1. k \in Procs  BY DEF Procs
  <2>. QED  BY <1>4, <2>1, MountSourcesStep, RegisterRepoStep, ManageDocsetStep, ArriveStep
           DEF Begin
<1>5. ASSUME NEW k \in Procs, Proceed(k) PROVE Inv'
  BY <1>5, ListStep, BuildStep, SwapStep, PurgeStep, GateStep, LookupStep, ReadStep, WriteStep,
     RefuseStep, InvalidateStep DEF Proceed
<1>6. ASSUME NEW k \in Procs, ListFails(k) PROVE Inv'  BY <1>6, ListFailsStep
<1>7. CASE UNCHANGED vars
  BY <1>7 DEF vars, Inv, TypeOK, Owned, Single, Unrouted, CaughtUp, InUse
<1>. QED  BY <1>1, <1>2, <1>3, <1>4, <1>5, <1>6, <1>7 DEF Next

\* The inductive invariant holds in every reachable state.
THEOREM RegistryInvariant == Spec => []Inv
BY InitInv, NextInv, PTL DEF Spec

\* The variables of the registry keep their types.
THEOREM TypesHold == Spec => []TypeOK
<1>1. Inv => TypeOK  BY DEF Inv
<1>. QED  BY <1>1, RegistryInvariant, PTL

\* The tree that requests for an undisturbed source are routed to misses a change
\* of the source only while the request that made it has still to invalidate it.
THEOREM TreesCatchUp == Spec => []RoutedTreesCatchUp
<1>1. Inv => RoutedTreesCatchUp
  <2>. SUFFICES ASSUME Inv, NEW s \in Sources \ disturbed, table[s] # None,
                       tree[table[s].adapter] = "stale"
                PROVE  \E k \in Procs : Pending(k, s)
    BY DEF RoutedTreesCatchUp
  <2>. DEFINE a == table[s].adapter
  <2>1. a \in Adapters /\ InUse(a) /\ owner[a] = s
    BY DEF Inv, TypeOK, Entries, InUse, Owned
  <2>2. PICK k \in Procs : Awaits(run[k], s)  BY <2>1 DEF Inv, CaughtUp
  <2>3. Pending(k, s)  BY <2>2 DEF Awaits, Pending, At
  <2>. QED  BY <2>3
<1>. QED  BY <1>1, RegistryInvariant, PTL

\* A request that holds an adapter of an undisturbed source holds the one that the
\* table routes other requests to.
THEOREM AdaptersAgree == Spec => []OneAdapter
<1>1. Inv => OneAdapter
  <2>. SUFFICES ASSUME Inv, NEW s \in Sources \ disturbed, NEW k \in Procs,
                       run[k].adapter # None, run[k].src = s
                PROVE  table[s] # None /\ table[s].adapter = run[k].adapter
    BY DEF OneAdapter
  <2>1. table[s] # None  BY DEF Inv, Unrouted
  <2>2. table[s].adapter \in Adapters /\ InUse(table[s].adapter) /\ owner[table[s].adapter] = s
    BY <2>1 DEF Inv, TypeOK, Entries, InUse, Owned
  <2>3. run[k].adapter \in Adapters /\ InUse(run[k].adapter) /\ owner[run[k].adapter] = s
    BY DEF Inv, TypeOK, Runs, InUse, Owned
  <2>. QED  BY <2>1, <2>2, <2>3 DEF Inv, Single
<1>. QED  BY <1>1, RegistryInvariant, PTL

-----------------------------------------------------------------------------
\* Every flag that says that a source is writable, in the database, in the table
\* or in a table under construction, is of a source that has been writable; so is
\* the source of a cross-repo write that has passed the gate.
Past(r) == r.pc \in {"lookup", "lookupAgain", "use", "invalidate"} \/ r.after = "lookupAgain"
Vouched(r, o) ==
    /\ \A s \in Sources : r.listed[s] = TRUE => s \in o
    /\ \A s \in Sources : r.next[s] # None /\ r.next[s].writable => s \in o
    /\ r.op = "cross" /\ Kind[r.src] = "repo" /\ Past(r) => r.src \in o
FlagsVouched ==
    /\ \A s \in Sources : catalog[s] = TRUE => s \in opened
    /\ \A s \in Sources : table[s] # None /\ table[s].writable => s \in opened
    /\ \A k \in Procs : Vouched(run[k], opened)

\* The steps of a request that leave the table alone.
LEMMA VouchedStep ==
    ASSUME Inv, FlagsVouched, NEW k \in Procs, NEW r, Becomes(k, r), table' = table,
           opened \subseteq opened', Vouched(r, opened'),
           \A s \in Sources : catalog'[s] = TRUE => s \in opened'
    PROVE  FlagsVouched'
<1>1. \A j \in Procs : run'[j] = IF j = k THEN r ELSE run[j]  BY DEF Inv, TypeOK, Becomes
<1>2. \A j \in Procs : Vouched(run'[j], opened')  BY <1>1 DEF FlagsVouched, Vouched
<1>. QED  BY <1>2 DEF FlagsVouched

\* A request that is over vouches for nothing.
LEMMA NoRunVouched == ASSUME NEW o PROVE Vouched(NoRun, o)
<1>1. \A s \in Sources : NoRun.listed[s] = None /\ NoRun.next[s] = None  BY DEF NoRun
<1>2. None # TRUE  BY RegistryAssumption DEF Rows
<1>3. NoRun.pc = "idle" /\ NoRun.after = None  BY DEF NoRun
<1>4. None # "lookupAgain"  BY RegistryAssumption DEF Afters
<1>. QED  BY <1>1, <1>2, <1>3, <1>4 DEF Vouched, Past

\* Answers and new refreshes.
LEMMA AnswerVouched ==
    ASSUME Inv, FlagsVouched, NEW k \in Procs, Answer(k), table' = table,
           opened' = opened, catalog' = catalog
    PROVE  FlagsVouched'
<1>1. Becomes(k, NoRun)  BY DEF Answer
<1>2. \A s \in Sources : catalog'[s] = TRUE => s \in opened'  BY DEF FlagsVouched
<1>. QED  BY <1>1, <1>2, NoRunVouched, VouchedStep

\* A refresh that begins forgets that the gate was passed, unless it is the lookup
\* of a request that did pass it.
LEMMA RefreshVouched ==
    ASSUME Inv, FlagsVouched, NEW k \in Procs, NEW r \in Runs, NEW after \in Afters,
           Refresh(k, r, after), r.adapter = None, table' = table, opened \subseteq opened',
           Vouched(r, opened'),
           r.op = "cross" /\ Kind[r.src] = "repo" /\ after = "lookupAgain" => r.src \in opened',
           \A s \in Sources : catalog'[s] = TRUE => s \in opened'
    PROVE  FlagsVouched'
<1>. DEFINE q == [r EXCEPT !.pc = FirstListing, !.after = after]
<1>1. Becomes(k, q)  BY DEF Refresh
<1>2. /\ q.pc \in Kinds \cup {"build"} /\ q.after = after /\ q.op = r.op /\ q.src = r.src
      /\ q.listed = r.listed /\ q.next = r.next
  BY FirstListingType DEF Runs
<1>. HIDE DEF q
<1>3. Past(q) => after = "lookupAgain"  BY <1>2 DEF Past, Kinds
<1>4. Vouched(q, opened')  BY <1>2, <1>3 DEF Vouched
<1>. QED  BY <1>1, <1>4, VouchedStep

\* What a listing says of a source is what the database says.
LEMMA ListVouched == ASSUME Inv, FlagsVouched, NEW k \in Procs, List(k) PROVE FlagsVouched'
<1>1. PICK kind \in Kinds :
        /\ At(k, kind)
        /\ Becomes(k, [run[k] EXCEPT
                !.listed = [s \in Sources |-> IF Kind[s] = kind THEN catalog[s] ELSE @[s]],
                !.pc = AfterListing(kind)])
  BY DEF List
<1>. DEFINE listed == [s \in Sources |-> IF Kind[s] = kind THEN catalog[s] ELSE run[k].listed[s]]
            r == [run[k] EXCEPT !.listed = listed, !.pc = AfterListing(kind)]
<1>2. run[k] \in Runs /\ Vouched(run[k], opened)  BY DEF Inv, TypeOK, FlagsVouched
<1>3. \A s \in Sources : listed[s] = TRUE => s \in opened
  BY <1>2 DEF Vouched, FlagsVouched
<1>. HIDE DEF listed
<1>4. /\ r.pc \in Kinds \cup {"build"} /\ r.after = run[k].after /\ r.op = run[k].op
      /\ r.src = run[k].src /\ r.listed = listed /\ r.next = run[k].next
  BY <1>2, AfterListingType DEF Runs
<1>5. Becomes(k, r)  BY <1>1 DEF listed
<1>. HIDE DEF r
<1>6. Past(r) => Past(run[k])  BY <1>4 DEF Past, Kinds
<1>7. Vouched(r, opened)  BY <1>2, <1>3, <1>4, <1>6 DEF Vouched
<1>8. table' = table /\ opened' = opened /\ catalog' = catalog  BY DEF List
<1>. QED  BY <1>5, <1>7, <1>8, VouchedStep DEF FlagsVouched

\* The flags of a table under construction are the listed ones.
LEMMA BuildVouched == ASSUME Inv, FlagsVouched, NEW k \in Procs, Build(k) PROVE FlagsVouched'
<1>1. PICK new : Becomes(k, [run[k] EXCEPT
                !.next = [s \in Sources |->
                    IF run[k].listed[s] = None THEN None ELSE NextEntry(k, new, s)],
                !.listed = NoRun.listed, !.pc = "swap"])
  BY DEF Build
<1>. DEFINE next == [s \in Sources |->
                        IF run[k].listed[s] = None THEN None ELSE NextEntry(k, new, s)]
            r == [run[k] EXCEPT !.next = next, !.listed = NoRun.listed, !.pc = "swap"]
<1>2. run[k] \in Runs /\ Vouched(run[k], opened)  BY DEF Inv, TypeOK, FlagsVouched
<1>3. ASSUME NEW s \in Sources, next[s] # None, next[s].writable PROVE s \in opened
  <2>1. next[s] = NextEntry(k, new, s) /\ run[k].listed[s] # None  BY <1>3
  <2>2. next[s].writable = run[k].listed[s]  BY <2>1 DEF NextEntry
  <2>3. run[k].listed[s] = TRUE  BY <1>2, <1>3, <2>1, <2>2 DEF Runs, Rows
  <2>. QED  BY <1>2, <2>3 DEF Vouched
<1>. HIDE DEF next
<1>4. /\ r.pc = "swap" /\ r.after = run[k].after /\ r.op = run[k].op
      /\ r.src = run[k].src /\ r.listed = NoRun.listed /\ r.next = next
  BY <1>2 DEF Runs
<1>5. Becomes(k, r)  BY <1>1 DEF next
<1>. HIDE DEF r
<1>6. Past(r) => Past(run[k])  BY <1>4 DEF Past
<1>7. \A s \in Sources : r.listed[s] = TRUE => s \in opened  BY <1>4, NoRunVouched DEF Vouched
<1>8. Vouched(r, opened)  BY <1>2, <1>3, <1>4, <1>6, <1>7 DEF Vouched
<1>9. table' = table /\ opened' = opened /\ catalog' = catalog  BY DEF Build
<1>. QED  BY <1>5, <1>8, <1>9, VouchedStep DEF FlagsVouched

\* The swap hands the flags of the new table to the table.
LEMMA SwapVouched == ASSUME Inv, FlagsVouched, NEW k \in Procs, Swap(k) PROVE FlagsVouched'
<1>. DEFINE r == [run[k] EXCEPT !.pc = run[k].after, !.after = None, !.next = NoRun.next]
<1>1. /\ table' = run[k].next /\ opened' = opened /\ catalog' = catalog
      /\ IF run[k].after = "idle" THEN Becomes(k, NoRun) ELSE Becomes(k, r)
  BY DEF Swap, Answer
<1>2. run \in [Procs -> Runs] /\ run[k] \in Runs /\ Vouched(run[k], opened)
      /\ WellFormed(run[k]) /\ run[k].pc = "swap"
  BY DEF Inv, TypeOK, FlagsVouched, Swap, At
<1>3. /\ r.pc = run[k].after /\ r.after = None /\ r.op = run[k].op
      /\ r.src = run[k].src /\ r.listed = run[k].listed /\ r.next = NoRun.next
  BY <1>2 DEF Runs
<1>. HIDE DEF r
<1>4. Vouched(r, opened)
  <2>1. run[k].after \in Afters  BY <1>2 DEF WellFormed, Runs
  <2>2. r.after # "lookupAgain"  BY <1>3, RegistryAssumption DEF Afters
  <2>3. Past(r) => Past(run[k])  BY <1>3, <2>1, <2>2 DEF Past, Afters
  <2>4. \A s \in Sources : r.next[s] # None /\ r.next[s].writable => s \in opened
    BY <1>3, NoRunVouched DEF Vouched
  <2>. QED  BY <1>2, <1>3, <2>3, <2>4 DEF Vouched
<1>5. \A j \in Procs : run'[j] = IF j # k THEN run[j]
                                 ELSE IF run[k].after = "idle" THEN NoRun ELSE r
  BY <1>1, <1>2 DEF Becomes
<1>6. \A j \in Procs : Vouched(run'[j], opened)
  BY <1>4, <1>5, NoRunVouched DEF FlagsVouched
<1>7. \A s \in Sources : table'[s] # None /\ table'[s].writable => s \in opened
  BY <1>1, <1>2 DEF Vouched
<1>. QED  BY <1>1, <1>6, <1>7 DEF FlagsVouched

\* The gate lets a request pass that the table vouches for.
LEMMA GateVouched == ASSUME Inv, FlagsVouched, NEW k \in Procs, Gate(k) PROVE FlagsVouched'
<1>1. run[k].pc \in {"gate", "gateAgain"}  BY DEF Gate, At
<1>2. run[k] \in Runs /\ run[k].adapter = None /\ run[k].src \in Sources
  BY <1>1, EarlyRun
<1>3. Vouched(run[k], opened)  BY DEF FlagsVouched
<1>4. table' = table /\ opened' = opened /\ catalog' = catalog  BY DEF Gate
<1>5. CASE Refresh(k, run[k], "gateAgain")
  <2>1. "gateAgain" \in Afters /\ "gateAgain" # "lookupAgain"  BY DEF Afters
  <2>. QED  BY <1>2, <1>3, <1>4, <1>5, <2>1, RefreshVouched DEF FlagsVouched
<1>6. CASE table[run[k].src] # None /\ table[run[k].src].writable /\ Goto(k, "lookup")
  <2>. DEFINE r == [run[k] EXCEPT !.pc = "lookup"]
  <2>1. Becomes(k, r)  BY <1>6 DEF Goto
  <2>2. r.src = run[k].src /\ r.listed = run[k].listed /\ r.next = run[k].next
    BY <1>2 DEF Runs
  <2>3. run[k].src \in opened  BY <1>2, <1>6 DEF FlagsVouched
  <2>. HIDE DEF r
  <2>4. Vouched(r, opened)  BY <1>3, <2>2, <2>3 DEF Vouched
  <2>. QED  BY <1>4, <2>1, <2>4, VouchedStep DEF FlagsVouched
<1>7. CASE Answer(k)  BY <1>4, <1>7, AnswerVouched
<1>. QED  BY <1>5, <1>6, <1>7 DEF Gate

\* The lookup keeps what the gate has found.
LEMMA LookupVouched == ASSUME Inv, FlagsVouched, NEW k \in Procs, Lookup(k) PROVE FlagsVouched'
<1>1. run[k].pc \in {"lookup", "lookupAgain"}  BY DEF Lookup, At
<1>2. run[k] \in Runs /\ run[k].adapter = None  BY <1>1, EarlyRun
<1>3. Vouched(run[k], opened) /\ Past(run[k])  BY <1>1 DEF FlagsVouched, Past
<1>4. table' = table /\ opened' = opened /\ catalog' = catalog  BY DEF Lookup
<1>. DEFINE r == [run[k] EXCEPT !.pc = "use", !.adapter = table[run[k].src].adapter]
<1>5. CASE Refresh(k, run[k], "lookupAgain")
  <2>1. "lookupAgain" \in Afters  BY DEF Afters
  <2>2. run[k].op = "cross" /\ Kind[run[k].src] = "repo" => run[k].src \in opened
    BY <1>3 DEF Vouched
  <2>. QED  BY <1>2, <1>3, <1>4, <1>5, <2>1, <2>2, RefreshVouched DEF FlagsVouched
<1>6. CASE Becomes(k, r)
  <2>1. r.op = run[k].op /\ r.src = run[k].src /\ r.listed = run[k].listed
        /\ r.next = run[k].next
    BY <1>2 DEF Runs
  <2>. HIDE DEF r
  <2>2. Vouched(r, opened)  BY <1>3, <2>1 DEF Vouched
  <2>. QED  BY <1>4, <1>6, <2>2, VouchedStep DEF FlagsVouched
<1>7. CASE Answer(k)  BY <1>4, <1>7, AnswerVouched
<1>. QED  BY <1>5, <1>6, <1>7 DEF Lookup

\* The write itself changes no flag.
LEMMA WriteVouched == ASSUME Inv, FlagsVouched, NEW k \in Procs, Write(k) PROVE FlagsVouched'
<1>. DEFINE r == [run[k] EXCEPT !.pc = "invalidate"]
<1>1. Becomes(k, r) /\ run[k].pc = "use"  BY DEF Write, Goto, At
<1>2. run[k] \in Runs  BY DEF Inv, TypeOK
<1>3. r.op = run[k].op /\ r.src = run[k].src /\ r.listed = run[k].listed /\ r.next = run[k].next
  BY <1>2 DEF Runs
<1>. HIDE DEF r
<1>4. Vouched(run[k], opened) /\ Past(run[k])  BY <1>1 DEF FlagsVouched, Past
<1>5. Vouched(r, opened)  BY <1>3, <1>4 DEF Vouched
<1>6. table' = table /\ opened' = opened /\ catalog' = catalog  BY DEF Write
<1>. QED  BY <1>1, <1>5, <1>6, VouchedStep DEF FlagsVouched

\* What begins: nothing that has passed the gate without asking it.
LEMMA BeginVouched ==
    ASSUME Inv, FlagsVouched, NEW k \in Procs, Begin(k) PROVE FlagsVouched'
<1>0. "idle" \in Afters /\ "idle" # "lookupAgain" /\ "purge" \in Afters
      /\ "purge" # "lookupAgain"
  BY DEF Afters
<1>1. NoRun.adapter = None  BY DEF NoRun
<1>2. CASE MountSources(k)
  BY <1>0, <1>1, <1>2, NoRunType, NoRunVouched, RefreshVouched DEF MountSources, FlagsVouched
<1>3. ASSUME NEW s \in Sources, RegisterRepo(k, s) PROVE FlagsVouched'
  <2>1. PICK w \in BOOLEAN : catalog' = [catalog EXCEPT ![s] = w]
                             /\ opened' = opened \cup (IF w THEN {s} ELSE {})
    BY <1>3 DEF RegisterRepo
  <2>2. \A t \in Sources : catalog'[t] = TRUE => t \in opened'
    BY <2>1 DEF Inv, TypeOK, FlagsVouched
  <2>3. opened \subseteq opened'  BY <2>1
  <2>. QED  BY <1>0, <1>1, <1>3, <2>2, <2>3, NoRunType, NoRunVouched, RefreshVouched
           DEF RegisterRepo
<1>4. ASSUME NEW s \in Sources, ManageDocset(k, s) PROVE FlagsVouched'
  <2>. DEFINE r == [NoRun EXCEPT !.op = "manage", !.src = s]
  <2>1. \A t \in Sources : catalog'[t] = TRUE => t \in opened
    BY <1>4, RegistryAssumption DEF ManageDocset, Inv, TypeOK, FlagsVouched, Rows
  <2>2. r \in Runs  BY NoRunType DEF Runs
  <2>3. r.op = "manage" /\ r.adapter = None /\ r.listed = NoRun.listed /\ r.next = NoRun.next
    BY DEF NoRun
  <2>4. Refresh(k, r, "purge") /\ table' = table /\ opened' = opened
    BY <1>4 DEF ManageDocset
  <2>. HIDE DEF r
  <2>5. Vouched(r, opened)  BY <2>3, NoRunVouched DEF Vouched
  <2>. QED  BY <1>0, <2>1, <2>2, <2>3, <2>4, <2>5, RefreshVouched
<1>5. ASSUME NEW s \in Sources, NEW op \in Ops, Arrive(k, op, s) PROVE FlagsVouched'
  <2>. DEFINE r == [NoRun EXCEPT !.op = op, !.src = s,
                      !.pc = IF op = "cross" /\ Kind[s] = "repo" THEN "gate" ELSE "lookup"]
  <2>1. Becomes(k, r)  BY <1>5 DEF Arrive
  <2>2. /\ r.op = op /\ r.src = s /\ r.listed = NoRun.listed /\ r.next = NoRun.next
        /\ r.after = None
        /\ r.pc = IF op = "cross" /\ Kind[s] = "repo" THEN "gate" ELSE "lookup"
    BY DEF NoRun
  <2>3. None # "lookupAgain"  BY RegistryAssumption DEF Afters
  <2>. HIDE DEF r
  <2>4. r.op = "cross" /\ Kind[r.src] = "repo" => ~Past(r)  BY <2>2, <2>3 DEF Past
  <2>5. Vouched(r, opened)  BY <2>2, <2>4, NoRunVouched DEF Vouched
  <2>6. table' = table /\ opened' = opened /\ catalog' = catalog  BY <1>5 DEF Arrive
  <2>. QED  BY <2>1, <2>5, <2>6, VouchedStep DEF FlagsVouched
<1>. QED  BY <1>2, <1>3, <1>4, <1>5 DEF Begin

\* Every step keeps the flags vouched for.
LEMMA FlagsNext == Inv /\ FlagsVouched /\ [Next]_vars => FlagsVouched'
<1>. SUFFICES ASSUME Inv, FlagsVouched, [Next]_vars PROVE FlagsVouched'
  OBVIOUS
<1>1. CASE Tick
  <2>1. NoRun.adapter = None /\ Loop \in Procs /\ "idle" \in Afters /\ "idle" # "lookupAgain"
    BY DEF NoRun, Procs, Afters
  <2>. QED  BY <1>1, <2>1, NoRunType, NoRunVouched, RefreshVouched DEF Tick, FlagsVouched
<1>2. CASE DropCaches  BY <1>2 DEF DropCaches, FlagsVouched
<1>3. CASE Elsewhere
  <2>1. ASSUME NEW s \in Sources, ElsewhereWrite(s) PROVE FlagsVouched'
    BY <2>1 DEF ElsewhereWrite, FlagsVouched
  <2>2. ASSUME NEW s \in Sources, ElsewhereCatalog(s) PROVE FlagsVouched'
    <3>1. PICK row \in Rows \cup {None} :
            /\ catalog' = [catalog EXCEPT ![s] = row]
            /\ opened' = opened \cup (IF row = TRUE THEN {s} ELSE {})
      BY <2>2 DEF ElsewhereCatalog
    <3>2. \A t \in Sources : catalog'[t] = TRUE => t \in opened'
      BY <3>1 DEF Inv, TypeOK, FlagsVouched
    <3>3. opened \subseteq opened' /\ table' = table /\ run' = run
      BY <2>2, <3>1 DEF ElsewhereCatalog
    <3>. QED  BY <3>2, <3>3 DEF FlagsVouched, Vouched
  <2>. QED  BY <1>3, <2>1, <2>2 DEF Elsewhere
<1>4. ASSUME NEW k \in Requests, Begin(k) PROVE FlagsVouched'
  <2>1. k \in Procs  BY DEF Procs
  <2>. QED  BY <1>4, <2>1, BeginVouched
<1>5. ASSUME NEW k \in Procs, Proceed(k) PROVE FlagsVouched'
  <2>1. CASE Purge(k) \/ Read(k) \/ Refuse(k) \/ Invalidate(k)
    BY <2>1, AnswerVouched DEF Purge, Read, Refuse, Invalidate
  <2>. QED  BY <1>5, <2>1, ListVouched, BuildVouched, SwapVouched, GateVouched, LookupVouched,
            WriteVouched DEF Proceed
<1>6. ASSUME NEW k \in Procs, ListFails(k) PROVE FlagsVouched'
  BY <1>6, AnswerVouched DEF ListFails
<1>7. CASE UNCHANGED vars  BY <1>7 DEF vars, FlagsVouched
<1>. QED  BY <1>1, <1>2, <1>3, <1>4, <1>5, <1>6, <1>7 DEF Next

\* They are so when the server starts.
LEMMA FlagsInit == Init => FlagsVouched
<1>. SUFFICES ASSUME Init PROVE FlagsVouched
  OBVIOUS
<1>1. PICK a \in [Sources -> Adapters] : table = [s \in Sources |-> EntryOf(a, s)]
  BY DEF Init
<1>2. opened = {s \in Sources : catalog[s] = TRUE} /\ run = [k \in Procs |-> NoRun]
      /\ catalog \in [Sources -> Rows \cup {None}]
  BY DEF Init
<1>3. ASSUME NEW s \in Sources, table[s] # None, table[s].writable PROVE s \in opened
  <2>1. catalog[s] # None /\ table[s] = [adapter |-> a[s], writable |-> catalog[s]]
    BY <1>1, <1>3 DEF EntryOf
  <2>. QED  BY <1>2, <1>3, <2>1 DEF Rows
<1>. QED  BY <1>2, <1>3, NoRunVouched DEF FlagsVouched

\* A cross-repo write changes only a repository that has been writable.
THEOREM CrossWritesGated == Spec => CrossWritesAllowed
<1>. DEFINE Allowed == \A k \in Procs :
        Write(k) /\ run[k].op = "cross" /\ Kind[run[k].src] = "repo" => run[k].src \in opened
<1>1. FlagsVouched => Allowed
  <2>. SUFFICES ASSUME FlagsVouched, NEW k \in Procs, run[k].pc = "use",
                       run[k].op = "cross", Kind[run[k].src] = "repo"
                PROVE  run[k].src \in opened
    BY DEF Write, At
  <2>. QED  BY DEF FlagsVouched, Vouched, Past
<1>2. FlagsVouched /\ [Next]_vars => [Allowed]_vars  BY <1>1
<1>3. Spec => []Inv  BY RegistryInvariant
<1>. HIDE DEF Allowed
<1>4. Spec => [][Allowed]_vars  BY <1>2, <1>3, FlagsInit, FlagsNext, PTL DEF Spec
<1>. QED  BY <1>4 DEF CrossWritesAllowed, Allowed
=============================================================================
