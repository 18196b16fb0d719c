---------------------------- MODULE CliSyncProofs ----------------------------
(***************************************************************************)
(* Proofs about CliSync, for every set of commands, documents, roots and   *)
(* command lines: the types, that every recorded hash was the document's   *)
(* (BaselineWasRemote), and that no command loses a local content that was *)
(* never uploaded (EditsSurvive) when files are not edited under a running *)
(* command.                                                                *)
(*                                                                         *)
(* The invariant says of the record of every command what it may rely on.  *)
(* It is a predicate Good(r, s, l) of a record r, a history s and local    *)
(* files l, so that a step has two things to show: the new record of its   *)
(* command is good, and good records stay good when the history grows and  *)
(* when only contents of the history are written to local files.           *)
(***************************************************************************)
EXTENDS CliSync, TLAPS

RunType ==
    [inv : Invocations \cup {None}, root : Roots \cup {None}, roots : SUBSET Roots,
     pc : {"idle", "next", "list", "hashes", "cat", "apply", "entries", "overwrite",
           "save", "write"},
     loaded : SUBSET Entries, base : [Paths -> Entries \cup {None}],
     nodes : SUBSET Paths, got : [Paths -> Files \cup {None}],
     plan : [Paths -> Changes \cup {None}], todo : SUBSET Entries,
     entries : SUBSET Entries]

\* What else a record is: an idle command has no locals, a command that runs
\* has a command line, and a root where it works on one.  A command that still
\* collects has no plan; a hook that visits entries has collected every file it
\* has listed, and only overwrites those.
Shape(r) ==
    /\ r.pc = "idle" => r = NoRun
    /\ r.pc # "idle" => r.inv \in Invocations
    /\ r.pc \in {"list", "hashes", "cat", "apply", "overwrite", "entries"} => r.root \in Roots
    /\ r.pc \in {"next", "list", "hashes", "cat"} => \A p \in Paths : r.plan[p] = None
    /\ r.pc \in {"entries", "overwrite"} /\ r.inv.cmd = "hook" => \A p \in Paths :
         (p \in r.nodes => r.got[p] # None) /\ (r.plan[p] # None => p \in r.nodes /\ r.plan[p].act = "materialize")

Typed(r) == r \in RunType /\ Shape(r)

\* Hashes and contents that document p has had in history s.
KnownIn(s, p, hash)   == \E x \in s[p] : HashContent(x) = hash
EntriesKnown(s, S)    == \A e \in S : KnownIn(s, e.local, e.hash)
ContentKnown(s, p, x) == x = Empty \/ x \in s[p]

\* A content to be pushed becomes known with the push.
ChangeHonest(c, p, s) ==
    /\ c.entry.local = p
    /\ c.act = "push" => c.entry.hash = HashContent(c.content)
    /\ c.act # "push" => KnownIn(s, p, c.entry.hash) /\ ContentKnown(s, p, c.content)

Honest(r, s) ==
    /\ EntriesKnown(s, r.loaded) /\ EntriesKnown(s, r.entries) /\ EntriesKnown(s, r.todo)
    /\ \A p \in Paths : r.base[p] # None => KnownIn(s, p, r.base[p].hash)
    /\ \A p \in Paths : r.got[p] # None =>
         KnownIn(s, p, r.got[p].hash) /\ ContentKnown(s, p, r.got[p].content)
    /\ \A p \in Paths : r.plan[p] # None => ChangeHonest(r.plan[p], p, s)

Forced(r) == r.inv.cmd = "pull" /\ r.inv.force = "remote"
Safe(r, s, l) == ~LocalBusy =>
    \A p \in Paths : r.plan[p] # None /\ r.plan[p].act = "materialize" /\ ~Forced(r)
        => l[p] = None \/ l[p] \in s[p]

Good(r, s, l) == Typed(r) /\ Honest(r, s) /\ Safe(r, s, l)

Data ==
    /\ remote \in [Paths -> Contents \cup {None}]
    /\ local \in [Paths -> Contents \cup {None}]
    /\ manifest \subseteq Entries
    /\ seen \in [Paths -> SUBSET Contents]
    /\ edited \subseteq Paths
    /\ \A p \in Paths : remote[p] # None => remote[p] \in seen[p]
    /\ EntriesKnown(seen, manifest)

SyncInv == Data /\ run \in [Commands -> RunType] /\ \A k \in Commands : Good(run[k], seen, local)

\* What a step may do to the history and to the local files.
Grows == \A p \in Paths : seen[p] \subseteq seen'[p]
Keeps == \A p \in Paths : local'[p] = local[p] \/ local'[p] \in seen'[p] \cup {None}

-----------------------------------------------------------------------------
(* General lemmas *)

\* The locals of an idle command are good.
LEMMA NoRunGood == ASSUME NEW s, NEW l PROVE Good(NoRun, s, l)
BY DEF Good, Typed, Shape, Honest, Safe, EntriesKnown, NoRun, RunType

\* What is known stays known.
LEMMA KnownStays ==
    ASSUME NEW s, NEW t, \A p \in Paths : s[p] \subseteq t[p], NEW r, Typed(r), Honest(r, s)
    PROVE  Honest(r, t)
<1>1. ASSUME NEW p \in Paths, NEW h, KnownIn(s, p, h) PROVE KnownIn(t, p, h)
  BY <1>1 DEF KnownIn
<1>2. ASSUME NEW S \in SUBSET Entries, EntriesKnown(s, S) PROVE EntriesKnown(t, S)
  BY <1>1, <1>2 DEF EntriesKnown, Entries
<1>3. ASSUME NEW p \in Paths, NEW x, ContentKnown(s, p, x) PROVE ContentKnown(t, p, x)
  BY <1>3 DEF ContentKnown
<1>4. ASSUME NEW p \in Paths, NEW c, ChangeHonest(c, p, s) PROVE ChangeHonest(c, p, t)
  BY <1>1, <1>3, <1>4 DEF ChangeHonest
<1>5. r.loaded \in SUBSET Entries /\ r.entries \in SUBSET Entries /\ r.todo \in SUBSET Entries
  BY DEF Typed, RunType
<1> QED
  BY <1>1, <1>2, <1>3, <1>4, <1>5 DEF Honest

\* A good record stays good.
LEMMA GoodStays ==
    ASSUME NEW r, Good(r, seen, local), Grows, Keeps PROVE Good(r, seen', local')
<1>1. Honest(r, seen')
  BY KnownStays DEF Good, Grows
<1>2. Safe(r, seen', local')
  BY DEF Good, Safe, Grows, Keeps
<1> QED
  BY <1>1, <1>2 DEF Good

\* A step of a command that leaves a good record, and good data, behind.
LEMMA StepGood ==
    ASSUME SyncInv, NEW k \in Commands, NEW r, Good(r, seen', local'), Becomes(k, r),
           Grows, Keeps, Data'
    PROVE  SyncInv'
<1>1. run' \in [Commands -> RunType]
  BY DEF SyncInv, Becomes, Good, Typed
<1>2. ASSUME NEW j \in Commands PROVE Good(run'[j], seen', local')
  <2>1. CASE j = k
    BY <2>1 DEF Becomes, SyncInv
  <2>2. CASE j # k
    BY <2>2, GoodStays DEF Becomes, SyncInv
  <2> QED
    BY <2>1, <2>2
<1> QED
  BY <1>1, <1>2 DEF SyncInv

\* A step of a command that only changes its locals.
LEMMA LocalStep ==
    ASSUME SyncInv, NEW k \in Commands, NEW r, Good(r, seen, local), Becomes(k, r),
           UNCHANGED <<remote, local, manifest, seen, edited>>
    PROVE  SyncInv'
<1>1. Grows /\ Keeps /\ Data'
  BY DEF Grows, Keeps, SyncInv, Data
<1>2. Good(r, seen', local')
  BY <1>1, GoodStays
<1> QED
  BY <1>1, <1>2, StepGood

\* A command that returns early.
LEMMA FinishStep ==
    ASSUME SyncInv, NEW k \in Commands, Finish(k),
           UNCHANGED <<remote, local, manifest, seen, edited>>
    PROVE  SyncInv'
BY LocalStep, NoRunGood DEF Finish

\* A hook that leaves a root with a manifest whose hashes are known.
LEMMA LeaveStep ==
    ASSUME SyncInv, NEW k \in Commands, ~Idle(k), NEW m \in SUBSET Entries, EntriesKnown(seen, m),
           LeaveRoot(k, m), UNCHANGED <<remote, local, manifest, seen, edited>>
    PROVE  SyncInv'
<1> DEFINE r == [NoRun EXCEPT !.inv = run[k].inv, !.pc = "next", !.roots = run[k].roots, !.loaded = m]
<1>1. run[k] \in RunType /\ run[k].inv \in Invocations
  BY DEF SyncInv, Good, Typed, Shape, Idle
<1>2. Typed(r)
  BY <1>1, NoRunGood DEF Typed, RunType, Shape, NoRun
<1>3. Honest(r, seen) /\ Safe(r, seen, local)
  BY DEF Honest, Safe, EntriesKnown, NoRun
<1> QED
  BY <1>2, <1>3, LocalStep DEF LeaveRoot, Good

\* A collection that fails.
LEMMA SkippedStep ==
    ASSUME SyncInv, NEW k \in Commands, ~Idle(k), Skipped(k),
           UNCHANGED <<remote, local, manifest, seen, edited>>
    PROVE  SyncInv'
<1>1. run[k].loaded \in SUBSET Entries /\ EntriesKnown(seen, run[k].loaded)
  BY DEF SyncInv, Good, Typed, RunType, Honest
<1> QED
  BY <1>1, LeaveStep, FinishStep DEF Skipped

\* The manifest is truncated, to be written with entries that are known.
LEMMA TruncateStep ==
    ASSUME SyncInv, NEW k \in Commands, ~Idle(k), NEW m \in SUBSET Entries, EntriesKnown(seen, m),
           Truncate(k, m)
    PROVE  SyncInv'
<1> DEFINE r == [run[k] EXCEPT !.pc = "write", !.loaded = m]
<1>1. Good(run[k], seen, local) /\ run[k].inv \in Invocations
  BY DEF SyncInv, Good, Typed, Shape, Idle
<1>2. Typed(r)
  BY <1>1 DEF Good, Typed, RunType, Shape
<1>3. Honest(r, seen)
  BY <1>1 DEF Good, Typed, RunType, Honest
<1>4. Safe(r, seen, local)
  BY <1>1 DEF Good, Typed, RunType, Safe, Forced
<1>5. Grows /\ Keeps /\ Data'
  BY DEF Grows, Keeps, SyncInv, Data, Truncate, EntriesKnown
<1> QED
  BY <1>2, <1>3, <1>4, <1>5, StepGood, GoodStays DEF Truncate, Good

\* What the invariant says of a running command.
LEMMA Running ==
    ASSUME SyncInv, NEW k \in Commands
    PROVE  /\ run[k] \in RunType
           /\ Typed(run[k]) /\ Honest(run[k], seen) /\ Safe(run[k], seen, local)
           /\ ~Idle(k) => run[k].inv \in Invocations
           /\ run[k].pc \in {"list", "hashes", "cat", "apply", "overwrite", "entries"}
                => run[k].root \in Roots
           /\ run[k].pc \in {"next", "list", "hashes", "cat"} => \A p \in Paths : run[k].plan[p] = None
BY DEF SyncInv, Good, Typed, Shape, Idle

\* What is known of the manifest and of the documents.
LEMMA KnownData ==
    ASSUME SyncInv
    PROVE  /\ manifest \in SUBSET Entries /\ EntriesKnown(seen, manifest)
           /\ \A p \in Paths : remote[p] # None =>
                 remote[p] \in Contents /\ KnownIn(seen, p, HashContent(remote[p]))
                 /\ ContentKnown(seen, p, remote[p])
BY DEF SyncInv, Data, KnownIn, ContentKnown

\* A lookup yields entries of the set it looks in, at their paths.
LEMMA LookupFinds ==
    ASSUME NEW S \in SUBSET Entries, NEW f \in Lookups(S)
    PROVE  /\ f \in [Paths -> Entries \cup {None}]
           /\ \A p \in Paths : f[p] # None => f[p] \in S /\ f[p].local = p
BY DEF Lookups, EntriesAt

\* A copy of an entry differs in its number alone.
LEMMA NumberedEntry ==
    ASSUME NEW e \in Entries, NEW c \in Copies
    PROVE  /\ Numbered(e, c) \in Entries /\ Numbered(e, c).copy = c
           /\ Numbered(e, c).local = e.local /\ Numbered(e, c).mount = e.mount
           /\ Numbered(e, c).hash = e.hash /\ Numbered(e, c).mat = e.mat
BY DEF Numbered, Entries

\* The copy that is taken first is one.
LEMMA FirstCopy == First \in Copies
BY SyncAssumption

-----------------------------------------------------------------------------
(* Starting a command *)

\* StartPull keeps the invariant.
LEMMA StartPullStep ==
    ASSUME SyncInv, NEW k \in Commands, NEW i \in Invocations, StartPull(k, i) PROVE SyncInv'
<1> DEFINE r == [NoRun EXCEPT !.inv = i, !.pc = "list", !.root = i.root, !.loaded = manifest]
<1>1. Typed(r)
  BY KnownData, NoRunGood, SyncAssumption DEF Good, Typed, RunType, Shape, NoRun, CommandLines
<1>2. Honest(r, seen) /\ Safe(r, seen, local)
  BY KnownData DEF Honest, Safe, EntriesKnown, NoRun
<1> QED
  BY <1>1, <1>2, LocalStep DEF StartPull, Good

\* StartHook keeps the invariant.
LEMMA StartHookStep ==
    ASSUME SyncInv, NEW k \in Commands, NEW i \in Invocations, StartHook(k, i) PROVE SyncInv'
<1> DEFINE r == [NoRun EXCEPT !.inv = i, !.pc = "next", !.roots = Mounts, !.loaded = manifest]
<1>1. Typed(r)
  BY KnownData, NoRunGood, SyncAssumption DEF Good, Typed, RunType, Shape, NoRun
<1>2. Honest(r, seen) /\ Safe(r, seen, local)
  BY KnownData DEF Honest, Safe, EntriesKnown, NoRun
<1> QED
  BY <1>1, <1>2, LocalStep DEF StartHook, Good

\* StartDematerialize keeps the invariant.
LEMMA StartDematerializeStep ==
    ASSUME SyncInv, NEW k \in Commands, NEW i \in Invocations, StartDematerialize(k, i)
    PROVE  SyncInv'
<1> DEFINE r == [NoRun EXCEPT !.inv = i, !.pc = "entries", !.root = i.root,
                              !.loaded = manifest, !.todo = EntriesUnder(manifest, i.root)]
<1>1. Typed(r)
  BY KnownData, NoRunGood, SyncAssumption
     DEF Good, Typed, RunType, Shape, NoRun, CommandLines, EntriesUnder
<1>2. Honest(r, seen) /\ Safe(r, seen, local)
  BY KnownData DEF Honest, Safe, EntriesKnown, NoRun, EntriesUnder
<1> QED
  BY <1>1, <1>2, LocalStep DEF StartDematerialize, Good

\* ScanLocal keeps the invariant.
LEMMA ScanLocalStep ==
    ASSUME SyncInv, NEW k \in Commands, NEW i \in Invocations, ScanLocal(k, i) PROVE SyncInv'
<1> DEFINE there == {p \in Under[i.root] : local[p] # None}
           scanned(p) == [act |-> "push", content |-> local[p],
                          entry |-> [local |-> p, mount |-> i.root,
                                     hash |-> HashContent(local[p]), mat |-> TRUE,
                                     copy |-> First]]
           plan == [p \in Paths |-> IF p \in there THEN scanned(p) ELSE None]
           r == [NoRun EXCEPT !.inv = i, !.pc = "apply", !.root = i.root, !.plan = plan]
<1>1. i.root \in Roots
  BY SyncAssumption DEF CommandLines
<1>2. \A p \in there : p \in Paths /\ scanned(p) \in Changes
  BY <1>1, SyncAssumption DEF SyncInv, Data, Changes, Entries, Hashes
<1>3. plan \in [Paths -> Changes \cup {None}]
  BY <1>2
<1>4. Typed(r)
  BY <1>1, <1>3, NoRunGood DEF Good, Typed, RunType, Shape, NoRun
<1>5. \A p \in Paths : plan[p] # None => plan[p] = scanned(p)
  OBVIOUS
<1>6. Honest(r, seen)
  BY <1>5 DEF Honest, EntriesKnown, NoRun, ChangeHonest
<1>7. Safe(r, seen, local)
  BY <1>5 DEF Safe, NoRun
<1> QED
  BY <1>4, <1>6, <1>7, LocalStep DEF ScanLocal, Good

-----------------------------------------------------------------------------
(* Collecting *)

\* NextRoot keeps the invariant.
LEMMA NextRootStep ==
    ASSUME SyncInv, NEW k \in Commands, NextRoot(k) PROVE SyncInv'
<1>1. PICK root \in run[k].roots :
        Becomes(k, [run[k] EXCEPT !.pc = "list", !.root = root, !.roots = @ \ {root}])
  BY DEF NextRoot
<1> DEFINE r == [run[k] EXCEPT !.pc = "list", !.root = root, !.roots = @ \ {root}]
<1>2. ~Idle(k) /\ run[k].pc = "next"
  BY DEF NextRoot, At
<1>3. r \in RunType
  <2>1. run[k] \in RunType /\ root \in Roots
    BY <1>1, Running DEF RunType
  <2> QED
    BY <2>1 DEF RunType
<1>4. Shape(r)
  BY <1>2, <1>3, Running DEF RunType, Shape
<1>5. Honest(r, seen) /\ Safe(r, seen, local)
  BY Running DEF RunType, Honest, Safe, Forced
<1> QED
  BY <1>1, <1>3, <1>4, <1>5, LocalStep DEF NextRoot, Good, Typed

\* ListRemote keeps the invariant.
LEMMA ListRemoteStep ==
    ASSUME SyncInv, NEW k \in Commands, ListRemote(k) PROVE SyncInv'
<1> DEFINE there == {p \in Under[run[k].root] : remote[p] # None}
<1>1. ~Idle(k) /\ run[k].pc = "list"
  BY DEF ListRemote, Idle
<1>2. ASSUME Skipped(k) PROVE SyncInv'
  BY <1>1, <1>2, SkippedStep DEF ListRemote
<1>3. ASSUME NEW base \in Lookups(run[k].loaded),
             Becomes(k, [run[k] EXCEPT !.pc = "hashes", !.nodes = there, !.base = base])
      PROVE  SyncInv'
  <2> DEFINE r == [run[k] EXCEPT !.pc = "hashes", !.nodes = there, !.base = base]
  <2>1. run[k].loaded \in SUBSET Entries /\ EntriesKnown(seen, run[k].loaded)
    BY Running DEF RunType, Honest
  <2>2. /\ base \in [Paths -> Entries \cup {None}]
        /\ \A p \in Paths : base[p] # None => KnownIn(seen, p, base[p].hash)
    BY <2>1, LookupFinds DEF EntriesKnown
  <2>3. there \subseteq Paths
    BY <1>1, Running, SyncAssumption
  <2>4. Typed(r)
    <3> HIDE DEF there
    <3>1. run[k] \in RunType /\ base \in [Paths -> Entries \cup {None}] /\ there \in SUBSET Paths
      BY <2>2, <2>3, Running
    <3>2. r \in RunType
      BY <3>1 DEF RunType
    <3>3. Shape(r)
      BY <1>1, Running DEF RunType, Shape
    <3> QED
      BY <3>2, <3>3 DEF Typed
  <2>5. Honest(r, seen) /\ Safe(r, seen, local)
    BY <2>2, Running DEF RunType, Honest, Safe, Forced
  <2> QED
    BY <1>3, <2>4, <2>5, LocalStep DEF ListRemote, Good
<1> QED
  BY <1>2, <1>3 DEF ListRemote

\* HashRemote keeps the invariant.
LEMMA HashRemoteStep ==
    ASSUME SyncInv, NEW k \in Commands, HashRemote(k) PROVE SyncInv'
<1> DEFINE same(p) == /\ p \in run[k].nodes /\ remote[p] # None /\ run[k].base[p] # None
                      /\ run[k].base[p].hash = HashContent(remote[p])
           got == [p \in Paths |-> IF same(p) THEN Unread(HashContent(remote[p])) ELSE None]
           r == [run[k] EXCEPT !.pc = "cat", !.got = got]
<1>1. ~Idle(k) /\ run[k].pc = "hashes"
  BY DEF HashRemote, Idle
<1>2. \A p \in Paths : remote[p] # None => Unread(HashContent(remote[p])) \in Files
  BY KnownData, SyncAssumption DEF Unread, Files, Hashes
<1>3. got \in [Paths -> Files \cup {None}]
  BY <1>2
<1>4. \A p \in Paths : got[p] # None =>
        KnownIn(seen, p, got[p].hash) /\ ContentKnown(seen, p, got[p].content)
  BY KnownData DEF Unread, ContentKnown
<1> HIDE DEF got
<1>5. Typed(r)
  <2>1. run[k] \in RunType /\ got \in [Paths -> Files \cup {None}]
    BY <1>3, Running
  <2>2. r \in RunType
    BY <2>1 DEF RunType
  <2>3. Shape(r)
    BY <1>1, Running DEF RunType, Shape
  <2> QED
    BY <2>2, <2>3 DEF Typed
<1>6. Honest(r, seen) /\ Safe(r, seen, local)
  BY <1>4, Running DEF RunType, Honest, Safe, Forced
<1>7. Becomes(k, r) /\ UNCHANGED <<remote, local, manifest, seen, edited>>
  BY DEF HashRemote, got
<1> QED
  BY <1>5, <1>6, <1>7, LocalStep DEF Good

\* CatRemote keeps the invariant.
LEMMA CatRemoteStep ==
    ASSUME SyncInv, NEW k \in Commands, NEW p \in Paths, CatRemote(k, p) PROVE SyncInv'
<1> DEFINE file == [content |-> remote[p], hash |-> HashContent(remote[p])]
           r == [run[k] EXCEPT !.got = [@ EXCEPT ![p] = file]]
<1>1. ~Idle(k) /\ run[k].pc = "cat"
  BY DEF CatRemote, Idle
<1>2. ASSUME Skipped(k) PROVE SyncInv'
  BY <1>1, <1>2, SkippedStep DEF CatRemote
<1>3. ASSUME remote[p] # None, Becomes(k, r) PROVE SyncInv'
  <2>1. file \in Files
    BY <1>3, KnownData DEF Files, Hashes
  <2>2. Typed(r)
    BY <1>1, <2>1, Running DEF Typed, RunType, Shape, Idle
  <2>3. Honest(r, seen) /\ Safe(r, seen, local)
    BY <1>3, KnownData, Running DEF RunType, Honest, Safe, Forced
  <2> QED
    BY <1>3, <2>2, <2>3, LocalStep DEF CatRemote, Good
<1> QED
  BY <1>2, <1>3 DEF CatRemote

-----------------------------------------------------------------------------
(* Planning and applying *)

\* A change of a plan: its type, what it records, and what it may overwrite.
LEMMA ChangeGood ==
    ASSUME SyncInv, NEW k \in Commands, At(k, "pull", "cat"), Collected(k),
           Conflicts(k) = {} \/ run[k].inv.force # "no", NEW p \in run[k].nodes
    PROVE  /\ p \in Paths /\ Change(k, p) \in Changes
           /\ ChangeHonest(Change(k, p), p, seen)
           /\ Change(k, p).act = "materialize" /\ ~Forced(run[k])
                => local[p] = None \/ local[p] \in seen[p]
<1>1. /\ run[k].pc = "cat" /\ run[k].inv.cmd = "pull" /\ run[k].root \in Roots
      /\ run[k].inv.force \in {"no", "local", "remote"}
      /\ run[k].inv.materialize \in BOOLEAN
  BY Running, SyncAssumption DEF At, CommandLines
<1>2. /\ p \in Paths /\ run[k].got[p] \in Files
      /\ KnownIn(seen, p, run[k].got[p].hash) /\ ContentKnown(seen, p, run[k].got[p].content)
  BY Running DEF Collected, RunType, Honest
<1>3. local[p] \in Contents \cup {None}
  BY <1>2 DEF SyncInv, Data
<1>4. CASE run[k].inv.force = "local" /\ InConflict(k, p)
  <2>1. local[p] # None
    BY <1>4 DEF InConflict, LocalChanged, Untracked
  <2>2. Change(k, p) = [act |-> "push", content |-> local[p],
                        entry |-> EntryFor(k, p, HashContent(local[p]), TRUE)]
    BY <1>4 DEF Change
  <2>3. HashContent(local[p]) \in Hashes /\ local[p] \in Contents
    BY <1>3, <2>1 DEF Hashes
  <2> DEFINE entry == EntryFor(k, p, HashContent(local[p]), TRUE)
  <2>4. entry \in Entries /\ entry.local = p /\ entry.hash = HashContent(local[p])
    BY <1>1, <1>2, <2>3, FirstCopy DEF EntryFor, Entries
  <2>5. Change(k, p) = [act |-> "push", content |-> local[p], entry |-> entry]
    BY <2>2
  <2> HIDE DEF entry
  <2>6. Change(k, p) \in Changes
    BY <2>3, <2>4, <2>5 DEF Changes
  <2> QED
    BY <1>2, <2>4, <2>5, <2>6 DEF ChangeHonest
<1>5. CASE ~(run[k].inv.force = "local" /\ InConflict(k, p))
  <2> DEFINE act == IF run[k].inv.materialize THEN "materialize" ELSE "accept"
             same == local[p] # None /\ HashContent(local[p]) = run[k].got[p].hash
             mat == run[k].inv.materialize \/ same
  <2>1. Change(k, p) = [act |-> act, content |-> run[k].got[p].content,
                        entry |-> EntryFor(k, p, run[k].got[p].hash, mat)]
    BY <1>5 DEF Change
  <2>2. mat \in BOOLEAN /\ act \in {"materialize", "accept"}
    BY <1>1
  <2>3. Change(k, p) \in Changes
    <3>1. EntryFor(k, p, run[k].got[p].hash, mat) \in Entries
      BY <1>1, <1>2, <2>2, FirstCopy DEF EntryFor, Entries, Files
    <3> QED
      BY <1>2, <2>1, <2>2, <3>1 DEF Changes, Files
  <2>4. ChangeHonest(Change(k, p), p, seen)
    BY <1>2, <2>1, <2>2 DEF ChangeHonest, EntryFor
  <2>5. ASSUME Change(k, p).act = "materialize", ~Forced(run[k]), local[p] # None
        PROVE  local[p] \in seen[p]
    <3>1. run[k].inv.materialize
      BY <2>1, <2>5
    <3>2. ~InConflict(k, p)
      BY <1>1, <1>5, <2>5 DEF Forced, Conflicts
    <3>3. HashContent(local[p]) = run[k].got[p].hash
            \/ (run[k].base[p] # None /\ HashContent(local[p]) = run[k].base[p].hash)
      BY <2>5, <3>1, <3>2 DEF InConflict, LocalChanged, Untracked
    <3>4. KnownIn(seen, p, HashContent(local[p]))
      BY <1>2, <3>3, Running DEF Honest
    <3> QED
      BY <3>4 DEF KnownIn, HashContent
  <2> QED
    BY <1>2, <2>3, <2>4, <2>5
<1> QED
  BY <1>4, <1>5

\* PlanPull keeps the invariant.
LEMMA PlanPullStep ==
    ASSUME SyncInv, NEW k \in Commands, PlanPull(k) PROVE SyncInv'
<1> DEFINE plan == [p \in Paths |-> IF p \in run[k].nodes THEN Change(k, p) ELSE None]
           r == [run[k] EXCEPT !.pc = "apply", !.plan = plan]
<1>1. At(k, "pull", "cat") /\ Collected(k)
  BY DEF PlanPull
<1>2. ASSUME Finish(k) PROVE SyncInv'
  BY <1>2, FinishStep DEF PlanPull
<1>3. ASSUME Conflicts(k) = {} \/ run[k].inv.force # "no", Becomes(k, r) PROVE SyncInv'
  <2>1. \A p \in run[k].nodes :
          /\ p \in Paths /\ Change(k, p) \in Changes
          /\ ChangeHonest(Change(k, p), p, seen)
          /\ Change(k, p).act = "materialize" /\ ~Forced(run[k])
               => local[p] = None \/ local[p] \in seen[p]
    BY <1>1, <1>3, ChangeGood
  <2>2. plan \in [Paths -> Changes \cup {None}]
    BY <2>1
  <2>3. \A p \in Paths : plan[p] # None => p \in run[k].nodes /\ plan[p] = Change(k, p)
    OBVIOUS
  <2> HIDE DEF plan
  <2>4. r \in RunType
    <3>1. run[k] \in RunType
      BY Running
    <3> QED
      BY <2>2, <3>1 DEF RunType
  <2>5. Shape(r)
    BY <1>1, Running DEF RunType, Shape, At, Idle
  <2>6. Honest(r, seen)
    BY <2>1, <2>3, Running DEF RunType, Honest
  <2>7. Safe(r, seen, local)
    BY <2>1, <2>3, Running DEF RunType, Safe, Forced
  <2> QED
    BY <1>3, <2>4, <2>5, <2>6, <2>7, LocalStep DEF PlanPull, Good, Typed
<1> QED
  BY <1>2, <1>3 DEF PlanPull

\* The record after a change has been applied: good where its entry is known.
LEMMA AppliedGood ==
    ASSUME SyncInv, NEW k \in Commands, NEW p \in Paths, run[k].pc = "apply", run[k].plan[p] # None,
           Applied(k, p), Grows, Keeps, Data',
           KnownIn(seen', p, run[k].plan[p].entry.hash)
    PROVE  SyncInv'
<1> DEFINE r == [run[k] EXCEPT !.plan = [@ EXCEPT ![p] = None],
                               !.entries = @ \cup {run[k].plan[p].entry}]
<1>1. run[k] \in RunType /\ Typed(run[k]) /\ Honest(run[k], seen') /\ Safe(run[k], seen', local')
  BY Running, GoodStays DEF SyncInv, Good
<1>2. run[k].plan[p] \in Changes /\ run[k].plan[p].entry.local = p
  BY <1>1 DEF RunType, Honest, ChangeHonest
<1>3. run[k].plan[p].entry \in Entries
  BY <1>2 DEF Changes
<1>4. r \in RunType
  BY <1>1, <1>3 DEF RunType
<1>5. Shape(r)
  BY <1>1 DEF Typed, RunType, Shape
<1>6. Honest(r, seen')
  BY <1>1, <1>2 DEF RunType, Honest, EntriesKnown
<1>7. Safe(r, seen', local')
  BY <1>1 DEF RunType, Safe, Forced
<1> QED
  BY <1>4, <1>5, <1>6, <1>7, StepGood DEF Applied, Good, Typed

\* Accept keeps the invariant.
LEMMA AcceptStep ==
    ASSUME SyncInv, NEW k \in Commands, NEW p \in Paths, Accept(k, p) PROVE SyncInv'
<1>1. run[k].pc = "apply" /\ run[k].plan[p] # None /\ run[k].plan[p].act = "accept"
  BY DEF Accept, Planned
<1>2. KnownIn(seen, p, run[k].plan[p].entry.hash)
  BY <1>1, Running DEF Honest, ChangeHonest
<1>3. Grows /\ Keeps /\ Data'
  BY DEF Grows, Keeps, SyncInv, Data, Accept
<1> QED
  BY <1>1, <1>2, <1>3, AppliedGood DEF Accept

\* A document is written: it grows the history.
LEMMA SetRemoteData ==
    ASSUME SyncInv, NEW p \in Paths, NEW x \in Contents \cup {None}, SetRemote(p, x),
           UNCHANGED <<local, manifest, edited>>
    PROVE  /\ Grows /\ Keeps /\ Data'
           /\ x # None => KnownIn(seen', p, HashContent(x))
<1>1. /\ remote' \in [Paths -> Contents \cup {None}]
      /\ seen' \in [Paths -> SUBSET Contents]
      /\ \A q \in Paths : seen[q] \subseteq seen'[q]
      /\ \A q \in Paths : remote'[q] # None => remote'[q] \in seen'[q]
      /\ x # None => x \in seen'[p]
  BY DEF SyncInv, Data, SetRemote
<1>2. EntriesKnown(seen', manifest)
  BY <1>1 DEF SyncInv, Data, EntriesKnown, KnownIn, Entries
<1> QED
  BY <1>1, <1>2 DEF SyncInv, Data, Grows, Keeps, KnownIn

\* Push keeps the invariant.
LEMMA PushStep ==
    ASSUME SyncInv, NEW k \in Commands, NEW p \in Paths, Planned(k, p, "push"),
           SetRemote(p, run[k].plan[p].content), Applied(k, p),
           UNCHANGED <<local, manifest, edited>>
    PROVE  SyncInv'
<1>1. /\ run[k].pc = "apply" /\ run[k].plan[p] # None
      /\ run[k].plan[p].content \in Contents
      /\ run[k].plan[p].entry.hash = HashContent(run[k].plan[p].content)
  BY Running DEF Planned, RunType, Changes, Honest, ChangeHonest
<1>2. run[k].plan[p].content # None
  BY <1>1, SyncAssumption
<1> QED
  BY <1>1, <1>2, SetRemoteData, AppliedGood

\* Materialize keeps the invariant.
LEMMA MaterializeStep ==
    ASSUME SyncInv, NEW k \in Commands, NEW p \in Paths, Materialize(k, p) PROVE SyncInv'
<1> DEFINE content == ToWrite(p, run[k].plan[p].content)
<1>1. run[k].pc = "apply" /\ run[k].plan[p] # None /\ run[k].plan[p].act = "materialize"
  BY DEF Materialize, Planned
<1>2. /\ KnownIn(seen, p, run[k].plan[p].entry.hash)
      /\ ContentKnown(seen, p, run[k].plan[p].content)
      /\ run[k].plan[p].content \in Contents
  BY <1>1, Running DEF Honest, ChangeHonest, RunType, Changes
<1>3. ASSUME Finish(k), UNCHANGED <<local, edited>> PROVE SyncInv'
  BY <1>3, FinishStep DEF Materialize
<1>4. ASSUME content # None, WriteFile(p, content), Applied(k, p) PROVE SyncInv'
  <2>1. content \in Contents /\ content \in seen[p]
    BY <1>2, <1>4 DEF ToWrite, ContentKnown, SyncInv, Data
  <2>2. Grows /\ Keeps /\ Data'
    BY <1>4, <2>1 DEF WriteFile, Grows, Keeps, SyncInv, Data, Materialize
  <2> QED
    BY <1>1, <1>2, <1>4, <2>2, AppliedGood DEF Materialize
<1> QED
  BY <1>3, <1>4 DEF Materialize

-----------------------------------------------------------------------------
(* Saving *)

\* A copy that is not in use is found when there is one.
LEMMA FreeCopy ==
    ASSUME NEW m, NEW p, Free(m, p) # {} PROVE NextCopy(m, p) \in Copies
BY DEF NextCopy, Free

\* There is a copy for every new entry.
Room(m, r, S) == \A e \in S : Free(Kept(m, r), e.local) # {}

\* What ReplaceUnder returns: entries that are kept, and the new ones.
LEMMA ReplaceFinds ==
    ASSUME NEW m, NEW r, NEW S, Room(m, r, S), NEW e \in ReplaceUnder(m, r, S)
    PROVE  \/ e \in m /\ e \in Kept(m, r)
           \/ \E f \in S, c \in Copies : c = NextCopy(Kept(m, r), f.local) /\ e = Numbered(f, c)
<1>1. CASE e \in Kept(m, r)
  BY <1>1 DEF Kept
<1>2. ASSUME NEW f \in S, e = Numbered(f, NextCopy(Kept(m, r), f.local))
      PROVE  \E c \in Copies : c = NextCopy(Kept(m, r), f.local) /\ e = Numbered(f, c)
  BY <1>2, FreeCopy DEF Room
<1> QED
  BY <1>1, <1>2 DEF ReplaceUnder

\* SavePull keeps the invariant.
LEMMA SavePullStep ==
    ASSUME SyncInv, NEW k \in Commands, SavePull(k) PROVE SyncInv'
<1> DEFINE m == ReplaceUnder(run[k].loaded, run[k].root, run[k].entries)
<1>1. /\ run[k].loaded \in SUBSET Entries /\ EntriesKnown(seen, run[k].loaded)
      /\ run[k].entries \in SUBSET Entries /\ EntriesKnown(seen, run[k].entries)
  BY Running DEF RunType, Honest
<1>2. Room(run[k].loaded, run[k].root, run[k].entries)
  BY DEF SavePull, Room
<1>3. ASSUME NEW e \in m PROVE e \in Entries /\ KnownIn(seen, e.local, e.hash)
  <2>1. CASE e \in run[k].loaded
    BY <1>1, <2>1 DEF EntriesKnown
  <2>2. ASSUME NEW f \in run[k].entries, NEW c \in Copies, e = Numbered(f, c)
        PROVE  e \in Entries /\ KnownIn(seen, e.local, e.hash)
    <3>1. f \in Entries /\ KnownIn(seen, f.local, f.hash)
      BY <1>1 DEF EntriesKnown
    <3> QED
      BY <2>2, <3>1, NumberedEntry
  <2> QED
    BY <1>1, <1>2, <2>1, <2>2, ReplaceFinds
<1>4. m \in SUBSET Entries /\ EntriesKnown(seen, m)
  BY <1>3 DEF EntriesKnown
<1> QED
  BY <1>4, TruncateStep DEF SavePull, At

\* What Upsert returns: for each path a copy of what it has found.
LEMMA UpsertFinds ==
    ASSUME NEW m \in SUBSET Entries, NEW S \in SUBSET Entries,
           NEW old \in Lookups(m), NEW new \in Lookups(S), NEW e \in Upsert(old, new)
    PROVE  \E p \in Paths : \E f \in m \cup S :
             /\ f = (IF new[p] = None THEN old[p] ELSE new[p]) /\ f \in Entries /\ f.local = p
             /\ First \in Copies /\ e = Numbered(f, First)
<1>1. PICK p \in Paths : /\ new[p] # None \/ old[p] # None
                         /\ e = Numbered(IF new[p] = None THEN old[p] ELSE new[p], First)
  BY DEF Upsert
<1>2. First \in Copies
  BY SyncAssumption
<1> QED
  BY <1>1, <1>2, LookupFinds

\* SavePush keeps the invariant.
LEMMA SavePushStep ==
    ASSUME SyncInv, NEW k \in Commands, SavePush(k) PROVE SyncInv'
<1>1. PICK old \in Lookups(run[k].loaded), new \in Lookups(run[k].entries) :
        Truncate(k, Upsert(old, new))
  BY DEF SavePush
<1>2. /\ run[k].loaded \in SUBSET Entries /\ EntriesKnown(seen, run[k].loaded)
      /\ run[k].entries \in SUBSET Entries /\ EntriesKnown(seen, run[k].entries)
  BY Running DEF RunType, Honest
<1>3. ASSUME NEW e \in Upsert(old, new) PROVE e \in Entries /\ KnownIn(seen, e.local, e.hash)
  <2>1. PICK f \in run[k].loaded \cup run[k].entries :
          f \in Entries /\ First \in Copies /\ e = Numbered(f, First)
    BY <1>2, UpsertFinds
  <2>2. KnownIn(seen, f.local, f.hash)
    BY <1>2 DEF EntriesKnown
  <2> QED
    BY <2>1, <2>2, NumberedEntry
<1>4. Upsert(old, new) \in SUBSET Entries /\ EntriesKnown(seen, Upsert(old, new))
  BY <1>3 DEF EntriesKnown
<1> QED
  BY <1>1, <1>4, TruncateStep DEF SavePush, At

\* What UpdateEntries returns: entries as they were, and copies of new ones.
LEMMA UpdateFinds ==
    ASSUME NEW m \in SUBSET Entries, NEW S \in SUBSET Entries, NEW f \in Lookups(S),
           NEW e \in UpdateEntries(m, f)
    PROVE  \/ e \in m /\ f[e.local] = None
           \/ \E g \in m, h \in S : /\ h = f[g.local] /\ h \in Entries /\ h.local = g.local
                                     /\ g.local \in Paths /\ g.copy \in Copies
                                     /\ e = Numbered(h, g.copy)
<1>1. \A g \in m : g.local \in Paths /\ g.copy \in Copies
  BY DEF Entries
<1> QED
  BY <1>1, LookupFinds DEF UpdateEntries

\* Updating entries of known hashes with entries of known hashes.
LEMMA UpdateKnown ==
    ASSUME NEW s, NEW m \in SUBSET Entries, EntriesKnown(s, m),
           NEW S \in SUBSET Entries, EntriesKnown(s, S), NEW f \in Lookups(S)
    PROVE  UpdateEntries(m, f) \in SUBSET Entries /\ EntriesKnown(s, UpdateEntries(m, f))
<1>1. ASSUME NEW e \in UpdateEntries(m, f) PROVE e \in Entries /\ KnownIn(s, e.local, e.hash)
  <2>1. CASE e \in m
    BY <2>1 DEF EntriesKnown
  <2>2. ASSUME NEW h \in S, NEW c \in Copies, e = Numbered(h, c)
        PROVE  e \in Entries /\ KnownIn(s, e.local, e.hash)
    <3>1. h \in Entries /\ KnownIn(s, h.local, h.hash)
      BY DEF EntriesKnown
    <3> QED
      BY <2>2, <3>1, NumberedEntry
  <2> QED
    BY <2>1, <2>2, UpdateFinds
<1> QED
  BY <1>1 DEF EntriesKnown

\* SaveDematerialized keeps the invariant.
LEMMA SaveDematerializedStep ==
    ASSUME SyncInv, NEW k \in Commands, SaveDematerialized(k) PROVE SyncInv'
<1>1. PICK new \in Lookups(run[k].entries) : Truncate(k, UpdateEntries(run[k].loaded, new))
  BY DEF SaveDematerialized
<1>2. /\ run[k].loaded \in SUBSET Entries /\ EntriesKnown(seen, run[k].loaded)
      /\ run[k].entries \in SUBSET Entries /\ EntriesKnown(seen, run[k].entries)
  BY Running DEF RunType, Honest
<1> QED
  BY <1>1, <1>2, UpdateKnown, TruncateStep DEF SaveDematerialized, At

\* SaveHook keeps the invariant.
LEMMA SaveHookStep ==
    ASSUME SyncInv, NEW k \in Commands, SaveHook(k) PROVE SyncInv'
<1>1. run[k].loaded \in SUBSET Entries /\ EntriesKnown(seen, run[k].loaded)
  BY Running DEF RunType, Honest
<1> QED
  BY <1>1, TruncateStep DEF SaveHook, At

\* LoadForPush keeps the invariant.
LEMMA LoadForPushStep ==
    ASSUME SyncInv, NEW k \in Commands, LoadForPush(k) PROVE SyncInv'
<1> DEFINE r == [run[k] EXCEPT !.pc = "save", !.loaded = manifest]
<1>1. run[k] \in RunType /\ run[k].inv \in Invocations
  BY Running DEF LoadForPush, At
<1>2. Typed(r)
  BY <1>1, KnownData DEF Typed, RunType, Shape
<1>3. Honest(r, seen) /\ Safe(r, seen, local)
  BY KnownData, Running DEF RunType, Honest, Safe, Forced
<1> QED
  BY <1>2, <1>3, LocalStep DEF LoadForPush, Good

\* WriteManifest keeps the invariant.
LEMMA WriteManifestStep ==
    ASSUME SyncInv, NEW k \in Commands, WriteManifest(k) PROVE SyncInv'
<1>1. run[k].loaded \in SUBSET Entries /\ EntriesKnown(seen, run[k].loaded)
  BY Running DEF RunType, Honest
<1>2. manifest' = run[k].loaded /\ edited' \subseteq edited /\ UNCHANGED <<remote, local, seen>>
  BY DEF WriteManifest
<1>3. Grows /\ Keeps /\ Data'
  BY <1>1, <1>2 DEF Grows, Keeps, SyncInv, Data
<1> QED
  BY <1>3, NoRunGood, StepGood DEF WriteManifest, Finish

-----------------------------------------------------------------------------
(* Visiting entries: dematerialize and hook *)

\* The record after entry e has been visited and new is kept.
LEMMA VisitedGood ==
    ASSUME SyncInv, NEW k \in Commands, run[k].pc = "entries", NEW e \in run[k].todo,
           NEW new \in Entries, KnownIn(seen, new.local, new.hash),
           Visited(k, e, new), Keeps, UNCHANGED seen, Data'
    PROVE  SyncInv'
<1> DEFINE r == [run[k] EXCEPT !.todo = @ \ {e}, !.entries = @ \cup {new}]
<1>1. Grows
  BY DEF Grows
<1>2. run[k] \in RunType /\ Typed(run[k]) /\ Honest(run[k], seen)
  BY Running
<1>3. r \in RunType
  BY <1>2 DEF RunType
<1>4. Shape(r)
  BY <1>2 DEF Typed, RunType, Shape
<1>5. Honest(r, seen)
  BY <1>2 DEF RunType, Honest, EntriesKnown
<1>6. Safe(r, seen, local)
  BY Running DEF RunType, Safe, Forced
<1>7. Good(r, seen', local')
  BY <1>1, <1>3, <1>4, <1>5, <1>6, GoodStays DEF Good, Typed
<1> QED
  BY <1>1, <1>7, StepGood DEF Visited

\* The entries still to be visited.
LEMMA ToVisit ==
    ASSUME SyncInv, NEW k \in Commands, NEW e \in run[k].todo
    PROVE  e \in Entries /\ e.local \in Paths /\ KnownIn(seen, e.local, e.hash)
BY Running DEF RunType, Honest, EntriesKnown, Entries

\* Dematerialize keeps the invariant.
LEMMA DematerializeStep ==
    ASSUME SyncInv, NEW k \in Commands, NEW e \in run[k].todo, Dematerialize(k, e) PROVE SyncInv'
<1> DEFINE new == [e EXCEPT !.mat = FALSE]
<1>1. new \in Entries /\ KnownIn(seen, new.local, new.hash)
  BY ToVisit DEF Entries
<1>2. Keeps /\ Data'
  BY ToVisit DEF Keeps, SyncInv, Data, Dematerialize
<1>3. run[k].pc = "entries" /\ Visited(k, e, new) /\ UNCHANGED seen
  BY DEF Dematerialize, At, Visited
<1> QED
  BY <1>1, <1>2, <1>3, VisitedGood

\* VisitEntries keeps the invariant.
LEMMA VisitEntriesStep ==
    ASSUME SyncInv, NEW k \in Commands, VisitEntries(k) PROVE SyncInv'
<1> DEFINE r == [run[k] EXCEPT !.pc = "entries", !.todo = EntriesUnder(run[k].loaded, run[k].root)]
<1>1. run[k].pc = "cat" /\ ~Idle(k) /\ \A p \in run[k].nodes : run[k].got[p] # None
  BY DEF VisitEntries, At, Collected
<1>2. r \in RunType
  BY Running DEF RunType, EntriesUnder
<1>3. Shape(r)
  BY <1>1, Running DEF RunType, Shape
<1>4. Honest(r, seen) /\ Safe(r, seen, local)
  BY Running DEF RunType, Honest, EntriesKnown, EntriesUnder, Safe, Forced
<1> QED
  BY <1>2, <1>3, <1>4, LocalStep DEF VisitEntries, Good, Typed

\* KeepEntry keeps the invariant.
LEMMA KeepEntryStep ==
    ASSUME SyncInv, NEW k \in Commands, NEW e \in run[k].todo, KeepEntry(k, e) PROVE SyncInv'
<1>1. Keeps /\ Data'
  BY DEF Keeps, SyncInv, Data, KeepEntry
<1> QED
  BY <1>1, ToVisit, VisitedGood DEF KeepEntry, At

\* The new entry of a remote file that has been collected.
LEMMA RenewedKnown ==
    ASSUME SyncInv, NEW k \in Commands, NEW e \in Entries, run[k].got[e.local] # None,
           run[k].root \in Roots
    PROVE  Renewed(k, e) \in Entries /\ KnownIn(seen, e.local, Renewed(k, e).hash)
           /\ Renewed(k, e).local = e.local
<1>1. e.local \in Paths /\ e.mat \in BOOLEAN
  BY DEF Entries
<1>2. run[k].got[e.local] \in Files /\ KnownIn(seen, e.local, run[k].got[e.local].hash)
  BY <1>1, Running DEF RunType, Honest
<1> QED
  BY <1>1, <1>2, FirstCopy DEF Renewed, EntryFor, Entries, Files

\* RenewEntry keeps the invariant.
LEMMA RenewEntryStep ==
    ASSUME SyncInv, NEW k \in Commands, NEW e \in run[k].todo, RenewEntry(k, e) PROVE SyncInv'
<1>1. Keeps /\ Data'
  BY DEF Keeps, SyncInv, Data, RenewEntry
<1>2. run[k].pc = "entries" /\ run[k].inv.cmd = "hook" /\ e.local \in run[k].nodes
  BY DEF RenewEntry, At
<1>3. run[k].got[e.local] # None /\ run[k].root \in Roots
  BY <1>2, ToVisit, Running DEF Typed, Shape
<1>4. Renewed(k, e) \in Entries /\ KnownIn(seen, Renewed(k, e).local, Renewed(k, e).hash)
  BY <1>3, ToVisit, RenewedKnown
<1> QED
  BY <1>1, <1>2, <1>4, VisitedGood DEF RenewEntry

\* Overwrite keeps the invariant.
LEMMA OverwriteStep ==
    ASSUME SyncInv, NEW k \in Commands, NEW e \in run[k].todo, Overwrite(k, e) PROVE SyncInv'
<1> DEFINE change == [act |-> "materialize", content |-> run[k].got[e.local].content, entry |-> e]
           r == [run[k] EXCEPT !.pc = "overwrite", !.plan = [@ EXCEPT ![e.local] = change]]
<1>1. run[k].pc = "entries" /\ run[k].inv.cmd = "hook" /\ e.local \in run[k].nodes /\ Unedited(e)
  BY DEF Overwrite, At
<1>2. e \in Entries /\ e.local \in Paths /\ KnownIn(seen, e.local, e.hash)
  BY ToVisit
<1>3. run[k].got[e.local] \in Files /\ ContentKnown(seen, e.local, run[k].got[e.local].content)
  BY <1>1, <1>2, Running DEF Typed, Shape, RunType, Honest
<1>4. change \in Changes
  BY <1>2, <1>3 DEF Changes, Files
<1>5. r \in RunType
  <2>1. run[k] \in RunType
    BY Running
  <2> HIDE DEF change
  <2>2. [run[k].plan EXCEPT ![e.local] = change] \in [Paths -> Changes \cup {None}]
    BY <1>2, <1>4, <2>1 DEF RunType
  <2> QED
    BY <2>1, <2>2 DEF RunType
<1>6. Shape(r)
  BY <1>1, <1>2, Running DEF RunType, Typed, Shape, Idle
<1>7. Honest(r, seen)
  BY <1>2, <1>3, Running DEF RunType, Honest, ChangeHonest
<1>8. local[e.local] \in seen[e.local]
  BY <1>1, <1>2 DEF Unedited, KnownIn, HashContent
<1>9. Safe(r, seen, local)
  BY <1>2, <1>8, Running DEF RunType, Safe, Forced
<1> QED
  BY <1>5, <1>6, <1>7, <1>9, LocalStep DEF Overwrite, Good, Typed

\* The record after the hook has dealt with the file it had to overwrite.
LEMMA OverwrittenGood ==
    ASSUME SyncInv, NEW k \in Commands, At(k, "hook", "overwrite"),
           NEW p \in Paths, run[k].plan[p] # None,
           NEW new \in Entries, KnownIn(seen, new.local, new.hash),
           Becomes(k, [run[k] EXCEPT !.pc = "entries", !.plan = [@ EXCEPT ![p] = None],
                         !.todo = @ \ {run[k].plan[p].entry}, !.entries = @ \cup {new}]),
           Keeps, UNCHANGED seen, Data'
    PROVE  SyncInv'
<1> DEFINE r == [run[k] EXCEPT !.pc = "entries", !.plan = [@ EXCEPT ![p] = None],
                   !.todo = @ \ {run[k].plan[p].entry}, !.entries = @ \cup {new}]
<1>1. Grows /\ run[k].pc = "overwrite" /\ run[k].inv.cmd = "hook" /\ ~Idle(k)
  BY DEF Grows, At
<1>2. run[k] \in RunType /\ Typed(run[k]) /\ Honest(run[k], seen)
  BY Running
<1>3. r \in RunType
  BY <1>2 DEF RunType
<1>4. Shape(r)
  BY <1>1, <1>2 DEF Typed, RunType, Shape
<1>5. Honest(r, seen)
  BY <1>2 DEF RunType, Honest, EntriesKnown
<1>6. Safe(r, seen, local)
  BY Running DEF RunType, Safe, Forced
<1>7. Good(r, seen', local')
  BY <1>1, <1>3, <1>4, <1>5, <1>6, GoodStays DEF Good, Typed
<1> QED
  BY <1>1, <1>7, StepGood

\* What the hook is about to overwrite.
LEMMA ToOverwrite ==
    ASSUME SyncInv, NEW k \in Commands, At(k, "hook", "overwrite"), NEW p \in Paths,
           run[k].plan[p] # None
    PROVE  /\ run[k].plan[p].entry \in Entries /\ run[k].plan[p].entry.local = p
           /\ KnownIn(seen, p, run[k].plan[p].entry.hash)
           /\ run[k].plan[p].content \in Contents /\ ContentKnown(seen, p, run[k].plan[p].content)
           /\ run[k].plan[p].act = "materialize" /\ ~Forced(run[k])
           /\ run[k].got[p] # None /\ run[k].root \in Roots
<1>1. run[k].pc = "overwrite" /\ run[k].inv.cmd = "hook"
  BY DEF At
<1>2. run[k].plan[p] \in Changes /\ ChangeHonest(run[k].plan[p], p, seen)
  BY Running DEF RunType, Honest
<1> QED
  BY <1>1, <1>2, Running DEF Typed, Shape, Changes, ChangeHonest, Forced

\* HookWrite keeps the invariant.
LEMMA HookWriteStep ==
    ASSUME SyncInv, NEW k \in Commands, NEW p \in Paths, HookWrite(k, p) PROVE SyncInv'
<1> DEFINE change  == run[k].plan[p]
           content == HookContent(k, p)
           done(new) == Becomes(k, [run[k] EXCEPT !.pc = "entries", !.plan = [@ EXCEPT ![p] = None],
                               !.todo = @ \ {change.entry}, !.entries = @ \cup {new}])
<1>1. At(k, "hook", "overwrite") /\ change # None
  BY DEF HookWrite
<1>2. ASSUME done(change.entry), UNCHANGED <<local, edited>> PROVE SyncInv'
  <2>1. Keeps /\ Data' /\ UNCHANGED seen
    BY <1>2 DEF Keeps, SyncInv, Data, HookWrite
  <2>2. change.entry \in Entries /\ KnownIn(seen, change.entry.local, change.entry.hash)
    BY <1>1, ToOverwrite
  <2> QED
    BY <1>1, <1>2, <2>1, <2>2, OverwrittenGood
<1>3. ASSUME content # None, WriteFile(p, content), done(Renewed(k, change.entry)) PROVE SyncInv'
  <2>1. content \in Contents /\ content \in seen[p]
    BY <1>1, <1>3, ToOverwrite DEF HookContent, ContentKnown, SyncInv, Data
  <2>2. Keeps /\ Data' /\ UNCHANGED seen
    BY <1>3, <2>1 DEF WriteFile, Keeps, SyncInv, Data, HookWrite
  <2>3. /\ Renewed(k, change.entry) \in Entries
        /\ KnownIn(seen, Renewed(k, change.entry).local, Renewed(k, change.entry).hash)
    BY <1>1, ToOverwrite, RenewedKnown
  <2> QED
    BY <1>1, <1>3, <2>2, <2>3, OverwrittenGood
<1> QED
  BY <1>2, <1>3 DEF HookWrite

\* FinishRoot keeps the invariant.
LEMMA FinishRootStep ==
    ASSUME SyncInv, NEW k \in Commands, FinishRoot(k) PROVE SyncInv'
<1> DEFINE paths == {q \in run[k].nodes : EntriesAt(run[k].loaded, q) = {}}
           new == {EntryFor(k, p, run[k].got[p].hash, FALSE) : p \in paths}
<1>1. PICK f \in Lookups(run[k].entries \cup new) : LeaveRoot(k, UpdateEntries(run[k].loaded, f))
  BY DEF FinishRoot
<1>2. run[k].pc = "entries" /\ run[k].inv.cmd = "hook" /\ ~Idle(k)
  BY DEF FinishRoot, At
<1>3. /\ run[k].loaded \in SUBSET Entries /\ EntriesKnown(seen, run[k].loaded)
      /\ run[k].entries \in SUBSET Entries /\ EntriesKnown(seen, run[k].entries)
      /\ run[k].root \in Roots
  BY <1>2, Running DEF RunType, Honest
<1>4. ASSUME NEW p \in paths
      PROVE  /\ p \in Paths /\ run[k].got[p] \in Files
             /\ KnownIn(seen, p, run[k].got[p].hash)
  BY <1>2, Running DEF Typed, Shape, RunType, Honest
<1>5. new \in SUBSET Entries /\ EntriesKnown(seen, new)
  <2>1. ASSUME NEW p \in paths
        PROVE  LET e == EntryFor(k, p, run[k].got[p].hash, FALSE)
               IN  e \in Entries /\ KnownIn(seen, e.local, e.hash)
    BY <1>3, <1>4, FirstCopy DEF EntryFor, Entries, Files
  <2> QED
    BY <2>1 DEF EntriesKnown
<1>6. run[k].entries \cup new \in SUBSET Entries /\ EntriesKnown(seen, run[k].entries \cup new)
  BY <1>3, <1>5 DEF EntriesKnown
<1> HIDE DEF new
<1>7. /\ UpdateEntries(run[k].loaded, f) \in SUBSET Entries
      /\ EntriesKnown(seen, UpdateEntries(run[k].loaded, f))
  BY <1>3, <1>6, UpdateKnown
<1> QED
  BY <1>1, <1>2, <1>7, LeaveStep DEF FinishRoot

\* HookCallFails keeps the invariant.
LEMMA HookCallFailsStep ==
    ASSUME SyncInv, NEW k \in Commands, HookCallFails(k) PROVE SyncInv'
<1>1. ~Idle(k) /\ run[k].inv.cmd = "hook"
  BY DEF HookCallFails
<1>2. ASSUME Skipped(k) PROVE SyncInv'
  BY <1>1, <1>2, SkippedStep DEF HookCallFails
<1>3. ASSUME NEW p \in Paths, run[k].pc = "overwrite", run[k].plan[p] # None,
             Becomes(k, [run[k] EXCEPT !.pc = "entries", !.plan = [@ EXCEPT ![p] = None],
                 !.todo = @ \ {run[k].plan[p].entry},
                 !.entries = @ \cup {run[k].plan[p].entry}])
      PROVE  SyncInv'
  <2>1. At(k, "hook", "overwrite")
    BY <1>1, <1>3 DEF At
  <2>2. Keeps /\ Data' /\ UNCHANGED seen
    BY DEF Keeps, SyncInv, Data, HookCallFails
  <2>3. /\ run[k].plan[p].entry \in Entries
        /\ KnownIn(seen, run[k].plan[p].entry.local, run[k].plan[p].entry.hash)
    BY <1>3, <2>1, ToOverwrite
  <2> QED
    BY <1>3, <2>1, <2>2, <2>3, OverwrittenGood
<1> QED
  BY <1>2, <1>3 DEF HookCallFails

-----------------------------------------------------------------------------
(* Steps of the others *)

\* Other users and the edits of the user keep the invariant.
LEMMA EnvironmentStep ==
    ASSUME SyncInv, NEW p \in Paths, NEW x \in Contents \cup {None},
           RemoteWrite(p, x) \/ LocalEdit(p, x)
    PROVE  SyncInv'
<1>1. CASE RemoteWrite(p, x)
  <2>1. Grows /\ Keeps /\ Data'
    BY <1>1, SetRemoteData DEF RemoteWrite
  <2>2. run' = run
    BY <1>1 DEF RemoteWrite
  <2> QED
    BY <2>1, <2>2, GoodStays DEF SyncInv
<1>2. CASE LocalEdit(p, x)
  <2>1. Grows /\ Data' /\ UNCHANGED run
    BY <1>2 DEF LocalEdit, Grows, SyncInv, Data
  <2>2. ASSUME NEW k \in Commands PROVE Good(run[k], seen', local')
    <3>1. Typed(run[k]) /\ Honest(run[k], seen')
      BY <2>1, Running, KnownStays DEF Grows
    <3>2. ASSUME ~LocalBusy PROVE run[k] = NoRun
      BY <1>2, <3>1, <3>2 DEF LocalEdit, AllIdle, Idle, Typed, Shape
    <3>3. Safe(run[k], seen', local')
      BY <3>2 DEF Safe, NoRun
    <3> QED
      BY <3>1, <3>3 DEF Good
  <2> QED
    BY <2>1, <2>2 DEF SyncInv
<1> QED
  BY <1>1, <1>2

\* A step of a running command keeps the invariant.
LEMMA ProceedStep ==
    ASSUME SyncInv, NEW k \in Commands, Proceed(k) PROVE SyncInv'
<1>1. ASSUME NEW p \in Paths,
             \/ CatRemote(k, p) \/ Accept(k, p) \/ PushConflict(k, p)
             \/ Materialize(k, p) \/ PushFile(k, p) \/ HookWrite(k, p)
      PROVE  SyncInv'
  <2>1. CASE PushConflict(k, p)
    BY <2>1, PushStep DEF PushConflict
  <2>2. CASE PushFile(k, p)
    BY <2>2, PushStep DEF PushFile
  <2> QED
    BY <1>1, <2>1, <2>2, CatRemoteStep, AcceptStep, MaterializeStep, HookWriteStep
<1>2. ASSUME NEW e \in run[k].todo,
             Dematerialize(k, e) \/ KeepEntry(k, e) \/ RenewEntry(k, e) \/ Overwrite(k, e)
      PROVE  SyncInv'
  BY <1>2, DematerializeStep, KeepEntryStep, RenewEntryStep, OverwriteStep
<1> QED
  BY <1>1, <1>2, NextRootStep, ListRemoteStep, HashRemoteStep, PlanPullStep, SavePullStep,
     WriteManifestStep, LoadForPushStep, SavePushStep, SaveDematerializedStep, VisitEntriesStep,
     FinishRootStep, SaveHookStep DEF Proceed

\* The initial states.
LEMMA SyncInvInit == ASSUME Init PROVE SyncInv
<1>1. NoRun \in RunType
  BY NoRunGood DEF Good, Typed
<1> QED
  BY <1>1, NoRunGood, SyncAssumption DEF Init, SyncInv, Data, EntriesKnown

\* Every step of the specification keeps the invariant.
LEMMA SyncInvStep == ASSUME SyncInv, [Next]_vars PROVE SyncInv'
<1>1. CASE Environment
  BY <1>1, EnvironmentStep DEF Environment
<1>2. ASSUME NEW k \in Commands, Start(k) PROVE SyncInv'
  BY <1>2, StartPullStep, StartHookStep, ScanLocalStep, StartDematerializeStep DEF Start
<1>3. ASSUME NEW k \in Commands, Fail(k) PROVE SyncInv'
  BY <1>3, FinishStep DEF Fail
<1>4. CASE UNCHANGED vars
  BY <1>4 DEF vars, SyncInv, Data
<1> QED
  BY <1>1, <1>2, <1>3, <1>4, ProceedStep, HookCallFailsStep DEF Next

\* The inductive invariant holds in every state.
THEOREM SyncInvariant == Spec => []SyncInv
BY SyncInvInit, SyncInvStep, PTL DEF Spec

\* The state of a workspace keeps its types, whatever commands interleave.
THEOREM SyncTyped == Spec => []TypeOK
<1>1. SyncInv => TypeOK
  BY DEF SyncInv, Data, TypeOK, RunType
<1> QED
  BY <1>1, SyncInvariant, PTL

\* No command, failing halfway or beside others, records a hash that the
\* document never had.
THEOREM BaselinesAreRemote == Spec => []BaselineWasRemote
<1>1. SyncInv => BaselineWasRemote
  BY DEF SyncInv, Data, EntriesKnown, KnownIn, BaselineWasRemote, Recorded
<1> QED
  BY <1>1, SyncInvariant, PTL

\* A step that loses an unpushed content is the user's, or one of the commands
\* that are asked to.
LEMMA EditsSurviveStep ==
    ASSUME SyncInv, ~LocalBusy, [Next]_vars, NEW p \in Paths, Unpushed(p), local'[p] # local[p]
    PROVE  LocalEdit(p, local'[p]) \/ \E k \in Commands : Discards(k, p)
<1>1. CASE Environment
  <2>1. PICK q \in Paths, x \in Contents \cup {None} : RemoteWrite(q, x) \/ LocalEdit(q, x)
    BY <1>1 DEF Environment
  <2>2. LocalEdit(q, x)
    BY <2>1 DEF RemoteWrite
  <2>3. q = p /\ local'[p] = x
    BY <2>2 DEF LocalEdit, SyncInv, Data
  <2> QED
    BY <2>2, <2>3
<1>2. ASSUME NEW k \in Commands, Start(k) \/ Fail(k) \/ HookCallFails(k) PROVE FALSE
  BY <1>2 DEF Start, StartPull, StartHook, ScanLocal, StartDematerialize, Fail, HookCallFails
<1>3. ASSUME NEW k \in Commands, Proceed(k) PROVE Discards(k, p)
  <2>1. ASSUME NEW q \in Paths, Materialize(k, q) PROVE Discards(k, p)
    <3>1. q = p
      BY <2>1 DEF Materialize, WriteFile, SyncInv, Data
    <3>2. run[k].plan[p] # None /\ run[k].plan[p].act = "materialize"
      BY <2>1, <3>1 DEF Materialize, Planned
    <3>3. Forced(run[k])
      BY <3>2, Running DEF Safe, Unpushed
    <3> QED
      BY <2>1, <3>1, <3>3 DEF Discards, Forced
  <2>2. ASSUME NEW q \in Paths, HookWrite(k, q) PROVE FALSE
    <3>1. q = p
      BY <2>2 DEF HookWrite, WriteFile, SyncInv, Data
    <3>2. At(k, "hook", "overwrite") /\ run[k].plan[p] # None
      BY <2>2, <3>1 DEF HookWrite
    <3>3. run[k].plan[p].act = "materialize" /\ ~Forced(run[k])
      BY <3>2, ToOverwrite
    <3> QED
      BY <3>2, <3>3, Running DEF Safe, Unpushed
  <2>3. ASSUME NEW e \in run[k].todo, Dematerialize(k, e) PROVE Discards(k, p)
    <3>1. e.local = p
      BY <2>3, ToVisit DEF Dematerialize, SyncInv, Data
    <3> QED
      BY <2>3, <3>1 DEF Discards
  <2>4. CASE UNCHANGED local
    BY <2>4
  <2> QED
    BY <1>3, <2>1, <2>2, <2>3, <2>4
       DEF Proceed, NextRoot, ListRemote, HashRemote, PlanPull, SavePull, Truncate, WriteManifest,
           LoadForPush, SavePush, SaveDematerialized, VisitEntries, FinishRoot, SaveHook,
           CatRemote, Accept, PushConflict, PushFile, KeepEntry, RenewEntry, Overwrite
<1> QED
  BY <1>1, <1>2, <1>3 DEF Next, vars

\* Where no file is edited under a running command, a content that was never
\* uploaded is lost only to pull --force-remote and to dematerialize.
THEOREM EditsAreKept == ASSUME ~LocalBusy PROVE Spec => EditsSurvive
<1>1. SyncInv /\ [Next]_vars =>
        [\A p \in Paths : Unpushed(p) /\ local'[p] # local[p] =>
            \/ LocalEdit(p, local'[p])
            \/ \E k \in Commands : Discards(k, p)]_vars
  BY EditsSurviveStep
<1> QED
  BY <1>1, SyncInvariant, PTL DEF Spec, EditsSurvive

-----------------------------------------------------------------------------
(* One entry of a path                                                     *)
(*                                                                         *)
(* The manifest is a list.  Upsert leaves one entry of a path whatever it  *)
(* is given, UpdateEntries as many as there were.  ReplaceUnder adds the   *)
(* entries of a pull to what it keeps: it needs to know that a pull        *)
(* records one entry of a path, and that nothing else under the root is    *)
(* kept.  That is so when no two roots overlap, as every entry is of a     *)
(* path under the root it was recorded for.  Tidy says so of the record    *)
(* of a command.                                                           *)

RootsApart == \A r, s \in Roots : r # s => Under[r] \cap Under[s] = {}

Single(S) == \A e, f \in S : e.local = f.local => e = f

\* The entry of a mount is of a document under it.
Rooted(S) == \A e \in S : e.local \in Under[e.mount]

Sound(S) == Rooted(S) /\ (RootsApart => Single(S))

\* A pull that applies its plan: a path has a change or an entry, not both.
OwnEntries(r) ==
    /\ Single(r.entries)
    /\ \A e \in r.entries : e.mount = r.root /\ e.local \in Under[r.root] /\ r.plan[e.local] = None
    /\ \A p \in Paths : r.plan[p] # None =>
         p \in Under[r.root] /\ r.plan[p].entry.local = p /\ r.plan[p].entry.mount = r.root

Listed(r) == r.pc \in {"hashes", "cat"} \/ (r.pc \in {"entries", "overwrite"} /\ r.inv.cmd = "hook")

PlanRooted(r) == \A p \in Paths : r.plan[p] # None => p \in Under[r.plan[p].entry.mount]

Tidy(r) ==
    /\ Sound(r.loaded) /\ Rooted(r.entries) /\ Rooted(r.todo) /\ PlanRooted(r)
    /\ r.pc \in {"next", "list", "hashes", "cat"} => r.entries = {}
    /\ Listed(r) => r.nodes \subseteq Under[r.root]
    /\ r.pc = "apply" /\ r.inv.cmd = "pull" => OwnEntries(r)

TidyInv == Sound(manifest) /\ \A k \in Commands : Tidy(run[k])

-----------------------------------------------------------------------------
(* What the manifest's operations leave *)

\* Upsert leaves one entry of each path.
LEMMA UpsertSound ==
    ASSUME NEW m \in SUBSET Entries, Rooted(m), NEW S \in SUBSET Entries, Rooted(S),
           NEW old \in Lookups(m), NEW new \in Lookups(S)
    PROVE  Sound(Upsert(old, new))
<1> DEFINE pick(p) == IF new[p] = None THEN old[p] ELSE new[p]
<1>1. ASSUME NEW e \in Upsert(old, new)
      PROVE  /\ e = Numbered(pick(e.local), First)
             /\ e.local \in Under[e.mount]
  <2>1. PICK p \in Paths, f \in m \cup S :
          f = pick(p) /\ f \in Entries /\ f.local = p /\ First \in Copies /\ e = Numbered(f, First)
    BY UpsertFinds
  <2>2. e.local = p /\ e.mount = f.mount
    BY <2>1, NumberedEntry
  <2> QED
    BY <2>1, <2>2 DEF Rooted
<1>2. Single(Upsert(old, new))
  BY <1>1 DEF Single
<1> QED
  BY <1>1, <1>2 DEF Sound, Rooted

\* UpdateEntries leaves one entry of each path where there was one.
LEMMA UpdateSound ==
    ASSUME NEW m \in SUBSET Entries, Sound(m), NEW S \in SUBSET Entries, Rooted(S),
           NEW f \in Lookups(S)
    PROVE  Sound(UpdateEntries(m, f))
<1>1. ASSUME NEW e \in UpdateEntries(m, f)
      PROVE  /\ e.local \in Under[e.mount]
             /\ \E g \in m : /\ g.local = e.local
                             /\ e = IF f[g.local] = None THEN g ELSE Numbered(f[g.local], g.copy)
  <2>1. CASE e \in m /\ f[e.local] = None
    BY <2>1 DEF Sound, Rooted
  <2>2. ASSUME NEW g \in m, NEW h \in S, h = f[g.local], h \in Entries, h.local = g.local,
               g.copy \in Copies, e = Numbered(h, g.copy)
        PROVE  /\ e.local \in Under[e.mount]
               /\ \E x \in m : /\ x.local = e.local
                               /\ e = IF f[x.local] = None THEN x ELSE Numbered(f[x.local], x.copy)
    <3>1. e.local = g.local /\ e.mount = h.mount
      BY <2>2, NumberedEntry
    <3>2. h # None
      BY <2>2, SyncAssumption
    <3> QED
      BY <2>2, <3>1, <3>2 DEF Rooted
  <2> QED
    BY <2>1, <2>2, UpdateFinds
<1>2. ASSUME Single(m) PROVE Single(UpdateEntries(m, f))
  BY <1>1, <1>2 DEF Single
<1> QED
  BY <1>1, <1>2 DEF Sound, Rooted

\* ReplaceUnder leaves one entry of each path when it is given the entries of
\* a pull that has applied its plan, and no two roots overlap.
LEMMA ReplaceSound ==
    ASSUME NEW r \in RunType, r.root \in Roots, Sound(r.loaded), OwnEntries(r),
           Room(r.loaded, r.root, r.entries)
    PROVE  Sound(ReplaceUnder(r.loaded, r.root, r.entries))
<1> DEFINE m == ReplaceUnder(r.loaded, r.root, r.entries)
           copy(f) == NextCopy(Kept(r.loaded, r.root), f.local)
<1>1. r.loaded \in SUBSET Entries /\ r.entries \in SUBSET Entries
  BY DEF RunType
<1>2. ASSUME NEW e \in m
      PROVE  \/ e \in r.loaded /\ e \in Kept(r.loaded, r.root)
             \/ \E f \in r.entries : copy(f) \in Copies /\ e = Numbered(f, copy(f))
  BY <1>1, ReplaceFinds
<1>3. ASSUME NEW f \in r.entries, copy(f) \in Copies
      PROVE  /\ Numbered(f, copy(f)).local = f.local /\ Numbered(f, copy(f)).mount = r.root
             /\ f.local \in Under[r.root]
  BY <1>1, <1>3, NumberedEntry DEF OwnEntries
<1>4. Rooted(m)
  <2> SUFFICES ASSUME NEW e \in m PROVE e.local \in Under[e.mount]
    BY DEF Rooted
  <2>1. CASE e \in r.loaded
    BY <2>1 DEF Sound, Rooted
  <2>2. CASE \E f \in r.entries : copy(f) \in Copies /\ e = Numbered(f, copy(f))
    BY <1>3, <2>2
  <2> QED
    BY <1>2, <2>1, <2>2
<1>5. ASSUME RootsApart PROVE Single(m)
  <2>1. ASSUME NEW e \in r.loaded, e \in Kept(r.loaded, r.root) PROVE e.local \notin Under[r.root]
    <3>1. e.local \in Under[e.mount] /\ e.mount \in Roots
      BY <1>1 DEF Sound, Rooted, Entries
    <3> QED
      BY <1>5, <2>1, <3>1 DEF Kept, RootsApart
  <2>2. ASSUME NEW e \in m, NEW g \in m, e.local = g.local PROVE e = g
    <3>1. CASE e \in r.loaded /\ g \in r.loaded
      BY <1>5, <2>2, <3>1 DEF Sound, Single
    <3>2. ASSUME NEW f \in r.entries, NEW h \in r.entries, copy(f) \in Copies, copy(h) \in Copies,
                 e = Numbered(f, copy(f)), g = Numbered(h, copy(h))
          PROVE  e = g
      <4>1. f.local = h.local
        BY <1>3, <2>2, <3>2
      <4>2. f = h
        BY <4>1 DEF OwnEntries, Single
      <4> QED
        BY <3>2, <4>2
    <3> QED
      BY <1>2, <1>3, <2>1, <2>2, <3>1, <3>2
  <2> QED
    BY <2>2 DEF Single
<1> QED
  BY <1>4, <1>5 DEF Sound

-----------------------------------------------------------------------------
(* Steps *)

\* The locals of an idle command are tidy.
LEMMA NoRunTidy == Tidy(NoRun)
BY DEF Tidy, Sound, Rooted, Single, PlanRooted, Listed, NoRun

\* A step of a command that leaves a tidy record and a tidy manifest.
LEMMA TidyStep ==
    ASSUME SyncInv, TidyInv, NEW k \in Commands, NEW r, Tidy(r), Becomes(k, r), Sound(manifest')
    PROVE  TidyInv'
<1>1. ASSUME NEW j \in Commands PROVE Tidy(run'[j])
  BY DEF Becomes, SyncInv, TidyInv
<1> QED
  BY <1>1 DEF TidyInv

\* A step that leaves the manifest, and a record as tidy as before.
LEMMA SameTidy ==
    ASSUME SyncInv, TidyInv, NEW k \in Commands, NEW r, Becomes(k, r), UNCHANGED manifest,
           Tidy(r)
    PROVE  TidyInv'
BY TidyStep DEF TidyInv

\* The manifest is truncated, to be written with one entry of a path.
LEMMA TruncateTidy ==
    ASSUME SyncInv, TidyInv, NEW k \in Commands, NEW m, Sound(m), Truncate(k, m) PROVE TidyInv'
<1> DEFINE r == [run[k] EXCEPT !.pc = "write", !.loaded = m]
<1>1. Tidy(r)
  BY Running DEF RunType, TidyInv, Tidy, PlanRooted, Listed
<1>2. Sound(manifest')
  BY DEF Truncate, Sound, Rooted, Single
<1> QED
  BY <1>1, <1>2, TidyStep DEF Truncate

\* A hook that leaves a root.
LEMMA LeaveTidy ==
    ASSUME SyncInv, TidyInv, NEW k \in Commands, NEW m, Sound(m), LeaveRoot(k, m),
           UNCHANGED manifest
    PROVE  TidyInv'
<1> DEFINE r == [NoRun EXCEPT !.inv = run[k].inv, !.pc = "next", !.roots = run[k].roots, !.loaded = m]
<1>1. Tidy(r)
  BY DEF Tidy, Rooted, PlanRooted, Listed, NoRun
<1> QED
  BY <1>1, SameTidy DEF LeaveRoot

\* A command that ends, or skips a root.
LEMMA EndTidy ==
    ASSUME SyncInv, TidyInv, NEW k \in Commands, Finish(k) \/ Skipped(k), UNCHANGED manifest
    PROVE  TidyInv'
<1>1. CASE Finish(k)
  BY <1>1, NoRunTidy, SameTidy DEF Finish
<1>2. CASE LeaveRoot(k, run[k].loaded)
  BY <1>2, LeaveTidy DEF TidyInv, Tidy
<1> QED
  BY <1>1, <1>2 DEF Skipped

\* A command starts.
LEMMA StartTidy ==
    ASSUME SyncInv, TidyInv, NEW k \in Commands, Start(k) PROVE TidyInv'
<1>1. PICK i \in Invocations :
        StartPull(k, i) \/ StartHook(k, i) \/ ScanLocal(k, i) \/ StartDematerialize(k, i)
  BY DEF Start
<1>2. CASE StartPull(k, i)
  <2>1. Tidy([NoRun EXCEPT !.inv = i, !.pc = "list", !.root = i.root, !.loaded = manifest])
    BY DEF Tidy, Rooted, PlanRooted, Listed, NoRun, TidyInv
  <2> QED
    BY <1>2, <2>1, SameTidy DEF StartPull
<1>3. CASE StartHook(k, i)
  <2>1. Tidy([NoRun EXCEPT !.inv = i, !.pc = "next", !.roots = Mounts, !.loaded = manifest])
    BY DEF Tidy, Rooted, PlanRooted, Listed, NoRun, TidyInv
  <2> QED
    BY <1>3, <2>1, SameTidy DEF StartHook
<1>4. CASE ScanLocal(k, i)
  <2> DEFINE there == {p \in Under[i.root] : local[p] # None}
             scanned(p) == [act |-> "push", content |-> local[p],
                            entry |-> [local |-> p, mount |-> i.root,
                                       hash |-> HashContent(local[p]), mat |-> TRUE,
                                       copy |-> First]]
             plan == [p \in Paths |-> IF p \in there THEN scanned(p) ELSE None]
             r == [NoRun EXCEPT !.inv = i, !.pc = "apply", !.root = i.root, !.plan = plan]
  <2>1. \A p \in Paths : plan[p] # None => p \in Under[plan[p].entry.mount]
    OBVIOUS
  <2>2. Becomes(k, r) /\ i.cmd = "push" /\ UNCHANGED manifest
    BY <1>4 DEF ScanLocal
  <2> HIDE DEF plan
  <2>3. Tidy(r)
    BY <2>1, <2>2 DEF Tidy, Sound, Rooted, Single, PlanRooted, Listed, NoRun
  <2> QED
    BY <2>2, <2>3, SameTidy
<1>5. CASE StartDematerialize(k, i)
  <2>1. Tidy([NoRun EXCEPT !.inv = i, !.pc = "entries", !.root = i.root,
                           !.loaded = manifest, !.todo = EntriesUnder(manifest, i.root)])
    BY DEF Tidy, Sound, Rooted, PlanRooted, Listed, NoRun, TidyInv, EntriesUnder
  <2> QED
    BY <1>5, <2>1, SameTidy DEF StartDematerialize
<1> QED
  BY <1>1, <1>2, <1>3, <1>4, <1>5

\* The remote files of a root are collected: they lie under it.
LEMMA CollectTidy ==
    ASSUME SyncInv, TidyInv, NEW k \in Commands,
           \/ NextRoot(k) \/ ListRemote(k) \/ HashRemote(k) \/ VisitEntries(k)
           \/ \E p \in Paths : CatRemote(k, p)
    PROVE  TidyInv'
<1>1. run[k] \in RunType /\ Tidy(run[k])
  BY Running DEF TidyInv
<1>2. CASE NextRoot(k)
  <2>1. PICK root \in run[k].roots :
          Becomes(k, [run[k] EXCEPT !.pc = "list", !.root = root, !.roots = @ \ {root}])
    BY <1>2 DEF NextRoot
  <2>2. Tidy([run[k] EXCEPT !.pc = "list", !.root = root, !.roots = @ \ {root}])
    BY <1>1, <1>2 DEF Tidy, PlanRooted, Listed, RunType, NextRoot, At
  <2> QED
    BY <1>2, <2>1, <2>2, SameTidy DEF NextRoot
<1>3. CASE ListRemote(k)
  <2> DEFINE there == {p \in Under[run[k].root] : remote[p] # None}
  <2>1. CASE Skipped(k)
    BY <1>3, <2>1, EndTidy DEF ListRemote
  <2>2. ASSUME NEW base,
               Becomes(k, [run[k] EXCEPT !.pc = "hashes", !.nodes = there, !.base = base])
        PROVE  TidyInv'
    <3>1. Tidy([run[k] EXCEPT !.pc = "hashes", !.nodes = there, !.base = base])
      BY <1>1, <1>3 DEF Tidy, PlanRooted, Listed, RunType, ListRemote
    <3> QED
      BY <1>3, <2>2, <3>1, SameTidy DEF ListRemote
  <2> QED
    BY <1>3, <2>1, <2>2 DEF ListRemote
<1>4. CASE HashRemote(k)
  <2>1. PICK got : Becomes(k, [run[k] EXCEPT !.pc = "cat", !.got = got])
    BY <1>4 DEF HashRemote
  <2>2. Tidy([run[k] EXCEPT !.pc = "cat", !.got = got])
    BY <1>1, <1>4 DEF Tidy, PlanRooted, Listed, RunType, HashRemote
  <2> QED
    BY <1>4, <2>1, <2>2, SameTidy DEF HashRemote
<1>5. CASE VisitEntries(k)
  <2> DEFINE todo == EntriesUnder(run[k].loaded, run[k].root)
  <2>1. Becomes(k, [run[k] EXCEPT !.pc = "entries", !.todo = todo])
    BY <1>5 DEF VisitEntries
  <2>2. Rooted(todo) /\ run[k].pc = "cat"
    BY <1>1, <1>5 DEF Tidy, Sound, Rooted, EntriesUnder, VisitEntries, At
  <2> HIDE DEF todo
  <2>3. Tidy([run[k] EXCEPT !.pc = "entries", !.todo = todo])
    BY <1>1, <2>2 DEF Tidy, PlanRooted, Listed, RunType
  <2> QED
    BY <1>5, <2>1, <2>3, SameTidy DEF VisitEntries
<1>6. ASSUME NEW p \in Paths, CatRemote(k, p) PROVE TidyInv'
  <2>1. CASE Skipped(k)
    BY <1>6, <2>1, EndTidy DEF CatRemote
  <2>2. ASSUME NEW got, Becomes(k, [run[k] EXCEPT !.got = got]) PROVE TidyInv'
    <3>1. Tidy([run[k] EXCEPT !.got = got])
      BY <1>1, <1>6 DEF Tidy, PlanRooted, Listed, RunType, CatRemote
    <3> QED
      BY <1>6, <2>2, <3>1, SameTidy DEF CatRemote
  <2> QED
    BY <1>6, <2>1, <2>2 DEF CatRemote
<1> QED
  BY <1>2, <1>3, <1>4, <1>5, <1>6

\* The changes of a plan are for the files listed, with entries of the root.
LEMMA PlanTidy ==
    ASSUME SyncInv, TidyInv, NEW k \in Commands, PlanPull(k) PROVE TidyInv'
<1> DEFINE plan == [p \in Paths |-> IF p \in run[k].nodes THEN Change(k, p) ELSE None]
           r == [run[k] EXCEPT !.pc = "apply", !.plan = plan]
<1>1. run[k].pc = "cat" /\ UNCHANGED manifest
  BY DEF PlanPull, At
<1>2. run[k] \in RunType /\ Tidy(run[k])
  BY Running DEF TidyInv
<1>3. CASE Finish(k)
  BY <1>1, <1>3, EndTidy
<1>4. CASE Becomes(k, r)
  <2>1. \A p \in Paths : plan[p] # None =>
          /\ p \in Under[run[k].root]
          /\ plan[p].entry.local = p /\ plan[p].entry.mount = run[k].root
    BY <1>1, <1>2 DEF Change, EntryFor, Tidy, Listed
  <2> HIDE DEF plan
  <2>2. Tidy(r)
    BY <1>1, <1>2, <2>1 DEF Tidy, OwnEntries, Single, PlanRooted, Listed, RunType
  <2> QED
    BY <1>1, <1>4, <2>2, SameTidy
<1> QED
  BY <1>3, <1>4 DEF PlanPull

\* A change is applied: its entry takes its place.
LEMMA AppliedTidy ==
    ASSUME SyncInv, TidyInv, NEW k \in Commands, NEW p \in Paths, run[k].pc = "apply",
           run[k].plan[p] # None, Applied(k, p), UNCHANGED manifest
    PROVE  TidyInv'
<1> DEFINE entry == run[k].plan[p].entry
           r == [run[k] EXCEPT !.plan = [@ EXCEPT ![p] = None], !.entries = @ \cup {entry}]
<1>1. run[k] \in RunType /\ Tidy(run[k])
  BY Running DEF TidyInv
<1>2. /\ r.loaded = run[k].loaded /\ r.pc = "apply" /\ r.inv = run[k].inv /\ r.root = run[k].root
      /\ r.entries = run[k].entries \cup {entry}
      /\ r.plan = [run[k].plan EXCEPT ![p] = None]
      /\ run[k].plan \in [Paths -> Changes \cup {None}]
      /\ run[k].entries \in SUBSET Entries
  BY <1>1 DEF RunType
<1>3. ASSUME OwnEntries(run[k]) PROVE OwnEntries(r)
  <2>1. entry.local = p /\ entry.mount = run[k].root /\ p \in Under[run[k].root]
    BY <1>3 DEF OwnEntries
  <2>2. \A e \in run[k].entries : e.local # p
    BY <1>3 DEF OwnEntries
  <2> HIDE DEF entry, r
  <2>3. Single(r.entries)
    BY <1>2, <1>3, <2>1, <2>2 DEF OwnEntries, Single
  <2>4. \A e \in r.entries : e.local \in Paths /\ e.mount = r.root /\ e.local \in Under[r.root]
    BY <1>2, <1>3, <2>1 DEF OwnEntries, Entries
  <2>5. \A e \in r.entries : r.plan[e.local] = None
    BY <1>2, <1>3, <2>1, <2>4 DEF OwnEntries
  <2> QED
    BY <1>2, <1>3, <2>3, <2>4, <2>5 DEF OwnEntries
<1>4. PlanRooted(r) /\ Rooted(r.entries)
  <2>1. entry.local = p /\ p \in Under[entry.mount]
    BY <1>1, Running DEF Honest, ChangeHonest, Tidy, PlanRooted
  <2> QED
    BY <1>1, <1>2, <2>1 DEF Tidy, Rooted, PlanRooted
<1>5. r.todo = run[k].todo
  BY <1>1 DEF RunType
<1> HIDE DEF r
<1>6. Tidy(r)
  BY <1>1, <1>2, <1>3, <1>4, <1>5 DEF Tidy, Listed
<1> QED
  BY <1>6, SameTidy DEF Applied, r

\* Entries are visited, by dematerialize or by a hook.
LEMMA VisitTidy ==
    ASSUME SyncInv, TidyInv, NEW k \in Commands, NEW r, Becomes(k, r), UNCHANGED manifest,
           run[k].pc \in {"entries", "overwrite"}, r.pc \in {"entries", "overwrite"},
           r.inv = run[k].inv, r.root = run[k].root, r.loaded = run[k].loaded,
           r.nodes = run[k].nodes, r.todo \subseteq run[k].todo, Rooted(r.entries), PlanRooted(r)
    PROVE  TidyInv'
<1>1. Tidy(r)
  BY DEF Tidy, Rooted, Listed, TidyInv
<1> QED
  BY <1>1, SameTidy

\* An entry has been visited, and new is kept for it.
LEMMA VisitedTidy ==
    ASSUME SyncInv, TidyInv, NEW k \in Commands, run[k].pc \in {"entries", "overwrite"},
           NEW e, NEW new, new.local \in Under[new.mount], NEW plan,
           plan = run[k].plan \/ \E p \in Paths : plan = [run[k].plan EXCEPT ![p] = None],
           Becomes(k, [run[k] EXCEPT !.pc = "entries", !.plan = plan, !.todo = @ \ {e},
                                     !.entries = @ \cup {new}]),
           UNCHANGED manifest
    PROVE  TidyInv'
<1> DEFINE r == [run[k] EXCEPT !.pc = "entries", !.plan = plan, !.todo = @ \ {e},
                                     !.entries = @ \cup {new}]
<1>1. run[k] \in RunType /\ Tidy(run[k])
  BY Running DEF TidyInv
<1>2. /\ r.pc = "entries" /\ r.inv = run[k].inv /\ r.root = run[k].root /\ r.loaded = run[k].loaded
      /\ r.nodes = run[k].nodes /\ r.todo = run[k].todo \ {e} /\ r.plan = plan
      /\ r.entries = run[k].entries \cup {new} /\ run[k].plan \in [Paths -> Changes \cup {None}]
  BY <1>1 DEF RunType
<1>3. Rooted(r.entries)
  BY <1>1, <1>2 DEF Tidy, Rooted
<1>4. PlanRooted(r)
  BY <1>1, <1>2 DEF Tidy, PlanRooted
<1> HIDE DEF r
<1> QED
  BY <1>2, <1>3, <1>4, VisitTidy DEF r

\* The manifest is saved by one of its operations.
LEMMA SaveTidy ==
    ASSUME SyncInv, TidyInv, NEW k \in Commands,
           \/ SavePull(k) \/ SavePush(k) \/ SaveDematerialized(k) \/ SaveHook(k) \/ FinishRoot(k)
    PROVE  TidyInv'
<1>1. /\ run[k].loaded \in SUBSET Entries /\ run[k].entries \in SUBSET Entries
      /\ Sound(run[k].loaded) /\ Rooted(run[k].loaded) /\ Rooted(run[k].entries)
      /\ run[k] \in RunType /\ Tidy(run[k])
  BY Running DEF RunType, TidyInv, Tidy, Sound
<1>2. CASE SavePull(k)
  <2>1. run[k].pc = "apply" /\ run[k].inv.cmd = "pull" /\ run[k].root \in Roots
    BY <1>2, Running DEF SavePull, At
  <2>2. Sound(ReplaceUnder(run[k].loaded, run[k].root, run[k].entries))
    BY <1>1, <1>2, <2>1, ReplaceSound DEF SavePull, Room, Tidy
  <2> QED
    BY <1>2, <2>2, TruncateTidy DEF SavePull
<1>3. CASE SavePush(k)
  <2>1. PICK old \in Lookups(run[k].loaded), new \in Lookups(run[k].entries) :
          Truncate(k, Upsert(old, new))
    BY <1>3 DEF SavePush
  <2> QED
    BY <1>1, <2>1, UpsertSound, TruncateTidy
<1>4. CASE SaveDematerialized(k)
  <2>1. PICK new \in Lookups(run[k].entries) : Truncate(k, UpdateEntries(run[k].loaded, new))
    BY <1>4 DEF SaveDematerialized
  <2> QED
    BY <1>1, <2>1, UpdateSound, TruncateTidy
<1>5. CASE SaveHook(k)
  BY <1>1, <1>5, TruncateTidy DEF SaveHook
<1>6. CASE FinishRoot(k)
  <2> DEFINE paths == {q \in run[k].nodes : EntriesAt(run[k].loaded, q) = {}}
             new == {EntryFor(k, p, run[k].got[p].hash, FALSE) : p \in paths}
  <2>1. PICK f \in Lookups(run[k].entries \cup new) : LeaveRoot(k, UpdateEntries(run[k].loaded, f))
    BY <1>6 DEF FinishRoot
  <2>2. run[k].pc = "entries" /\ run[k].inv.cmd = "hook" /\ UNCHANGED manifest
    BY <1>6 DEF FinishRoot, At
  <2>3. ASSUME NEW p \in paths
        PROVE  LET e == EntryFor(k, p, run[k].got[p].hash, FALSE)
               IN  e \in Entries /\ e.local \in Under[e.mount]
    <3>1. p \in Paths /\ run[k].got[p] \in Files /\ run[k].root \in Roots /\ p \in Under[run[k].root]
      BY <1>1, <2>2, Running DEF Typed, Shape, RunType, Tidy, Listed
    <3> QED
      BY <3>1, FirstCopy DEF EntryFor, Entries, Files
  <2>4. run[k].entries \cup new \in SUBSET Entries /\ Rooted(run[k].entries \cup new)
    BY <1>1, <2>3 DEF Rooted
  <2> HIDE DEF new
  <2>5. Sound(UpdateEntries(run[k].loaded, f))
    BY <1>1, <2>4, UpdateSound
  <2> QED
    BY <2>1, <2>2, <2>5, LeaveTidy
<1> QED
  BY <1>2, <1>3, <1>4, <1>5, <1>6

\* A step of a running command.
LEMMA ProceedTidy ==
    ASSUME SyncInv, TidyInv, NEW k \in Commands, Proceed(k) PROVE TidyInv'
<1>1. run[k] \in RunType /\ Tidy(run[k])
  BY Running DEF TidyInv
<1>2. CASE WriteManifest(k)
  <2>1. Sound(manifest')
    BY <1>1, <1>2 DEF WriteManifest, Tidy
  <2> QED
    BY <1>2, <2>1, NoRunTidy, TidyStep DEF WriteManifest, Finish
<1>3. CASE LoadForPush(k)
  <2>1. Tidy([run[k] EXCEPT !.pc = "save", !.loaded = manifest])
    BY <1>1, <1>3 DEF LoadForPush, At, Tidy, PlanRooted, Listed, RunType, TidyInv
  <2> QED
    BY <1>3, <2>1, SameTidy DEF LoadForPush
<1>4. ASSUME NEW p \in Paths, Accept(k, p) \/ PushConflict(k, p) \/ Materialize(k, p) \/ PushFile(k, p)
      PROVE  TidyInv'
  <2>1. run[k].pc = "apply" /\ run[k].plan[p] # None /\ UNCHANGED manifest
    BY <1>4 DEF Accept, PushConflict, Materialize, PushFile, Planned
  <2>2. Applied(k, p) \/ Finish(k)
    BY <1>4 DEF Accept, PushConflict, Materialize, PushFile
  <2> QED
    BY <2>1, <2>2, AppliedTidy, EndTidy
<1>5. ASSUME NEW p \in Paths, HookWrite(k, p) PROVE TidyInv'
  <2> DEFINE e == run[k].plan[p].entry
             plan == [run[k].plan EXCEPT ![p] = None]
  <2>1. At(k, "hook", "overwrite") /\ run[k].plan[p] # None /\ UNCHANGED manifest
    BY <1>5 DEF HookWrite
  <2>2. /\ e \in Entries /\ e.local = p /\ p \in run[k].nodes /\ run[k].root \in Roots
        /\ run[k].pc = "overwrite" /\ run[k].inv.cmd = "hook"
    BY <2>1, ToOverwrite, Running DEF Typed, Shape, At
  <2>3. e.local \in Under[e.mount] /\ p \in Under[run[k].root]
    BY <1>1, <2>1, <2>2 DEF Tidy, PlanRooted, Listed
  <2>4. Renewed(k, e).local = p /\ Renewed(k, e).mount = run[k].root
    BY <2>2 DEF Renewed, EntryFor
  <2>5. PICK new \in {e, Renewed(k, e)} :
          Becomes(k, [run[k] EXCEPT !.pc = "entries", !.plan = plan, !.todo = @ \ {e},
                                    !.entries = @ \cup {new}])
    BY <1>5 DEF HookWrite
  <2>6. new.local \in Under[new.mount]
    BY <2>3, <2>4, <2>5
  <2> QED
    BY <2>1, <2>2, <2>5, <2>6, VisitedTidy
<1>6. ASSUME NEW e \in run[k].todo, Dematerialize(k, e) \/ KeepEntry(k, e) \/ RenewEntry(k, e)
      PROVE  TidyInv'
  <2>1. run[k].pc = "entries" /\ UNCHANGED manifest
    BY <1>6 DEF Dematerialize, KeepEntry, RenewEntry, At
  <2>2. e \in Entries /\ e.local \in Under[e.mount]
    BY <1>1, ToVisit DEF Tidy, Rooted
  <2>3. [run[k] EXCEPT !.pc = "entries", !.plan = run[k].plan] = run[k]
    BY <1>1, <2>1 DEF RunType
  <2>4. ASSUME NEW new, new.local \in Under[new.mount],
               Becomes(k, [run[k] EXCEPT !.todo = @ \ {e}, !.entries = @ \cup {new}])
        PROVE  TidyInv'
    <3>1. [run[k] EXCEPT !.todo = @ \ {e}, !.entries = @ \cup {new}]
            = [run[k] EXCEPT !.pc = "entries", !.plan = run[k].plan, !.todo = @ \ {e},
                             !.entries = @ \cup {new}]
      BY <1>1, <2>1 DEF RunType
    <3> QED
      BY <2>1, <2>4, <3>1, VisitedTidy
  <2>5. CASE Dematerialize(k, e)
    <3>1. [e EXCEPT !.mat = FALSE].local = e.local /\ [e EXCEPT !.mat = FALSE].mount = e.mount
      BY <2>2 DEF Entries
    <3> QED
      BY <2>2, <2>4, <2>5, <3>1 DEF Dematerialize
  <2>6. CASE KeepEntry(k, e)
    BY <2>2, <2>4, <2>6 DEF KeepEntry, Visited
  <2>7. CASE RenewEntry(k, e)
    <3>1. e.local \in Under[run[k].root]
      BY <1>1, <2>7 DEF RenewEntry, At, Tidy, Listed
    <3>2. Renewed(k, e).local = e.local /\ Renewed(k, e).mount = run[k].root
      BY DEF Renewed, EntryFor
    <3> QED
      BY <2>4, <2>7, <3>1, <3>2 DEF RenewEntry, Visited
  <2> QED
    BY <1>6, <2>5, <2>6, <2>7
<1>7. ASSUME NEW e \in run[k].todo, Overwrite(k, e) PROVE TidyInv'
  <2> DEFINE change == [act |-> "materialize", content |-> run[k].got[e.local].content, entry |-> e]
             plan == [run[k].plan EXCEPT ![e.local] = change]
             r == [run[k] EXCEPT !.pc = "overwrite", !.plan = plan]
  <2>1. run[k].pc = "entries" /\ run[k].inv.cmd = "hook" /\ Becomes(k, r) /\ UNCHANGED manifest
    BY <1>7 DEF Overwrite, At
  <2>2. e.local \in Paths /\ e.local \in Under[e.mount]
    BY <1>1, ToVisit DEF Tidy, Rooted
  <2>3. /\ r.pc = "overwrite" /\ r.inv = run[k].inv /\ r.root = run[k].root /\ r.loaded = run[k].loaded
        /\ r.nodes = run[k].nodes /\ r.todo = run[k].todo /\ r.entries = run[k].entries /\ r.plan = plan
        /\ run[k].plan \in [Paths -> Changes \cup {None}]
    BY <1>1 DEF RunType
  <2> HIDE DEF r
  <2>4. PlanRooted(r)
    BY <1>1, <2>2, <2>3 DEF Tidy, PlanRooted
  <2>5. Rooted(r.entries)
    BY <1>1, <2>3 DEF Tidy
  <2> QED
    BY <2>1, <2>3, <2>4, <2>5, VisitTidy
<1> QED
  BY <1>2, <1>3, <1>4, <1>5, <1>6, <1>7, CollectTidy, PlanTidy, SaveTidy DEF Proceed

\* A call of a hook that fails.
LEMMA HookCallFailsTidy ==
    ASSUME SyncInv, TidyInv, NEW k \in Commands, HookCallFails(k) PROVE TidyInv'
<1>1. UNCHANGED manifest
  BY DEF HookCallFails
<1>2. CASE Skipped(k)
  BY <1>1, <1>2, EndTidy
<1>3. ASSUME NEW p \in Paths, run[k].pc = "overwrite", run[k].plan[p] # None, run[k].inv.cmd = "hook",
             Becomes(k, [run[k] EXCEPT !.pc = "entries", !.plan = [@ EXCEPT ![p] = None],
                 !.todo = @ \ {run[k].plan[p].entry},
                 !.entries = @ \cup {run[k].plan[p].entry}])
      PROVE  TidyInv'
  <2> DEFINE e == run[k].plan[p].entry
  <2>1. e.local = p /\ Tidy(run[k])
    BY <1>3, ToOverwrite DEF At, Idle, TidyInv
  <2>2. e.local \in Under[e.mount]
    BY <1>3, <2>1 DEF Tidy, PlanRooted
  <2> HIDE DEF e
  <2> QED
    BY <1>1, <1>3, <2>2, VisitedTidy DEF e
<1> QED
  BY <1>2, <1>3 DEF HookCallFails

\* Every step keeps records and manifest tidy.
LEMMA TidyInvStep == ASSUME SyncInv, TidyInv, [Next]_vars PROVE TidyInv'
<1>1. CASE Environment \/ UNCHANGED vars
  BY <1>1 DEF Environment, RemoteWrite, LocalEdit, vars, TidyInv
<1>2. ASSUME NEW k \in Commands, Fail(k) PROVE TidyInv'
  BY <1>2, EndTidy DEF Fail
<1> QED
  BY <1>1, <1>2, StartTidy, ProceedTidy, HookCallFailsTidy DEF Next

\* With entries that are tidy, whatever roots commands are given.
THEOREM TidyInvariant == Spec => []TidyInv
<1>1. Init => TidyInv
  BY NoRunTidy DEF Init, TidyInv, Sound, Rooted, Single
<1> QED
  BY <1>1, SyncInvariant, TidyInvStep, PTL DEF Spec

\* Where no two roots overlap, the list of the manifest never holds two entries
\* of one path, whatever commands interleave, fail or are killed.
THEOREM EntriesAreSingle == ASSUME RootsApart PROVE Spec => []OneEntryPerPath
<1>1. TidyInv => OneEntryPerPath
  BY DEF TidyInv, Sound, Single, OneEntryPerPath
<1> QED
  BY <1>1, TidyInvariant, PTL
=============================================================================
