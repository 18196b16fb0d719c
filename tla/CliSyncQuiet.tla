----------------------------- MODULE CliSyncQuiet -----------------------------
(***************************************************************************)
(* What a command may rely on when it runs alone: no other command, and    *)
(* no user who writes files or documents meanwhile.  Proved for every set  *)
(* of documents, roots and command lines: what is recorded as materialized *)
(* is what the local file holds (SavedEntriesHold), also when commands     *)
(* fail or are killed; and where no command is cut off between the files   *)
(* and the manifest and no two roots overlap, a materialized file is in    *)
(* conflict only if the user has edited it (ConflictsAreEdits), whatever   *)
(* options commands are given and whatever calls of a hook fail.           *)
(*                                                                         *)
(* Held says of the record of a command how it matches the documents and   *)
(* the local files; Followed says which entries of materialized files      *)
(* still tell what is in them.                                             *)
(***************************************************************************)
EXTENDS CliSyncProofs

Alone == ~LocalBusy /\ ~RemoteBusy /\ \A k, j \in Commands : k = j

\* The commands that run a statement.
Labelled(r) ==
    /\ r.pc \in {"list", "hashes", "cat"} => r.inv.cmd \in {"pull", "hook"}
    /\ r.pc = "apply" => r.inv.cmd \in {"pull", "push"}
    /\ r.pc = "save" => r.inv.cmd = "push"
    /\ r.pc = "entries" => r.inv.cmd \in {"hook", "dematerialize"}
    /\ r.pc \in {"next", "overwrite"} => r.inv.cmd = "hook"

\* The local file of an entry, or a collected file, is as it says.
Holds(e, l) == l[e.local] # None /\ HashContent(l[e.local]) = e.hash
FileHeld(file, x) == x # None /\ file.hash = HashContent(x) /\ file.content \in {Empty, x}

\* A change of a path with the local content x and the document y.
ChangeHeld(c, x, y) ==
    /\ c.act = "push" => c.content = x
    /\ c.act = "accept" /\ c.entry.mat => x # None /\ c.entry.hash = HashContent(x)
    /\ c.act = "materialize" => y # None /\ c.entry.hash = HashContent(y) /\ c.content \in {Empty, y}

HookVisits(r) == r.pc \in {"entries", "overwrite"} /\ r.inv.cmd = "hook"

Held(r, l, m) ==
    /\ Labelled(r)
    /\ r.pc \in {"hashes", "cat"} \/ HookVisits(r) => \A p \in r.nodes : m[p] # None
    /\ r.pc = "cat" \/ HookVisits(r) => \A p \in r.nodes : r.got[p] # None => FileHeld(r.got[p], m[p])
    /\ r.pc = "apply" => \A p \in Paths : r.plan[p] # None =>
         ChangeHeld(r.plan[p], l[p], m[p]) /\ (r.inv.cmd = "push" => r.plan[p].act = "push")
    /\ r.pc \in {"apply", "save", "write"} /\ r.inv.cmd \in {"pull", "push"} =>
         \A e \in r.entries : e.mat => Holds(e, l)
    /\ r.pc \in {"entries", "write"} /\ r.inv.cmd = "dematerialize" => \A e \in r.entries : ~e.mat
    /\ r.pc \in {"next", "write"} /\ r.inv.cmd = "hook" => r.entries = {}

QuietInv == \A k \in Commands : Held(run[k], local, remote)

\* No command is killed or ends by a failure, and no two roots overlap.
Unbroken == ~MayFail /\ RootsApart

\* A materialized file is what the entry says, unless the user has changed it.
Follows(e, l, ed) == e.mat => e.local \in ed \/ Holds(e, l)

\* Entries that are visited: each is followed before and after.
Visits(r, l, ed) ==
    /\ r.todo \subseteq r.loaded
    /\ \A e \in r.todo : Follows(e, l, ed)
    /\ \A e \in r.entries : Follows(e, l, ed)
    /\ \A e \in r.todo, f \in r.entries : e.local # f.local
    /\ \A e \in r.loaded : Follows(e, l, ed) \/ \E f \in r.entries : f.local = e.local

\* The one file that a hook overwrites.
Overwrites(r, m) ==
    /\ \A p, q \in Paths : r.plan[p] # None /\ r.plan[q] # None => p = q
    /\ \A p \in Paths : r.plan[p] # None =>
         /\ r.plan[p].entry \in r.todo /\ r.plan[p].entry.mat
         /\ m[p] # None /\ r.plan[p].content \in {Empty, m[p]}

Followed(r, l, m, ed) ==
    /\ r.pc \in {"next", "list", "hashes", "cat", "save", "write"} =>
         \A e \in r.loaded : Follows(e, l, ed)
    /\ r.pc \in {"hashes", "cat"} => \A p \in Paths : r.base[p] # None =>
         r.base[p] \in r.loaded /\ r.base[p].local = p
    /\ r.pc = "apply" /\ r.inv.cmd = "pull" =>
         \A e \in r.loaded : e.local \in Under[r.root] \/ Follows(e, l, ed)
    /\ r.pc \in {"entries", "overwrite"} => Visits(r, l, ed)
    /\ r.pc = "entries" => \A p \in Paths : r.plan[p] = None
    /\ r.pc = "overwrite" => Overwrites(r, m)

\* A command that has changed no file yet may still end without saving.
Harmless(r) ==
    \/ r.pc = "idle"
    \/ r.pc \in {"list", "hashes", "cat"} /\ r.inv.cmd = "pull"
    \/ r.pc = "apply" /\ r.inv.cmd = "push"

FollowInv == \A k \in Commands :
    /\ Followed(run[k], local, remote, edited)
    /\ Harmless(run[k]) => \A e \in manifest : Follows(e, local, edited)

-----------------------------------------------------------------------------
(* Files and documents as a command that runs alone finds them *)

\* The locals of an idle command match everything.
LEMMA NoRunHeld == ASSUME NEW l, NEW m PROVE Held(NoRun, l, m)
BY DEF Held, Labelled, HookVisits, NoRun

\* What is known of the record of a command.
LEMMA QuietRunning ==
    ASSUME SyncInv, QuietInv, NEW k \in Commands
    PROVE  /\ run[k] \in RunType /\ Held(run[k], local, remote)
           /\ run[k].pc = "idle" => run[k] = NoRun
           /\ run[k].pc # "idle" =>
                /\ run[k].inv \in Invocations
                /\ run[k].inv.cmd \in {"pull", "push", "dematerialize", "hook"}
<1>1. run[k].pc # "idle" => run[k].inv \in Invocations
  BY Running DEF Idle
<1>2. run[k].pc = "idle" => run[k] = NoRun
  BY Running DEF Typed, Shape
<1> QED
  BY <1>1, <1>2, Running, SyncAssumption DEF QuietInv, CommandLines

\* A step of the only command.
LEMMA QuietStep ==
    ASSUME Alone, SyncInv, NEW k \in Commands, NEW r, Becomes(k, r), Held(r, local', remote')
    PROVE  QuietInv'
<1>1. ASSUME NEW j \in Commands PROVE Held(run'[j], local', remote')
  BY DEF Becomes, SyncInv, Alone
<1> QED
  BY <1>1 DEF QuietInv

\* A step of the only command that changes no file and no document.
LEMMA QuietLocal ==
    ASSUME Alone, SyncInv, NEW k \in Commands, NEW r, Becomes(k, r), Held(r, local, remote),
           UNCHANGED <<remote, local>>
    PROVE  QuietInv'
BY QuietStep

\* A command that ends, or a hook that leaves a root.
LEMMA QuietEnd ==
    ASSUME Alone, SyncInv, NEW k \in Commands, Finish(k)
    PROVE  QuietInv'
<1>1. Held(NoRun, local', remote')
  BY NoRunHeld
<1> QED
  BY <1>1, QuietStep DEF Finish

LEMMA QuietLeave ==
    ASSUME Alone, SyncInv, NEW k \in Commands, run[k].inv.cmd = "hook", NEW m, LeaveRoot(k, m),
           UNCHANGED <<remote, local>>
    PROVE  QuietInv'
<1> DEFINE r == [NoRun EXCEPT !.inv = run[k].inv, !.pc = "next", !.roots = run[k].roots, !.loaded = m]
<1>1. Held(r, local, remote)
  BY DEF Held, Labelled, HookVisits, NoRun
<1> QED
  BY <1>1, QuietLocal DEF LeaveRoot

LEMMA QuietSkipped ==
    ASSUME Alone, SyncInv, NEW k \in Commands, Skipped(k), UNCHANGED <<remote, local>>
    PROVE  QuietInv'
BY QuietEnd, QuietLeave DEF Skipped

\* The manifest is truncated: what a command has recorded stays as it is.
LEMMA QuietTruncate ==
    ASSUME Alone, SyncInv, QuietInv, NEW k \in Commands, NEW m, Truncate(k, m),
           \/ run[k].inv.cmd \in {"pull", "push"} /\ run[k].pc \in {"apply", "save"}
           \/ run[k].inv.cmd = "dematerialize" /\ run[k].pc = "entries"
           \/ run[k].inv.cmd = "hook" /\ run[k].pc = "next"
    PROVE  QuietInv'
<1> DEFINE r == [run[k] EXCEPT !.pc = "write", !.loaded = m]
<1>1. Held(r, local, remote)
  BY QuietRunning DEF Held, Labelled, HookVisits, RunType
<1> QED
  BY <1>1, QuietLocal DEF Truncate

\* A command starts.
LEMMA QuietStart ==
    ASSUME Alone, SyncInv, QuietInv, NEW k \in Commands, Start(k) PROVE QuietInv'
<1>1. PICK i \in Invocations :
        StartPull(k, i) \/ StartHook(k, i) \/ ScanLocal(k, i) \/ StartDematerialize(k, i)
  BY DEF Start
<1>2. CASE StartPull(k, i)
  <2>1. Held([NoRun EXCEPT !.inv = i, !.pc = "list", !.root = i.root, !.loaded = manifest], local, remote)
    BY <1>2 DEF StartPull, Held, Labelled, HookVisits, NoRun
  <2> QED
    BY <1>2, <2>1, QuietLocal DEF StartPull
<1>3. CASE StartHook(k, i)
  <2>1. Held([NoRun EXCEPT !.inv = i, !.pc = "next", !.roots = Mounts, !.loaded = manifest], local, remote)
    BY <1>3 DEF StartHook, Held, Labelled, HookVisits, NoRun
  <2> QED
    BY <1>3, <2>1, QuietLocal DEF StartHook
<1>4. CASE ScanLocal(k, i)
  <2> DEFINE there == {p \in Under[i.root] : local[p] # None}
             scanned(p) == [act |-> "push", content |-> local[p],
                            entry |-> [local |-> p, mount |-> i.root,
                                       hash |-> HashContent(local[p]), mat |-> TRUE,
                                       copy |-> First]]
             plan == [p \in Paths |-> IF p \in there THEN scanned(p) ELSE None]
             r == [NoRun EXCEPT !.inv = i, !.pc = "apply", !.root = i.root, !.plan = plan]
  <2>1. \A p \in Paths : plan[p] # None => plan[p] = scanned(p)
    OBVIOUS
  <2>2. i.cmd = "push"
    BY <1>4 DEF ScanLocal
  <2>3. \A p \in Paths : plan[p] # None => ChangeHeld(plan[p], local[p], remote[p]) /\ plan[p].act = "push"
    BY <2>1 DEF ChangeHeld
  <2> HIDE DEF plan
  <2>4. Held(r, local, remote)
    BY <2>2, <2>3 DEF Held, Labelled, HookVisits, NoRun
  <2>5. Becomes(k, r) /\ UNCHANGED <<remote, local>>
    BY <1>4 DEF ScanLocal, plan
  <2> QED
    BY <2>4, <2>5, QuietLocal
<1>5. CASE StartDematerialize(k, i)
  <2>1. Held([NoRun EXCEPT !.inv = i, !.pc = "entries", !.root = i.root,
               !.loaded = manifest, !.todo = EntriesUnder(manifest, i.root)], local, remote)
    BY <1>5 DEF StartDematerialize, Held, Labelled, HookVisits, NoRun
  <2> QED
    BY <1>5, <2>1, QuietLocal DEF StartDematerialize
<1> QED
  BY <1>1, <1>2, <1>3, <1>4, <1>5

\* The remote files of a root are collected as they are.
LEMMA QuietCollect ==
    ASSUME Alone, SyncInv, QuietInv, NEW k \in Commands,
           \/ NextRoot(k) \/ ListRemote(k) \/ HashRemote(k) \/ VisitEntries(k)
           \/ \E p \in Paths : CatRemote(k, p)
    PROVE  QuietInv'
<1>1. run[k] \in RunType /\ Held(run[k], local, remote)
  BY QuietRunning
<1>2. CASE NextRoot(k)
  <2>1. PICK root \in run[k].roots :
          Becomes(k, [run[k] EXCEPT !.pc = "list", !.root = root, !.roots = @ \ {root}])
    BY <1>2 DEF NextRoot
  <2>2. Held([run[k] EXCEPT !.pc = "list", !.root = root, !.roots = @ \ {root}], local, remote)
    BY <1>1, <1>2 DEF NextRoot, At, Held, Labelled, HookVisits, RunType
  <2> QED
    BY <1>2, <2>1, <2>2, QuietLocal DEF NextRoot
<1>3. CASE ListRemote(k)
  <2> DEFINE there == {p \in Under[run[k].root] : remote[p] # None}
  <2>1. CASE Skipped(k)
    BY <1>3, <2>1, QuietSkipped DEF ListRemote
  <2>2. ASSUME NEW base,
               Becomes(k, [run[k] EXCEPT !.pc = "hashes", !.nodes = there, !.base = base])
        PROVE  QuietInv'
    <3>1. Held([run[k] EXCEPT !.pc = "hashes", !.nodes = there, !.base = base], local, remote)
      BY <1>1, <1>3 DEF ListRemote, Held, Labelled, HookVisits, RunType
    <3> QED
      BY <1>3, <2>2, <3>1, QuietLocal DEF ListRemote
  <2> QED
    BY <1>3, <2>1, <2>2 DEF ListRemote
<1>4. CASE HashRemote(k)
  <2> DEFINE same(p) == /\ p \in run[k].nodes /\ remote[p] # None /\ run[k].base[p] # None
                        /\ run[k].base[p].hash = HashContent(remote[p])
             got == [p \in Paths |-> IF same(p) THEN Unread(HashContent(remote[p])) ELSE None]
             r == [run[k] EXCEPT !.pc = "cat", !.got = got]
  <2>1. \A p \in Paths : got[p] # None => FileHeld(got[p], remote[p])
    BY DEF FileHeld, Unread
  <2>2. Becomes(k, r) /\ run[k].pc = "hashes" /\ UNCHANGED <<remote, local>>
    BY <1>4 DEF HashRemote
  <2> HIDE DEF got
  <2>3. Held(r, local, remote)
    BY <1>1, <2>1, <2>2 DEF Held, Labelled, HookVisits, RunType
  <2> QED
    BY <2>2, <2>3, QuietLocal
<1>5. CASE VisitEntries(k)
  <2> DEFINE r == [run[k] EXCEPT !.pc = "entries", !.todo = EntriesUnder(run[k].loaded, run[k].root)]
  <2>1. Becomes(k, r) /\ run[k].pc = "cat" /\ run[k].inv.cmd = "hook" /\ UNCHANGED <<remote, local>>
    BY <1>5 DEF VisitEntries, At
  <2>2. Held(r, local, remote)
    BY <1>1, <2>1 DEF Held, Labelled, HookVisits, RunType
  <2> QED
    BY <2>1, <2>2, QuietLocal
<1>6. ASSUME NEW p \in Paths, CatRemote(k, p) PROVE QuietInv'
  <2> DEFINE file == [content |-> remote[p], hash |-> HashContent(remote[p])]
             r == [run[k] EXCEPT !.got = [@ EXCEPT ![p] = file]]
  <2>1. CASE Skipped(k)
    BY <1>6, <2>1, QuietSkipped DEF CatRemote
  <2>2. CASE remote[p] # None /\ Becomes(k, r)
    <3>1. FileHeld(file, remote[p])
      BY <2>2 DEF FileHeld
    <3>2. run[k].pc = "cat" /\ UNCHANGED <<remote, local>>
      BY <1>6 DEF CatRemote
    <3> HIDE DEF file
    <3>3. Held(r, local, remote)
      BY <1>1, <3>1, <3>2 DEF Held, Labelled, HookVisits, RunType
    <3> QED
      BY <2>2, <3>2, <3>3, QuietLocal
  <2> QED
    BY <1>6, <2>1, <2>2 DEF CatRemote
<1> QED
  BY <1>2, <1>3, <1>4, <1>5, <1>6

\* A change of a plan matches the local file and the document.
LEMMA QuietChange ==
    ASSUME SyncInv, QuietInv, NEW k \in Commands, At(k, "pull", "cat"), Collected(k),
           NEW p \in run[k].nodes
    PROVE  ChangeHeld(Change(k, p), local[p], remote[p])
<1>1. p \in Paths /\ FileHeld(run[k].got[p], remote[p])
  BY QuietRunning DEF At, Collected, Held, RunType
<1>2. run[k].inv.materialize \in BOOLEAN
  BY Running, SyncAssumption DEF At, CommandLines
<1>3. CASE run[k].inv.force = "local" /\ InConflict(k, p)
  BY <1>3 DEF Change, ChangeHeld
<1>4. CASE ~(run[k].inv.force = "local" /\ InConflict(k, p))
  <2> DEFINE same == local[p] # None /\ HashContent(local[p]) = run[k].got[p].hash
             act == IF run[k].inv.materialize THEN "materialize" ELSE "accept"
  <2>1. Change(k, p) = [act |-> act, content |-> run[k].got[p].content,
                        entry |-> EntryFor(k, p, run[k].got[p].hash, run[k].inv.materialize \/ same)]
    BY <1>4 DEF Change
  <2>2. /\ Change(k, p).act = act /\ Change(k, p).content = run[k].got[p].content
        /\ Change(k, p).entry.hash = run[k].got[p].hash
        /\ Change(k, p).entry.mat = (run[k].inv.materialize \/ same)
    BY <2>1 DEF EntryFor
  <2> HIDE DEF HashContent
  <2>3. CASE run[k].inv.materialize
    BY <1>1, <2>2, <2>3 DEF FileHeld, ChangeHeld
  <2>4. CASE ~run[k].inv.materialize
    BY <2>2, <2>4 DEF ChangeHeld
  <2> QED
    BY <2>3, <2>4
<1> QED
  BY <1>3, <1>4

\* The plan of a pull matches the local files and the documents.
LEMMA QuietPlan ==
    ASSUME Alone, SyncInv, TidyInv, QuietInv, NEW k \in Commands, PlanPull(k) PROVE QuietInv'
<1> DEFINE plan == [p \in Paths |-> IF p \in run[k].nodes THEN Change(k, p) ELSE None]
           r == [run[k] EXCEPT !.pc = "apply", !.plan = plan]
<1>1. /\ At(k, "pull", "cat") /\ Collected(k) /\ UNCHANGED <<remote, local>>
      /\ run[k].pc = "cat" /\ run[k].inv.cmd = "pull"
  BY DEF PlanPull, At
<1>2. CASE Finish(k)
  BY <1>2, QuietEnd
<1>3. CASE Becomes(k, r)
  <2>1. \A p \in Paths : plan[p] # None => ChangeHeld(plan[p], local[p], remote[p])
    BY <1>1, QuietChange
  <2>2. run[k].entries = {} /\ run[k] \in RunType
    BY <1>1, QuietRunning DEF TidyInv, Tidy
  <2> HIDE DEF plan
  <2>3. Held(r, local, remote)
    BY <1>1, <2>1, <2>2 DEF Held, Labelled, HookVisits, RunType
  <2> QED
    BY <1>1, <1>3, <2>3, QuietLocal
<1> QED
  BY <1>2, <1>3 DEF PlanPull

\* A change of path p is applied: p has a file and an entry that agree with it,
\* and other files and documents stay as they are.
LEMMA QuietApplied ==
    ASSUME Alone, SyncInv, TidyInv, QuietInv, NEW k \in Commands, NEW p \in Paths,
           run[k].pc = "apply", run[k].plan[p] # None, Applied(k, p),
           \A q \in Paths \ {p} : local'[q] = local[q] /\ remote'[q] = remote[q],
           run[k].plan[p].entry.mat => Holds(run[k].plan[p].entry, local'),
           run[k].inv.cmd = "push" => UNCHANGED local
    PROVE  QuietInv'
<1> DEFINE entry == run[k].plan[p].entry
           r == [run[k] EXCEPT !.plan = [@ EXCEPT ![p] = None], !.entries = @ \cup {entry}]
<1>1. run[k] \in RunType /\ Held(run[k], local, remote) /\ run[k].inv.cmd \in {"pull", "push"}
  BY QuietRunning DEF Held, Labelled
<1>2. /\ r.pc = "apply" /\ r.inv = run[k].inv /\ r.entries = run[k].entries \cup {entry}
      /\ r.plan = [run[k].plan EXCEPT ![p] = None]
      /\ run[k].plan \in [Paths -> Changes \cup {None}]
      /\ run[k].entries \in SUBSET Entries
  BY <1>1 DEF RunType
<1>3. \A q \in Paths : r.plan[q] # None => q # p /\ r.plan[q] = run[k].plan[q]
  BY <1>2
<1>4. \A q \in Paths : r.plan[q] # None =>
        ChangeHeld(r.plan[q], local'[q], remote'[q]) /\ (r.inv.cmd = "push" => r.plan[q].act = "push")
  BY <1>1, <1>2, <1>3 DEF Held
<1>5. ASSUME NEW e \in run[k].entries, e.mat PROVE Holds(e, local')
  <2>1. Holds(e, local) /\ e.local \in Paths
    BY <1>1, <1>2, <1>5 DEF Held, Entries
  <2>2. CASE run[k].inv.cmd = "push"
    BY <2>1, <2>2 DEF Holds
  <2>3. CASE run[k].inv.cmd = "pull"
    <3>1. e.local # p
      BY <2>3 DEF TidyInv, Tidy, OwnEntries
    <3> QED
      BY <2>1, <3>1 DEF Holds
  <2> QED
    BY <1>1, <2>2, <2>3
<1>6. \A e \in r.entries : e.mat => Holds(e, local')
  BY <1>2, <1>5
<1> HIDE DEF r
<1>7. Held(r, local', remote')
  BY <1>1, <1>2, <1>4, <1>6 DEF Held, Labelled, HookVisits
<1> QED
  BY <1>7, QuietStep DEF Applied, r

\* The changes of a pull and of a push.
LEMMA QuietApply ==
    ASSUME Alone, SyncInv, TidyInv, QuietInv, NEW k \in Commands, NEW p \in Paths,
           Accept(k, p) \/ PushConflict(k, p) \/ Materialize(k, p) \/ PushFile(k, p)
    PROVE  QuietInv'
<1> DEFINE change == run[k].plan[p]
           entry == run[k].plan[p].entry
<1>1. run[k].pc = "apply" /\ change # None
  BY DEF Accept, PushConflict, Materialize, PushFile, Planned
<1>2. /\ run[k] \in RunType /\ ChangeHeld(change, local[p], remote[p])
      /\ run[k].inv.cmd = "push" => change.act = "push"
  BY <1>1, QuietRunning DEF Held
<1>3. /\ change \in Changes /\ entry.local = p /\ change.content # None
      /\ change.act = "push" => entry.hash = HashContent(change.content)
  <2>1. change \in Changes /\ ChangeHonest(change, p, seen)
    BY <1>1, Running DEF RunType, Honest
  <2> QED
    BY <2>1, SyncAssumption DEF ChangeHonest, Changes
<1>4. local \in [Paths -> Contents \cup {None}] /\ remote \in [Paths -> Contents \cup {None}]
  BY DEF SyncInv, Data
<1>5. CASE Accept(k, p)
  <2>1. change.act = "accept" /\ Applied(k, p) /\ UNCHANGED <<local, remote>>
    BY <1>5 DEF Accept, Planned
  <2>2. entry.mat => Holds(entry, local')
    BY <1>2, <1>3, <2>1 DEF ChangeHeld, Holds
  <2> QED
    BY <1>1, <2>1, <2>2, QuietApplied
<1>6. CASE PushConflict(k, p) \/ PushFile(k, p)
  <2>1. change.act = "push" /\ Applied(k, p) /\ UNCHANGED local /\ SetRemote(p, change.content)
    BY <1>6 DEF PushConflict, PushFile, Planned
  <2>2. Holds(entry, local')
    BY <1>2, <1>3, <2>1 DEF ChangeHeld, Holds
  <2>3. \A q \in Paths \ {p} : remote'[q] = remote[q]
    BY <1>4, <2>1 DEF SetRemote
  <2> QED
    BY <1>1, <2>1, <2>2, <2>3, QuietApplied
<1>7. CASE Materialize(k, p)
  <2> DEFINE content == ToWrite(p, change.content)
  <2>1. change.act = "materialize" /\ UNCHANGED remote
    BY <1>7 DEF Materialize, Planned
  <2>2. content = remote[p] /\ content # None /\ entry.hash = HashContent(content)
    BY <1>2, <2>1 DEF ChangeHeld, ToWrite
  <2>3. WriteFile(p, content) /\ Applied(k, p)
    BY <1>7, <2>2 DEF Materialize
  <2>4. local' = [local EXCEPT ![p] = content]
    BY <2>3 DEF WriteFile
  <2>5. Holds(entry, local')
    BY <1>3, <1>4, <2>2, <2>4 DEF Holds
  <2>6. \A q \in Paths \ {p} : local'[q] = local[q]
    BY <1>4, <2>4
  <2>7. run[k].inv.cmd # "push"
    BY <1>2, <2>1
  <2> QED
    BY <1>1, <2>1, <2>3, <2>5, <2>6, <2>7, QuietApplied
<1> QED
  BY <1>5, <1>6, <1>7

\* The manifest is saved, or a hook leaves a root.
LEMMA QuietSave ==
    ASSUME Alone, SyncInv, QuietInv, NEW k \in Commands,
           \/ SavePull(k) \/ SavePush(k) \/ SaveDematerialized(k) \/ SaveHook(k) \/ FinishRoot(k)
    PROVE  QuietInv'
<1>1. CASE SavePull(k)
  BY <1>1, QuietTruncate DEF SavePull, At
<1>2. CASE SavePush(k)
  BY <1>2, QuietTruncate DEF SavePush, At
<1>3. CASE SaveDematerialized(k)
  BY <1>3, QuietTruncate DEF SaveDematerialized, At
<1>4. CASE SaveHook(k)
  BY <1>4, QuietTruncate DEF SaveHook, At
<1>5. CASE FinishRoot(k)
  <2>1. PICK m : LeaveRoot(k, m)
    BY <1>5 DEF FinishRoot
  <2> QED
    BY <1>5, <2>1, QuietLeave DEF FinishRoot, At
<1> QED
  BY <1>1, <1>2, <1>3, <1>4, <1>5

\* Entries are dematerialized: what is recorded is not materialized.
LEMMA QuietDematerialize ==
    ASSUME Alone, SyncInv, QuietInv, NEW k \in Commands, NEW e \in run[k].todo, Dematerialize(k, e)
    PROVE  QuietInv'
<1> DEFINE new == [e EXCEPT !.mat = FALSE]
           r == [run[k] EXCEPT !.todo = @ \ {e}, !.entries = @ \cup {new}]
<1>1. run[k].pc = "entries" /\ run[k].inv.cmd = "dematerialize" /\ Becomes(k, r)
  BY DEF Dematerialize, At
<1>2. run[k] \in RunType /\ Held(run[k], local, remote) /\ ~new.mat
  BY ToVisit, QuietRunning DEF Entries
<1>3. /\ r.pc = "entries" /\ r.inv = run[k].inv /\ r.entries = run[k].entries \cup {new}
  BY <1>1, <1>2 DEF RunType
<1> HIDE DEF r
<1>4. Held(r, local', remote')
  BY <1>1, <1>2, <1>3 DEF Held, Labelled, HookVisits
<1> QED
  BY <1>1, <1>4, QuietStep

\* A hook visits entries: documents stay as it has collected them.
LEMMA QuietVisit ==
    ASSUME Alone, SyncInv, QuietInv, NEW k \in Commands, NEW r, Becomes(k, r), UNCHANGED remote,
           HookVisits(run[k]), HookVisits(r), r.nodes = run[k].nodes, r.got = run[k].got
    PROVE  QuietInv'
<1>1. Held(run[k], local, remote)
  BY QuietRunning
<1>2. Held(r, local', remote')
  BY <1>1 DEF Held, Labelled, HookVisits
<1> QED
  BY <1>2, QuietStep

LEMMA QuietHook ==
    ASSUME Alone, SyncInv, QuietInv, NEW k \in Commands,
           \/ \E e \in run[k].todo : KeepEntry(k, e) \/ RenewEntry(k, e) \/ Overwrite(k, e)
           \/ \E p \in Paths : HookWrite(k, p)
           \/ HookCallFails(k)
    PROVE  QuietInv'
<1>1. run[k] \in RunType
  BY QuietRunning
<1>2. ASSUME NEW e \in run[k].todo, KeepEntry(k, e) \/ RenewEntry(k, e) PROVE QuietInv'
  <2>1. PICK todo, entries : Becomes(k, [run[k] EXCEPT !.todo = todo, !.entries = entries])
    BY <1>2 DEF KeepEntry, RenewEntry, Visited
  <2> QED
    BY <1>1, <1>2, <2>1, QuietVisit DEF KeepEntry, RenewEntry, At, HookVisits, RunType
<1>3. ASSUME NEW e \in run[k].todo, Overwrite(k, e) PROVE QuietInv'
  <2>1. PICK plan : Becomes(k, [run[k] EXCEPT !.pc = "overwrite", !.plan = plan])
    BY <1>3 DEF Overwrite
  <2> QED
    BY <1>1, <1>3, <2>1, QuietVisit DEF Overwrite, At, HookVisits, RunType
<1>4. ASSUME NEW plan, NEW todo, NEW entries, run[k].pc = "overwrite", run[k].inv.cmd = "hook",
             Becomes(k, [run[k] EXCEPT !.pc = "entries", !.plan = plan, !.todo = todo, !.entries = entries]),
             UNCHANGED remote
      PROVE  QuietInv'
  BY <1>1, <1>4, QuietVisit DEF HookVisits, RunType
<1>5. ASSUME NEW p \in Paths, HookWrite(k, p) PROVE QuietInv'
  <2>1. PICK plan, todo, entries :
          Becomes(k, [run[k] EXCEPT !.pc = "entries", !.plan = plan, !.todo = todo, !.entries = entries])
    BY <1>5 DEF HookWrite
  <2> QED
    BY <1>4, <1>5, <2>1 DEF HookWrite, At
<1>6. CASE HookCallFails(k)
  <2>1. CASE Skipped(k)
    BY <1>6, <2>1, QuietSkipped DEF HookCallFails
  <2>2. CASE ~Skipped(k)
    <3>1. PICK plan, todo, entries :
            Becomes(k, [run[k] EXCEPT !.pc = "entries", !.plan = plan, !.todo = todo, !.entries = entries])
      BY <1>6, <2>2 DEF HookCallFails
    <3> QED
      BY <1>4, <1>6, <2>2, <3>1 DEF HookCallFails
  <2> QED
    BY <2>1, <2>2
<1> QED
  BY <1>2, <1>3, <1>5, <1>6

\* A step of a running command.
LEMMA QuietProceed ==
    ASSUME Alone, SyncInv, TidyInv, QuietInv, NEW k \in Commands, Proceed(k) PROVE QuietInv'
<1>1. CASE WriteManifest(k)
  BY <1>1, QuietEnd DEF WriteManifest
<1>2. CASE LoadForPush(k)
  <2>1. Held([run[k] EXCEPT !.pc = "save", !.loaded = manifest], local, remote)
    BY <1>2, QuietRunning DEF LoadForPush, At, Held, Labelled, HookVisits, RunType
  <2> QED
    BY <1>2, <2>1, QuietLocal DEF LoadForPush
<1> QED
  BY <1>1, <1>2, QuietCollect, QuietPlan, QuietApply, QuietSave, QuietDematerialize, QuietHook
     DEF Proceed

\* Where no one else works, others only work while no command runs.
LEMMA QuietEnvironment ==
    ASSUME Alone, SyncInv, QuietInv, Environment PROVE QuietInv'
<1>1. AllIdle /\ run' = run
  BY DEF Alone, Environment, RemoteWrite, LocalEdit
<1>2. \A k \in Commands : run[k] = NoRun
  BY <1>1, QuietRunning DEF AllIdle, Idle
<1> QED
  BY <1>1, <1>2, NoRunHeld DEF QuietInv

\* Every step keeps the records of commands in agreement.
LEMMA QuietInvStep == ASSUME Alone, SyncInv, TidyInv, QuietInv, [Next]_vars PROVE QuietInv'
<1>1. CASE UNCHANGED vars
  BY <1>1 DEF vars, QuietInv
<1>2. ASSUME NEW k \in Commands, Fail(k) PROVE QuietInv'
  BY <1>2, QuietEnd DEF Fail
<1> QED
  BY <1>1, <1>2, QuietEnvironment, QuietStart, QuietProceed, QuietHook DEF Next

\* A command that runs alone works on files and documents as they are.
THEOREM QuietInvariant == ASSUME Alone PROVE Spec => []QuietInv
<1>1. Init => QuietInv
  BY NoRunHeld DEF Init, QuietInv
<1> QED
  BY <1>1, SyncInvariant, TidyInvariant, QuietInvStep, PTL DEF Spec

\* What a command that runs alone is about to record as materialized is what
\* the local file holds, also when it fails or is killed on the way.
THEOREM SavedEntriesAreHeld == ASSUME Alone PROVE Spec => []SavedEntriesHold
<1>1. SyncInv /\ QuietInv => SavedEntriesHold
  <2> SUFFICES ASSUME SyncInv, QuietInv, NEW k \in Commands, run[k].pc = "write",
                      NEW e \in run[k].entries, e.mat
               PROVE  Unedited(e)
    BY DEF SavedEntriesHold
  <2>1. Holds(e, local)
    BY QuietRunning DEF Held
  <2> QED
    BY <2>1 DEF Holds, Unedited
<1> QED
  BY <1>1, SyncInvariant, QuietInvariant, PTL

-----------------------------------------------------------------------------
(* Which entries follow their files *)

\* The locals of an idle command.
LEMMA NoRunFollowed == ASSUME NEW l, NEW m, NEW ed PROVE Followed(NoRun, l, m, ed)
BY DEF Followed, NoRun

\* What is known of the record of a command.
LEMMA FollowRunning ==
    ASSUME SyncInv, TidyInv, FollowInv, NEW k \in Commands
    PROVE  /\ run[k] \in RunType /\ Followed(run[k], local, remote, edited)
           /\ Tidy(run[k])
           /\ Harmless(run[k]) => \A e \in manifest : Follows(e, local, edited)
BY Running DEF FollowInv, TidyInv

\* A step of the only command.
LEMMA FollowStep ==
    ASSUME Alone, SyncInv, NEW k \in Commands, NEW r, Becomes(k, r),
           Followed(r, local', remote', edited'),
           Harmless(r) => \A e \in manifest' : Follows(e, local', edited')
    PROVE  FollowInv'
<1>1. ASSUME NEW j \in Commands PROVE run'[j] = r
  BY DEF Becomes, SyncInv, Alone
<1> QED
  BY <1>1 DEF FollowInv

\* A step of the only command that only changes its locals.
LEMMA FollowLocal ==
    ASSUME Alone, SyncInv, FollowInv, NEW k \in Commands, NEW r, Becomes(k, r),
           Followed(r, local, remote, edited), Harmless(r) => Harmless(run[k]),
           UNCHANGED <<remote, local, manifest, edited>>
    PROVE  FollowInv'
<1>1. /\ Followed(r, local', remote', edited')
      /\ Harmless(r) => \A e \in manifest' : Follows(e, local', edited')
  BY DEF FollowInv
<1> QED
  BY <1>1, FollowStep

\* A command that ends before it has changed a file.
LEMMA FollowEnd ==
    ASSUME Alone, SyncInv, FollowInv, NEW k \in Commands, Finish(k), Harmless(run[k]),
           UNCHANGED <<remote, local, manifest, edited>>
    PROVE  FollowInv'
<1>1. Followed(NoRun, local, remote, edited)
  BY NoRunFollowed
<1> QED
  BY <1>1, FollowLocal DEF Finish

\* A hook that leaves a root with entries that follow their files.
LEMMA FollowLeave ==
    ASSUME Alone, SyncInv, FollowInv, NEW k \in Commands, NEW m, LeaveRoot(k, m),
           \A e \in m : Follows(e, local, edited),
           UNCHANGED <<remote, local, manifest, edited>>
    PROVE  FollowInv'
<1> DEFINE r == [NoRun EXCEPT !.inv = run[k].inv, !.pc = "next", !.roots = run[k].roots, !.loaded = m]
<1>1. Followed(r, local, remote, edited) /\ ~Harmless(r)
  BY DEF Followed, Harmless, NoRun
<1> QED
  BY <1>1, FollowLocal DEF LeaveRoot

\* A collection that fails.
LEMMA FollowSkipped ==
    ASSUME Alone, SyncInv, TidyInv, QuietInv, FollowInv, NEW k \in Commands, Skipped(k),
           run[k].pc \in {"list", "hashes", "cat"}, UNCHANGED <<remote, local, manifest, edited>>
    PROVE  FollowInv'
<1>1. /\ \A e \in run[k].loaded : Follows(e, local, edited)
      /\ run[k].inv.cmd \in {"pull", "hook"}
  BY FollowRunning, QuietRunning DEF Followed, Held, Labelled
<1> QED
  BY <1>1, FollowEnd, FollowLeave DEF Skipped, Harmless

\* The manifest is truncated, to be written with entries that follow their files.
LEMMA FollowTruncate ==
    ASSUME Alone, SyncInv, TidyInv, FollowInv, NEW k \in Commands, NEW m, Truncate(k, m),
           \A e \in m : Follows(e, local, edited)
    PROVE  FollowInv'
<1> DEFINE r == [run[k] EXCEPT !.pc = "write", !.loaded = m]
<1>1. Followed(r, local', remote', edited') /\ ~Harmless(r)
  BY FollowRunning DEF Followed, Harmless, RunType, Truncate
<1> QED
  BY <1>1, FollowStep DEF Truncate

\* A command starts.
LEMMA FollowStart ==
    ASSUME Alone, SyncInv, TidyInv, FollowInv, NEW k \in Commands, Start(k) PROVE FollowInv'
<1>1. PICK i \in Invocations :
        StartPull(k, i) \/ StartHook(k, i) \/ ScanLocal(k, i) \/ StartDematerialize(k, i)
  BY DEF Start
<1>2. run[k].pc = "idle" /\ UNCHANGED <<remote, local, manifest, edited>>
  BY <1>1 DEF StartPull, StartHook, ScanLocal, StartDematerialize, Idle
<1>3. Harmless(run[k]) /\ \A e \in manifest : Follows(e, local, edited)
  BY <1>2, FollowRunning DEF Harmless
<1>4. CASE StartPull(k, i)
  <2>1. Followed([NoRun EXCEPT !.inv = i, !.pc = "list", !.root = i.root, !.loaded = manifest],
                 local, remote, edited)
    BY <1>3 DEF Followed, NoRun
  <2> QED
    BY <1>2, <1>3, <1>4, <2>1, FollowLocal DEF StartPull
<1>5. CASE StartHook(k, i)
  <2>1. Followed([NoRun EXCEPT !.inv = i, !.pc = "next", !.roots = Mounts, !.loaded = manifest],
                 local, remote, edited)
    BY <1>3 DEF Followed, NoRun
  <2> QED
    BY <1>2, <1>3, <1>5, <2>1, FollowLocal DEF StartHook
<1>6. CASE ScanLocal(k, i)
  <2> DEFINE there == {p \in Under[i.root] : local[p] # None}
             scanned(p) == [act |-> "push", content |-> local[p],
                            entry |-> [local |-> p, mount |-> i.root,
                                       hash |-> HashContent(local[p]), mat |-> TRUE,
                                       copy |-> First]]
             plan == [p \in Paths |-> IF p \in there THEN scanned(p) ELSE None]
             r == [NoRun EXCEPT !.inv = i, !.pc = "apply", !.root = i.root, !.plan = plan]
  <2>1. i.cmd = "push"
    BY <1>6 DEF ScanLocal
  <2>2. Becomes(k, r)
    BY <1>6 DEF ScanLocal
  <2> HIDE DEF plan
  <2>3. Followed(r, local, remote, edited)
    BY <2>1 DEF Followed, NoRun
  <2> QED
    BY <1>2, <1>3, <2>2, <2>3, FollowLocal
<1>7. CASE StartDematerialize(k, i)
  <2>1. Followed([NoRun EXCEPT !.inv = i, !.pc = "entries", !.root = i.root,
                   !.loaded = manifest, !.todo = EntriesUnder(manifest, i.root)], local, remote, edited)
    BY <1>3 DEF Followed, Visits, EntriesUnder, NoRun
  <2> QED
    BY <1>2, <1>3, <1>7, <2>1, FollowLocal DEF StartDematerialize
<1> QED
  BY <1>1, <1>4, <1>5, <1>6, <1>7

\* The remote files of a root are collected.
LEMMA FollowCollect ==
    ASSUME Alone, SyncInv, TidyInv, QuietInv, FollowInv, NEW k \in Commands,
           \/ NextRoot(k) \/ ListRemote(k) \/ HashRemote(k) \/ VisitEntries(k)
           \/ \E p \in Paths : CatRemote(k, p)
    PROVE  FollowInv'
<1>1. run[k] \in RunType /\ Followed(run[k], local, remote, edited)
  BY FollowRunning
<1>2. UNCHANGED <<remote, local, manifest, edited>>
  BY DEF NextRoot, ListRemote, HashRemote, VisitEntries, CatRemote
<1>3. CASE NextRoot(k)
  <2>1. PICK root \in run[k].roots :
          Becomes(k, [run[k] EXCEPT !.pc = "list", !.root = root, !.roots = @ \ {root}])
    BY <1>3 DEF NextRoot
  <2> DEFINE r == [run[k] EXCEPT !.pc = "list", !.root = root, !.roots = @ \ {root}]
  <2>2. Followed(r, local, remote, edited) /\ ~Harmless(r)
    BY <1>1, <1>3 DEF NextRoot, At, Followed, Harmless, RunType
  <2> QED
    BY <1>2, <2>1, <2>2, FollowLocal
<1>4. CASE ListRemote(k)
  <2> DEFINE there == {p \in Under[run[k].root] : remote[p] # None}
  <2>1. CASE Skipped(k)
    BY <1>2, <1>4, <2>1, FollowSkipped DEF ListRemote
  <2>2. ASSUME NEW base \in Lookups(run[k].loaded),
               Becomes(k, [run[k] EXCEPT !.pc = "hashes", !.nodes = there, !.base = base])
        PROVE  FollowInv'
    <3> DEFINE r == [run[k] EXCEPT !.pc = "hashes", !.nodes = there, !.base = base]
    <3>1. \A p \in Paths : base[p] # None => base[p] \in run[k].loaded /\ base[p].local = p
      BY <1>1, LookupFinds DEF RunType
    <3>2. Followed(r, local, remote, edited) /\ (Harmless(r) => Harmless(run[k]))
      BY <1>1, <1>4, <3>1 DEF ListRemote, Followed, Harmless, RunType
    <3> QED
      BY <1>2, <2>2, <3>2, FollowLocal
  <2> QED
    BY <1>4, <2>1, <2>2 DEF ListRemote
<1>5. CASE HashRemote(k)
  <2>1. PICK got : Becomes(k, [run[k] EXCEPT !.pc = "cat", !.got = got])
    BY <1>5 DEF HashRemote
  <2> DEFINE r == [run[k] EXCEPT !.pc = "cat", !.got = got]
  <2>2. Followed(r, local, remote, edited) /\ (Harmless(r) => Harmless(run[k]))
    BY <1>1, <1>5 DEF HashRemote, Followed, Harmless, RunType
  <2> QED
    BY <1>2, <2>1, <2>2, FollowLocal
<1>6. CASE VisitEntries(k)
  <2> DEFINE r == [run[k] EXCEPT !.pc = "entries", !.todo = EntriesUnder(run[k].loaded, run[k].root)]
  <2>1. Becomes(k, r) /\ run[k].pc = "cat"
    BY <1>6 DEF VisitEntries, At
  <2>2. run[k].entries = {} /\ \A p \in Paths : run[k].plan[p] = None
    BY <2>1, Running DEF TidyInv, Tidy
  <2>3. Visits(r, local, edited)
    BY <1>1, <2>1, <2>2 DEF Visits, EntriesUnder, Followed, RunType
  <2>4. Followed(r, local, remote, edited) /\ ~Harmless(r)
    BY <1>1, <2>1, <2>2, <2>3 DEF Followed, Harmless, RunType
  <2> QED
    BY <1>2, <2>1, <2>4, FollowLocal
<1>7. ASSUME NEW p \in Paths, CatRemote(k, p) PROVE FollowInv'
  <2>1. CASE Skipped(k)
    BY <1>2, <1>7, <2>1, FollowSkipped DEF CatRemote
  <2>2. ASSUME NEW got, Becomes(k, [run[k] EXCEPT !.got = got]) PROVE FollowInv'
    <3> DEFINE r == [run[k] EXCEPT !.got = got]
    <3>1. Followed(r, local, remote, edited) /\ (Harmless(r) => Harmless(run[k]))
      BY <1>1, <1>7 DEF CatRemote, Followed, Harmless, RunType
    <3> QED
      BY <1>2, <2>2, <3>1, FollowLocal
  <2> QED
    BY <1>7, <2>1, <2>2 DEF CatRemote
<1> QED
  BY <1>3, <1>4, <1>5, <1>6, <1>7

\* An entry follows its file as long as no one touches either.
LEMMA FollowsStays ==
    ASSUME NEW e, Follows(e, local, edited), local'[e.local] = local[e.local],
           e.local \in edited => e.local \in edited'
    PROVE  Follows(e, local', edited')
BY DEF Follows, Holds

\* The plan of a pull.
LEMMA FollowPlan ==
    ASSUME Alone, SyncInv, TidyInv, QuietInv, FollowInv, NEW k \in Commands, PlanPull(k)
    PROVE  FollowInv'
<1> DEFINE plan == [p \in Paths |-> IF p \in run[k].nodes THEN Change(k, p) ELSE None]
           r == [run[k] EXCEPT !.pc = "apply", !.plan = plan]
<1>1. /\ UNCHANGED <<remote, local, manifest, edited>>
      /\ run[k].pc = "cat" /\ run[k].inv.cmd = "pull"
  BY DEF PlanPull, At
<1>2. run[k] \in RunType /\ Followed(run[k], local, remote, edited)
  BY FollowRunning
<1>3. CASE Finish(k)
  BY <1>1, <1>3, FollowEnd DEF Harmless
<1>4. CASE Becomes(k, r)
  <2> HIDE DEF plan
  <2>1. Followed(r, local, remote, edited) /\ ~Harmless(r)
    BY <1>1, <1>2 DEF Followed, Harmless, RunType
  <2> QED
    BY <1>1, <1>4, <2>1, FollowLocal
<1> QED
  BY <1>3, <1>4 DEF PlanPull

\* A change is applied: it touches no file that is not under the root of a
\* pull, and none at all in a push.
LEMMA FollowApplied ==
    ASSUME Alone, SyncInv, TidyInv, QuietInv, FollowInv, NEW k \in Commands, NEW p \in Paths,
           run[k].pc = "apply", run[k].plan[p] # None, Applied(k, p), UNCHANGED manifest,
           \A q \in Paths \ {p} : local'[q] = local[q] /\ (q \in edited => q \in edited'),
           run[k].inv.cmd = "push" => UNCHANGED <<local, edited>>
    PROVE  FollowInv'
<1> DEFINE entry == run[k].plan[p].entry
           r == [run[k] EXCEPT !.plan = [@ EXCEPT ![p] = None], !.entries = @ \cup {entry}]
<1>1. /\ run[k] \in RunType /\ Followed(run[k], local, remote, edited) /\ Tidy(run[k])
      /\ run[k].inv.cmd \in {"pull", "push"}
  BY FollowRunning, QuietRunning DEF Held, Labelled
<1>2. /\ r.pc = "apply" /\ r.inv = run[k].inv /\ r.root = run[k].root /\ r.loaded = run[k].loaded
      /\ r.entries = run[k].entries \cup {entry}
      /\ r.plan = [run[k].plan EXCEPT ![p] = None]
      /\ run[k].plan \in [Paths -> Changes \cup {None}]
      /\ run[k].loaded \in SUBSET Entries
  BY <1>1 DEF RunType
<1>3. ASSUME r.inv.cmd = "pull", NEW e \in r.loaded, e.local \notin Under[r.root]
      PROVE  Follows(e, local', edited')
  <2>1. Follows(e, local, edited) /\ e.local \in Paths
    BY <1>1, <1>2, <1>3 DEF Followed, Entries
  <2>2. p \in Under[run[k].root]
    BY <1>1, <1>2, <1>3 DEF Tidy, OwnEntries
  <2>3. e.local # p
    BY <1>2, <1>3, <2>2
  <2> QED
    BY <2>1, <2>3, FollowsStays
<1>4. ASSUME Harmless(r), NEW e \in manifest PROVE Follows(e, local', edited')
  <2>1. run[k].inv.cmd = "push" /\ Harmless(run[k])
    BY <1>2, <1>4 DEF Harmless
  <2> QED
    BY <2>1, FollowRunning
<1> HIDE DEF r
<1>5. Followed(r, local', remote', edited')
  BY <1>2, <1>3 DEF Followed
<1>6. Harmless(r) => \A e \in manifest' : Follows(e, local', edited')
  BY <1>4, FollowRunning
<1> QED
  BY <1>5, <1>6, FollowStep DEF Applied, r

\* The changes of a pull and of a push.
LEMMA FollowApply ==
    ASSUME Alone, SyncInv, TidyInv, QuietInv, FollowInv, NEW k \in Commands, NEW p \in Paths,
           Accept(k, p) \/ PushConflict(k, p) \/ Materialize(k, p) \/ PushFile(k, p)
    PROVE  FollowInv'
<1>1. run[k].pc = "apply" /\ run[k].plan[p] # None /\ UNCHANGED manifest
  BY DEF Accept, PushConflict, Materialize, PushFile, Planned
<1>2. CASE Accept(k, p) \/ PushConflict(k, p) \/ PushFile(k, p)
  BY <1>1, <1>2, FollowApplied DEF Accept, PushConflict, PushFile
<1>3. CASE Materialize(k, p)
  <2> DEFINE content == ToWrite(p, run[k].plan[p].content)
  <2>1. /\ ChangeHeld(run[k].plan[p], local[p], remote[p])
        /\ run[k].plan[p].act = "materialize" /\ run[k].inv.cmd # "push"
    BY <1>1, <1>3, QuietRunning DEF Held, Materialize, Planned
  <2>2. content # None
    BY <2>1 DEF ChangeHeld, ToWrite
  <2>3. WriteFile(p, content) /\ Applied(k, p)
    BY <1>3, <2>2 DEF Materialize
  <2>4. \A q \in Paths \ {p} : local'[q] = local[q] /\ (q \in edited => q \in edited')
    BY <2>3 DEF WriteFile, SyncInv, Data
  <2> QED
    BY <1>1, <2>1, <2>3, <2>4, FollowApplied
<1> QED
  BY <1>2, <1>3

\* Where no two roots overlap there is one entry of a path.
LEMMA OnePerPath ==
    ASSUME Unbroken, TidyInv, NEW k \in Commands, NEW e \in run[k].loaded, NEW f \in run[k].loaded,
           e.local = f.local
    PROVE  e = f
BY DEF Unbroken, TidyInv, Tidy, Sound, Single

\* A copy of an entry says the same of the file.
LEMMA CopyFollows ==
    ASSUME NEW e \in Entries, NEW c \in Copies, Follows(e, local, edited)
    PROVE  Follows(Numbered(e, c), local, edited)
BY NumberedEntry DEF Follows, Holds

\* What a pull or a push has recorded as materialized is in the files.
LEMMA RecordedFollows ==
    ASSUME SyncInv, QuietInv, NEW k \in Commands, run[k].pc \in {"apply", "save"},
           NEW e \in run[k].entries
    PROVE  Follows(e, local, edited)
<1>1. run[k].inv.cmd \in {"pull", "push"} /\ Held(run[k], local, remote)
  BY QuietRunning DEF Held, Labelled
<1> QED
  BY <1>1 DEF Held, Follows

\* The manifest is saved: the entries follow their files.
LEMMA FollowSavePull ==
    ASSUME Alone, Unbroken, SyncInv, TidyInv, QuietInv, FollowInv, NEW k \in Commands, SavePull(k)
    PROVE  FollowInv'
<1> DEFINE m == ReplaceUnder(run[k].loaded, run[k].root, run[k].entries)
<1>1. /\ run[k].pc = "apply" /\ run[k].inv.cmd = "pull" /\ Truncate(k, m)
      /\ Room(run[k].loaded, run[k].root, run[k].entries)
  BY DEF SavePull, At, Room
<1>2. /\ Followed(run[k], local, remote, edited) /\ Tidy(run[k]) /\ run[k].root \in Roots
      /\ run[k].loaded \in SUBSET Entries /\ run[k].entries \in SUBSET Entries
  BY <1>1, FollowRunning, Running DEF RunType
<1>3. ASSUME NEW e \in m PROVE Follows(e, local, edited)
  <2>1. ASSUME e \in run[k].loaded, e \in Kept(run[k].loaded, run[k].root)
        PROVE  Follows(e, local, edited)
    <3>1. e.local \in Under[e.mount] /\ e.mount \in Roots
      BY <1>2, <2>1 DEF Tidy, Sound, Rooted, Entries
    <3>2. e.local \notin Under[run[k].root]
      BY <1>2, <2>1, <3>1 DEF Kept, Unbroken, RootsApart
    <3> QED
      BY <1>1, <1>2, <2>1, <3>2 DEF Followed
  <2>2. ASSUME NEW f \in run[k].entries, NEW c \in Copies, e = Numbered(f, c)
        PROVE  Follows(e, local, edited)
    BY <1>1, <1>2, <2>2, RecordedFollows, CopyFollows
  <2> QED
    BY <1>1, <2>1, <2>2, ReplaceFinds
<1> QED
  BY <1>1, <1>3, FollowTruncate

LEMMA FollowSavePush ==
    ASSUME Alone, SyncInv, TidyInv, QuietInv, FollowInv, NEW k \in Commands, SavePush(k)
    PROVE  FollowInv'
<1>1. PICK old \in Lookups(run[k].loaded), new \in Lookups(run[k].entries) :
        Truncate(k, Upsert(old, new))
  BY DEF SavePush
<1>2. run[k].pc = "save" /\ run[k].inv.cmd = "push"
  BY DEF SavePush, At
<1>3. /\ Followed(run[k], local, remote, edited)
      /\ run[k].loaded \in SUBSET Entries /\ run[k].entries \in SUBSET Entries
  BY FollowRunning DEF RunType
<1>4. \A e \in run[k].loaded \cup run[k].entries : Follows(e, local, edited)
  BY <1>2, <1>3, RecordedFollows DEF Followed
<1>5. ASSUME NEW e \in Upsert(old, new) PROVE Follows(e, local, edited)
  <2>1. PICK f \in run[k].loaded \cup run[k].entries :
          f \in Entries /\ First \in Copies /\ e = Numbered(f, First)
    BY <1>3, UpsertFinds
  <2> QED
    BY <1>4, <2>1, CopyFollows
<1> QED
  BY <1>1, <1>5, FollowTruncate

\* UpdateEntries leaves entries that follow their files, when it is given such
\* an entry for each that does not.
LEMMA UpdateFollows ==
    ASSUME NEW m \in SUBSET Entries, NEW S \in SUBSET Entries, NEW f \in Lookups(S),
           \A e \in m : Follows(e, local, edited) \/ \E h \in S : h.local = e.local,
           \A e \in m, h \in S : h.local = e.local => Follows(h, local, edited),
           NEW e \in UpdateEntries(m, f)
    PROVE  Follows(e, local, edited)
<1>1. CASE e \in m /\ f[e.local] = None
  <2>1. ASSUME NEW h \in S, h.local = e.local PROVE FALSE
    <3>1. EntriesAt(S, e.local) # {} /\ e.local \in Paths
      BY <1>1, <2>1 DEF EntriesAt, Entries
    <3>2. f[e.local] \in EntriesAt(S, e.local)
      BY <3>1 DEF Lookups
    <3>3. None \notin Entries
      BY SyncAssumption
    <3> QED
      BY <1>1, <3>2, <3>3 DEF EntriesAt
  <2> QED
    BY <1>1, <2>1
<1>2. ASSUME NEW g \in m, NEW h \in S, h \in Entries, h.local = g.local, g.copy \in Copies,
             e = Numbered(h, g.copy)
      PROVE  Follows(e, local, edited)
  BY <1>2, CopyFollows
<1> QED
  BY <1>1, <1>2, UpdateFinds

\* Dematerialize saves, or a hook leaves a root, when all entries are visited.
LEMMA FollowUpdate ==
    ASSUME Alone, SyncInv, TidyInv, QuietInv, FollowInv, NEW k \in Commands,
           SaveDematerialized(k) \/ FinishRoot(k)
    PROVE  FollowInv'
<1>1. run[k].pc = "entries" /\ run[k].todo = {}
  BY DEF SaveDematerialized, FinishRoot, At
<1>2. /\ Visits(run[k], local, edited)
      /\ run[k].loaded \in SUBSET Entries /\ run[k].entries \in SUBSET Entries
  BY <1>1, FollowRunning DEF Followed, RunType
<1>3. \A h \in run[k].entries : Follows(h, local, edited)
  BY <1>2 DEF Visits
<1>4. \A e \in run[k].loaded : Follows(e, local, edited) \/ \E h \in run[k].entries : h.local = e.local
  BY <1>2 DEF Visits
<1>5. CASE SaveDematerialized(k)
  <2>1. PICK f \in Lookups(run[k].entries) : Truncate(k, UpdateEntries(run[k].loaded, f))
    BY <1>5 DEF SaveDematerialized
  <2>2. \A e \in UpdateEntries(run[k].loaded, f) : Follows(e, local, edited)
    BY <1>2, <1>3, <1>4, UpdateFollows
  <2> QED
    BY <2>1, <2>2, FollowTruncate
<1>6. CASE FinishRoot(k)
  <2> DEFINE paths == {q \in run[k].nodes : EntriesAt(run[k].loaded, q) = {}}
             new == {EntryFor(k, p, run[k].got[p].hash, FALSE) : p \in paths}
  <2>1. PICK f \in Lookups(run[k].entries \cup new) : LeaveRoot(k, UpdateEntries(run[k].loaded, f))
    BY <1>6 DEF FinishRoot
  <2>2. run[k].inv.cmd = "hook" /\ UNCHANGED <<remote, local, manifest, edited>>
    BY <1>6 DEF FinishRoot, At
  <2>3. ASSUME NEW p \in paths PROVE EntryFor(k, p, run[k].got[p].hash, FALSE) \in Entries
    BY <1>1, <2>2, Running, FirstCopy DEF Typed, Shape, RunType, Files, EntryFor, Entries
  <2>4. run[k].entries \cup new \in SUBSET Entries
    BY <1>2, <2>3
  <2>5. \A e \in run[k].loaded, h \in new : h.local # e.local
    BY DEF EntryFor, EntriesAt
  <2> HIDE DEF new
  <2> DEFINE S == run[k].entries \cup new
  <2>6. \A e \in run[k].loaded : Follows(e, local, edited) \/ \E h \in S : h.local = e.local
    BY <1>4
  <2>7. \A e \in run[k].loaded, h \in S : h.local = e.local => Follows(h, local, edited)
    BY <1>3, <2>5
  <2>8. S \in SUBSET Entries /\ f \in Lookups(S) /\ LeaveRoot(k, UpdateEntries(run[k].loaded, f))
    BY <2>1, <2>4
  <2> HIDE DEF S
  <2>9. \A e \in UpdateEntries(run[k].loaded, f) : Follows(e, local, edited)
    BY <1>2, <2>6, <2>7, <2>8, UpdateFollows
  <2> QED
    BY <2>2, <2>8, <2>9, FollowLeave
<1> QED
  BY <1>5, <1>6

\* The manifest is written: what is recorded of a file counts as no edit.
LEMMA FollowWrite ==
    ASSUME Alone, Unbroken, SyncInv, TidyInv, FollowInv, NEW k \in Commands, WriteManifest(k)
    PROVE  FollowInv'
<1> DEFINE recorded == {e \in run[k].loaded : /\ e.mat /\ local[e.local] # None
                                              /\ HashContent(local[e.local]) = e.hash}
<1>1. /\ run[k].pc = "write" /\ manifest' = run[k].loaded /\ Becomes(k, NoRun)
      /\ edited' = edited \ {e.local : e \in recorded} /\ UNCHANGED <<remote, local>>
  BY DEF WriteManifest, Finish
<1>2. \A e \in run[k].loaded : Follows(e, local, edited)
  BY <1>1, FollowRunning DEF Followed
<1>3. ASSUME NEW e \in run[k].loaded PROVE Follows(e, local, edited')
  <2>1. CASE e.local \in edited /\ e.local \notin edited'
    <3>1. PICK f \in recorded : f.local = e.local
      BY <1>1, <2>1
    <3>2. f = e
      BY <3>1, OnePerPath
    <3> QED
      BY <3>2 DEF Follows, Holds
  <2>2. CASE ~(e.local \in edited /\ e.local \notin edited')
    BY <1>2, <2>2 DEF Follows
  <2> QED
    BY <2>1, <2>2
<1>4. Followed(NoRun, local', remote', edited')
  BY NoRunFollowed
<1>5. \A e \in manifest' : Follows(e, local', edited')
  BY <1>1, <1>3
<1> QED
  BY <1>1, <1>4, <1>5, FollowStep

-----------------------------------------------------------------------------
(* Entries that are visited *)

\* Entry e is visited, and new is recorded for the path; no other is touched.
LEMMA VisitOne ==
    ASSUME NEW r, NEW s, Visits(r, local, edited), r.loaded \in SUBSET Entries, Single(r.loaded),
           NEW e \in r.todo, NEW new, new.local = e.local, Follows(new, local', edited'),
           \A q \in Paths \ {e.local} : local'[q] = local[q] /\ (q \in edited => q \in edited'),
           r.entries \in SUBSET Entries,
           s.loaded = r.loaded, s.todo = r.todo \ {e}, s.entries = r.entries \cup {new}
    PROVE  Visits(s, local', edited')
<1>1. r.todo \subseteq r.loaded /\ \A g \in r.loaded \cup r.entries : g.local \in Paths
  BY DEF Visits, Entries
<1>2. ASSUME NEW g \in r.loaded \cup r.entries, g.local # e.local, Follows(g, local, edited)
      PROVE  Follows(g, local', edited')
  BY <1>1, <1>2, FollowsStays
<1>3. \A g \in s.todo : g \in r.todo /\ g.local # e.local
  BY <1>1 DEF Single
<1>4. \A h \in r.entries : h.local # e.local
  BY DEF Visits
<1>5. s.todo \subseteq s.loaded /\ \A g \in s.todo : Follows(g, local', edited')
  BY <1>1, <1>2, <1>3 DEF Visits
<1>6. \A h \in s.entries : Follows(h, local', edited')
  BY <1>2, <1>4 DEF Visits
<1>7. \A g \in s.todo, h \in s.entries : g.local # h.local
  BY <1>3 DEF Visits
<1>8. ASSUME NEW g \in s.loaded
      PROVE  Follows(g, local', edited') \/ \E h \in s.entries : h.local = g.local
  <2>1. CASE g.local = e.local
    BY <2>1
  <2>2. CASE g.local # e.local
    BY <1>2, <2>2 DEF Visits
  <2> QED
    BY <2>1, <2>2
<1> QED
  BY <1>5, <1>6, <1>7, <1>8 DEF Visits

\* An entry is visited, and the command goes on to the next.
LEMMA FollowVisited ==
    ASSUME Alone, Unbroken, SyncInv, TidyInv, FollowInv, NEW k \in Commands,
           run[k].pc \in {"entries", "overwrite"}, NEW e \in run[k].todo,
           NEW new, new.local = e.local, Follows(new, local', edited'),
           \A q \in Paths \ {e.local} : local'[q] = local[q] /\ (q \in edited => q \in edited'),
           NEW r, Becomes(k, r), UNCHANGED manifest,
           r.pc = "entries", r.loaded = run[k].loaded,
           r.todo = run[k].todo \ {e}, r.entries = run[k].entries \cup {new},
           \A p \in Paths : r.plan[p] = None
    PROVE  FollowInv'
<1>1. /\ run[k] \in RunType /\ Followed(run[k], local, remote, edited) /\ Single(run[k].loaded)
  BY FollowRunning DEF Tidy, Sound, Unbroken
<1>2. /\ run[k].loaded \in SUBSET Entries /\ run[k].entries \in SUBSET Entries
      /\ Visits(run[k], local, edited)
  BY <1>1 DEF RunType, Followed
<1>3. Visits(r, local', edited')
  BY <1>1, <1>2, VisitOne
<1>4. Followed(r, local', remote', edited') /\ ~Harmless(r)
  BY <1>3 DEF Followed, Harmless
<1> QED
  BY <1>4, FollowStep

\* What is known of the entries that are visited.
LEMMA ToFollow ==
    ASSUME SyncInv, TidyInv, FollowInv, NEW k \in Commands,
           run[k].pc \in {"entries", "overwrite"}, NEW e \in run[k].todo
    PROVE  e \in Entries /\ e.local \in Paths /\ Follows(e, local, edited)
BY ToVisit, FollowRunning DEF Followed, Visits

\* Dematerialize: what is recorded says nothing of the file.
LEMMA FollowDematerialize ==
    ASSUME Alone, Unbroken, SyncInv, TidyInv, FollowInv, NEW k \in Commands,
           NEW e \in run[k].todo, Dematerialize(k, e)
    PROVE  FollowInv'
<1> DEFINE new == [e EXCEPT !.mat = FALSE]
           r == [run[k] EXCEPT !.todo = @ \ {e}, !.entries = @ \cup {new}]
<1>1. /\ run[k].pc = "entries" /\ Becomes(k, r) /\ UNCHANGED manifest
  BY DEF Dematerialize, At
<1>2. /\ e \in Entries /\ e.local \in Paths
      /\ local \in [Paths -> Contents \cup {None}]
  BY <1>1, ToFollow DEF SyncInv, Data
<1>3. \A q \in Paths \ {e.local} : local'[q] = local[q] /\ (q \in edited => q \in edited')
  BY <1>2 DEF Dematerialize
<1>4. new.local = e.local /\ Follows(new, local', edited')
  BY <1>2 DEF Entries, Follows
<1>5. /\ run[k] \in RunType /\ \A p \in Paths : run[k].plan[p] = None
  BY <1>1, FollowRunning DEF Followed
<1>6. /\ r.pc = "entries" /\ r.loaded = run[k].loaded /\ r.plan = run[k].plan
      /\ r.todo = run[k].todo \ {e} /\ r.entries = run[k].entries \cup {new}
  BY <1>1, <1>5 DEF RunType
<1> HIDE DEF r, new
<1> QED
  BY <1>1, <1>3, <1>4, <1>5, <1>6, FollowVisited

\* A hook that keeps or renews an entry leaves the file alone.
LEMMA FollowKept ==
    ASSUME Alone, Unbroken, SyncInv, TidyInv, FollowInv, NEW k \in Commands,
           NEW e \in run[k].todo, KeepEntry(k, e) \/ RenewEntry(k, e)
    PROVE  FollowInv'
<1>1. /\ run[k].pc = "entries" /\ UNCHANGED <<remote, local, manifest, edited>>
      /\ run[k] \in RunType /\ \A p \in Paths : run[k].plan[p] = None
  BY FollowRunning DEF KeepEntry, RenewEntry, At, Followed
<1>2. e \in Entries /\ Follows(e, local', edited')
  BY <1>1, ToFollow
<1>3. ASSUME NEW new, Visited(k, e, new), new.local = e.local, Follows(new, local', edited')
      PROVE  FollowInv'
  <2> DEFINE r == [run[k] EXCEPT !.todo = @ \ {e}, !.entries = @ \cup {new}]
  <2>1. /\ r.pc = "entries" /\ r.loaded = run[k].loaded /\ r.plan = run[k].plan
        /\ r.todo = run[k].todo \ {e} /\ r.entries = run[k].entries \cup {new}
    BY <1>1 DEF RunType
  <2>2. Becomes(k, r)
    BY <1>3 DEF Visited
  <2> HIDE DEF r
  <2> QED
    BY <1>1, <1>3, <2>1, <2>2, FollowVisited
<1>4. CASE KeepEntry(k, e)
  BY <1>2, <1>3, <1>4 DEF KeepEntry
<1>5. CASE RenewEntry(k, e)
  <2> DEFINE new == Renewed(k, e)
  <2>1. new.local = e.local /\ new.mat = e.mat
    BY DEF Renewed, EntryFor
  <2>2. e.mat => new.hash = e.hash
    BY <1>5 DEF RenewEntry, Stale, Renewed, EntryFor
  <2>3. Visited(k, e, new)
    BY <1>5 DEF RenewEntry
  <2> HIDE DEF new
  <2>4. Follows(new, local', edited')
    BY <1>2, <2>1, <2>2 DEF Follows, Holds
  <2> QED
    BY <1>3, <2>1, <2>3, <2>4
<1> QED
  BY <1>4, <1>5

\* A hook is about to overwrite a file.
LEMMA FollowOverwrite ==
    ASSUME Alone, SyncInv, TidyInv, QuietInv, FollowInv, NEW k \in Commands,
           NEW e \in run[k].todo, Overwrite(k, e)
    PROVE  FollowInv'
<1> DEFINE change == [act |-> "materialize", content |-> run[k].got[e.local].content, entry |-> e]
           plan == [run[k].plan EXCEPT ![e.local] = change]
           r == [run[k] EXCEPT !.pc = "overwrite", !.plan = plan]
<1>1. /\ run[k].pc = "entries" /\ run[k].inv.cmd = "hook" /\ e.local \in run[k].nodes /\ e.mat
      /\ UNCHANGED <<remote, local, manifest, edited>> /\ Becomes(k, r)
  BY DEF Overwrite, At, Stale
<1>2. /\ run[k] \in RunType /\ Followed(run[k], local, remote, edited) /\ e.local \in Paths
      /\ \A p \in Paths : run[k].plan[p] = None
  BY <1>1, FollowRunning, ToVisit DEF Followed
<1>3. FileHeld(run[k].got[e.local], remote[e.local])
  <2>1. run[k].got[e.local] # None
    BY <1>1, <1>2, Running DEF Typed, Shape
  <2> QED
    BY <1>1, <2>1, QuietRunning DEF Held, HookVisits
<1>4. \A p \in Paths : plan[p] # None => p = e.local /\ plan[p] = change
  BY <1>2 DEF RunType
<1>5. /\ r.pc = "overwrite" /\ r.root = run[k].root /\ r.loaded = run[k].loaded /\ r.todo = run[k].todo
      /\ r.entries = run[k].entries /\ r.plan = plan
  BY <1>2 DEF RunType
<1> HIDE DEF plan, r
<1>6. Overwrites(r, remote)
  BY <1>1, <1>3, <1>4, <1>5 DEF Overwrites, FileHeld
<1>7. Visits(r, local, edited)
  BY <1>1, <1>2, <1>5 DEF Followed, Visits
<1>8. Followed(r, local, remote, edited) /\ ~Harmless(r)
  BY <1>5, <1>6, <1>7 DEF Followed, Harmless
<1> QED
  BY <1>1, <1>8, FollowLocal

\* A hook is done with the file it was to overwrite: it has left it alone and
\* kept the entry, or has written what it records.
LEMMA FollowOverwritten ==
    ASSUME Alone, Unbroken, SyncInv, TidyInv, FollowInv, NEW k \in Commands, NEW p \in Paths,
           run[k].pc = "overwrite", run[k].plan[p] # None, NEW e \in run[k].todo,
           NEW new, new.local = e.local, Follows(new, local', edited'),
           \A q \in Paths \ {e.local} : local'[q] = local[q] /\ (q \in edited => q \in edited'),
           NEW r, Becomes(k, r), UNCHANGED manifest,
           r = [run[k] EXCEPT !.pc = "entries", !.plan = [@ EXCEPT ![p] = None],
                              !.todo = @ \ {e}, !.entries = @ \cup {new}]
    PROVE  FollowInv'
<1>1. run[k] \in RunType /\ Overwrites(run[k], remote)
  BY FollowRunning DEF Followed
<1>2. /\ r.pc = "entries" /\ r.loaded = run[k].loaded
      /\ r.plan = [run[k].plan EXCEPT ![p] = None]
      /\ r.todo = run[k].todo \ {e} /\ r.entries = run[k].entries \cup {new}
  BY <1>1 DEF RunType
<1>3. \A q \in Paths : r.plan[q] = None
  BY <1>1, <1>2 DEF Overwrites, RunType
<1>4. Followed(run[k], local, remote, edited) /\ Single(run[k].loaded)
  BY FollowRunning DEF Tidy, Sound, Unbroken
<1>5. /\ run[k].loaded \in SUBSET Entries /\ run[k].entries \in SUBSET Entries
      /\ Visits(run[k], local, edited)
  BY <1>1, <1>4 DEF RunType, Followed
<1>6. Visits(r, local', edited')
  BY <1>2, <1>4, <1>5, VisitOne
<1>7. Followed(r, local', remote', edited') /\ ~Harmless(r)
  BY <1>2, <1>3, <1>6 DEF Followed, Harmless
<1> QED
  BY <1>7, FollowStep

\* A hook overwrites the file with the document, and records its hash; or it
\* cannot read the document, and keeps the entry.
LEMMA FollowHookWrite ==
    ASSUME Alone, Unbroken, SyncInv, TidyInv, QuietInv, FollowInv, NEW k \in Commands,
           NEW p \in Paths, HookWrite(k, p)
    PROVE  FollowInv'
<1>0. PICK e : e = run[k].plan[p].entry
  OBVIOUS
<1> DEFINE content == HookContent(k, p)
           after(new) == [run[k] EXCEPT !.pc = "entries", !.plan = [@ EXCEPT ![p] = None],
                              !.todo = @ \ {e}, !.entries = @ \cup {new}]
           done(new) == Becomes(k, after(new))
<1>1. /\ At(k, "hook", "overwrite") /\ run[k].plan[p] # None /\ UNCHANGED <<remote, manifest>>
      /\ run[k].pc = "overwrite" /\ run[k].inv.cmd = "hook"
  BY DEF HookWrite, At
<1>2. e \in run[k].todo /\ e.mat /\ remote[p] # None /\ content \in {remote[p], None}
  BY <1>0, <1>1, FollowRunning DEF Followed, Overwrites, HookContent
<1>3. e.local = p /\ run[k].got[p] # None /\ p \in run[k].nodes
  BY <1>0, <1>1, <1>2, ToOverwrite, Running DEF Typed, Shape
<1>4. CASE done(e) /\ UNCHANGED <<local, edited>>
  <2>1. Follows(e, local', edited')
    BY <1>1, <1>2, <1>4, ToFollow
  <2> QED
    BY <1>1, <1>2, <1>4, <2>1, FollowOverwritten
<1>5. ASSUME content # None, WriteFile(p, content), done(Renewed(k, e)) PROVE FollowInv'
  <2>1. run[k].got[p].hash = HashContent(remote[p])
    BY <1>1, <1>3, QuietRunning DEF Held, HookVisits, FileHeld
  <2>2. local \in [Paths -> Contents \cup {None}]
    BY DEF SyncInv, Data
  <2>3. local'[p] = remote[p] /\ \A q \in Paths \ {p} : local'[q] = local[q] /\ (q \in edited => q \in edited')
    BY <1>2, <1>5, <2>2 DEF WriteFile
  <2>4. Renewed(k, e).local = p /\ Renewed(k, e).hash = HashContent(remote[p])
    BY <1>3, <2>1 DEF Renewed, EntryFor
  <2>5. Follows(Renewed(k, e), local', edited')
    BY <1>2, <2>3, <2>4 DEF Follows, Holds
  <2> DEFINE new == Renewed(k, e)
  <2>6. /\ new.local = e.local /\ done(new) /\ Follows(new, local', edited')
        /\ \A q \in Paths \ {e.local} :
             local'[q] = local[q] /\ (q \in edited => q \in edited')
    BY <1>3, <1>5, <2>3, <2>4, <2>5
  <2> HIDE DEF new
  <2> QED
    BY <1>1, <1>2, <2>6, FollowOverwritten
<1> QED
  BY <1>0, <1>4, <1>5 DEF HookWrite

\* A call of a hook fails: the root is skipped, or the entry stays.
LEMMA FollowHookCallFails ==
    ASSUME Alone, Unbroken, SyncInv, TidyInv, QuietInv, FollowInv, NEW k \in Commands,
           HookCallFails(k)
    PROVE  FollowInv'
<1>1. UNCHANGED <<remote, local, manifest, edited>> /\ ~Idle(k) /\ run[k].inv.cmd = "hook"
  BY DEF HookCallFails
<1>2. CASE run[k].pc \in {"list", "hashes", "cat"} /\ Skipped(k)
  BY <1>1, <1>2, FollowSkipped
<1>3. ASSUME NEW p \in Paths, run[k].pc = "overwrite", run[k].plan[p] # None,
             Becomes(k, [run[k] EXCEPT !.pc = "entries", !.plan = [@ EXCEPT ![p] = None],
                 !.todo = @ \ {run[k].plan[p].entry},
                 !.entries = @ \cup {run[k].plan[p].entry}])
      PROVE  FollowInv'
  <2>1. PICK e : e = run[k].plan[p].entry
    OBVIOUS
  <2>2. e \in run[k].todo
    BY <1>3, <2>1, FollowRunning DEF Followed, Overwrites
  <2>3. Follows(e, local', edited')
    BY <1>1, <1>3, <2>2, ToFollow
  <2> QED
    BY <1>1, <1>3, <2>1, <2>2, <2>3, FollowOverwritten
<1> QED
  BY <1>2, <1>3 DEF HookCallFails

\* A step of a running command.
LEMMA FollowProceed ==
    ASSUME Alone, Unbroken, SyncInv, TidyInv, QuietInv, FollowInv, NEW k \in Commands, Proceed(k)
    PROVE  FollowInv'
<1>1. CASE SaveHook(k)
  <2>1. run[k].pc = "next" /\ Truncate(k, run[k].loaded)
    BY <1>1 DEF SaveHook, At
  <2> QED
    BY <2>1, FollowRunning, FollowTruncate DEF Followed
<1>2. CASE LoadForPush(k)
  <2> DEFINE r == [run[k] EXCEPT !.pc = "save", !.loaded = manifest]
  <2>1. /\ run[k].pc = "apply" /\ run[k].inv.cmd = "push" /\ Becomes(k, r)
        /\ UNCHANGED <<remote, local, manifest, edited>>
    BY <1>2 DEF LoadForPush, At
  <2>2. /\ run[k] \in RunType /\ Followed(run[k], local, remote, edited)
        /\ \A e \in manifest : Follows(e, local, edited)
    BY <2>1, FollowRunning DEF Harmless
  <2>3. Followed(r, local, remote, edited) /\ ~Harmless(r)
    BY <2>1, <2>2 DEF Followed, Harmless, RunType
  <2> QED
    BY <2>1, <2>3, FollowLocal
<1> QED
  BY <1>1, <1>2, FollowCollect, FollowPlan, FollowApply, FollowSavePull, FollowSavePush, FollowUpdate,
     FollowWrite, FollowDematerialize, FollowKept, FollowOverwrite, FollowHookWrite DEF Proceed

\* A file that is edited is one that the user has changed.
LEMMA FollowEnvironment ==
    ASSUME Alone, SyncInv, TidyInv, QuietInv, FollowInv, Environment PROVE FollowInv'
<1>1. AllIdle /\ run' = run /\ UNCHANGED manifest
  BY DEF Alone, Environment, RemoteWrite, LocalEdit
<1>2. \A k \in Commands : run[k] = NoRun
  BY <1>1, QuietRunning DEF AllIdle, Idle
<1>3. \A q \in Paths : q \in edited' \/ (local'[q] = local[q] /\ q \notin edited)
  BY DEF Environment, RemoteWrite, LocalEdit, SyncInv, Data
<1>4. ASSUME NEW e \in manifest, Follows(e, local, edited) PROVE Follows(e, local', edited')
  <2>1. e.local \in Paths
    BY KnownData DEF Entries
  <2> QED
    BY <1>3, <1>4, <2>1 DEF Follows, Holds
<1>5. ASSUME NEW k \in Commands
      PROVE  Followed(run'[k], local', remote', edited') /\ \A e \in manifest' : Follows(e, local', edited')
  BY <1>1, <1>2, <1>4, NoRunFollowed DEF FollowInv, Harmless, NoRun
<1> QED
  BY <1>5 DEF FollowInv

\* Every step keeps it known which entries follow their files.
LEMMA FollowInvStep ==
    ASSUME Alone, Unbroken, SyncInv, TidyInv, QuietInv, FollowInv, [Next]_vars PROVE FollowInv'
<1>1. CASE UNCHANGED vars
  BY <1>1 DEF vars, FollowInv
<1>2. ASSUME NEW k \in Commands, Fail(k) PROVE FALSE
  BY <1>2 DEF Fail, Unbroken
<1> QED
  BY <1>1, <1>2, FollowEnvironment, FollowStart, FollowProceed, FollowHookCallFails DEF Next

\* A command that runs alone and is not cut off knows which files are edited.
THEOREM FollowInvariant == ASSUME Alone, Unbroken PROVE Spec => []FollowInv
<1>1. Init => FollowInv
  BY NoRunFollowed DEF Init, FollowInv
<1> QED
  BY <1>1, SyncInvariant, TidyInvariant, QuietInvariant, FollowInvStep, PTL DEF Spec

\* Where commands run one at a time and none is cut off between the files and the
\* manifest, and no two roots overlap, a file that is recorded as materialized is
\* found changed only if the user has changed it: after every sequence of
\* command lines, refreshes and pulls without --materialize and --keep-files
\* among them, and of failing calls of hooks.
THEOREM OnlyEditsConflict == ASSUME Alone, Unbroken PROVE Spec => []ConflictsAreEdits
<1>1. SyncInv /\ TidyInv /\ FollowInv => ConflictsAreEdits
  <2> SUFFICES ASSUME SyncInv, TidyInv, FollowInv, NEW k \in Commands
               PROVE  /\ At(k, "pull", "cat") /\ Collected(k) =>
                           \A p \in Conflicts(k) :
                               run[k].base[p] # None /\ run[k].base[p].mat => p \in edited
                      /\ At(k, "hook", "entries") => \A e \in run[k].todo :
                           e.local \notin run[k].nodes \/ ~Stale(k, e) \/ Unedited(e) \/ e.local \in edited
    BY DEF ConflictsAreEdits
  <2>1. ASSUME At(k, "pull", "cat"), NEW p \in Conflicts(k), run[k].base[p] # None, run[k].base[p].mat
        PROVE  p \in edited
    <3>1. p \in Paths /\ LocalChanged(k, p)
      BY <2>1, FollowRunning DEF Conflicts, InConflict, Untracked, RunType
    <3>2. run[k].base[p] \in run[k].loaded /\ run[k].base[p].local = p
      BY <2>1, <3>1, FollowRunning DEF At, Followed
    <3>3. Follows(run[k].base[p], local, edited)
      BY <2>1, <3>2, FollowRunning DEF At, Followed
    <3> QED
      BY <2>1, <3>1, <3>2, <3>3 DEF LocalChanged, Follows, Holds
  <2>2. ASSUME At(k, "hook", "entries"), NEW e \in run[k].todo, Stale(k, e), ~Unedited(e)
        PROVE  e.local \in edited
    <3>1. Follows(e, local, edited)
      BY <2>2, ToFollow DEF At
    <3> QED
      BY <2>2, <3>1 DEF Follows, Holds, Stale, Unedited
  <2> QED
    BY <2>1, <2>2
<1> QED
  BY <1>1, SyncInvariant, TidyInvariant, FollowInvariant, PTL
=============================================================================
