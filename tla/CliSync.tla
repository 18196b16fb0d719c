------------------------------- MODULE CliSync -------------------------------
(***************************************************************************)
(* The synchronisation commands of the command line (cmd/rolio/command/    *)
(* sync.go and hook.go) over the manifest (internal/syncmanifest): push,   *)
(* pull, refresh, materialize, dematerialize and the session-start hook.   *)
(*                                                                         *)
(* A command is a process: it loads the manifest, lists and reads the      *)
(* remote documents, plans, changes files and documents one at a time and  *)
(* saves the manifest at the end.  Between any two steps other users write *)
(* remote documents, the user edits local files, a second command runs, or *)
(* the command fails and leaves what it has done so far behind.            *)
(*                                                                         *)
(* A document and its local file have the same name here: the mount that   *)
(* relates the two names is a bijection on the paths under a root.         *)
(***************************************************************************)
EXTENDS FiniteSets

CONSTANTS
    Commands,    \* processes that run sync commands in this workspace
    Paths,       \* the documents
    Contents,    \* file contents
    Empty,       \* the content ""
    Roots,       \* the directories that commands are given, and the mounts
    Mounts,      \* the mounts: the roots that a hook visits
    Repos,       \* the roots whose documents are in a repository (the others are
                 \* in a docs:// or docset:// source)
    Top,         \* the root "", the whole workspace, or None
    Under,       \* Under[r]: the documents under r
    Copies,      \* tells entries of one path apart that are equal otherwise
    First,       \* the copy that is taken first
    Invocations, \* the command lines that are used
    LocalBusy,   \* whether the user edits files while a command runs
    RemoteBusy,  \* whether documents are written while a command runs
    MayFail,     \* whether commands are killed, or end because a call fails
    HookFails,   \* whether calls of a hook fail, or its 5 seconds pass
    None         \* no file, no document, no entry

\* store.HashContent, taken to be free of collisions.
HashContent(x) == <<"sha256", x>>
Hashes == {HashContent(x) : x \in Contents}

\* refresh is pull without options, materialize is pull --materialize.
CommandLines ==
    [cmd : {"pull", "push", "dematerialize", "hook"}, root : Roots,
     materialize : BOOLEAN, force : {"no", "local", "remote"}, keep : BOOLEAN]

Entries == [local : Paths, mount : Roots, hash : Hashes, mat : BOOLEAN, copy : Copies]
Files   == [content : Contents, hash : Hashes]
Changes == [act : {"accept", "push", "materialize"}, content : Contents, entry : Entries]

ASSUME SyncAssumption ==
    /\ Under \in [Roots -> SUBSET Paths]
    /\ Mounts \subseteq Roots \ {Top}
    /\ Repos \subseteq Roots
    /\ Top \in Roots \cup {None}
    /\ First \in Copies
    /\ Invocations \subseteq CommandLines
    /\ Empty \in Contents
    /\ None \notin Contents \cup Paths \cup Roots \cup Hashes \cup Entries \cup Files \cup Changes
    /\ {LocalBusy, RemoteBusy, MayFail, HookFails} \subseteq BOOLEAN

VARIABLES
    remote,   \* remote[p]: the content of document p, or None
    local,    \* local[p]: the content of its local file, or None
    manifest, \* .rolio/manifest.toml: a set of entries
    run,      \* run[k]: the command line k executes, and its locals
    seen,     \* history: the contents document p has had
    edited    \* history: the files the user has changed since a command last
              \* wrote them or recorded their content

vars == <<remote, local, manifest, run, seen, edited>>

-----------------------------------------------------------------------------
(* The manifest (syncmanifest) *)

\* The manifest is a list, and may hold one entry several times: its elements
\* are numbered by their copy.  sort.Slice is not stable, so which of several
\* entries of a path comes last is not determined.
EntriesAt(m, p) == {e \in m : e.local = p}
Lookups(m) ==
    {f \in [Paths -> m \cup {None}] :
        \A p \in Paths : IF EntriesAt(m, p) = {} THEN f[p] = None ELSE f[p] \in EntriesAt(m, p)}

EntriesUnder(m, r) == {e \in m : e.local \in Under[r]}

Numbered(e, c) == [e EXCEPT !.copy = c]

\* Upsert and UpdateEntries take what Lookups finds in their arguments.  Upsert
\* leaves one entry of each path, UpdateEntries puts the new entry of a path in
\* the place of every one it has.
Upsert(old, new) ==
    {Numbered(IF new[p] = None THEN old[p] ELSE new[p], First) :
        p \in {q \in Paths : new[q] # None \/ old[q] # None}}

UpdateEntries(m, new) ==
    {e \in m : new[e.local] = None}
        \cup {Numbered(new[e.local], e.copy) : e \in {f \in m : new[f.local] # None}}

\* Mutant: the entries of the root are kept.
KeptAll(m, r) == m

\* What ReplaceUnder keeps: what is not under the root, or was recorded by a
\* command for another root that was not the whole workspace.
Kept(m, r) == {e \in m : e.local \notin Under[r] \/ e.mount \notin {r, Top}}

\* The new entries are appended to those that are kept.
Free(m, p) == Copies \ {e.copy : e \in EntriesAt(m, p)}
NextCopy(m, p) == IF First \in Free(m, p) THEN First ELSE CHOOSE c \in Free(m, p) : TRUE
ReplaceUnder(m, r, new) ==
    Kept(m, r) \cup {Numbered(e, NextCopy(Kept(m, r), e.local)) : e \in new}

-----------------------------------------------------------------------------
(* Commands *)

NoRun == [inv     |-> None,                     \* the command line
          pc      |-> "idle",
          root    |-> None,                     \* the root it works on
          roots   |-> {},                       \* the mounts a hook has left
          loaded  |-> {},                       \* the manifest in memory
          base    |-> [p \in Paths |-> None],   \* manifestEntriesByLocal
          nodes   |-> {},                       \* the remote files listed
          got     |-> [p \in Paths |-> None],   \* the remote files collected
          plan    |-> [p \in Paths |-> None],   \* the changes not applied yet
          todo    |-> {},                       \* the entries not visited yet
          entries |-> {}]                       \* the entries to be recorded

Idle(k) == run[k].pc = "idle"
AllIdle == \A k \in Commands : Idle(k)
At(k, cmd, label) == ~Idle(k) /\ run[k].inv.cmd = cmd /\ run[k].pc = label

\* The locals of command k become r.
Becomes(k, r) == run' = [run EXCEPT ![k] = r]

\* The command ends; what it has not saved is forgotten.
Finish(k) == Becomes(k, NoRun)

EntryFor(k, p, hash, mat) ==
    [local |-> p, mount |-> run[k].root, hash |-> hash, mat |-> mat, copy |-> First]

\* Mutant: the error of a Put is not looked at, and the document is not written.
SetRemoteLost(p, content) == UNCHANGED <<remote, seen>>

SetRemote(p, content) ==
    /\ remote' = [remote EXCEPT ![p] = content]
    /\ seen' = [seen EXCEPT ![p] = @ \cup ({content} \ {None})]

Init ==
    /\ remote \in [Paths -> Contents \cup {None}]
    /\ local \in [Paths -> Contents \cup {None}]
    /\ manifest = {}
    /\ run = [k \in Commands |-> NoRun]
    /\ seen = [p \in Paths |-> {remote[p]} \ {None}]
    /\ edited = Paths

\* Another user writes or deletes a document.
RemoteWrite(p, x) ==
    /\ RemoteBusy \/ AllIdle
    /\ x # remote[p]
    /\ SetRemote(p, x)
    /\ UNCHANGED <<local, manifest, run, edited>>

\* The user writes or deletes a local file.
LocalEdit(p, x) ==
    /\ LocalBusy \/ AllIdle
    /\ x # local[p]
    /\ local' = [local EXCEPT ![p] = x]
    /\ edited' = edited \cup {p}
    /\ UNCHANGED <<remote, manifest, run, seen>>

-----------------------------------------------------------------------------
(* Collecting the remote files of a root: pull and hook *)

StartPull(k, i) ==
    /\ Idle(k) /\ i.cmd = "pull"
    /\ Becomes(k, [NoRun EXCEPT
                 !.inv = i, !.pc = "list", !.root = i.root, !.loaded = manifest])
    /\ UNCHANGED <<remote, local, manifest, seen, edited>>

\* The hook visits the roots of all mounts.
StartHook(k, i) ==
    /\ Idle(k) /\ i.cmd = "hook"
    /\ Becomes(k, [NoRun EXCEPT
                 !.inv = i, !.pc = "next", !.roots = Mounts, !.loaded = manifest])
    /\ UNCHANGED <<remote, local, manifest, seen, edited>>

NextRoot(k) ==
    /\ At(k, "hook", "next")
    /\ \E r \in run[k].roots :
        Becomes(k, [run[k] EXCEPT !.pc = "list", !.root = r, !.roots = @ \ {r}])
    /\ UNCHANGED <<remote, local, manifest, seen, edited>>

\* The hook is done with a root, and has the manifest m in memory.
LeaveRoot(k, m) == Becomes(k, [NoRun EXCEPT
    !.inv = run[k].inv, !.pc = "next", !.roots = run[k].roots, !.loaded = m])

\* An error ends a pull, and makes a hook skip the root.
Skipped(k) ==
    \/ run[k].inv.cmd = "hook" /\ LeaveRoot(k, run[k].loaded)
    \/ run[k].inv.cmd # "hook" /\ Finish(k)

\* Stat and LS.  Stat fails when nothing is left under the root.
ListRemote(k) ==
    LET there == {p \in Under[run[k].root] : remote[p] # None}
    IN  /\ run[k].pc = "list"
        /\ \/ /\ there = {}
              /\ Skipped(k)
           \/ /\ there # {}
              /\ \E base \in Lookups(run[k].loaded) :
                    Becomes(k, [run[k] EXCEPT !.pc = "hashes", !.nodes = there, !.base = base])
        /\ UNCHANGED <<remote, local, manifest, seen, edited>>

\* Mutant: a file that is not read has no content at all.
UnreadMissing(hash) == [content |-> None, hash |-> hash]

\* A file whose hash is the recorded one is not read: its content stays "".
Unread(hash) == [content |-> Empty, hash |-> hash]

\* BatchHashes.
HashRemote(k) ==
    LET same(p) == /\ p \in run[k].nodes /\ remote[p] # None /\ run[k].base[p] # None
                   /\ run[k].base[p].hash = HashContent(remote[p])
    IN  /\ run[k].pc = "hashes"
        /\ Becomes(k, [run[k] EXCEPT !.pc = "cat",
                     !.got = [p \in Paths |-> IF same(p) THEN Unread(HashContent(remote[p])) ELSE None]])
        /\ UNCHANGED <<remote, local, manifest, seen, edited>>

CatRemote(k, p) ==
    /\ run[k].pc = "cat" /\ p \in run[k].nodes /\ run[k].got[p] = None
    /\ \/ /\ remote[p] = None
          /\ Skipped(k)
       \/ /\ remote[p] # None
          /\ Becomes(k, [run[k] EXCEPT !.got = [@ EXCEPT ![p] =
                [content |-> remote[p], hash |-> HashContent(remote[p])]]])
    /\ UNCHANGED <<remote, local, manifest, seen, edited>>

Collected(k) == \A p \in run[k].nodes : run[k].got[p] # None

-----------------------------------------------------------------------------
(* The plan of a pull, and its application *)

RemoteChanged(k, p) == run[k].base[p] = None \/ run[k].base[p].hash # run[k].got[p].hash
LocalChanged(k, p)  == /\ local[p] # None /\ run[k].base[p] # None
                       /\ run[k].base[p].hash # HashContent(local[p])
Untracked(k, p)     == /\ local[p] # None /\ run[k].base[p] = None
                       /\ run[k].got[p].hash # HashContent(local[p])

\* Mutant: a file without an entry is no conflict.
InConflictTracked(k, p) ==
    LocalChanged(k, p) /\ (RemoteChanged(k, p) \/ run[k].inv.materialize)

\* Both sides have changed, or materializing would overwrite the local file.
InConflict(k, p) ==
    \/ LocalChanged(k, p) /\ RemoteChanged(k, p)
    \/ run[k].inv.materialize /\ (LocalChanged(k, p) \/ Untracked(k, p))

Conflicts(k) == {p \in run[k].nodes : InConflict(k, p)}

Change(k, p) ==
    LET file == run[k].got[p]
        same == local[p] # None /\ HashContent(local[p]) = file.hash
    IN  IF run[k].inv.force = "local" /\ InConflict(k, p)
        THEN [act |-> "push", content |-> local[p],
              entry |-> EntryFor(k, p, HashContent(local[p]), TRUE)]
        ELSE [act |-> IF run[k].inv.materialize THEN "materialize" ELSE "accept",
              content |-> file.content,
              entry |-> EntryFor(k, p, file.hash, run[k].inv.materialize \/ same)]

\* The local files are read one after the other and nothing else happens to
\* what they are compared with, so that one step reads them all.
PlanPull(k) ==
    /\ At(k, "pull", "cat") /\ Collected(k)
    /\ \/ /\ Conflicts(k) # {} /\ run[k].inv.force = "no"
          /\ Finish(k)
       \/ /\ Conflicts(k) = {} \/ run[k].inv.force # "no"
          /\ Becomes(k, [run[k] EXCEPT !.pc = "apply",
                       !.plan = [p \in Paths |-> IF p \in run[k].nodes THEN Change(k, p) ELSE None]])
    /\ UNCHANGED <<remote, local, manifest, seen, edited>>

Planned(k, p, act) == run[k].pc = "apply" /\ run[k].plan[p] # None /\ run[k].plan[p].act = act

\* The change is applied and its entry is kept for the manifest.
Applied(k, p) == 
    Becomes(k, [run[k] EXCEPT !.plan = [@ EXCEPT ![p] = None],
                              !.entries = @ \cup {run[k].plan[p].entry}])

Accept(k, p) ==
    /\ Planned(k, p, "accept")
    /\ Applied(k, p)
    /\ UNCHANGED <<remote, local, manifest, seen, edited>>

\* A Put without ExpectedHash.
PushConflict(k, p) ==
    /\ At(k, "pull", "apply") /\ Planned(k, p, "push")
    /\ SetRemote(p, run[k].plan[p].content)
    /\ Applied(k, p)
    /\ UNCHANGED <<local, manifest, edited>>

\* Mutant: what was collected is written, also for a file that was not read.
ToWriteCollected(p, content) == content

\* The content that a pull writes: a file that was not read is read now, and so
\* is an empty one, from the source of its mount.
ToWrite(p, content) == IF content = Empty THEN remote[p] ELSE content

WriteFile(p, content) ==
    /\ local' = [local EXCEPT ![p] = content]
    /\ edited' = edited \ {p}

Materialize(k, p) ==
    LET content == ToWrite(p, run[k].plan[p].content)
    IN  /\ Planned(k, p, "materialize")
        /\ \/ /\ content = None
              /\ Finish(k)
              /\ UNCHANGED <<local, edited>>
           \/ /\ content # None
              /\ WriteFile(p, content)
              /\ Applied(k, p)
        /\ UNCHANGED <<remote, manifest, seen>>

\* os.WriteFile truncates the manifest before it writes the new one.
Truncate(k, new) ==
    /\ manifest' = {}
    /\ Becomes(k, [run[k] EXCEPT !.pc = "write", !.loaded = new])
    /\ UNCHANGED <<remote, local, seen, edited>>

AllApplied(k) == run[k].pc = "apply" /\ \A p \in Paths : run[k].plan[p] = None

\* Copies bounds how often one path is in the manifest.
SavePull(k) ==
    /\ At(k, "pull", "apply") /\ AllApplied(k)
    /\ \A e \in run[k].entries : Free(Kept(run[k].loaded, run[k].root), e.local) # {}
    /\ Truncate(k, ReplaceUnder(run[k].loaded, run[k].root, run[k].entries))

WriteManifest(k) ==
    LET recorded == {e \in run[k].loaded : /\ e.mat /\ local[e.local] # None
                                           /\ HashContent(local[e.local]) = e.hash}
    IN  /\ run[k].pc = "write"
        /\ manifest' = run[k].loaded
        /\ edited' = edited \ {e.local : e \in recorded}
        /\ Finish(k)
        /\ UNCHANGED <<remote, local, seen>>

-----------------------------------------------------------------------------
(* push *)

ScanLocal(k, i) ==
    LET there == {p \in Under[i.root] : local[p] # None}
    IN  /\ Idle(k) /\ i.cmd = "push"
        /\ Becomes(k, [NoRun EXCEPT
              !.inv = i, !.pc = "apply", !.root = i.root,
              !.plan = [p \in Paths |->
                  IF p \in there
                  THEN [act |-> "push", content |-> local[p],
                        entry |-> [local |-> p, mount |-> i.root,
                                   hash |-> HashContent(local[p]), mat |-> TRUE,
                                   copy |-> First]]
                  ELSE None]])
        /\ UNCHANGED <<remote, local, manifest, seen, edited>>

\* A Put without ExpectedHash.
PushFile(k, p) ==
    /\ At(k, "push", "apply") /\ Planned(k, p, "push")
    /\ SetRemote(p, run[k].plan[p].content)
    /\ Applied(k, p)
    /\ UNCHANGED <<local, manifest, edited>>

LoadForPush(k) ==
    /\ At(k, "push", "apply") /\ AllApplied(k)
    /\ Becomes(k, [run[k] EXCEPT !.pc = "save", !.loaded = manifest])
    /\ UNCHANGED <<remote, local, manifest, seen, edited>>

SavePush(k) ==
    /\ At(k, "push", "save")
    /\ \E old \in Lookups(run[k].loaded), new \in Lookups(run[k].entries) :
        Truncate(k, Upsert(old, new))

-----------------------------------------------------------------------------
(* dematerialize *)

StartDematerialize(k, i) ==
    LET entries == EntriesUnder(manifest, i.root)
    IN  /\ Idle(k) /\ i.cmd = "dematerialize" /\ entries # {}
        /\ Becomes(k, [NoRun EXCEPT
              !.inv = i, !.pc = "entries", !.root = i.root, !.loaded = manifest,
              !.todo = entries])
        /\ UNCHANGED <<remote, local, manifest, seen, edited>>

\* os.Remove takes the file as it is now.
Dematerialize(k, e) ==
    LET gone == e.mat /\ ~run[k].inv.keep
    IN  /\ At(k, "dematerialize", "entries") /\ e \in run[k].todo
        /\ local' = IF gone THEN [local EXCEPT ![e.local] = None] ELSE local
        /\ edited' = IF gone THEN edited \ {e.local} ELSE edited
        /\ Becomes(k, [run[k] EXCEPT !.todo = @ \ {e},
                              !.entries = @ \cup {[e EXCEPT !.mat = FALSE]}])
        /\ UNCHANGED <<remote, manifest, seen>>

SaveDematerialized(k) ==
    /\ At(k, "dematerialize", "entries") /\ run[k].todo = {}
    /\ \E new \in Lookups(run[k].entries) : Truncate(k, UpdateEntries(run[k].loaded, new))

-----------------------------------------------------------------------------
(* hook session-start *)

VisitEntries(k) ==
    /\ At(k, "hook", "cat") /\ Collected(k)
    /\ Becomes(k, [run[k] EXCEPT !.pc = "entries",
                          !.todo = EntriesUnder(run[k].loaded, run[k].root)])
    /\ UNCHANGED <<remote, local, manifest, seen, edited>>

\* Mutant: a changed document is not noticed.
StaleUnnoticed(k, e) == FALSE

Stale(k, e) == e.mat /\ e.hash # run[k].got[e.local].hash
Unedited(e) == local[e.local] # None /\ HashContent(local[e.local]) = e.hash

\* The entry is done with; the new one, or the old one, is recorded.
Visited(k, e, new) == Becomes(k, [run[k] EXCEPT !.todo = @ \ {e}, !.entries = @ \cup {new}])

\* Mutant: the old hash is recorded for the new content.
RenewedUnchanged(k, e) == EntryFor(k, e.local, e.hash, e.mat)

Renewed(k, e) == EntryFor(k, e.local, run[k].got[e.local].hash, e.mat)

\* The document is gone, or the local file differs from the entry: the entry stays.
KeepEntry(k, e) ==
    /\ At(k, "hook", "entries") /\ e \in run[k].todo
    /\ e.local \in run[k].nodes => Stale(k, e) /\ ~Unedited(e)
    /\ Visited(k, e, e)
    /\ UNCHANGED <<remote, local, manifest, seen, edited>>

RenewEntry(k, e) ==
    /\ At(k, "hook", "entries") /\ e \in run[k].todo
    /\ e.local \in run[k].nodes /\ ~Stale(k, e)
    /\ Visited(k, e, Renewed(k, e))
    /\ UNCHANGED <<remote, local, manifest, seen, edited>>

\* readLocalSyncFile finds the recorded content: the write is the next step.
Overwrite(k, e) ==
    /\ At(k, "hook", "entries") /\ e \in run[k].todo
    /\ e.local \in run[k].nodes /\ Stale(k, e) /\ Unedited(e)
    /\ Becomes(k, [run[k] EXCEPT !.pc = "overwrite",
            !.plan = [@ EXCEPT ![e.local] =
                [act |-> "materialize", content |-> run[k].got[e.local].content, entry |-> e]]])
    /\ UNCHANGED <<remote, local, manifest, seen, edited>>

\* The hook reads such a file with the adapter of repositories, which finds
\* nothing when the mount has another source (and no repository has its name).
HookContent(k, p) ==
    LET content == run[k].plan[p].content
    IN  IF content # Empty THEN content
        ELSE IF run[k].root \in Repos THEN remote[p] ELSE None

HookWrite(k, p) ==
    LET change  == run[k].plan[p]
        content == HookContent(k, p)
        done(new) == Becomes(k, [run[k] EXCEPT !.pc = "entries", !.plan = [@ EXCEPT ![p] = None],
                               !.todo = @ \ {change.entry}, !.entries = @ \cup {new}])
    IN  /\ At(k, "hook", "overwrite") /\ change # None
        /\ \/ /\ content = None
              /\ done(change.entry)
              /\ UNCHANGED <<local, edited>>
           \/ /\ content # None
              /\ WriteFile(p, content)
              /\ done(Renewed(k, change.entry))
        /\ UNCHANGED <<remote, manifest, seen>>

\* The new files of the root are among the updates; UpdateEntries drops them.
FinishRoot(k) ==
    LET new == {EntryFor(k, p, run[k].got[p].hash, FALSE) :
                  p \in {q \in run[k].nodes : EntriesAt(run[k].loaded, q) = {}}}
    IN  /\ At(k, "hook", "entries") /\ run[k].todo = {}
        /\ \E updates \in Lookups(run[k].entries \cup new) :
            LeaveRoot(k, UpdateEntries(run[k].loaded, updates))
        /\ UNCHANGED <<remote, local, manifest, seen, edited>>

\* A call of the hook fails, or its 5 seconds are over: the root is skipped, or
\* the entry stays.
HookCallFails(k) ==
    /\ HookFails /\ ~Idle(k) /\ run[k].inv.cmd = "hook"
    /\ \/ run[k].pc \in {"list", "hashes", "cat"} /\ Skipped(k)
       \/ \E p \in Paths :
            /\ run[k].pc = "overwrite" /\ run[k].plan[p] # None
            /\ Becomes(k, [run[k] EXCEPT !.pc = "entries", !.plan = [@ EXCEPT ![p] = None],
                 !.todo = @ \ {run[k].plan[p].entry},
                 !.entries = @ \cup {run[k].plan[p].entry}])
    /\ UNCHANGED <<remote, local, manifest, seen, edited>>

SaveHook(k) ==
    /\ At(k, "hook", "next") /\ run[k].roots = {}
    /\ Truncate(k, run[k].loaded)

-----------------------------------------------------------------------------
(* The system *)

\* The process is killed, or a call fails: a command returns at once.
Fail(k) ==
    /\ MayFail /\ ~Idle(k)
    /\ Finish(k)
    /\ UNCHANGED <<remote, local, manifest, seen, edited>>

Start(k) == \E i \in Invocations :
    StartPull(k, i) \/ StartHook(k, i) \/ ScanLocal(k, i) \/ StartDematerialize(k, i)

\* A step of a running command.
Proceed(k) ==
    \/ NextRoot(k) \/ ListRemote(k) \/ HashRemote(k) \/ PlanPull(k) \/ SavePull(k)
    \/ WriteManifest(k) \/ LoadForPush(k) \/ SavePush(k) \/ SaveDematerialized(k)
    \/ VisitEntries(k) \/ FinishRoot(k) \/ SaveHook(k)
    \/ \E p \in Paths : \/ CatRemote(k, p) \/ Accept(k, p) \/ PushConflict(k, p)
                        \/ Materialize(k, p) \/ PushFile(k, p) \/ HookWrite(k, p)
    \/ \E e \in run[k].todo : \/ Dematerialize(k, e) \/ KeepEntry(k, e)
                              \/ RenewEntry(k, e) \/ Overwrite(k, e)

Environment ==
    \E p \in Paths, x \in Contents \cup {None} : RemoteWrite(p, x) \/ LocalEdit(p, x)

Next == Environment \/ \E k \in Commands : Start(k) \/ Proceed(k) \/ HookCallFails(k) \/ Fail(k)

Spec == Init /\ [][Next]_vars

\* A command that runs goes on, and sessions keep being started.
Fairness == \A k \in Commands :
    /\ WF_vars(Proceed(k))
    /\ SF_vars(\E i \in Invocations : StartHook(k, i))
LiveSpec == Spec /\ Fairness

-----------------------------------------------------------------------------
(* Properties *)

\* Types of all variables.
TypeOK ==
    /\ remote \in [Paths -> Contents \cup {None}]
    /\ local \in [Paths -> Contents \cup {None}]
    /\ manifest \subseteq Entries
    /\ run \in [Commands ->
         [inv : Invocations \cup {None}, root : Roots \cup {None}, roots : SUBSET Roots,
          pc : {"idle", "next", "list", "hashes", "cat", "apply", "entries", "overwrite",
                "save", "write"},
          loaded : SUBSET Entries, base : [Paths -> Entries \cup {None}],
          nodes : SUBSET Paths, got : [Paths -> Files \cup {None}],
          plan : [Paths -> Changes \cup {None}], todo : SUBSET Entries,
          entries : SUBSET Entries]]
    /\ seen \in [Paths -> SUBSET Contents]
    /\ edited \subseteq Paths

Recorded(p, hash) == \E x \in seen[p] : HashContent(x) = hash

\* The content hash of an entry is the hash of a content that the document has
\* had: a command that fails halfway, or two commands at once, never record a
\* baseline for a content that was not uploaded or downloaded (sync.go push,
\* applyRemoteSyncPlan; hook.go).
BaselineWasRemote == \A e \in manifest : Recorded(e.local, e.hash)

\* A local content that the document never had is not overwritten or removed
\* by any command but pull --force-remote and dematerialize (sync.go,
\* buildRemoteSyncPlanFromFiles: unpushed changes; hook.go: local unchanged).
Unpushed(p) == local[p] # None /\ local[p] \notin seen[p]
Discards(k, p) ==
    \/ Materialize(k, p) /\ run[k].inv.force = "remote"
    \/ \E e \in run[k].todo : Dematerialize(k, e) /\ e.local = p
EditsSurvive == [][
    \A p \in Paths : Unpushed(p) /\ local'[p] # local[p] =>
        \/ LocalEdit(p, local'[p])
        \/ \E k \in Commands : Discards(k, p)]_vars

\* What a pull or a push is about to record as materialized is what the local
\* file holds (sync.go, applyRemoteSyncPlan and push).
SavedEntriesHold ==
    \A k \in Commands : run[k].pc = "write" =>
        \A e \in run[k].entries : e.mat => Unedited(e)

\* A file whose entry says that it is materialized holds what was recorded: a
\* pull or a hook finds it changed only if its user has changed it since.  That
\* is so after every sequence of refreshes, pulls with and without
\* --materialize, pushes, dematerializations with and without --keep-files and
\* hooks whose calls fail, as long as none of them is cut off between the files
\* and the manifest (sync.go, buildRemoteSyncPlanFromFiles; hook.go: local has
\* unpushed changes).
ConflictsAreEdits ==
    \A k \in Commands :
        /\ At(k, "pull", "cat") /\ Collected(k) =>
            \A p \in Conflicts(k) :
                run[k].base[p] # None /\ run[k].base[p].mat => p \in edited
        /\ At(k, "hook", "entries") =>
            \A e \in run[k].todo :
                e.local \notin run[k].nodes \/ ~Stale(k, e) \/ Unedited(e) \/ e.local \in edited

\* As long as commands are given roots that do not overlap, the manifest is a
\* map from paths (manifest.go, ReplaceUnder, Upsert, UpdateEntries): it is a
\* list, and what looks a path up in it takes the first entry or the last.
OneEntryPerPath == \A e, f \in manifest : e.local = f.local => e = f

\* Materialized files that the user leaves alone follow their documents: once
\* documents and files are no longer changed, nothing is dematerialized and no
\* call of a hook fails, sessions bring every such file up to date, whatever
\* failed or timed out before; empty documents only in mounts of repositories
\* (hook.go, runHookSessionStart).
Settled == <>[][
    /\ remote' = remote
    /\ ~\E p \in Paths, x \in Contents \cup {None} : LocalEdit(p, x)
    /\ ~\E k \in Commands, i \in Invocations : StartDematerialize(k, i)
    /\ ~\E k \in Commands : HookCallFails(k)]_vars
UpToDate == \A e \in manifest :
    /\ e.mat /\ e.local \notin edited
    /\ remote[e.local] \notin (IF e.mount \in Repos THEN {None} ELSE {None, Empty})
    => local[e.local] = remote[e.local]
HookConverges == Settled => <>[]UpToDate
=============================================================================
