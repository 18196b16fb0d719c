-------------------------------- MODULE Mounts --------------------------------
(***************************************************************************)
(* A workspace: the mounts file that `mount add`, `mount rm` and `mount    *)
(* attach` rewrite (cmd/rolio/command/mount.go, attach.go), the resolver   *)
(* that maps local paths to sources and back (internal/mount/resolver.go), *)
(* and listing and searching a directory that other mounts lie in          *)
(* (internal/mount/adapter.go), which takes one request for each of them.  *)
(*                                                                         *)
(* Commands load the mounts and the manifest, work, and save whole files,  *)
(* with no lock; a listing runs beside them with the mounts it has loaded. *)
(* The code sorts mounts by the length of the text of their local path,    *)
(* the model by its number of names: the same for mounts within each       *)
(* other; which of two mounts beside each other comes first is left open   *)
(* where these numbers agree, and an abstraction where they do not.        *)
(* Hidden files are shown.  The workspace has the mounts file that init    *)
(* writes.                                                                 *)
(***************************************************************************)
EXTENDS SourceFiles

CONSTANTS
    Self,   \* the repository of the workspace
    Locals, \* local paths; <<>> is the workspace
    Dirs,    \* those that are listed
    Targets, \* [source, path, mode]: what is mounted and how
    Procs    \* processes, each of which runs one command at a time

ASSUME MountsAssumption ==
    /\ Self \in Sources /\ Base[Self] = "repos"
    /\ Locals \subseteq Seq(STRING) /\ Dirs \subseteq Seq(STRING)
    /\ Targets \subseteq [source : Sources, path : Seq(STRING), mode : {"readonly", "writable"}]

Points == [local : Locals \ {<<>>}, source : Sources, path : {t.path : t \in Targets} \cup {<<>>},
           mode : {"readonly", "writable"}]

VARIABLES
    mounts, \* .rolio/mounts.toml: the mounts, one at a local path
    kept,   \* local paths with a materialized entry in the manifest
    cmd,    \* per process: the command that runs, and what it will save
    exposed,\* history: materialized files that a race, a kill or an unread manifest endangers
    run     \* the listing that runs, and the history of its time

NoRun == [on |-> FALSE, dir |-> <<>>, mounts |-> {}, todo |-> {}, nodes |-> {},
          ever |-> {}, always |-> {}]

\* A command's list of mounts and entries are those that it will save; it is raced once
\* another one has run beside it.
Doing(op, local, list, keep) ==
    [op |-> op, local |-> local, list |-> list, keep |-> keep, raced |-> FALSE]
NoCommand == Doing("none", <<>>, {}, {})

workspace == <<mounts, kept, cmd, exposed>>
vars == <<files, table, mounts, kept, cmd, exposed, run>>

-----------------------------------------------------------------------------
(* The resolver *)

Under(root, p) == IsPrefix(root, p)
Rest(root, p)  == SubSeq(p, Len(root) + 1, Len(p))

\* NewResolver refuses the root of the own repository.
Accepts(ms) == ~\E m \in ms : m.source = Self /\ m.path = <<>>

\* Mounts are tried by the length of their local path, longest first.
Deepest(S) == CHOOSE m \in S : \A n \in S : Len(m.local) >= Len(n.local)

Over(ms, p)     == {m \in ms : Under(m.local, p)}
Resolves(ms, p) == Over(ms, p) # {}
Resolve(ms, p)  == LET m == Deepest(Over(ms, p)) IN
    [source |-> m.source, path |-> m.path \o Rest(m.local, p), mode |-> m.mode]

\* ToLocalSource: the first mount that shows the path, and where it does.
Showing(ms, s, p) == {m \in ms : m.source = s /\ Under(m.path, p)}
Shown(ms, s, p)   == Showing(ms, s, p) # {}
ToLocal(ms, s, p) == LET m == Deepest(Showing(ms, s, p)) IN m.local \o Rest(m.path, p)

\* overlayPlan, moreSpecificMounts
Descendants(ms, p) == {m \in ms : IsStrictPrefix(p, m.local)}

\* Mutant: a mount hides only the file at its own path.
ShadowedAtMount(ms, root, p) == \E m \in Descendants(ms, root) : m.local = p

\* shadowedByMount, for a file; a directory at the path of a mount is merged.
Shadowed(ms, root, p) == \E m \in Descendants(ms, root) : Under(m.local, p)

\* What Cat reads at a local path.
CanRead(ms, p) == Resolves(ms, p) /\ LET r == Resolve(ms, p) IN IsFile(r.source, r.path)
Readable(ms)   == {p \in {ToLocal(ms, f.source, f.path) : f \in {g \in files :
                        Shown(ms, g.source, g.path)}} : CanRead(ms, p)}

-----------------------------------------------------------------------------
(* LS, Tree, Find and Grep of a directory *)

\* Mutant: a directory with mounts below it shows only these.
RequestsBelow(ms, dir) ==
    IF Descendants(ms, dir) = {}
    THEN {[source |-> Resolve(ms, dir).source, path |-> Resolve(ms, dir).path, root |-> m.local] :
            m \in {n \in Over(ms, dir) : n = Deepest(Over(ms, dir))}}
    ELSE {[source |-> m.source, path |-> m.path, root |-> m.local] : m \in Descendants(ms, dir)}

\* The requests: one for the mount that the directory is in and one for each below.
Requests(ms, dir) ==
    {[source |-> Resolve(ms, dir).source, path |-> Resolve(ms, dir).path, root |-> m.local] :
        m \in {n \in Over(ms, dir) : n = Deepest(Over(ms, dir))}}
    \cup {[source |-> m.source, path |-> m.path, root |-> m.local] : m \in Descendants(ms, dir)}

Browse(dir) ==
    /\ ~run.on /\ Accepts(mounts) /\ Requests(mounts, dir) # {}
    /\ run' = [on |-> TRUE, dir |-> dir, mounts |-> mounts, todo |-> Requests(mounts, dir),
               nodes |-> {}, ever |-> Readable(mounts), always |-> Readable(mounts)]
    /\ UNCHANGED <<files, table, workspace>>

\* collectMountNodes, and the loop of grepComposite: one request and what is kept of it.
Collected(ms, q) ==
    {ToLocal(ms, f.source, f.path) : f \in {g \in Walked(q.source, q.path) :
        Shown(ms, g.source, g.path) /\ ~Shadowed(ms, q.root, ToLocal(ms, g.source, g.path))}}

Fetch ==
    /\ run.on /\ UNCHANGED <<files, table, workspace>>
    /\ \E q \in run.todo :
        /\ IsDirAt(q.source, q.path)
        /\ run' = [run EXCEPT !.todo = @ \ {q}, !.nodes = @ \cup Collected(run.mounts, q)]

\* The whole listing fails when one source is missing, empty or a file.
FetchFails ==
    /\ run.on /\ UNCHANGED <<files, table, workspace>>
    /\ \E q \in run.todo : ~IsDirAt(q.source, q.path) /\ run' = NoRun

Answered == run.on /\ run.todo = {}

\* NewFromNodes and the walk of LS: a file hides what is below it.  Grep takes the
\* same requests and has no tree.
Answer == {p \in run.nodes : Under(run.dir, p) /\ ~\E q \in run.nodes : IsStrictPrefix(q, p)}

Respond ==
    /\ Answered /\ run' = NoRun
    /\ UNCHANGED <<files, table, workspace>>

-----------------------------------------------------------------------------
(* Commands *)

Open(c) == cmd[c].op # "none"
End(c)  == cmd' = [cmd EXCEPT ![c] = NoCommand]

\* Every command builds the resolver first, and loads what it will rewrite.
Begin(c, x) ==
    /\ ~Open(c) /\ Accepts(mounts)
    /\ cmd' = [d \in Procs |-> IF d = c THEN [x EXCEPT !.raced = \E e \in Procs \ {c} : Open(e)]
                               ELSE [cmd[d] EXCEPT !.raced = Open(d)]]
    /\ UNCHANGED <<files, table, mounts, kept, run>>

\* A save truncates the file before it writes: who loads it then finds no mounts.
Loads(c) == {mounts} \cup {{} : d \in {e \in Procs \ {c} : cmd[e].op \in {"place", "checked"}}}

Mount(local, source, path, mode) ==
    [local |-> local, source |-> source, path |-> path, mode |-> mode]

At(ms, local) == {m \in ms : m.local = local}

\* The list that is saved: the mount takes the place of the one at its path.
Placed(ms, m) == (ms \ At(ms, m.local)) \cup {m}

Place(c, m, force) == \E ms \in Loads(c) :
    /\ At(ms, m.local) = {} \/ force
    /\ Begin(c, Doing("place", m.local, Placed(ms, m), {}))
    /\ exposed' = IF ms = mounts THEN exposed ELSE exposed \cup kept

MountAdd(c, local, target, force) ==
    /\ local # <<>>
    /\ ~(target.source = Self /\ target.path = <<>>)
    /\ ~(Base[target.source] = "docsets" /\ target.mode = "writable")
    /\ Exists(target.source, target.path)
    /\ Place(c, Mount(local, target.source, target.path, target.mode), force)

\* One exact match, or else one whose last part is the keyword.
Matches(keyword) ==
    LET repos == {s \in table : Base[s] = "repos"}
        exact == {s \in repos : Name[s] = keyword} IN
    IF exact # {} THEN exact ELSE {s \in repos : <<Last(Name[s])>> = keyword}

Attach(c, keyword, local, force) ==
    /\ local # <<>> /\ Cardinality(Matches(keyword)) = 1
    /\ LET s == CHOOSE s \in Matches(keyword) : TRUE IN
       Place(c, Mount(local, s, <<>>, "readonly"), force)

\* Mutant: entries are looked up at the path of the mount only.
EntriesAt(local) == {p \in kept : p = local}

EntriesUnder(local) == {p \in kept : Under(local, p)}

\* The mounts are saved, and refreshAfterMount loads them and the manifest to rewrite
\* the entries below the mount (CliSync).  With a mount of the whole own repository it
\* fails, and so does every later command.
SaveMounts(c) ==
    /\ cmd[c].op = "place" /\ mounts' = cmd[c].list
    /\ IF Accepts(mounts')
       THEN \E gone \in SUBSET EntriesUnder(cmd[c].local) :
              cmd' = [cmd EXCEPT ![c] = [@ EXCEPT !.op = "sync", !.list = {}, !.keep = kept \ gone]]
       ELSE End(c)
    /\ UNCHANGED <<files, table, kept, exposed, run>>

MountRemove(c, local) ==
    /\ At(mounts, local) # {}
    /\ Begin(c, Doing("remove", local, mounts \ At(mounts, local), {}))
    /\ UNCHANGED exposed

\* The check reads the manifest after the mounts are loaded.  It is left out when the
\* manifest does not parse, and finds nothing while another command rewrites it.  A
\* refused removal fails (Interrupted).
CheckRemove(c) ==
    /\ cmd[c].op = "remove" /\ cmd' = [cmd EXCEPT ![c].op = "checked"]
    /\ \/ EntriesUnder(cmd[c].local) = {} /\ UNCHANGED exposed
       \/ exposed' = exposed \cup {p \in kept : Under(cmd[c].local, p)}
    /\ UNCHANGED <<files, table, mounts, kept, run>>

SaveRemoved(c) ==
    /\ cmd[c].op = "checked" /\ mounts' = cmd[c].list /\ End(c)
    /\ UNCHANGED <<files, table, kept, exposed, run>>

\* sync materialize, pull and the hook for a file or below a directory (CliSync), and
\* sync dematerialize.
Materialize(c, new) ==
    /\ new # {} /\ new \subseteq Readable(mounts) \ kept
    /\ Begin(c, Doing("sync", <<>>, {}, kept \cup new)) /\ UNCHANGED exposed

Dematerialize(c, p) ==
    /\ EntriesUnder(p) # {}
    /\ Begin(c, Doing("sync", <<>>, {}, kept \ EntriesUnder(p))) /\ UNCHANGED exposed

SaveManifest(c) ==
    /\ cmd[c].op = "sync" /\ kept' = cmd[c].keep /\ End(c)
    /\ exposed' = kept' \cap (exposed \cup {p \in kept' \ kept : cmd[c].raced})
    /\ UNCHANGED <<files, table, mounts, run>>

\* A command refuses, fails or is killed, in the middle of its save too.
Interrupted(c) ==
    /\ Open(c) /\ End(c) /\ UNCHANGED <<files, table, run>>
    /\ \/ UNCHANGED <<mounts, kept, exposed>>
       \/ /\ cmd[c].op \in {"place", "checked"}
          /\ mounts' = {} /\ exposed' = kept /\ UNCHANGED kept
       \/ cmd[c].op = "sync" /\ kept' = {} /\ exposed' = {} /\ UNCHANGED mounts

-----------------------------------------------------------------------------
(* Writes and other changes in the sources *)

CanWrite(ms, p) == Resolves(ms, p) /\ Resolve(ms, p).mode = "writable"

\* The files of a listing that could be read at some time, or all the time so far.
Witnessed ==
    \/ ~run.on /\ UNCHANGED run
    \/ /\ run.on
       /\ \E ms \in {run.mounts} : \E now \in {Readable(ms)'} :
            run' = [run EXCEPT !.ever = @ \cup now, !.always = @ \cap now]

\* Put and Edit, and Delete, through a mount.
Write(p) ==
    /\ Accepts(mounts) /\ CanWrite(mounts, p)
    /\ WriteAt(Resolve(mounts, p).source, Resolve(mounts, p).path)
    /\ Witnessed /\ UNCHANGED workspace

Delete(p) ==
    /\ Accepts(mounts) /\ CanWrite(mounts, p)
    /\ DeleteAt(Resolve(mounts, p).source, Resolve(mounts, p).path)
    /\ Witnessed /\ UNCHANGED workspace

\* Other users and the server.
Outside ==
    /\ \/ \E f \in Places : WriteFile(f) \/ RemoveFile(f)
       \/ \E s \in Sources : Register(s) \/ Unregister(s)
    /\ Witnessed /\ UNCHANGED workspace

\* DefaultMounts: a directory of the own repository at the same path.
Init ==
    /\ files = {} /\ table = Sources
    /\ \E t \in Targets : /\ t.source = Self /\ t.path \in Locals \ {<<>>}
                          /\ mounts = {Mount(t.path, Self, t.path, "writable")}
    /\ kept = {} /\ exposed = {} /\ cmd = [c \in Procs |-> NoCommand] /\ run = NoRun

Command(c) ==
    \/ \E local \in Locals, force \in BOOLEAN :
        \/ \E target \in Targets : MountAdd(c, local, target, force)
        \/ \E keyword \in {Name[s] : s \in Sources} \cup {<<Last(Name[s])>> : s \in Sources} :
            Attach(c, keyword, local, force)
    \/ \E local \in Locals : MountRemove(c, local) \/ Dematerialize(c, local)
    \/ \E new \in SUBSET Readable(mounts) : Materialize(c, new)
    \/ SaveMounts(c) \/ CheckRemove(c) \/ SaveRemoved(c) \/ SaveManifest(c) \/ Interrupted(c)

Next ==
    \/ \E c \in Procs : Command(c)
    \/ Outside \/ Fetch \/ FetchFails \/ Respond
    \/ \E dir \in Dirs : Browse(dir)
    \/ \E p \in Readable(mounts) \cup Dirs : Delete(p)
    \/ \E f \in Places : Shown(mounts, f.source, f.path)
            /\ Write(ToLocal(mounts, f.source, f.path))

Spec == Init /\ [][Next]_vars

-----------------------------------------------------------------------------
(* Properties *)

\* No place of a source is shown by two mounts.
Disjoint(ms) == \A m, n \in ms : m # n /\ m.source = n.source => ~Under(m.path, n.path)

\* What a listing shows under a path is what reading that path finds: each of its
\* files could be read at some time while it ran, and each file that could be read
\* all the time is there, although every mount is asked at another moment and files
\* below a mount are hidden by it (adapter.go).  LS leaves out what is below a file.
ListingsFaithful == Answered /\ Disjoint(run.mounts) =>
    /\ Answer \subseteq run.ever
    /\ \A p \in run.always \ Answer :
        Under(run.dir, p) => \E q \in run.ever : IsStrictPrefix(q, p)

\* The path that a response names leads back to the file that it is about, unless a
\* deeper mount hides it there.
PathsReturn == \A f \in files :
    LET p == ToLocal(mounts, f.source, f.path)
        r == Resolve(mounts, p) IN
    Shown(mounts, f.source, f.path)
        /\ ~Shadowed(mounts, Deepest(Showing(mounts, f.source, f.path)).local, p)
        => FileAt(r.source, r.path) = f

\* A materialized file keeps a mount, and no two mounts compete for it: rm refuses while
\* the file is there, add and attach never take a path away, and a list of mounts that is
\* saved late has the mounts of all files that were there when it was loaded (mount.go).
\* It says nothing of a file whose entry is saved by a command that another one ran
\* beside, of an rm that does not get to see the manifest, and of what a load beside a
\* save, or a kill in one, leaves of the mounts: these files the code may strand.
KeptStayMounted == \A p \in kept \ exposed :
    \E m \in Over(mounts, p) : \A n \in Over(mounts, p) \ {m} : Len(n.local) < Len(m.local)
===============================================================================
