# Verification of rolio

rolio serves repositories of documents as virtual file systems: `rolio-server`
keeps them in PostgreSQL and answers HTTP requests, the `rolio` command line
lists, searches, writes and synchronises them with a local directory. This
directory models the parts whose correctness depends on interleavings, failures,
histories and stale state, checks the models with TLC, and proves their safety
properties with TLAPS for every value of the constants.

| module | what | checked by | proved in |
|---|---|---|---|
| `DocStore` | the document store of a repository, statement by statement, and the garbage collector | `MCDocStore`, 4 configurations | `DocStoreProofs` |
| `Docsets` | docsets and their members, the pool of connections, and the start of the server: migrations and backfill | `MCDocsets`, 1 | `DocsetsProofs` |
| `LegacyStore` | the path-centric store of all repositories with its write-through trees | `MCLegacyStore`, 1 | `LegacyStoreProofs` |
| `TreePaths` | paths with their parents, which the two tree modules extend | through `VfsTree`, `LegacyStore` | |
| `VfsTree` | the file tree that caches and the memory store are made of | `MCVfsTree`, 1 | `VfsTreeProofs` |
| `FileMap` | what a store promises: a map from paths to contents | through `VfsTree` | `VfsTreeProofs` |
| `SourceRegistry` | the registry of a server, its refreshes, and the handlers that use it | `MCSourceRegistry`, 2 | `SourceRegistryProofs` |
| `CliSync` | push, pull, refresh, materialize, dematerialize and the session-start hook of a workspace | `MCCliSync`, 2 | `CliSyncProofs`, `CliSyncQuiet` |
| `SourceFiles` | the sources a client sees and the files in them | through the two below | `MountsProofs` |
| `Mounts` | the mounts of a workspace, the resolver, and listings over several mounts | `MCMounts`, 1 | `MountsProofs` |
| `VirtualRoot` | requests without a repository: one tree over all sources | `MCMounts` | `MountsProofs` |

`VfsTree` implements `FileMap` (a refinement), `LegacyStore` takes its trees from
`VfsTree` by `INSTANCE`, `Mounts` and `VirtualRoot` look at the same `SourceFiles`
from two sides, and `CliSync` and `Mounts` share the manifest only in what
they say of it. No specification declares a recursive operator, and each names
its assumptions on constants. An `MC` module gives constants their values; a
`.cfg` file is one question. `PROJECT.json` maps every definition to the lines it
stands for.

## The system

| component | source | state | operations | talks to |
|---|---|---|---|---|
| document store (`DocAdapter`) | `internal/store/postgres/doc_adapter.go`, `doc_query.go` | tables `rolio_docs`, `rolio_repo_paths`; `cachedTrees` under `mu` | Put, Edit, Delete, reads through `treeFor`, invalidation | PostgreSQL; called by the server's handlers |
| garbage collector | `internal/store/postgres/gc.go` | the same tables | `gcForce`: one DELETE of orphans | runs in its own process beside the server |
| docsets | `internal/store/postgres/docset_adapter.go` | `rolio_docsets`, `rolio_docset_docs` | create, delete, add and remove members | collector (foreign keys), registry, pool of connections |
| backfill and migrations | `internal/store/postgres/backfill.go`, `migrations.go`, `sql/migrations` | legacy tables, collections and document tables | all migrations and `BackfillDocs` at every start | document store, docsets |
| legacy store (`Adapter`) | `internal/store/postgres/adapter.go`, `query.go` | `vfs_nodes`, `vfs_content`, `vfs_repo_nodes` of all repositories; a write-through tree of each under `mu`; `contentMu` | Put, Edit, Delete, Cat with `ensureContent`, reads | PostgreSQL, tree |
| tree | `internal/vfs/tree.go` | nodes, children, contents | New, Put, Edit, Delete, LS, Tree, Find | stores |
| memory store | `internal/store/memory/adapter.go` | a tree, without a lock | all operations | tests only |
| registry and handlers | `internal/server/registry.go`, `server.go`, `internal/store/postgres/registry.go` | three maps of adapters under `mu`; the catalog in the database | Refresh, RegisterRepo, MountSources, lookups, refresh loop, gate of cross-repo writes, docset management | stores, PostgreSQL |
| virtual root | `internal/store/registry.go` | an immutable snapshot of adapters | routing of paths under `/repos` and `/docsets` | adapters |
| HTTP client | `internal/client/client.go` | headers of the next call | one call per operation | server |
| mounts | `internal/mount`, `cmd/rolio/command/mount.go`, `attach.go` | `.rolio/mounts.toml` | add, attach, rm; `Resolve`, `ToLocalSource`, merged listings | client |
| synchronisation | `cmd/rolio/command/sync.go`, `hook.go`, `internal/syncmanifest` | the manifest file, the local files | push, pull, refresh, materialize, dematerialize, status, session start | client, local disk |
| command line writes | `cmd/rolio/command/mutation.go` | manifest (read) | write, edit, rm with a baseline hash | client |
| configuration, installation, search, rendering, usage log | `internal/config`, `cmd/rolio/command/*.go`, ... | files, records that are only appended | | |

How they interact. A command of the command line resolves a local path through
the mounts and calls the client. The server's handler asks the gate (if the
client belongs to another repository) and the registry for an adapter, refreshing
the registry when the name is unknown; the adapter runs its statements against
PostgreSQL and invalidates its tree. Beside the requests run the refresh loop,
other servers of the same database, and the collector; a start of any server
migrates and backfills the tables. In a workspace, commands and hooks run as
processes of their own and meet in the mounts, the manifest and the files.

What is hard, and which property answers it:

| behaviour | where | property |
|---|---|---|
| a value is read, compared or replaced in one statement and written in another | Put, Edit | `EditAtomic`; `UpdatesMatch` (violated) |
| a document is bound, deleted and collected by three parties | upsert, Delete, collector, docset members | `ReferencesHold` (of `DocStore` and of `Docsets`), `DocumentsNotShared` |
| the size of a path and its content are rows of two tables | Put, Edit beside Delete | `SizesAgree` |
| a tree is built while writes commit | `treeFor`, `invalidateRepo` | `CacheCoherent`, `StaleTreeGoes` |
| requests wait for each other's rows | Put, Edit, Delete | `RequestsEnd` |
| a tree is written through beside the tables | legacy Put, Edit, Delete, Cat | `TreesAgree`, `HashesMatch` |
| three structures are kept in step by hand | tree | `LinksMatchNodes`, `NoEmptyDirs`, `ViewsAgree`, `ImplementsFileMap` |
| a transaction ends on a path nobody tested | `DeleteDocset` | `LeaksAreBounded` |
| a start repeats what earlier starts did | migrations, backfill | `StartsAgain`, `BackfillSettles`, `StartsKeepTheRest` |
| refreshes overlap and swap out of order | registry | `RoutedTreesCatchUp`, `OneAdapter`, `TableConverges` |
| a permission is read from a table that is older than the database | gate | `CrossWritesAllowed` |
| a path means different things to two requests | mounts, virtual root | `PathsReturn`, `RootAgrees`, `RootReaches` |
| one answer is put together from several requests | listings over mounts | `ListingsFaithful` |
| two files of a workspace have to fit, and commands load, check and save them without a lock | mounts and manifest | `KeptStayMounted` |
| commands fail between two files, or between the files and the manifest | sync, hook | `BaselineWasRemote`, `EditsSurvive` |
| two commands load and save one manifest, a list that is looked up by path | sync, hook | `BaselineWasRemote`, `OneEntryPerPath` |
| files are compared first and written later | sync, hook | `SavedEntriesHold`, `ConflictsAreEdits`, `EditsSurvive` |
| sessions have to catch up | hook | `HookConverges` |

`PROJECT.json` lists every hazard with its line, including those that no property
covers and why.

## DocStore

State: the two tables (`docs`, `bind`, `size`), the cached tree (`cache`), who
holds the adapter's write lock across a build (`mu`), and for every client the
statement it runs next (`pc`), its request (`req`) and its transaction (`tx`:
locals, row locks, uncommitted writes). `fresh` and `orphans` belong to the
collector. `lost` is a history of writes whose commit was never confirmed.

Every SQL statement is an action, so requests interleave between any two of
them; a statement that waits for a row is split into the choice of the row and
the step that gets it (`updateWait`, `editWait`, `deleteWait`), because at read
committed the choice may be out of date by then. Uncommitted writes stay in `tx`
until `Install` copies them at the commit. Locks follow PostgreSQL: an UPDATE
excludes writers, Edit's SELECT FOR UPDATE also excludes foreign key checks, a
foreign key check only excludes FOR UPDATE and the collector. A transaction may
fail anywhere (`Fail`), be chosen as a deadlock's victim (`DeadlockAbort`), or
commit without the answer arriving (`CommitUnconfirmed`); the server may restart.

Abstractions: contents are opaque and hashes do not collide; a tree is the
function from paths to sizes, since a stale tree shows in the listing; the LIKE
pattern of the recursive DELETE is the function `Matches`, which may select more
than the directory `Under` it. The recursive DELETE takes its rows at once, where
PostgreSQL locks them one by one. `Restart` starts with an empty cache and does not
run the backfill. The expiry of a cached tree is `DropCache` at any time.

| run | instance | what it shows |
|---|---|---|
| `docstore_requests` | 2 clients with all operations and conditions, 1 path, 2 contents, 2 documents, collector | Edit is atomic, no dangling binding, size and content of a path stay together; 1,122,007 states |
| `docstore_tree` | 2 clients, a directory `/d_`, a file in it, and a file `/dx/f` that the LIKE pattern of `/d_` matches too | the cached tree is coherent, no document is bound twice; 176,667 states |
| `docstore_live` | a Put, an Edit and a Delete that can deadlock | every request ends, a stale tree goes; 11,093 states |
| `docstore_conditions` | as the first, no collector | *violated*: two Puts that name the same hash both succeed, the second over what the first has written |

Bounds. All the state that two requests share is the row of a path, the row of a
document and the tree; each invariant relates at most two requests and one path
or two, so two clients on one path meet in every order, and the tree run adds the
paths of a directory. A path is rebound through two documents (old and new); the
third in the tree run lets a deleted document, its successor and one under
construction exist together. The deadlock needs three kinds of requests, hence
three clients in the liveness run, and one content, since what it is does not
matter to who waits.

Fairness. `SF(Proceed(c))` for every client: a statement that can run does, and a
waiter for a lock that is released again and again gets it (PostgreSQL and
`sync.RWMutex` queue their waiters). `WF` of deadlock detection: PostgreSQL looks
for cycles after `deadlock_timeout`. Nothing makes a request arrive, a client
fail or the collector run.

Proved. By cases on the actions, what every request looks like at its statement
(`ShapeInvariant`; `TypeCorrect` follows). On it `DocStoreProofs` builds three
layers, each inductive relative to those before:

1. `LocksExclude`: a row is written by one transaction.
2. `Isolation`: once an Edit has its lock, the document still has the content it
   read (`EditIsolated`); a document about to be bound is kept by a lock or by
   the binding itself (`BindingKept`); requests that hold a document are all for
   the path it is bound to (`AtHome`). None is inductive alone: `ReferencesHold`
   needs `BindingKept` at the commit, which needs `AtHome` to know that a
   concurrent Delete of the binding is of the same path. From it follow
   `NoDanglingPath`, `OnePathPerDocument`, `EditIsAtomic` and
   `SizesAgreeHolds`: the size a path has after a step is that of its content then,
   for which `AtHome` rules out that a commit changes the document of another path. The property leaves
   out one commit, that of a Put which found the path bound and binds it again
   because a Delete came between: it binds a document that it has not written.
3. `TreeInv`: a tree under construction, too, misses only writes that have still
   to be invalidated, and whoever builds holds `mu`; hence `TreeIsCoherent`.

The liveness properties and the violated property are model-checked only.

## CliSync

State: the documents (`remote`), the local files (`local`), the manifest
(`manifest`, a list: entries are numbered by their `copy`, so that equal ones count), and for every command
its locals (`run`). `seen` records the contents each document has had and
`edited` the files changed by the user since they were recorded.

Commands follow the code call by call: a root is listed, hashed and its changed
files fetched in separate calls, the plan compares all local files at once, then
files are written one by one, the manifest is truncated and rewritten. Between
any two of these the documents may change, another command may run, the command
may be killed or a call may fail. Push reads and sends file by file; the hook
visits the entries of each mount and drops what fails, or what its 5 seconds do not
suffice for (`HookFails`); it reads an empty document again with the adapter of
repositories (`HookContent`), which fails in a docs:// or docset:// mount. `Under`
gives the documents of a root, so nested roots are possible: `ReplaceUnder` and
`UpdateEntries` then keep several entries of a path, as in the code.

Abstractions: the mount is a bijection between local and remote names; contents
are opaque except the empty one, which the code cannot tell from a missing
content in some places; times and modes are left out. Which of several entries of a
path a lookup takes is open (`sort.Slice` is not stable).

| run | instance | what it shows |
|---|---|---|
| `sync_two` | 2 commands of 6 command lines on one document, killed or failing anywhere, other users; 1,244,890 states | recorded hashes were the document's; no edit is lost |
| `sync_quiet` | 1 command after the other, of every command line, on 2 documents in 2 mounts (one of a docs:// source), calls of hooks fail or time out; 352,862 states | what is recorded is in the file, conflicts of materialized entries are edits, one entry per path, sessions converge |

Bounds. A command treats documents one by one, so one document and two commands
show the races on a document; two documents show the loops over files and
entries, where a partial result of one matters to the other. Two contents (the
empty one and another) suffice for "changed" and "unchanged". `sync_two` runs
what may overlap; `sync_quiet` runs every command line for one of two mounts
(refresh, plain pull and `--keep-files` included) and a pull and a push for the other,
and excludes what its properties are not about: commands that overlap, are killed
or break off, and users who write while a command runs.

Fairness. `WF(Proceed(k))`: a command that is not killed goes on. `SF(StartHook)`:
sessions keep being started. `HookConverges` presumes that documents eventually
stay as they are, nothing is dematerialized and no call of a hook fails any more; what
timed out before must be made good. It leaves out empty documents of docs:// and
docset:// mounts, which no session can read again.

Proved. `CliSyncProofs` proves `TypeOK`, `BaselineWasRemote`, `EditsSurvive` and
`OneEntryPerPath`, the last for roots that do not overlap (`RootsApart`). The
invariant says of the record of a command what it may rely on: it has the
shape of its program counter (`Typed`), every hash it holds was the document's
(`Honest`), and what it plans to overwrite was seen (`Safe`). Good records stay
good while the history grows, so a step has to show that the new record of its
own command is good. `EditsSurvive` is proved under `~LocalBusy`, that files are
not edited under a running command; without it a pull overwrites an edit that is
made after its comparison. `OneEntryPerPath` is of a list: `Upsert` leaves one
entry of a path whatever it is given, but `UpdateEntries` keeps as many as there
were, and `ReplaceUnder` adds what it is given to what it keeps, so that `Tidy` has to say of
a running pull that it has a change or an entry for a path, never both, and only of
its own root, and of every command that the manifest it has loaded is single too
(`Sound`).
With nested roots both the code and the model get several entries.

`CliSyncQuiet` proves `SavedEntriesHold` and `ConflictsAreEdits`, which are false
when commands, the user or other users interfere: both theorems assume `Alone`, that
one command runs at a time and nobody writes beside it. Between commands everything
may change, and commands may fail or be killed. `QuietInv` follows the locals of the
command statement by statement: what it has collected is the document (`FileHeld`),
what it has planned compares with the file as it is, and what it is about to record
is in the file. For a hook that includes the one file it overwrites before it goes
on. That alone gives `SavedEntriesHold`, for any command lines and any roots,
failures included.

`ConflictsAreEdits` needs more. It is claimed for entries that say materialized: a
refresh, a plain pull or a `--keep-files` records a hash that the file need not have,
and says so in the entry. An entry *follows* its file if the file holds what the
entry says, or has been edited. That could be lost in any mix of command lines,
since a later one takes over entries of an earlier one, and a hook overwrites files
before its deadline cuts it off. It is lost in two cases, which the assumption
`Unbroken` names: a command writes files and dies before it saves the manifest, and
a root lies in another one, whose entries a pull does not look at. There TLC finds a
conflict without an edit, and the code has no defence but `--force-remote`. Without
them `FollowInv` is inductive on top of `QuietInv`: all entries of the manifest follow
while the running command has changed nothing yet (`Harmless`), and those that it
holds follow at every statement (`Followed`, with `Visits` for the loop of a hook and
of a dematerialize, where entries are followed before they are visited and after).

## SourceRegistry

State: the rows of the database (`catalog`), the table of the registry (`table`),
the adapters (`owner`, and `tree`: absent, fresh, or without some write), and
what each request and the refresh loop are doing (`run`). A refresh is the three
listings, the look at the current table with the creation of missing adapters
(`Build`), and the swap; requests call it from the gate, the lookup, a
registration, a docset change, or `GET /v1/mount-sources`. A tree is "stale" when
a change made through this source on this server is missing, which somebody has
to repair, and "foreign" when the change came through a docset's repository or
another server, which only the cache's TTL repairs. `opened` and `disturbed` are
histories: sources that have been writable; sources that had two adapters at
once, left the table, or had a change answered by an error.

Two refreshes that both miss a new source create an adapter each, and requests
that hold the one that is swapped out invalidate a tree that nobody reads. The
properties excuse exactly these sources (`disturbed`), and claim that nothing
else goes wrong: in particular an older refresh that swaps last brings back the
same adapters.

| run | instance | what it shows |
|---|---|---|
| `registry_repo` | 2 requests and the loop on a repository, failing listings | requests and the table use one adapter of a source; the gate holds |
| `registry_live` | 1 request and the loop on a docset that comes and goes, other servers | readers are routed to the tree that a purge reaches; the table comes to agree with the catalog |

Bounds. Entries of different sources are independent but for the listings, so a
repository and a docset are checked on their own; the three processes of
`registry_repo` allow a refresh to overlap with two others. Adapters are chosen
among those nobody refers to; there is one more than there are processes. The VIEW forgets
the owner and tree of adapters nobody refers to: `Build` overwrites both before
they are used again. The refresh of the `docs` namespaces has the form of that of
repositories and is exercised by the proofs, which hold for every mix of sources.

Fairness. `WF(Tick)`: the ticker of `StartRefreshLoop` (the interval must be
positive, otherwise the loop does not run). `WF(Proceed(k))`: a request or
refresh goes on. `TableConverges` presumes that the catalog settles and that
listings succeed from then on.

Proved. `SourceRegistryProofs` proves `TypeOK`, `RoutedTreesCatchUp`, `OneAdapter`
and `CrossWritesAllowed` for every set of sources, kinds, adapters and requests.
The invariant speaks of the adapters that somebody refers to, in the table, in a
table under construction or in a request: they belong to the source they are
looked up for (`Owned`), an undisturbed source has at most one (`Single`), one
whose source has no entry was never reached and has no tree (`Unrouted`), and a
stale tree has a request that will invalidate (`CaughtUp`). `Single` makes the
adapter that a writer clears the one that readers are routed to; `Unrouted` covers
a purge that finds the source missing from the table. The gate needs
`FlagsVouched`: every flag, however old the listing it came from, is of a source
that has been writable.

## VfsTree and FileMap

State: the nodes (`nodes`), the list of each directory (`children`), the loaded
contents (`content`). Put makes the missing directories and links them, Delete
walks the lists, takes what it finds and the directories that are emptied. LS and
Tree walk the lists and do not enter hidden directories; Find goes through the map
of nodes and tests the parts of a path. `Init` is any tree that `New` builds.
Nothing in the code keeps a file and a directory from having one path: Put turns a
directory into a file and keeps what is below it, and Put below a file makes that
file a parent. The model does the same (`Clash`), and says what holds even then.

Abstractions: lists are sets, so sorting and page limits are gone; a path is a
value with `Parent`, `Above` and `Hidden`; a walk is the set it comes to.

| run | instance | what it shows |
|---|---|---|
| `tree` | three levels, one of them hidden, a sibling and a file at the root, two contents: all 1,504 reachable trees | lists and nodes never part, emptied directories go, the walks and Find agree, and the tree is a map from paths to contents |

Bounds. A step changes a path, what is above and what is below it; the instance has
a path with two directories above it, one of which has another child, and one
beside them, so that a Delete empties none, one or two directories. It has every
state, whatever sequence of operations leads there.

Refinement. `ImplementsFileMap` maps a tree to the function from paths to contents
(`Files`) and claims that each step from a tree without a clash is a step of
`FileMap`, and that Delete removes exactly the files at and below its path. With a
clash it would be wrong: what is below a file is not found by a Delete of the
directory above, and stays.

Proved. All five properties, for every tree of paths. `LinksMatchNodes` is
inductive with the types; it makes a walk equal to a condition on the nodes alone
(every directory on the way is one), from which `NoEmptyDirs`, `ViewsAgree` and the
refinement follow. The assumption is that paths form a tree.

## LegacyStore

State: the rows that all repositories share (`kind`, `stored`, `hash`), the
references of each repository (`bound`), the trees in memory (`trees`), which of
them a repository has cached (`cached`), who holds `contentMu` (`loading`), and the
requests. Put and Delete commit and then change the tree that is cached by then;
Edit changes its own tree and then commits; Cat loads a content into its own tree
and offers a hash for it to the table. Each of these is a step, with reloads,
invalidations, failed transactions and stops of the server between them. `TreePut`,
`TreeDelete` and the reads are those of `VfsTree`, on the tree of the request.

Abstractions: a transaction is one step, except the clean-up of a Delete, whose
"not exists" sees the snapshot of its statement; ranking, snippets, pages and the
matching of lines are left out, so that Grep, Search, Locate and BatchHashes are
sets of paths.

A `LIKE` pattern made of the name of a directory is not escaped: `Matches` gives the
paths it selects, which may be more than those below it, and Grep and the other
queries use it. "clear" is a Delete of the root, which the server does not refuse:
it commits the deletion of every reference, then fails in the tree.

A cached tree may differ from the tables in six known ways: requests of one
repository that overlap on a path, a failed Edit, a tree put back after
`Invalidate`, paths below a file (made by a Put, or left by a Delete), a Delete of the
root, and writes of another repository to a shared row. `raced` records the paths to
which one of them has happened, and a reload forgets them. `TreesAgree` claims that
nothing else leads to a difference: what Find and Cat answer from the tree is what
Grep finds in the tables below the directory (what a wildcard finds elsewhere is set
aside, `Elsewhere`). Each rule of `raced` is needed. Without it TLC finds a
counterexample: in the run, or for a tree put back after `Invalidate` with a fourth
step of one repository, and for a Delete of a path that has raced with a second file
in the directory.

| run | instance | what it shows |
|---|---|---|
| `legacy` | 2 clients, 2 repositories, the directories `/d_` and `/de` with a file each, 2 contents, at most 3 requests and invalidations; 333,866 states | trees and tables agree elsewhere, hashes match |

Bounds. Two requests overlap in every order, and the third can meet what they leave
behind (a stale tree, a missing content). The run starts with both repositories
sharing the files `/d_`, `/d_/x` and `/de/y`, and one content without a hash, which only
older servers write; a Put of `/d_/x` turns `/d_` into a directory, whose name as a
pattern selects `/de/y` too. Puts of `/d_/x` have two contents, those of `/d_` one, and
Edits are of `/d_/x`. The directory `/de` is only read and cleared: a Cat there loads a
tree at any moment without racing. That the first request is of `r1` loses nothing,
since the repositories start alike.

Proved. `HashesMatch`, for every set of repositories,
clients and paths. Cat offers the hash of a content that was read long before, and
the table accepts it where there is none; the invariant (`Offered`) is that a
content without a hash is the one that was read, since every write leaves a hash.

`TypeOK` and `TreesAgree`, for every tree of paths besides. Neither is inductive with
the other. The invariant (`TreeInv`) says of the cached tree of a repository that it
is right at every path outside of `raced` except where a request has committed and
not yet changed it, or has changed it and not yet committed (`CacheFits`, with `Due`
and `Editing`); that `raced` holds, with a path, all above it (`Upclosed`), so that a
directory in the tree that has lost its reason is raced as well; that two requests
which meet near a path, one of them writing, have raced there (`Meets`); and of each
request what it may rely on (`Fit`): an Edit still holds the tree that is cached or
one that nobody will see again, a Delete has collected all that is in the tables, a
content that was read is the one stored. A step then changes few rows and one tree,
and the lemmas on `Put`, `Delete` and `LoadTree` say what becomes of its files.

The attempt to prove `TreesAgree` found the model's history too weak, by states that
the bounds of the run of that time did not reach: a Put that turns the directory `d` over `d/x`
into a file while a Delete of `d` has begun leaves `d/x` in the tree if the tree is
loaded again between the commit of the Delete and its write-through. The rules for
files below files, and for the writes of others, are stated for the rows at the time
of the commit since then (`Nested`, `RacedByPut`, `Shared`).

## Docsets

State: the documents (`docs`), the bindings of references of repositories
(`binding`), the docsets and their members, the phase of the server (`server`), the
requests, the connections that are gone (`lost`). AddDocsetMember is three
statements, each on a connection of its own, DeleteDocset a transaction that holds
one. Writes of the document store are one step here. `Migrate` is what the
migrations do at every start (065 copies the collections of the older version
again), `Backfill` the transaction after it.

Abstractions: sizes, times and counts are left out; the collector's DELETE
fails on no row of the older version (the tables of old collections are not created in
this repository; had they a foreign key on the documents, the DELETE would fail in
place of the next start); identifiers are not used again
(they are random); waits for deleted rows are guards (`Pending`).

| run | instance | what it shows |
|---|---|---|
| `docsets` | 2 clients, 2 connections, 4 documents, an old collection with a member, a legacy file and directory; 305,493 states | references hold; what leaks is bounded by what was deleted; starts are repeatable |

Bounds. Two requests interleave on the only docset name, so that a second docset of
that name can follow a deleted one; of the two legacy
paths one is a directory; the four documents are the old member, the import, and
two that replace each other. Deadlock is not checked: a server whose migration fails does
not start, and then nothing happens.

Proved. All six properties. `ReferencesHold` is inductive with the types.
`LeaksAreBounded` follows from an invariant (`Charged`) that counts the connections
that are lost together with the deletes that have chosen a docset which is gone by
now and will lose theirs (`Late`): the deletion of a docset adds at most all other
clients, and nothing else adds any. For the
restarts the invariant says which rows a start finds: `OldMembersStay` (the members
of the older version are there until one is removed), `OneImport` (the unique index
of legacy paths), and `Settled`: the copy and the backfill leave nothing to do for
a second run (`Copied`, `Imports`) until something is written (`touched`).

## Mounts and VirtualRoot

State of `Mounts`: the files and sources that the server has, the mounts file, the
local paths with materialized entries (`kept`), the command that each process runs
with what it is about to save (`cmd`), a history of the files that the code may strand
(`exposed`), and a listing that runs with the
mounts it has loaded (`run`). A path is a sequence of names. `Resolve` takes the
deepest mount, `ToLocal` the deepest that shows the place, and of two with paths of
equal length any one. A listing of a directory asks the mount it is in and every
mount below it, one request after the other (`Fetch`), and drops what a deeper mount
hides. The code sorts mounts by the bytes of their local path and the model by the
number of names: the same within each other, open where the numbers are equal, and an
abstraction for mounts beside each other.

`mount add`, `attach` and `rm`, and the commands that save the manifest, are processes
that load, check and save: each of these is a step, with those of other processes
between them, and no lock. A load beside a save of the same file may find it empty, a
save may be killed in the middle (`Interrupted`), a manifest that does not parse is
not checked (`CheckRemove`), and a list of mounts is saved as it was loaded.
`attach` saves before the resolver has looked, so that attaching the own repository
disables every later command (`Accepts`). The workspace starts with the mounts file
that `init` writes. `KeptStayMounted` leaves out `exposed`: files whose entry was saved
by a command that another one ran beside, those that an `rm` did not get to see, and
those that a load beside a save, or a kill in one, has left without a mount. It claims
that nothing else strands a file, in whatever order the steps come.

State of `VirtualRoot`: the files and sources of the server. Its operators route a
path under `/repos` and `/docsets`: names of sources have several parts, and LS, Stat,
Cat, Find and writes each decide in their own order whether a path is virtual or in a
source. Its steps are the writes without a repository (`RootPut`, `RootDelete`), and
what happens to files and sources otherwise (`Elsewhere`).

| run | instance | what it shows |
|---|---|---|
| `mounts` | 3 sources, one of which is named as the beginning of another, 6 places for files, mounts on 2 local paths, 1 materialized file, 1 change during a listing; 2 processes whose commands are killed; 102,047 states | listings show what can be read, paths lead back, materialized files keep their mount, all requests without a repository see one tree |

Bounds. Two mounts are nested, of one source or of two; without mounts, all sources
come and go and all places for files are used, which is what the properties of
`VirtualRoot` need (one place is at the name of another source). While a
listing runs, the mounts and the manifest stay: a listing has its own copy of the
first and does not use the second. While a command runs there are all sources and at
most one file, since it asks for these before it saves; two commands run beside each
other over two nested mounts, of two sources. `MaxTorn` limits the paths that change under a
listing to one, which separates "at some time" from "all the time". The properties
exclude what the code does not claim: in listings, mounts that show one place twice
(`Disjoint`: the first of them wins), and in `RootAgrees` names that begin with
another name and files below files (`Plain`).

Proved. All five properties, for every set of sources, names, places and mounts and
paths of any length; the lemmas on prefixes that they rest on are proved from the
library's facts on sequences. `MountsInv` is inductive: there is one mount at a local
path, and a deepest one over each (`Proper`; a set of mounts bounded in length, which
is what makes `Deepest` mean something), and each materialized file that is not
exposed is under a mount. For the commands under way it says that the list each will
save is proper and has a mount over every file that is not exposed, or over those that
an `rm` does not take (`Pending`), and that of two open commands each knows of the
other (`Races`), which is when their entries count as exposed. `KeptStayMounted` and
`PathsReturn` follow, since of two mounts over a path one is over the other.
`PathsReturn` does not need `Disjoint`.

`ListingsFaithful` needs an invariant of the listing, `ListingInv`: it has found only
what could be read at some time, and each path that could be read all the time is
*accounted for*: the request that will bring it (`RequestFor`) is still to be sent, or
it was found, or a file above it could be read. A response brings what is below the
requested directory in one source; that it brings all that its mount is the deepest
for (`CollectedIsAll`), and nothing that it is not (`CollectedIsThere`), is where
`shadowedByMount` and `overlayPlan` have to agree, and where `Disjoint` is needed.

The properties of `VirtualRoot` are of single states, of any files and sources that
`RootType` allows. A name with several parts under
a base is one path (`WholePaths`), so that routing, virtual directories and children
become questions about prefixes of the roots of sources. `RootAgrees` is then proved
for each place that a path can have: in the root, above sources, at one and in one.
`RootAssumption` tells the prover that the names of bases are strings, which it does
not know of a literal.

## What is not modelled

- Search, ranking and the matching of text, glob patterns, rendering, wire formats,
  ETags, sorting and page limits, configuration files but for the mounts,
  installation, usage logs, the creation of tables: they read, format or append, and
  keep no state that the models speak of. The HTTP client keeps no state; the
  conversion between HTTP errors and `store` errors is left out.
- Stat of a directory that only holds mounts, the rewriting of tree texts, and the
  hashes of a directory with nested mounts (the adapter asks the outer mount only).
- The memory store's Search, Locate, BatchHashes and Glob ask Find for nodes with an
  empty name, which there are none of: they answer nothing, and only tests use it.
- `mutation.go` (write, edit, rm) sends one request with the hash of the manifest:
  its condition is in `DocStore`, its routing in `Mounts`.

Seen in the code while modelling, and not kept as runs; the models contain them:

- A push compares nothing with the remote document (`sync.go:54`).
- A pull overwrites an edit that is made after its comparison (`sync.go:530`).
- The hook leaves new files out: `UpdateEntries` drops them (`hook.go:169`).
- Commands for a directory and its parent keep the entries of each other
  (`manifest.go:104`): a file then has several, a lookup takes the first or the last
  of them, a hook makes equal ones of them, visits the file twice, and each
  later pull may add another; a file that is overwritten by the first visit keeps an
  old hash by the second. A pull of an outer mount also collects what a nested mount
  hides (`sync.go:360`).
- The hook reads an empty document again with the adapter of repositories, also in a
  docs:// or docset:// mount: the call fails, and the file is left as it is at every
  session (`hook.go:131`).
- `mount rm` loads the mounts, reads the manifest and saves without a lock, so that a
  pull or a hook that saves in between leaves a materialized file without a mount; a
  manifest that does not parse skips the check (`mount.go:185`), and one that is being
  rewritten is empty. Two of `add`, `attach` and `rm` beside each other lose a mount or
  bring one back; a kill in a save leaves a mounts file that is cut short.
- The first `mount add` in a workspace without a mounts file drops the default mount
  that commands use there (`mount.go:288`).
- A lookup whose own refresh has found a new repository still answers unknown if an
  older refresh swaps before it looks again (`internal/server/registry.go:332`).
- A Delete of "/" in the legacy store, also by a DELETE without a path, removes every
  reference and then fails (`adapter.go:459`); a Put of "/" or of a path that is not
  clean makes every later load of the repository fail (`server.go:667`, `:521`).
- `_` and `%` in the name of a directory are wildcards of the legacy Grep
  (`adapter.go:169`).
- The clean-up of a legacy Delete removes rows that another repository has referenced
  since the snapshot of its statement (`adapter.go:595`).
- A Put that meets a Delete between its lookup and its UPDATE binds a document with
  the old content (`doc_adapter.go:810`).
- A recursive delete whose directory name has `_` or `%` in it deletes other paths
  (`doc_query.go:348`).
- Every start sets the documents of legacy files back to their legacy content, binds
  their paths again where they were deleted (`backfill.go:218`, `:237`), and brings
  back deleted docsets of the older version. The migration of their members fails,
  and with it every start, once a member was removed and its document collected.
- A `DeleteDocset` that is overtaken by another keeps its connection
  (`docset_adapter.go:202`).
- Attaching the own repository disables every later command (`attach.go:125`).

Not proved: liveness and everything under fairness (`RequestsEnd`, `StaleTreeGoes`,
`TableConverges`, `HookConverges`), which is out of the prover's reach, and the
violated property, which TLC refutes. Every other property that a run checks is a
theorem.

The theorems about `LegacyStore` and `Mounts` are about `Spec`. The runs start
`LegacyStore` in a smaller set of states, and restrict `Mounts` to what its bounds
allow.

## Plan

1. `AtomicStore`: the requests of a store against `FileMap`, and under which
   restrictions `DocStore` implements it (unconditional requests, no Delete beside a
   Put); then the step simulation as a theorem.
2. `RootDelete`, which may take a whole directory at once, as a step beside a listing
   of `Mounts`: a listing then meets the loss of many files in one step.
3. Nested roots in `CliSync`, where `ConflictsAreEdits` fails, with the mounts of
   `Mounts` in the place of `Under`.
