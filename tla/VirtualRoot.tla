----------------------------- MODULE VirtualRoot -----------------------------
(***************************************************************************)
(* Requests without a repository: one tree with /repos and /docsets that   *)
(* has every source at its name (internal/store/registry.go).  Names may   *)
(* have several parts, so that directories above a source and sources      *)
(* below another one have to be told apart.                                *)
(***************************************************************************)
EXTENDS SourceFiles

CONSTANT RootPaths \* paths that are looked at

ASSUME RootAssumption ==
    /\ RootPaths \subseteq Seq(STRING)
    /\ \A s \in Sources : Base[s] \in STRING

Bases == {"repos", "docsets"}

Rel(p)  == Tail(p)
Of(p)   == {s \in table : p # <<>> /\ Base[s] = Head(p)}
Root(s) == <<Base[s]>> \o Name[s]

\* Mutant: the first name that fits.
ShortestOf(S) == CHOOSE s \in S : \A t \in S : Len(Name[s]) <= Len(Name[t])

LongestOf(S) == CHOOSE s \in S : \A t \in S : Len(Name[s]) >= Len(Name[t])

\* sourceRoute: the source with the longest name that p is under.
Routed(p) == {s \in Of(p) : IsPrefix(Name[s], Rel(p))}
Route(p) == LET s == LongestOf(Routed(p)) IN
    [source |-> s, path |-> SubSeq(p, Len(Root(s)) + 1, Len(p))]

LocalPath(r) == Root(r.source) \o r.path

\* Mutant: the directories above a source are forgotten.
IsVirtualSource(p) == p = <<>> \/ p \in {<<b>> : b \in Bases} \cup {Root(s) : s \in table}

\* virtualNode: the root, the two namespaces, sources and the directories above them.
IsVirtual(p) == p = <<>> \/ p \in {<<b>> : b \in Bases} \/ \E s \in Of(p) : IsPrefix(Rel(p), Name[s])

\* namespaceChildren
ChildrenOf(p) == {SubSeq(Root(s), 1, Len(p) + 1) : s \in {t \in Of(p) : IsStrictPrefix(p, Root(t))}}

\* The children of a directory in a source.
SourceChildren(r) == {SubSeq(f.path, 1, Len(r.path) + 1) :
    f \in {g \in files : g.source = r.source /\ IsStrictPrefix(r.path, g.path)}}

\* LS, Stat and Cat, each in its order of looking at the virtual and the routed.
LS(p) ==
    IF p = <<>> THEN {<<b>> : b \in Bases}
    ELSE IF p \in {<<b>> : b \in Bases} \/ Routed(p) = {} THEN ChildrenOf(p)
    ELSE {LocalPath([Route(p) EXCEPT !.path = c]) : c \in SourceChildren(Route(p))}

LSFails(p) ==
    /\ ~(p = <<>> \/ p \in {<<b>> : b \in Bases})
    /\ IF Routed(p) = {} THEN ~IsVirtual(p) ELSE ~IsDirAt(Route(p).source, Route(p).path)

Stat(p) ==
    IF IsVirtual(p) THEN "dir"
    ELSE IF Routed(p) = {} THEN "none"
    ELSE IF IsFile(Route(p).source, Route(p).path) THEN "file"
    ELSE IF IsDirAt(Route(p).source, Route(p).path) THEN "dir" ELSE "none"

CatReads(p) == ~IsVirtual(p) /\ Routed(p) # {} /\ IsFile(Route(p).source, Route(p).path)

\* The directories below a virtual one (LS -R, Tree), which ends at the sources.
VirtualBelow(p) == {q \in {<<b>> : b \in Bases} : p = <<>>} \cup UNION
    {{SubSeq(Root(s), 1, n) : n \in Len(p) + 1 .. Len(Root(s))} :
        s \in {t \in table : IsStrictPrefix(p, Root(t))}}

\* Grep, Find, Search and BatchHashes take one source; above the sources they fail.
Found(p) == IF Routed(p) = {} THEN {} ELSE
    {LocalPath(f) : f \in {g \in files :
        g.source = Route(p).source /\ IsPrefix(Route(p).path, g.path)}}

\* requireWritableSourceRoute: neither virtual paths nor the root of a source.
Writable(p) == Routed(p) # {} /\ Route(p).path # <<>>

\* Put and Edit, and Delete.
RootPut(p)    == Writable(p) /\ WriteAt(Route(p).source, Route(p).path)
RootDelete(p) == Writable(p) /\ DeleteAt(Route(p).source, Route(p).path)

\* Requests with a repository, and what the registry is refreshed to.
Elsewhere ==
    \/ \E f \in Places : WriteFile(f) \/ RemoveFile(f)
    \/ \E s \in Sources : Register(s) \/ Unregister(s)

rootVars == <<files, table>>
RootInit == files = {} /\ table = Sources
RootNext == (\E p \in RootPaths : RootPut(p) \/ RootDelete(p)) \/ Elsewhere
RootSpec == RootInit /\ [][RootNext]_rootVars

-----------------------------------------------------------------------------
(* Properties *)

\* No name begins with another name, and no file is below a file.
Plain ==
    /\ \A s, t \in table : Base[s] = Base[t] /\ s # t => ~IsPrefix(Name[s], Name[t])
    /\ \A f, g \in files : f.source = g.source => ~IsStrictPrefix(f.path, g.path)

\* All requests see one tree although they look for virtual and routed paths in
\* different orders: what can be listed is a directory, what can be read a file, what
\* is there is in the listing of its parent, and LS -R and Find show what is below.
RootAgrees == Plain =>
    LET virtual  == {q \in RootPaths : IsVirtual(q)}
        readable == {q \in RootPaths : CatReads(q)} IN
    \A p \in RootPaths :
        /\ Stat(p) = "dir" <=> ~LSFails(p)
        /\ Stat(p) = "file" <=> p \in readable
        /\ p # <<>> => (Stat(p) # "none" <=> ~LSFails(Front(p)) /\ p \in LS(Front(p)))
        /\ IF Routed(p) = {}
           THEN VirtualBelow(p) \cap RootPaths = {q \in virtual : IsStrictPrefix(p, q)}
           ELSE Found(p) \cap RootPaths = {q \in readable : IsPrefix(p, q)}

\* A file is reached at the name of its source, also with a name that begins with
\* the name of another source; a longer name hides only what is at or above it.
RootReaches == \A f \in files :
    LET p == LocalPath(f)
        longer == {t \in table : Base[t] = Base[f.source]
                     /\ IsStrictPrefix(Name[f.source], Name[t])} IN
    f.source \in table
        /\ ~(\E t \in longer : IsPrefix(Root(t), p) \/ IsPrefix(p, Root(t)))
        => CatReads(p) /\ Route(p) = f /\ Writable(p)
==============================================================================
