----------------------------- MODULE SourceFiles -----------------------------
(***************************************************************************)
(* What the client and the virtual root look at: the sources that the      *)
(* server routes to (repositories, docsets) and the files in them.  Other  *)
(* users write and delete files, and sources come and go.                  *)
(*                                                                         *)
(* A path is a sequence of names; <<>> is the root of a source.            *)
(***************************************************************************)
EXTENDS Naturals, Sequences, FiniteSets, SequencesExt

CONSTANTS
    Sources,
    Name,   \* Name[s]: the name of a source; it may have several parts
    Base,   \* Base[s]: "repos" or "docsets"
    Places  \* [source, path]: where files can be

ASSUME SourcesAssumption ==
    /\ Name \in [Sources -> Seq(STRING) \ {<<>>}]
    /\ Base \in [Sources -> {"repos", "docsets"}]
    /\ \A s, t \in Sources : Base[s] = Base[t] /\ Name[s] = Name[t] => s = t
    /\ Places \subseteq [source : Sources, path : Seq(STRING) \ {<<>>}]

VARIABLES
    files, \* the files there are
    table  \* the sources that the server routes to

FileAt(s, p) == [source |-> s, path |-> p]

\* A directory is there as long as a file is below it.  The path of a file is a
\* file also when others are below it.
IsFile(s, p)  == s \in table /\ FileAt(s, p) \in files
Below(p)      == {f \in files : IsStrictPrefix(p, f.path)}
IsDirAt(s, p) == s \in table /\ ~IsFile(s, p)
                 /\ (p = <<>> \/ \E f \in Below(p) : f.source = s)
Exists(s, p)  == IsFile(s, p) \/ IsDirAt(s, p)

\* LS -R does not look below a file (VfsTree).
Walked(s, root) == {f \in Below(root) : f.source = s
    /\ ~\E g \in Below(root) : g.source = s /\ IsStrictPrefix(g.path, f.path)}

\* Delete: a file, or all that is below a directory.
Removed(s, p)  == IF IsFile(s, p) THEN {FileAt(s, p)} ELSE {f \in Below(p) : f.source = s}
DeleteAt(s, p) == s \in table /\ Removed(s, p) # {} /\ files' = files \ Removed(s, p) /\ UNCHANGED table

\* Put and Edit, of a file or of the content that it has.
WriteAt(s, p)  == s \in table /\ FileAt(s, p) \in Places /\ files' = files \cup {FileAt(s, p)}
                  /\ UNCHANGED table

\* What other users and the refresh of the registry do.
WriteFile(f)  == files' = files \cup {f} /\ f \notin files /\ UNCHANGED table
RemoveFile(f) == files' = files \ {f} /\ f \in files /\ UNCHANGED table
Register(s)   == table' = table \cup {s} /\ s \notin table /\ UNCHANGED files
Unregister(s) == table' = table \ {s} /\ s \in table /\ UNCHANGED files
==============================================================================
