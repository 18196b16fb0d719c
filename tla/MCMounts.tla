------------------------------- MODULE MCMounts -------------------------------
(* An instance of Mounts and VirtualRoot: two repositories, of which the name   *)
(* of one begins with the name of the other, and a docset.                      *)
EXTENDS Mounts, VirtualRoot, TLC

CONSTANTS MaxKept, MaxTorn

MCSources == {"self", "other", "set"}
MCName    == [self |-> <<"a">>, other |-> <<"a", "b">>, set |-> <<"a">>]
MCBase    == [self |-> "repos", other |-> "repos", set |-> "docsets"]
Mounted   == {FileAt("self", <<"d", "f">>), FileAt("self", <<"d", "e">>),
              FileAt("self", <<"d", "e", "f">>), FileAt("other", <<"f">>)}
\* And a file at the name of another source, and one in the docset.
MCPlaces  == Mounted \cup {FileAt("self", <<"b", "f">>), FileAt("set", <<"f">>)}
Target(s, p, m) == [source |-> s, path |-> p, mode |-> m]
MCTargets == {Target("self", <<"d">>, "writable"), Target("self", <<"d", "e">>, "readonly"),
              Target("other", <<>>, "writable"), Target("set", <<>>, "readonly")}
MCDirs    == {<<>>, <<"d">>, <<"d", "e">>}
MCLocals  == {<<"d">>, <<"d", "e">>}
MCRootPaths == {<<>>, <<"docsets">>, <<"docsets", "a">>, <<"docsets", "a", "f">>} \cup
    {<<"repos">> \o p : p \in {<<>>, <<"a">>, <<"b">>, <<"a", "b">>, <<"a", "b", "f">>, <<"a", "d">>,
        <<"a", "d", "e">>, <<"a", "d", "f">>, <<"a", "d", "e", "f">>}}

\* With mounts, one source comes and goes and files are where mounts can show them; without,
\* all of them come and go, and there are writes without a repository.  A listing has its own
\* mounts and no manifest: these change when none runs.  A command asks the sources before its
\* saves only: while one runs there are all sources and one file at most, and two run beside
\* each other over two mounts.  A listing meets changes of at most MaxTorn paths.
Quiet == \A c \in Procs : ~Open(c)
Alone == \A c, d \in Procs : c # d => ~Open(c) \/ ~Open(d)
Few == {Mount(<<"d">>, "self", <<"d">>, "writable"), Mount(<<"d", "e">>, "other", <<>>, "writable")}
Bound ==
    /\ Cardinality(kept) <= MaxKept /\ \A c \in Procs : Cardinality(cmd[c].keep) <= MaxKept
    /\ Quiet \/ (Cardinality(files) <= 1 /\ table = Sources)
    /\ Alone \/ /\ files \subseteq {FileAt("self", <<"d", "f">>), FileAt("other", <<"f">>)}
                /\ mounts \subseteq Few /\ \A c \in Procs : cmd[c].list \subseteq Few
    /\ mounts # {} \/ kept # {} \/ ~Quiet => Sources \ {"self"} \subseteq table /\ files \subseteq Mounted
    /\ Cardinality(run.ever \ run.always) <= MaxTorn
MCNext ==
    /\ \/ ~run.on /\ \E c \in Procs : Command(c)
       \/ kept = {} /\ Quiet /\ \E dir \in Dirs : Browse(dir)
       \/ Quiet /\ Outside
       \/ Fetch \/ FetchFails \/ Respond
       \/ ~run.on /\ Quiet /\ \E p \in Readable(mounts) \cup Dirs : Delete(p)
       \/ ~run.on /\ Quiet /\ \E f \in Places : Shown(mounts, f.source, f.path)
            /\ Write(ToLocal(mounts, f.source, f.path))
       \/ mounts = {} /\ kept = {} /\ Quiet /\ RootNext /\ UNCHANGED <<workspace, run>>
    /\ Bound'
Alike  == Permutations(Procs)
MCSpec == Init /\ [][MCNext]_vars
===============================================================================
