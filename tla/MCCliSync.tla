------------------------------ MODULE MCCliSync ------------------------------
(* Instances of CliSync for TLC. *)
EXTENDS CliSync, TLC

CONSTANTS k1, k2, docs, lib, fa, fb, foo, nil, one, two

Line(cmd, root, materialize, force, keep) ==
    [cmd |-> cmd, root |-> root, materialize |-> materialize, force |-> force, keep |-> keep]
Pull(root, force)  == Line("pull", root, TRUE, force, FALSE)
Refresh(root)      == Line("pull", root, FALSE, "no", FALSE)
Push(root)         == Line("push", root, FALSE, "no", FALSE)
Remove(root, keep) == Line("dematerialize", root, FALSE, "no", keep)
Hook               == Line("hook", docs, FALSE, "no", FALSE)

\* Two mounts of one document each.
Apart == (docs :> {fa}) @@ (lib :> {fb})
\* One mount of one document.
Single == docs :> {fa}

\* Every command line for one of the mounts, a pull and a push for the other.
Anything ==
    {Pull(docs, f) : f \in {"no", "local", "remote"}} \cup {Refresh(docs), Push(docs)}
        \cup {Remove(docs, b) : b \in BOOLEAN} \cup {Hook}
AnythingApart == Anything \cup {Pull(lib, "no"), Push(lib)}
\* Command lines that are used at the same time.
Concurrent ==
    {Pull(docs, "no"), Pull(docs, "remote"), Refresh(docs), Push(docs), Remove(docs, FALSE), Hook}

Commands2 == Permutations(Commands)
=============================================================================
