-------------------------- MODULE MCSourceRegistry --------------------------
(* Instances of SourceRegistry for TLC. *)
EXTENDS SourceRegistry, TLC

CONSTANTS q1, q2, repo, docset

\* A repository, or a docset.
RepoKind    == (repo :> "repo")
DocsetKind  == (docset :> "docset")
RepoShows   == (repo :> {})
DocsetShows == (docset :> {})

AdapterSymmetry == Permutations(Adapters)
\* What becomes of an adapter that nobody refers to does not matter.
View == <<catalog, table, [a \in Adapters |-> IF InUse(a) THEN <<owner[a], tree[a]>> ELSE None],
          run, opened, disturbed>>
=============================================================================
