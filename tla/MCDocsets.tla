------------------------------ MODULE MCDocsets ------------------------------
(* Instances of Docsets: one collection of the older version, and two legacy   *)
(* paths of which one is a directory.                                          *)
EXTENDS Docsets, TLC
CONSTANTS i1, i2, set, s1, d1, d2, d3, d4, p1, p2, r1, r2, old, none

MCLegacyContent == [p \in LegacyPaths |-> IF p = p1 THEN old ELSE none]
MCLegacyRefs    == [p \in LegacyPaths |-> IF p = p1 THEN {r1} ELSE {r2}]
MCOldSets       == {[id |-> i1, name |-> set]}
MCOldMembers    == {[set |-> i1, path |-> s1, doc |-> d1]}
Symmetric       == Permutations(Clients) \cup Permutations({d2, d3, d4})
==============================================================================
