----------------------------- MODULE MountsProofs -----------------------------
(***************************************************************************)
(* Proofs about Mounts and VirtualRoot, for every set of sources, places,  *)
(* local paths and targets.                                                *)
(***************************************************************************)
EXTENDS Mounts, VirtualRoot, SequenceTheorems, FiniteSetTheorems, WellFoundedInduction, TLAPS

-----------------------------------------------------------------------------
(* Paths *)

\* A prefix has the first names of a path.
LEMMA PrefixMeaning ==
    ASSUME NEW s \in Seq(STRING), NEW t \in Seq(STRING)
    PROVE  IsPrefix(s, t) <=> Len(s) <= Len(t) /\ \A i \in 1 .. Len(s) : s[i] = t[i]
<1>1. Len(s) \in Nat /\ Len(t) \in Nat /\ SubSeq(s, 1, Len(s)) = s
  BY SubSeqFull, LenProperties
<1>2. ASSUME Len(s) <= Len(t)
      PROVE  /\ SubSeq(t, 1, Len(s)) \in Seq(STRING) /\ Len(SubSeq(t, 1, Len(s))) = Len(s)
             /\ \A i \in 1 .. Len(s) : SubSeq(t, 1, Len(s))[i] = t[i]
  <2>1. \A i \in 1 .. Len(s) : t[i] \in STRING
    BY <1>1, <1>2, ElementOfSeq
  <2>2. /\ SubSeq(t, 1, Len(s)) \in Seq(STRING)
        /\ Len(SubSeq(t, 1, Len(s))) = IF 1 <= Len(s) THEN Len(s) - 1 + 1 ELSE 0
        /\ \A i \in 1 .. Len(s) - 1 + 1 : SubSeq(t, 1, Len(s))[i] = t[1 + i - 1]
    BY <1>1, <2>1, SubSeqProperties
  <2> QED
    BY <1>1, <2>2
<1>3. ASSUME IsPrefix(s, t) PROVE Len(s) <= Len(t) /\ \A i \in 1 .. Len(s) : s[i] = t[i]
  BY <1>1, <1>2, <1>3 DEF IsPrefix
<1>4. ASSUME Len(s) <= Len(t), \A i \in 1 .. Len(s) : s[i] = t[i] PROVE IsPrefix(s, t)
  <2>1. SubSeq(t, 1, Len(s)) = s
    BY <1>2, <1>4, SeqEqual
  <2> QED
    BY <1>1, <1>4, <2>1 DEF IsPrefix
<1> QED
  BY <1>3, <1>4

\* The order of prefixes.
LEMMA PrefixOrder ==
    /\ \A s \in Seq(STRING) : IsPrefix(s, s)
    /\ \A s, t, u \in Seq(STRING) : IsPrefix(s, t) /\ IsPrefix(t, u) => IsPrefix(s, u)
    /\ \A s, t \in Seq(STRING) : IsPrefix(s, t) /\ Len(s) >= Len(t) => s = t
    /\ \A s, t, u \in Seq(STRING) : IsPrefix(s, u) /\ IsPrefix(t, u) /\ Len(s) <= Len(t)
         => IsPrefix(s, t)
<1>1. \A s \in Seq(STRING) : Len(s) \in Nat
  BY LenProperties
<1>2. ASSUME NEW s \in Seq(STRING), NEW t \in Seq(STRING), IsPrefix(s, t), Len(s) >= Len(t)
      PROVE  s = t
  <2>1. Len(s) = Len(t) /\ \A i \in 1 .. Len(s) : s[i] = t[i]
    BY <1>1, <1>2, PrefixMeaning
  <2> QED
    BY <2>1, SeqEqual
<1>3. ASSUME NEW s \in Seq(STRING), NEW t \in Seq(STRING), NEW u \in Seq(STRING),
             IsPrefix(s, t), IsPrefix(t, u)
      PROVE  IsPrefix(s, u)
  <2>1. Len(s) <= Len(u) /\ \A i \in 1 .. Len(s) : s[i] = u[i]
    BY <1>1, <1>3, PrefixMeaning
  <2> QED
    BY <2>1, PrefixMeaning
<1>4. ASSUME NEW s \in Seq(STRING), NEW t \in Seq(STRING), NEW u \in Seq(STRING),
             IsPrefix(s, u), IsPrefix(t, u), Len(s) <= Len(t)
      PROVE  IsPrefix(s, t)
  <2>1. \A i \in 1 .. Len(s) : s[i] = t[i]
    BY <1>1, <1>4, PrefixMeaning
  <2> QED
    BY <1>4, <2>1, PrefixMeaning
<1>5. \A s \in Seq(STRING) : IsPrefix(s, s)
  BY <1>1, PrefixMeaning
<1> QED
  BY <1>2, <1>3, <1>4, <1>5

\* What follows a prefix, and what is appended to one.
LEMMA RestJoins ==
    ASSUME NEW s \in Seq(STRING), NEW p \in Seq(STRING), IsPrefix(s, p)
    PROVE  /\ Rest(s, p) \in Seq(STRING) /\ s \o Rest(s, p) = p
           /\ Len(Rest(s, p)) = Len(p) - Len(s)
<1>1. Len(s) \in Nat /\ Len(p) \in Nat /\ Len(s) <= Len(p) /\ \A i \in 1 .. Len(s) : s[i] = p[i]
  BY LenProperties, PrefixMeaning
<1>2. \A i \in Len(s) + 1 .. Len(p) : p[i] \in STRING
  BY <1>1, ElementOfSeq
<1> DEFINE r == SubSeq(p, Len(s) + 1, Len(p))
<1>3. /\ r \in Seq(STRING)
      /\ Len(r) = IF Len(s) + 1 <= Len(p) THEN Len(p) - (Len(s) + 1) + 1 ELSE 0
      /\ \A i \in 1 .. Len(p) - (Len(s) + 1) + 1 : r[i] = p[Len(s) + 1 + i - 1]
  BY <1>1, <1>2, SubSeqProperties
<1>4. Len(r) = Len(p) - Len(s) /\ \A i \in 1 .. Len(r) : r[i] = p[Len(s) + i]
  BY <1>1, <1>3
<1> HIDE DEF r
<1>5. /\ s \o r \in Seq(STRING) /\ Len(s \o r) = Len(p)
      /\ \A i \in 1 .. Len(p) : (s \o r)[i] = IF i <= Len(s) THEN s[i] ELSE r[i - Len(s)]
  BY <1>1, <1>3, <1>4, ConcatProperties
<1>6. \A i \in 1 .. Len(p) : (s \o r)[i] = p[i]
  BY <1>1, <1>4, <1>5
<1>7. s \o r = p
  BY <1>5, <1>6, SeqEqual
<1> QED
  BY <1>3, <1>4, <1>7 DEF Rest, r

LEMMA JoinRests ==
    ASSUME NEW s \in Seq(STRING), NEW u \in Seq(STRING)
    PROVE  /\ s \o u \in Seq(STRING) /\ IsPrefix(s, s \o u) /\ Rest(s, s \o u) = u
           /\ Len(s \o u) = Len(s) + Len(u)
<1>1. PICK w : w = s \o u
  OBVIOUS
<1>2. Len(s) \in Nat /\ Len(u) \in Nat
  BY LenProperties
<1>3. /\ w \in Seq(STRING) /\ Len(w) = Len(s) + Len(u)
      /\ \A i \in 1 .. Len(s) + Len(u) : w[i] = IF i <= Len(s) THEN s[i] ELSE u[i - Len(s)]
  BY <1>1, ConcatProperties
<1>4. IsPrefix(s, w)
  <2>1. Len(s) <= Len(w) /\ \A i \in 1 .. Len(s) : s[i] = w[i]
    BY <1>2, <1>3
  <2> QED
    BY <1>3, <2>1, PrefixMeaning
<1>5. s \o Rest(s, w) = w /\ Rest(s, w) \in Seq(STRING)
  BY <1>3, <1>4, RestJoins
<1>6. Rest(s, w) = u
  BY <1>1, <1>5, ConcatSimplifications
<1> QED
  BY <1>1, <1>3, <1>4, <1>6

\* What is appended to one path is ordered as before.
LEMMA JoinOrder ==
    ASSUME NEW s \in Seq(STRING), NEW u \in Seq(STRING), NEW v \in Seq(STRING)
    PROVE  IsPrefix(u, v) <=> IsPrefix(s \o u, s \o v)
<1>1. PICK x, y : x = s \o u /\ y = s \o v
  OBVIOUS
<1>2. Len(s) \in Nat /\ Len(u) \in Nat /\ Len(v) \in Nat
  BY LenProperties
<1>3. /\ x \in Seq(STRING) /\ Len(x) = Len(s) + Len(u)
      /\ \A i \in 1 .. Len(s) + Len(u) : x[i] = IF i <= Len(s) THEN s[i] ELSE u[i - Len(s)]
  BY <1>1, ConcatProperties
<1>4. /\ y \in Seq(STRING) /\ Len(y) = Len(s) + Len(v)
      /\ \A i \in 1 .. Len(s) + Len(v) : y[i] = IF i <= Len(s) THEN s[i] ELSE v[i - Len(s)]
  BY <1>1, ConcatProperties
<1>5. ASSUME IsPrefix(u, v) PROVE IsPrefix(x, y)
  <2>1. Len(u) <= Len(v) /\ \A i \in 1 .. Len(u) : u[i] = v[i]
    BY <1>5, PrefixMeaning
  <2>2. Len(x) <= Len(y)
    BY <1>2, <1>3, <1>4, <2>1
  <2>3. ASSUME NEW i \in 1 .. Len(x) PROVE x[i] = y[i]
    <3>1. i \in 1 .. Len(s) + Len(u) /\ i \in 1 .. Len(s) + Len(v)
      BY <1>2, <1>3, <2>1
    <3>2. CASE i <= Len(s)
      BY <1>3, <1>4, <3>1, <3>2
    <3>3. CASE ~(i <= Len(s))
      <4>1. i - Len(s) \in 1 .. Len(u)
        BY <1>2, <3>1, <3>3
      <4> QED
        BY <1>3, <1>4, <2>1, <3>1, <3>3, <4>1
    <3> QED
      BY <3>2, <3>3
  <2> QED
    BY <1>3, <1>4, <2>2, <2>3, PrefixMeaning
<1>6. ASSUME IsPrefix(x, y) PROVE IsPrefix(u, v)
  <2>1. Len(x) <= Len(y) /\ \A i \in 1 .. Len(x) : x[i] = y[i]
    BY <1>3, <1>4, <1>6, PrefixMeaning
  <2>2. Len(u) <= Len(v)
    BY <1>2, <1>3, <1>4, <2>1
  <2>3. ASSUME NEW i \in 1 .. Len(u) PROVE u[i] = v[i]
    <3>1. Len(s) + i \in 1 .. Len(s) + Len(u) /\ Len(s) + i \in 1 .. Len(s) + Len(v)
            /\ Len(s) + i - Len(s) = i /\ ~(Len(s) + i <= Len(s))
      BY <1>2, <2>2
    <3>2. x[Len(s) + i] = u[i] /\ y[Len(s) + i] = v[i]
      BY <1>3, <1>4, <3>1
    <3>3. x[Len(s) + i] = y[Len(s) + i]
      BY <1>3, <2>1, <3>1
    <3> QED
      BY <3>2, <3>3
  <2> QED
    BY <2>2, <2>3, PrefixMeaning
<1> QED
  BY <1>1, <1>5, <1>6

\* There is a largest of numbers that are bounded.
LEMMA Largest ==
    ASSUME NEW T \in SUBSET Nat, T # {}, NEW N \in Nat, \A n \in T : n <= N
    PROVE  \E n \in T : \A k \in T : k <= n
<1> DEFINE U == {N - n : n \in T}
<1>1. \A n \in T : n \in Nat /\ N - n \in Nat
  OBVIOUS
<1>2. U \subseteq Nat /\ U # {}
  BY <1>1
<1>3. PICK x \in U : \A y \in U : ~(<<y, x>> \in OpToRel(<, Nat))
  BY <1>2, NatLessThanWellFounded, WFMin
<1>4. \A y \in U : ~(y < x)
  BY <1>2, <1>3 DEF OpToRel
<1>5. PICK n \in T : x = N - n
  BY <1>3
<1>6. ASSUME NEW k \in T PROVE k <= n
  <2>1. ~(N - k < N - n) /\ k \in Nat /\ n \in Nat
    BY <1>1, <1>4, <1>5
  <2> QED
    BY <2>1
<1> QED
  BY <1>6

-----------------------------------------------------------------------------
(* The resolver *)

MountType == [local : Locals \ {<<>>}, source : Sources, path : Seq(STRING),
              mode : {"readonly", "writable"}]

\* The mounts of a file: one at a local path, and so many that one is the deepest.
One(ms)     == \A m, n \in ms : m.local = n.local => m = n
Bounded(ms) == \E N \in Nat : \A m \in ms : Len(m.local) <= N
Proper(ms)  == ms \in SUBSET MountType /\ One(ms) /\ Bounded(ms)

\* A mount's paths are paths.
LEMMA MountPaths ==
    ASSUME NEW m \in MountType
    PROVE  /\ m.local \in Seq(STRING) /\ Len(m.local) \in Nat /\ m.local # <<>>
           /\ m.path \in Seq(STRING) /\ m.source \in Sources
BY LenProperties, MountsAssumption DEF MountType

\* There is a deepest mount in a set of mounts.
LEMMA DeepestIs ==
    ASSUME NEW ms, Proper(ms), NEW S \in SUBSET ms, S # {}
    PROVE  Deepest(S) \in S /\ \A n \in S : Len(Deepest(S).local) >= Len(n.local)
<1> DEFINE T == {Len(m.local) : m \in S}
<1>1. T \in SUBSET Nat /\ T # {}
  BY MountPaths DEF Proper
<1>2. PICK N \in Nat : \A n \in T : n <= N
  BY DEF Proper, Bounded
<1>3. PICK t \in T : \A k \in T : k <= t
  BY <1>1, <1>2, Largest
<1>4. PICK m \in S : t = Len(m.local)
  BY <1>3
<1>5. \A n \in S : Len(m.local) >= Len(n.local)
  BY <1>1, <1>3, <1>4
<1> QED
  BY <1>4, <1>5 DEF Deepest

\* Of the mounts over a path, each is over the next one.
LEMMA OverOrder ==
    ASSUME NEW ms, Proper(ms), NEW p \in Seq(STRING), NEW m \in ms, NEW n \in ms,
           Under(m.local, p), Under(n.local, p), Len(n.local) <= Len(m.local)
    PROVE  n = m \/ IsStrictPrefix(n.local, m.local)
<1>1. m.local \in Seq(STRING) /\ n.local \in Seq(STRING)
  BY MountPaths DEF Proper
<1>2. IsPrefix(n.local, m.local)
  BY <1>1, PrefixOrder DEF Under
<1> QED
  BY <1>2 DEF IsStrictPrefix, Proper, One

\* What a path resolves to.
LEMMA Resolved ==
    ASSUME NEW ms, Proper(ms), NEW p \in Seq(STRING), Resolves(ms, p)
    PROVE  \E m \in ms :
           /\ m = Deepest(Over(ms, p)) /\ Under(m.local, p)
           /\ \A n \in ms : Under(n.local, p) => n = m \/ IsStrictPrefix(n.local, m.local)
           /\ Resolve(ms, p).source = m.source
           /\ Resolve(ms, p).path = m.path \o Rest(m.local, p)
           /\ Resolve(ms, p).path \in Seq(STRING)
           /\ Resolve(ms, p).mode = m.mode
<1>0. PICK m : m = Deepest(Over(ms, p))
  OBVIOUS
<1>1. m \in Over(ms, p) /\ \A n \in Over(ms, p) : Len(m.local) >= Len(n.local)
  BY <1>0, DeepestIs DEF Over, Resolves
<1>2. m \in ms /\ Under(m.local, p)
  BY <1>1 DEF Over
<1>3. ASSUME NEW n \in ms, Under(n.local, p) PROVE n = m \/ IsStrictPrefix(n.local, m.local)
  <2>1. Len(n.local) <= Len(m.local)
    BY <1>1, <1>2, <1>3, MountPaths DEF Over, Proper
  <2> QED
    BY <1>2, <1>3, <2>1, OverOrder
<1>4. m \in MountType /\ Rest(m.local, p) \in Seq(STRING)
  BY <1>2, MountPaths, RestJoins DEF Proper, Under
<1>5. m.path \o Rest(m.local, p) \in Seq(STRING)
  BY <1>4, MountPaths, JoinRests
<1>6. /\ Resolve(ms, p).source = m.source
      /\ Resolve(ms, p).path = m.path \o Rest(m.local, p)
      /\ Resolve(ms, p).mode = m.mode
  BY <1>0 DEF Resolve
<1> QED
  BY <1>0, <1>2, <1>3, <1>5, <1>6

\* Where a path of a source is shown.
LEMMA ShownAt ==
    ASSUME NEW ms, Proper(ms), NEW s, NEW p \in Seq(STRING), Shown(ms, s, p)
    PROVE  \E m \in ms :
           /\ m = Deepest(Showing(ms, s, p)) /\ m.source = s /\ Under(m.path, p)
           /\ ToLocal(ms, s, p) = m.local \o Rest(m.path, p)
           /\ ToLocal(ms, s, p) \in Seq(STRING)
           /\ Under(m.local, ToLocal(ms, s, p))
           /\ m.path \o Rest(m.local, ToLocal(ms, s, p)) = p
<1>0. PICK m : m = Deepest(Showing(ms, s, p))
  OBVIOUS
<1>1. m \in ms /\ m.source = s /\ Under(m.path, p)
  BY <1>0, DeepestIs DEF Shown, Showing
<1>2. m.local \in Seq(STRING) /\ m.path \in Seq(STRING)
  BY <1>1, MountPaths DEF Proper
<1>3. Rest(m.path, p) \in Seq(STRING) /\ m.path \o Rest(m.path, p) = p
  BY <1>1, <1>2, RestJoins DEF Under
<1>4. ToLocal(ms, s, p) = m.local \o Rest(m.path, p)
  BY <1>0 DEF ToLocal
<1>5. PICK r : r = Rest(m.path, p)
  OBVIOUS
<1>6. m.local \o r \in Seq(STRING) /\ IsPrefix(m.local, m.local \o r) /\ Rest(m.local, m.local \o r) = r
  BY <1>2, <1>3, <1>5, JoinRests
<1>7. /\ ToLocal(ms, s, p) \in Seq(STRING) /\ Under(m.local, ToLocal(ms, s, p))
      /\ m.path \o Rest(m.local, ToLocal(ms, s, p)) = p
  BY <1>3, <1>4, <1>5, <1>6 DEF Under
<1> QED
  BY <1>0, <1>1, <1>4, <1>7

\* A mount that is not hidden at a path is the one that the path resolves to.
LEMMA NotHidden ==
    ASSUME NEW ms, Proper(ms), NEW p \in Seq(STRING), NEW m \in ms, Under(m.local, p),
           ~Shadowed(ms, m.local, p)
    PROVE  Resolves(ms, p) /\ Deepest(Over(ms, p)) = m
<1>1. Resolves(ms, p)
  BY DEF Resolves, Over
<1>2. PICK n \in ms : /\ n = Deepest(Over(ms, p)) /\ Under(n.local, p)
                      /\ m = n \/ IsStrictPrefix(m.local, n.local)
  BY <1>1, Resolved
<1> QED
  BY <1>1, <1>2 DEF Shadowed, Descendants

\* The path that a response names leads back, where it is not hidden.
LEMMA ReturnsTo ==
    ASSUME NEW ms, Proper(ms), NEW s, NEW p \in Seq(STRING), Shown(ms, s, p),
           ~Shadowed(ms, Deepest(Showing(ms, s, p)).local, ToLocal(ms, s, p))
    PROVE  /\ Resolves(ms, ToLocal(ms, s, p))
           /\ Resolve(ms, ToLocal(ms, s, p)).source = s
           /\ Resolve(ms, ToLocal(ms, s, p)).path = p
<1>1. PICK m \in ms :
        /\ m = Deepest(Showing(ms, s, p)) /\ m.source = s
        /\ ToLocal(ms, s, p) \in Seq(STRING)
        /\ Under(m.local, ToLocal(ms, s, p))
        /\ m.path \o Rest(m.local, ToLocal(ms, s, p)) = p
  BY ShownAt
<1>2. PICK l : l = ToLocal(ms, s, p)
  OBVIOUS
<1>3. /\ l \in Seq(STRING) /\ Under(m.local, l) /\ m.path \o Rest(m.local, l) = p
      /\ ~Shadowed(ms, m.local, l)
  BY <1>1, <1>2
<1>4. Resolves(ms, l) /\ m = Deepest(Over(ms, l))
  BY <1>1, <1>3, NotHidden
<1>5. PICK k \in ms : /\ k = Deepest(Over(ms, l)) /\ Resolve(ms, l).source = k.source
                      /\ Resolve(ms, l).path = k.path \o Rest(k.local, l)
  BY <1>3, <1>4, Resolved
<1> QED
  BY <1>1, <1>2, <1>3, <1>4, <1>5

\* A file that can be read is at a path, which a mount is over.
LEMMA ReadablePaths ==
    ASSUME NEW ms, Proper(ms), files \subseteq Places, NEW p \in Readable(ms)
    PROVE  p \in Seq(STRING) /\ Resolves(ms, p)
<1>1. PICK f \in files : Shown(ms, f.source, f.path) /\ p = ToLocal(ms, f.source, f.path)
  BY DEF Readable
<1>2. f.path \in Seq(STRING)
  BY SourcesAssumption
<1>3. ToLocal(ms, f.source, f.path) \in Seq(STRING)
  BY <1>1, <1>2, ShownAt
<1> QED
  BY <1>1, <1>3 DEF Readable, CanRead

-----------------------------------------------------------------------------
(* The mounts of the workspace *)

CmdType == [op : {"none", "place", "remove", "checked", "sync"}, local : Seq(STRING),
            list : SUBSET MountType, keep : SUBSET Seq(STRING), raced : BOOLEAN]

\* What a command will save: a list with a mount over each file that is not exposed, but
\* for those that an rm has not looked for yet; and, when nothing ran beside it, entries
\* that are under mounts if they are new.
Pending(c) ==
    /\ cmd[c].op \in {"place", "checked"} => \A p \in kept \ exposed : Resolves(cmd[c].list, p)
    /\ cmd[c].op = "remove" =>
        \A p \in kept \ exposed : Under(cmd[c].local, p) \/ Resolves(cmd[c].list, p)
    /\ cmd[c].op = "sync" /\ ~cmd[c].raced => \A p \in cmd[c].keep \ kept : Resolves(mounts, p)

\* Of commands that run beside each other, each is raced.
Races == \A c, d \in Procs : c # d /\ Open(c) /\ Open(d) => cmd[c].raced

\* The mounts are such a set, those that will be saved are, and materialized files that
\* are not exposed are under them.
MountsInv ==
    /\ files \in SUBSET Places /\ table \in SUBSET Sources
    /\ Proper(mounts)
    /\ kept \in SUBSET Seq(STRING)
    /\ cmd \in [Procs -> CmdType] /\ \A c \in Procs : Proper(cmd[c].list)
    /\ Races /\ \A c \in Procs : Pending(c)
    /\ \A p \in kept \ exposed : Resolves(mounts, p)

\* A mount takes the place of the one at its path, and no path away.
LEMMA PlacedInOrder ==
    ASSUME NEW ms, Proper(ms), NEW m \in MountType
    PROVE  Proper(Placed(ms, m)) /\ \A p : Resolves(ms, p) => Resolves(Placed(ms, m), p)
<1>1. Placed(ms, m) \in SUBSET MountType
  BY DEF Placed, Proper
<1>2. One(Placed(ms, m))
  BY DEF Placed, At, Proper, One
<1>3. Bounded(Placed(ms, m))
  <2>1. PICK N \in Nat : \A n \in ms : Len(n.local) <= N
    BY DEF Proper, Bounded
  <2>2. Len(m.local) \in Nat /\ \A n \in ms : Len(n.local) \in Nat
    BY MountPaths DEF Proper
  <2>3. N + Len(m.local) \in Nat /\ \A n \in Placed(ms, m) : Len(n.local) <= N + Len(m.local)
    BY <2>1, <2>2 DEF Placed
  <2> QED
    BY <2>3 DEF Bounded
<1>4. ASSUME NEW p, Resolves(ms, p) PROVE Resolves(Placed(ms, m), p)
  <2>1. PICK n \in ms : Under(n.local, p)
    BY <1>4 DEF Resolves, Over
  <2>2. CASE n.local = m.local
    <3>1. m \in Over(Placed(ms, m), p)
      BY <2>1, <2>2 DEF Over, Placed
    <3> QED
      BY <3>1 DEF Resolves
  <2>3. CASE n.local # m.local
    <3>1. n \in Over(Placed(ms, m), p)
      BY <2>1, <2>3 DEF Over, Placed, At
    <3> QED
      BY <3>1 DEF Resolves
  <2> QED
    BY <2>2, <2>3
<1> QED
  BY <1>1, <1>2, <1>3, <1>4 DEF Proper

\* No mounts, and some of the mounts, are such a set too.
LEMMA ProperParts ==
    /\ Proper({})
    /\ \A ms, part : Proper(ms) /\ part \subseteq ms => Proper(part)
<1>1. Proper({})
  BY DEF Proper, One, Bounded
<1> QED
  BY <1>1 DEF Proper, One, Bounded

\* The mounts stay in order, and every materialized file under one.
LEMMA MountsInvInit == Init => MountsInv
<1> SUFFICES ASSUME Init PROVE MountsInv
  OBVIOUS
<1>1. PICK t \in Targets : t.path \in Locals \ {<<>>}
                           /\ mounts = {Mount(t.path, Self, t.path, "writable")}
  BY DEF Init
<1>2. Mount(t.path, Self, t.path, "writable") \in MountType
  BY <1>1, MountsAssumption DEF Mount, MountType
<1>3. Len(t.path) \in Nat
  BY <1>1, MountsAssumption, LenProperties
<1>4. Bounded(mounts)
  <2>1. \A m \in mounts : Len(m.local) <= Len(t.path)
    BY <1>1, <1>3 DEF Mount
  <2> QED
    BY <1>3, <2>1 DEF Bounded
<1>5. Proper(mounts)
  BY <1>1, <1>2, <1>4 DEF Proper, One
<1>6. NoCommand \in CmdType /\ NoCommand.op = "none" /\ NoCommand.list = {}
  BY EmptySeq DEF NoCommand, Doing, CmdType
<1>7. cmd = [c \in Procs |-> NoCommand]
  BY DEF Init
<1>8. Races /\ \A c \in Procs : Pending(c)
  BY <1>6, <1>7 DEF Races, Pending, Open
<1> QED
  BY <1>5, <1>6, <1>7, <1>8, ProperParts DEF Init, MountsInv

\* A command that begins makes the others raced, and is raced when there are others.
LEMMA BeginKeeps ==
    ASSUME MountsInv, NEW c \in Procs, NEW x \in CmdType, Begin(c, x), Proper(x.list),
           kept \ exposed' \subseteq kept \ exposed,
           x.op \in {"place", "checked"} => \A p \in kept \ exposed' : Resolves(x.list, p),
           x.op = "remove" =>
             \A p \in kept \ exposed' : Under(x.local, p) \/ Resolves(x.list, p),
           x.op = "sync" => \A p \in x.keep \ kept : Resolves(mounts, p)
    PROVE  MountsInv'
<1> DEFINE race == \E e \in Procs \ {c} : Open(e)
<1>1. /\ UNCHANGED <<files, table, mounts, kept>>
      /\ cmd' = [d \in Procs |-> IF d = c THEN [x EXCEPT !.raced = race]
                                 ELSE [cmd[d] EXCEPT !.raced = Open(d)]]
  BY DEF Begin
<1>2. /\ cmd'[c] \in CmdType /\ cmd'[c].op = x.op /\ cmd'[c].local = x.local
      /\ cmd'[c].list = x.list /\ cmd'[c].keep = x.keep /\ cmd'[c].raced = race
  <2>1. race \in BOOLEAN
    OBVIOUS
  <2> HIDE DEF race
  <2>2. cmd'[c] = [x EXCEPT !.raced = race]
    BY <1>1
  <2> QED
    BY <2>1, <2>2 DEF CmdType
<1>3. ASSUME NEW d \in Procs, d # c
      PROVE  /\ cmd'[d] \in CmdType /\ cmd'[d].op = cmd[d].op /\ cmd'[d].local = cmd[d].local
             /\ cmd'[d].list = cmd[d].list /\ cmd'[d].keep = cmd[d].keep
             /\ cmd'[d].raced = Open(d)
  <2>1. cmd'[d] = [cmd[d] EXCEPT !.raced = Open(d)] /\ cmd[d] \in CmdType
    BY <1>1, <1>3 DEF MountsInv
  <2>2. Open(d) \in BOOLEAN
    BY DEF Open
  <2> QED
    BY <2>1, <2>2 DEF CmdType
<1>4. cmd' \in [Procs -> CmdType] /\ \A d \in Procs : Proper(cmd'[d].list)
  <2>1. \A d \in Procs : cmd'[d] \in CmdType /\ Proper(cmd'[d].list)
    BY <1>2, <1>3 DEF MountsInv
  <2>2. DOMAIN cmd' = Procs /\ cmd' = [d \in Procs |-> cmd'[d]]
    BY <1>1
  <2> QED
    BY <2>1, <2>2
<1>5. Races'
  <2> SUFFICES ASSUME NEW d \in Procs, NEW e \in Procs, d # e, Open(d)', Open(e)'
               PROVE  cmd'[d].raced
    BY DEF Races
  <2>1. CASE d = c
    <3>1. e # c /\ Open(e)
      BY <1>3, <2>1 DEF Open
    <3> QED
      BY <1>2, <2>1, <3>1
  <2>2. CASE d # c
    BY <1>3, <2>2 DEF Open
  <2> QED
    BY <2>1, <2>2
<1>6. ASSUME NEW d \in Procs PROVE Pending(d)'
  <2>1. CASE d = c
    BY <1>1, <1>2, <2>1 DEF Pending
  <2>2. CASE d # c
    <3>1. Pending(d) /\ (cmd[d].op = "sync" => Open(d))
      BY DEF MountsInv, Open
    <3> QED
      BY <1>1, <1>3, <2>2, <3>1 DEF Pending
  <2> QED
    BY <2>1, <2>2
<1>7. \A p \in kept' \ exposed' : Resolves(mounts', p)
  BY <1>1 DEF MountsInv
<1> QED
  BY <1>1, <1>4, <1>5, <1>6, <1>7 DEF MountsInv

\* A command that saves mounts does it for all files that are not exposed.
LEMMA PlaceKeeps ==
    ASSUME MountsInv, NEW c \in Procs, NEW m \in MountType, NEW force, Place(c, m, force)
    PROVE  MountsInv'
<1>1. PICK ms \in Loads(c) :
        /\ Begin(c, Doing("place", m.local, Placed(ms, m), {}))
        /\ exposed' = IF ms = mounts THEN exposed ELSE exposed \cup kept
  BY DEF Place
<1>2. Proper(ms) /\ \A p \in kept \ exposed' : Resolves(ms, p)
  <2>1. ms = mounts \/ ms = {}
    BY DEF Loads
  <2> QED
    BY <1>1, <2>1, ProperParts DEF MountsInv
<1>3. Proper(Placed(ms, m)) /\ \A p \in kept \ exposed' : Resolves(Placed(ms, m), p)
  BY <1>2, PlacedInOrder
<1>4. PICK x : x = Doing("place", m.local, Placed(ms, m), {})
  OBVIOUS
<1>5. x \in CmdType /\ x.op = "place" /\ x.list = Placed(ms, m)
  BY <1>3, <1>4, MountPaths DEF Doing, CmdType, Proper
<1>6. kept \ exposed' \subseteq kept \ exposed
  BY <1>1
<1> QED
  BY <1>1, <1>3, <1>4, <1>5, <1>6, BeginKeeps

\* What a command that ends leaves to the others.
LEMMA EndKeeps ==
    ASSUME MountsInv, NEW c \in Procs, Open(c), NEW x \in CmdType, Proper(x.list),
           x.op # "none" => /\ x.op = "sync" /\ x.keep \subseteq kept
                            /\ x.raced = cmd[c].raced /\ UNCHANGED kept,
           cmd' = [cmd EXCEPT ![c] = x], UNCHANGED <<files, table>>,
           Proper(mounts'), kept' \in SUBSET Seq(STRING),
           \A p \in kept' \ exposed' : Resolves(mounts', p),
           \A p \in kept' \ exposed' :
             p \in kept \ exposed \/ \A d \in Procs \ {c} : ~Open(d)
    PROVE  MountsInv'
<1>1. /\ cmd'[c] = x /\ cmd' \in [Procs -> CmdType]
      /\ \A d \in Procs : d # c => cmd'[d] = cmd[d]
  BY DEF MountsInv
<1>2. \A d \in Procs : Proper(cmd'[d].list)
  BY <1>1 DEF MountsInv
<1>3. Races'
  <2> SUFFICES ASSUME NEW d \in Procs, NEW e \in Procs, d # e, Open(d)', Open(e)'
               PROVE  cmd'[d].raced
    BY DEF Races
  <2>1. Open(d) /\ Open(e)
    BY <1>1 DEF Open
  <2>2. cmd[d].raced
    BY <2>1 DEF MountsInv, Races
  <2> QED
    BY <1>1, <2>2 DEF Open
<1>4. ASSUME NEW d \in Procs PROVE Pending(d)'
  <2>1. CASE d = c
    BY <1>1, <2>1 DEF Pending
  <2>2. CASE d # c /\ ~Open(d)
    BY <1>1, <2>2 DEF Pending, Open
  <2>3. CASE d # c /\ Open(d)
    <3>1. Pending(d) /\ cmd[d].raced /\ cmd'[d] = cmd[d]
      BY <1>1, <2>3 DEF MountsInv, Races
    <3>2. \A p \in kept' \ exposed' : p \in kept \ exposed
      BY <2>3
    <3> QED
      BY <3>1, <3>2 DEF Pending
  <2> QED
    BY <2>1, <2>2, <2>3
<1> QED
  BY <1>1, <1>2, <1>3, <1>4 DEF MountsInv

\* A command that ends saves nothing more.
LEMMA DoneKeeps ==
    ASSUME MountsInv, NEW c \in Procs, Open(c), End(c), UNCHANGED <<files, table>>,
           Proper(mounts'), kept' \in SUBSET Seq(STRING),
           \A p \in kept' \ exposed' : Resolves(mounts', p),
           \A p \in kept' \ exposed' :
             p \in kept \ exposed \/ \A d \in Procs \ {c} : ~Open(d)
    PROVE  MountsInv'
<1>1. PICK x : x = NoCommand
  OBVIOUS
<1>2. x \in CmdType /\ x.op = "none" /\ Proper(x.list)
  BY <1>1, EmptySeq, ProperParts DEF NoCommand, Doing, CmdType
<1>3. cmd' = [cmd EXCEPT ![c] = x]
  BY <1>1 DEF End
<1> QED
  BY <1>2, <1>3, EndKeeps

\* The commands keep the invariant.
LEMMA CommandKeeps ==
    ASSUME MountsInv, NEW c \in Procs, Command(c)
    PROVE  MountsInv'
<1>1. ASSUME NEW local \in Locals, NEW target \in Targets, NEW force \in BOOLEAN,
             MountAdd(c, local, target, force)
      PROVE  MountsInv'
  <2>1. PICK m : m = Mount(local, target.source, target.path, target.mode)
    OBVIOUS
  <2>2. m \in MountType /\ Place(c, m, force)
    BY <1>1, <2>1, MountsAssumption DEF Mount, MountType, MountAdd
  <2> QED
    BY <2>2, PlaceKeeps
<1>2. ASSUME NEW local \in Locals, NEW keyword, NEW force \in BOOLEAN,
             Attach(c, keyword, local, force)
      PROVE  MountsInv'
  <2>1. Matches(keyword) # {} /\ Matches(keyword) \subseteq table
    <3>1. Cardinality(Matches(keyword)) = 1
      BY <1>2 DEF Attach
    <3>2. Cardinality({}) = 0
      BY FS_EmptySet
    <3>3. ASSUME Matches(keyword) = {} PROVE FALSE
      BY <3>1, <3>2, <3>3
    <3> QED
      BY <3>3 DEF Matches
  <2>2. PICK s \in Sources : Place(c, Mount(local, s, <<>>, "readonly"), force)
    BY <1>2, <2>1 DEF Attach, MountsInv
  <2>3. PICK m : m = Mount(local, s, <<>>, "readonly")
    OBVIOUS
  <2>4. m \in MountType
    BY <1>2, <2>3, EmptySeq DEF Mount, MountType, Attach
  <2> QED
    BY <2>2, <2>3, <2>4, PlaceKeeps
<1>3. ASSUME NEW local \in Locals, MountRemove(c, local) PROVE MountsInv'
  <2>1. PICK x : x = Doing("remove", local, mounts \ At(mounts, local), {})
    OBVIOUS
  <2>2. Begin(c, x) /\ exposed' = exposed
    BY <1>3, <2>1 DEF MountRemove
  <2>3. Proper(mounts \ At(mounts, local))
    BY ProperParts DEF MountsInv
  <2>4. /\ x \in CmdType /\ x.op = "remove" /\ x.local = local
        /\ x.list = mounts \ At(mounts, local)
    BY <2>1, <2>3, MountsAssumption DEF Doing, CmdType, Proper
  <2>5. ASSUME NEW p \in kept \ exposed, ~Under(local, p)
        PROVE  Resolves(mounts \ At(mounts, local), p)
    <3>1. PICK n \in mounts : Under(n.local, p)
      BY <2>5 DEF MountsInv, Resolves, Over
    <3>2. n \in Over(mounts \ At(mounts, local), p)
      BY <2>5, <3>1 DEF At, Over
    <3> QED
      BY <3>2 DEF Resolves
  <2> QED
    BY <2>2, <2>3, <2>4, <2>5, BeginKeeps
<1>4. ASSUME NEW local \in Locals, Dematerialize(c, local) PROVE MountsInv'
  <2>1. PICK x : x = Doing("sync", <<>>, {}, kept \ EntriesUnder(local))
    OBVIOUS
  <2>2. Begin(c, x) /\ exposed' = exposed
    BY <1>4, <2>1 DEF Dematerialize
  <2>3. x \in CmdType /\ x.op = "sync" /\ x.list = {} /\ x.keep \subseteq kept
    BY <2>1, EmptySeq DEF Doing, CmdType, MountsInv
  <2> QED
    BY <2>2, <2>3, ProperParts, BeginKeeps
<1>5. ASSUME NEW new \in SUBSET Readable(mounts), Materialize(c, new) PROVE MountsInv'
  <2>1. PICK x : x = Doing("sync", <<>>, {}, kept \cup new)
    OBVIOUS
  <2>2. Begin(c, x) /\ exposed' = exposed
    BY <1>5, <2>1 DEF Materialize
  <2>3. \A p \in new : p \in Seq(STRING) /\ Resolves(mounts, p)
    BY ReadablePaths DEF MountsInv
  <2>4. x \in CmdType /\ x.op = "sync" /\ x.list = {} /\ x.keep = kept \cup new
    BY <2>1, <2>3, EmptySeq DEF Doing, CmdType, MountsInv
  <2> QED
    BY <2>2, <2>3, <2>4, ProperParts, BeginKeeps
<1>6. CASE SaveMounts(c)
  <2>1. /\ Open(c) /\ mounts' = cmd[c].list /\ UNCHANGED <<files, table, kept, exposed>>
        /\ Proper(mounts') /\ \A p \in kept \ exposed : Resolves(mounts', p)
    BY <1>6 DEF SaveMounts, Open, MountsInv, Pending
  <2>2. CASE Accepts(mounts')
    <3>1. PICK gone \in SUBSET EntriesUnder(cmd[c].local) :
            cmd' = [cmd EXCEPT ![c] = [@ EXCEPT !.op = "sync", !.list = {}, !.keep = kept \ gone]]
      BY <1>6, <2>2 DEF SaveMounts
    <3>2. PICK x : x = [cmd[c] EXCEPT !.op = "sync", !.list = {}, !.keep = kept \ gone]
      OBVIOUS
    <3>3. cmd[c] \in CmdType /\ kept \ gone \in SUBSET Seq(STRING)
      BY DEF MountsInv
    <3>4. /\ x \in CmdType /\ x.op = "sync" /\ x.list = {} /\ x.keep \subseteq kept
          /\ x.raced = cmd[c].raced
      BY <3>2, <3>3 DEF CmdType
    <3>5. cmd' = [cmd EXCEPT ![c] = x]
      BY <3>1, <3>2 DEF MountsInv
    <3>6. kept' \in SUBSET Seq(STRING)
      BY <2>1 DEF MountsInv
    <3> QED
      BY <2>1, <3>4, <3>5, <3>6, ProperParts, EndKeeps
  <2>3. CASE ~Accepts(mounts')
    <3>1. End(c) /\ kept' \in SUBSET Seq(STRING)
      BY <1>6, <2>1, <2>3 DEF SaveMounts, MountsInv
    <3> QED
      BY <2>1, <3>1, DoneKeeps
  <2> QED
    BY <2>2, <2>3
<1>7. CASE CheckRemove(c)
  <2>1. /\ cmd[c].op = "remove" /\ cmd' = [cmd EXCEPT ![c].op = "checked"]
        /\ UNCHANGED <<files, table, mounts, kept>>
    BY <1>7 DEF CheckRemove
  <2>2. /\ kept \ exposed' \subseteq kept \ exposed
        /\ \A p \in kept \ exposed' : ~Under(cmd[c].local, p)
    BY <1>7 DEF CheckRemove, EntriesUnder
  <2>3. /\ cmd' \in [Procs -> CmdType]
        /\ cmd'[c] = [cmd[c] EXCEPT !.op = "checked"]
        /\ \A d \in Procs : d # c => cmd'[d] = cmd[d]
    <3>1. cmd[c] \in CmdType
      BY DEF MountsInv
    <3>2. [cmd[c] EXCEPT !.op = "checked"] \in CmdType
      BY <3>1 DEF CmdType
    <3> QED
      BY <2>1, <3>2 DEF MountsInv
  <2>4. /\ cmd'[c].op = "checked" /\ cmd'[c].list = cmd[c].list /\ cmd'[c].raced = cmd[c].raced
        /\ cmd'[c].local = cmd[c].local
    BY <2>3 DEF MountsInv, CmdType
  <2>5. \A d \in Procs : Proper(cmd'[d].list)
    BY <2>3, <2>4 DEF MountsInv
  <2>6. Races'
    <3>1. \A d \in Procs : (Open(d)' <=> Open(d)) /\ cmd'[d].raced = cmd[d].raced
      BY <2>1, <2>3, <2>4 DEF Open
    <3> QED
      BY <3>1 DEF Races, MountsInv
  <2>7. ASSUME NEW d \in Procs PROVE Pending(d)'
    <3>1. Pending(d)
      BY DEF MountsInv
    <3>2. CASE d = c
      BY <2>1, <2>2, <2>4, <3>1, <3>2 DEF Pending
    <3>3. CASE d # c
      BY <2>1, <2>2, <2>3, <3>1, <3>3 DEF Pending
    <3> QED
      BY <3>2, <3>3
  <2>8. \A p \in kept' \ exposed' : Resolves(mounts', p)
    BY <2>1, <2>2 DEF MountsInv
  <2> QED
    BY <2>1, <2>3, <2>5, <2>6, <2>7, <2>8 DEF MountsInv
<1>8. CASE SaveRemoved(c)
  <2>1. /\ Open(c) /\ mounts' = cmd[c].list /\ UNCHANGED <<files, table, kept, exposed>>
        /\ Proper(mounts') /\ \A p \in kept \ exposed : Resolves(mounts', p)
        /\ End(c) /\ kept' \in SUBSET Seq(STRING)
    BY <1>8 DEF SaveRemoved, Open, MountsInv, Pending
  <2> QED
    BY <2>1, DoneKeeps
<1>9. CASE SaveManifest(c)
  <2>1. /\ Open(c) /\ kept' = cmd[c].keep /\ UNCHANGED <<files, table, mounts>>
        /\ exposed' = kept' \cap (exposed \cup {p \in kept' \ kept : cmd[c].raced})
        /\ End(c)
    BY <1>9 DEF SaveManifest, Open
  <2>2. Proper(mounts') /\ kept' \in SUBSET Seq(STRING)
    BY <2>1 DEF MountsInv, CmdType
  <2>3. ASSUME NEW p \in kept' \ exposed'
        PROVE  /\ Resolves(mounts', p)
               /\ p \in kept \ exposed \/ \A d \in Procs \ {c} : ~Open(d)
    <3>1. CASE p \in kept
      BY <2>1, <2>3, <3>1 DEF MountsInv
    <3>2. CASE p \notin kept
      <4>1. ~cmd[c].raced
        BY <2>1, <2>3, <3>2
      <4>2. Resolves(mounts, p)
        BY <1>9, <2>1, <2>3, <3>2, <4>1 DEF SaveManifest, MountsInv, Pending
      <4>3. \A d \in Procs \ {c} : ~Open(d)
        BY <2>1, <4>1 DEF MountsInv, Races
      <4> QED
        BY <2>1, <4>2, <4>3
    <3> QED
      BY <3>1, <3>2
  <2> QED
    BY <2>1, <2>2, <2>3, DoneKeeps
<1>10. CASE Interrupted(c)
  <2>1. Open(c) /\ End(c) /\ UNCHANGED <<files, table>>
    BY <1>10 DEF Interrupted
  <2>2. CASE UNCHANGED <<mounts, kept, exposed>>
    <3>1. /\ Proper(mounts') /\ kept' \in SUBSET Seq(STRING)
          /\ \A p \in kept' \ exposed' : Resolves(mounts', p) /\ p \in kept \ exposed
      BY <2>2 DEF MountsInv
    <3> QED
      BY <2>1, <3>1, DoneKeeps
  <2>3. CASE mounts' = {} /\ exposed' = kept /\ UNCHANGED kept
    <3>1. Proper(mounts') /\ kept' \in SUBSET Seq(STRING) /\ kept' \ exposed' = {}
      BY <2>3, ProperParts DEF MountsInv
    <3> QED
      BY <2>1, <3>1, DoneKeeps
  <2>4. CASE kept' = {} /\ UNCHANGED mounts
    <3>1. Proper(mounts') /\ kept' \in SUBSET Seq(STRING) /\ kept' \ exposed' = {}
      BY <2>4 DEF MountsInv
    <3> QED
      BY <2>1, <3>1, DoneKeeps
  <2> QED
    BY <1>10, <2>2, <2>3, <2>4 DEF Interrupted
<1> QED
  BY <1>1, <1>2, <1>3, <1>4, <1>5, <1>6, <1>7, <1>8, <1>9, <1>10 DEF Command

LEMMA MountsInvStep == MountsInv /\ [Next]_vars => MountsInv'
<1> SUFFICES ASSUME MountsInv, [Next]_vars PROVE MountsInv'
  OBVIOUS
<1>0. ASSUME UNCHANGED workspace, files' \in SUBSET Places, table' \in SUBSET Sources
      PROVE  MountsInv'
  <2>1. UNCHANGED <<mounts, kept, cmd, exposed>>
    BY <1>0 DEF workspace
  <2> QED
    BY <1>0, <2>1 DEF MountsInv, Races, Pending, Open
<1>1. ASSUME NEW c \in Procs, Command(c) PROVE MountsInv'
  BY <1>1, CommandKeeps
<1>2. CASE Outside
  <2>1. files' \in SUBSET Places /\ table' \in SUBSET Sources
    BY <1>2 DEF Outside, WriteFile, RemoveFile, Register, Unregister, MountsInv
  <2> QED
    BY <1>0, <1>2, <2>1 DEF Outside
<1>3. CASE Fetch \/ FetchFails \/ Respond
  BY <1>0, <1>3 DEF Fetch, FetchFails, Respond, MountsInv
<1>4. ASSUME NEW dir \in Dirs, Browse(dir) PROVE MountsInv'
  BY <1>0, <1>4 DEF Browse, MountsInv
<1>5. ASSUME NEW p, Delete(p) PROVE MountsInv'
  BY <1>0, <1>5 DEF Delete, DeleteAt, MountsInv
<1>6. ASSUME NEW p, Write(p) PROVE MountsInv'
  BY <1>0, <1>6 DEF Write, WriteAt, MountsInv
<1>7. CASE UNCHANGED vars
  BY <1>0, <1>7 DEF vars, workspace, MountsInv
<1> QED
  BY <1>1, <1>2, <1>3, <1>4, <1>5, <1>6, <1>7 DEF Next

\* The inductive invariant of the workspace, commands that run beside each other, are
\* killed and leave their checks out included (mount.go).
THEOREM MountsInvariant == Spec => []MountsInv
BY MountsInvInit, MountsInvStep, PTL DEF Spec

\* A materialized file keeps one deepest mount unless it is exposed: unless a command
\* saved its entry beside another one, rm did not see the manifest, or the mounts were
\* lost in a save (mount.go, newMountRemoveCommand and newMountAddCommand).
THEOREM FilesStayMounted == Spec => []KeptStayMounted
<1>1. MountsInv => KeptStayMounted
  <2> SUFFICES ASSUME MountsInv, NEW p \in kept \ exposed
               PROVE  \E m \in Over(mounts, p) :
                        \A n \in Over(mounts, p) \ {m} : Len(n.local) < Len(m.local)
    BY DEF KeptStayMounted
  <2>1. Proper(mounts) /\ p \in Seq(STRING) /\ Resolves(mounts, p)
    BY DEF MountsInv
  <2>2. PICK m \in mounts : /\ Under(m.local, p)
                            /\ \A n \in mounts : Under(n.local, p) =>
                                 n = m \/ IsStrictPrefix(n.local, m.local)
    BY <2>1, Resolved
  <2>3. ASSUME NEW n \in mounts, Under(n.local, p), n # m PROVE Len(n.local) < Len(m.local)
    <3>1. m.local \in Seq(STRING) /\ n.local \in Seq(STRING)
      BY <2>1, MountPaths DEF Proper
    <3>2. IsPrefix(n.local, m.local) /\ n.local # m.local
      BY <2>2, <2>3 DEF IsStrictPrefix
    <3>3. Len(n.local) \in Nat /\ Len(m.local) \in Nat
      BY <3>1, LenProperties
    <3>4. ~(Len(n.local) >= Len(m.local))
      BY <3>1, <3>2, PrefixOrder
    <3> QED
      BY <3>3, <3>4
  <2> QED
    BY <2>2, <2>3 DEF Over
<1> QED
  BY <1>1, MountsInvariant, PTL

\* The path of a file in a response leads back to it (resolver.go, Resolve and
\* ToLocalSource).
THEOREM PathsLeadBack == Spec => []PathsReturn
<1>1. MountsInv => PathsReturn
  <2> SUFFICES ASSUME MountsInv, NEW f \in files, Shown(mounts, f.source, f.path),
                      ~Shadowed(mounts, Deepest(Showing(mounts, f.source, f.path)).local,
                                ToLocal(mounts, f.source, f.path))
               PROVE  FileAt(Resolve(mounts, ToLocal(mounts, f.source, f.path)).source,
                             Resolve(mounts, ToLocal(mounts, f.source, f.path)).path) = f
    BY DEF PathsReturn
  <2>1. f \in [source : Sources, path : Seq(STRING) \ {<<>>}] /\ Proper(mounts)
    BY SourcesAssumption DEF MountsInv
  <2>2. /\ Resolve(mounts, ToLocal(mounts, f.source, f.path)).source = f.source
        /\ Resolve(mounts, ToLocal(mounts, f.source, f.path)).path = f.path
    BY <2>1, ReturnsTo
  <2> QED
    BY <2>1, <2>2 DEF FileAt
<1> QED
  BY <1>1, MountsInvariant, PTL

-----------------------------------------------------------------------------
(* Listings *)

\* Where no place is shown by two mounts, a path is shown by the mount it is under.
LEMMA ShownByOne ==
    ASSUME NEW ms, Proper(ms), Disjoint(ms), NEW m \in ms, NEW x \in Seq(STRING), Under(m.path, x)
    PROVE  /\ Shown(ms, m.source, x) /\ Deepest(Showing(ms, m.source, x)) = m
           /\ ToLocal(ms, m.source, x) = m.local \o Rest(m.path, x)
<1>1. m \in Showing(ms, m.source, x) /\ Showing(ms, m.source, x) \in SUBSET ms
  BY DEF Showing
<1>2. PICK k : k = Deepest(Showing(ms, m.source, x))
  OBVIOUS
<1>3. k \in ms /\ k.source = m.source /\ Under(k.path, x)
  <2>1. k \in Showing(ms, m.source, x)
    BY <1>1, <1>2, DeepestIs
  <2> QED
    BY <2>1 DEF Showing
<1>4. /\ k.path \in Seq(STRING) /\ m.path \in Seq(STRING)
      /\ Len(k.path) \in Nat /\ Len(m.path) \in Nat
  BY <1>3, MountPaths, LenProperties DEF Proper
<1>5. Under(k.path, m.path) \/ Under(m.path, k.path)
  <2>1. CASE Len(k.path) <= Len(m.path)
    BY <1>3, <1>4, <2>1, PrefixOrder DEF Under
  <2>2. CASE Len(m.path) <= Len(k.path)
    BY <1>3, <1>4, <2>2, PrefixOrder DEF Under
  <2> QED
    BY <1>4, <2>1, <2>2
<1>6. k = m
  BY <1>3, <1>5 DEF Disjoint
<1> QED
  BY <1>1, <1>2, <1>6 DEF Shown, ToLocal

\* A request asks one mount of the listing.
LEMMA RequestMount ==
    ASSUME NEW ms, Proper(ms), NEW dir \in Seq(STRING), NEW q \in Requests(ms, dir)
    PROVE  \E m \in ms : /\ q = [source |-> m.source, path |-> q.path, root |-> m.local]
                         /\ q.path \in Seq(STRING) /\ Under(m.path, q.path)
<1>1. ASSUME NEW m \in Descendants(ms, dir),
             q = [source |-> m.source, path |-> m.path, root |-> m.local]
      PROVE  \E n \in ms : /\ q = [source |-> n.source, path |-> q.path, root |-> n.local]
                           /\ q.path \in Seq(STRING) /\ Under(n.path, q.path)
  <2>1. m \in ms
    BY DEF Descendants
  <2>2. m.path \in Seq(STRING)
    BY <2>1, MountPaths DEF Proper
  <2>3. Under(m.path, m.path)
    BY <2>2, PrefixOrder DEF Under
  <2> QED
    BY <1>1, <2>1, <2>2, <2>3
<1>2. ASSUME NEW m \in Over(ms, dir), m = Deepest(Over(ms, dir)),
             q = [source |-> Resolve(ms, dir).source, path |-> Resolve(ms, dir).path,
                  root |-> m.local]
      PROVE  \E n \in ms : /\ q = [source |-> n.source, path |-> q.path, root |-> n.local]
                           /\ q.path \in Seq(STRING) /\ Under(n.path, q.path)
  <2>1. Resolves(ms, dir)
    BY DEF Resolves
  <2>2. PICK n \in ms : /\ n = Deepest(Over(ms, dir)) /\ Under(n.local, dir)
                        /\ Resolve(ms, dir).source = n.source
                        /\ Resolve(ms, dir).path = n.path \o Rest(n.local, dir)
                        /\ Resolve(ms, dir).path \in Seq(STRING)
    BY <2>1, Resolved
  <2>3. n = m
    BY <1>2, <2>2
  <2>4. n.path \in Seq(STRING) /\ Rest(n.local, dir) \in Seq(STRING)
    BY <2>2, MountPaths, RestJoins DEF Proper, Under
  <2>5. Under(n.path, n.path \o Rest(n.local, dir))
    BY <2>4, JoinRests DEF Under
  <2> QED
    BY <1>2, <2>2, <2>3, <2>5
<1> QED
  BY <1>1, <1>2 DEF Requests

\* The deepest mount over a path is also that over each path above it in the mount.
LEMMA StillDeepest ==
    ASSUME NEW ms, Proper(ms), NEW p \in Seq(STRING), NEW m \in ms,
           \A n \in ms : Under(n.local, p) => n = m \/ IsStrictPrefix(n.local, m.local),
           NEW x \in Seq(STRING), IsPrefix(x, p), Under(m.local, x)
    PROVE  Resolves(ms, x) /\ Deepest(Over(ms, x)) = m
<1>1. Resolves(ms, x)
  BY DEF Resolves, Over
<1>2. PICK k \in ms : /\ k = Deepest(Over(ms, x)) /\ Under(k.local, x)
                      /\ m = k \/ IsStrictPrefix(m.local, k.local)
  BY <1>1, Resolved
<1>3. m.local \in Seq(STRING) /\ k.local \in Seq(STRING)
  BY <1>2, MountPaths DEF Proper
<1>4. Under(k.local, p)
  BY <1>2, <1>3, PrefixOrder DEF Under
<1>5. k = m \/ IsStrictPrefix(k.local, m.local)
  BY <1>4
<1>6. ~(IsStrictPrefix(k.local, m.local) /\ IsStrictPrefix(m.local, k.local))
  <2>1. Len(k.local) \in Nat /\ Len(m.local) \in Nat
    BY <1>3, LenProperties
  <2> QED
    BY <1>3, <2>1, PrefixOrder DEF IsStrictPrefix
<1> QED
  BY <1>1, <1>2, <1>5, <1>6

\* A file of a mount can be read where the mount is the deepest.
LEMMA ReadableHere ==
    ASSUME NEW ms, Proper(ms), Disjoint(ms), files \subseteq Places, NEW m \in ms,
           NEW x \in Seq(STRING), Under(m.path, x), IsFile(m.source, x),
           Resolves(ms, m.local \o Rest(m.path, x)),
           Deepest(Over(ms, m.local \o Rest(m.path, x))) = m
    PROVE  m.local \o Rest(m.path, x) \in Readable(ms)
<1>1. PICK f \in files : f = FileAt(m.source, x)
  BY DEF IsFile
<1>2. f.source = m.source /\ f.path = x
  BY <1>1 DEF FileAt
<1>3. Shown(ms, f.source, f.path)
  BY <1>2, ShownByOne
<1>4. PICK l : l = ToLocal(ms, f.source, f.path)
  OBVIOUS
<1>5. l = m.local \o Rest(m.path, x)
  <2>1. ToLocal(ms, m.source, x) = m.local \o Rest(m.path, x)
    BY ShownByOne
  <2> QED
    BY <1>2, <1>4, <2>1
<1>6. /\ m.local \in Seq(STRING) /\ m.path \in Seq(STRING)
      /\ Rest(m.path, x) \in Seq(STRING) /\ m.path \o Rest(m.path, x) = x
  BY MountPaths, RestJoins DEF Proper, Under
<1>7. PICK r : r = Rest(m.path, x)
  OBVIOUS
<1>8. l = m.local \o r /\ r \in Seq(STRING) /\ m.path \o r = x
  BY <1>5, <1>6, <1>7
<1>9. Rest(m.local, l) = r
  BY <1>6, <1>8, JoinRests
<1>10. Resolves(ms, l) /\ Deepest(Over(ms, l)) = m
  BY <1>5
<1>11. Resolve(ms, l).source = m.source /\ Resolve(ms, l).path = x
  BY <1>8, <1>9, <1>10 DEF Resolve
<1>12. CanRead(ms, l)
  BY <1>10, <1>11 DEF CanRead
<1> QED
  BY <1>3, <1>4, <1>5, <1>12 DEF Readable

\* What can be read is in the deepest mount.
LEMMA ReadIn ==
    ASSUME NEW ms, Proper(ms), files \subseteq Places, NEW p \in Readable(ms)
    PROVE  \E m \in ms :
           /\ m = Deepest(Over(ms, p)) /\ Under(m.local, p)
           /\ \A n \in ms : Under(n.local, p) => n = m \/ IsStrictPrefix(n.local, m.local)
           /\ IsFile(m.source, m.path \o Rest(m.local, p))
<1>1. p \in Seq(STRING) /\ Resolves(ms, p)
  BY ReadablePaths
<1>2. IsFile(Resolve(ms, p).source, Resolve(ms, p).path)
  BY DEF Readable, CanRead
<1>3. PICK m \in ms :
           /\ m = Deepest(Over(ms, p)) /\ Under(m.local, p)
           /\ \A n \in ms : Under(n.local, p) => n = m \/ IsStrictPrefix(n.local, m.local)
           /\ Resolve(ms, p).source = m.source
           /\ Resolve(ms, p).path = m.path \o Rest(m.local, p)
  BY <1>1, Resolved
<1> QED
  BY <1>2, <1>3

\* The request that a path of the directory is asked for in.
RequestFor(ms, dir, p) == LET m == Deepest(Over(ms, p)) IN
    [source |-> m.source,
     path   |-> IF Under(m.local, dir) THEN m.path \o Rest(m.local, dir) ELSE m.path,
     root   |-> m.local]

LEMMA RequestOf ==
    ASSUME NEW ms, Proper(ms), NEW dir \in Seq(STRING), NEW p \in Seq(STRING), IsPrefix(dir, p),
           NEW m \in ms, m = Deepest(Over(ms, p)), Under(m.local, p),
           \A n \in ms : Under(n.local, p) => n = m \/ IsStrictPrefix(n.local, m.local)
    PROVE  /\ RequestFor(ms, dir, p) \in Requests(ms, dir)
           /\ RequestFor(ms, dir, p).source = m.source /\ RequestFor(ms, dir, p).root = m.local
           /\ RequestFor(ms, dir, p).path \in Seq(STRING)
           /\ Under(m.path, RequestFor(ms, dir, p).path)
           /\ IsPrefix(RequestFor(ms, dir, p).path, m.path \o Rest(m.local, p))
<1>1. /\ m.local \in Seq(STRING) /\ m.path \in Seq(STRING)
      /\ Rest(m.local, p) \in Seq(STRING) /\ m.local \o Rest(m.local, p) = p
  BY MountPaths, RestJoins DEF Proper, Under
<1>2. PICK u : u = Rest(m.local, p)
  OBVIOUS
<1>3. u \in Seq(STRING) /\ m.local \o u = p
  BY <1>1, <1>2
<1>4. CASE Under(m.local, dir)
  <2>1. Rest(m.local, dir) \in Seq(STRING) /\ m.local \o Rest(m.local, dir) = dir
    BY <1>1, <1>4, RestJoins DEF Under
  <2>2. PICK v : v = Rest(m.local, dir)
    OBVIOUS
  <2>3. v \in Seq(STRING) /\ m.local \o v = dir
    BY <2>1, <2>2
  <2>4. PICK x, y : x = m.path \o v /\ y = m.path \o u
    OBVIOUS
  <2>5. x \in Seq(STRING) /\ Under(m.path, x) /\ y \in Seq(STRING)
    BY <1>1, <1>3, <2>3, <2>4, JoinRests DEF Under
  <2>6. IsPrefix(v, u)
    <3>1. IsPrefix(m.local \o v, m.local \o u)
      BY <1>3, <2>3
    <3> QED
      BY <1>1, <1>3, <2>3, <3>1, JoinOrder
  <2>7. IsPrefix(x, y)
    BY <1>1, <1>3, <2>3, <2>4, <2>6, JoinOrder
  <2>8. RequestFor(ms, dir, p) = [source |-> m.source, path |-> x, root |-> m.local]
    BY <1>4, <2>2, <2>4 DEF RequestFor
  <2>9. Resolves(ms, dir) /\ Deepest(Over(ms, dir)) = m
    BY <1>4, StillDeepest
  <2>10. Resolve(ms, dir).source = m.source /\ Resolve(ms, dir).path = x
    BY <2>2, <2>4, <2>9 DEF Resolve
  <2>11. m \in Over(ms, dir)
    BY <1>4 DEF Over
  <2>12. RequestFor(ms, dir, p) \in Requests(ms, dir)
    BY <2>8, <2>9, <2>10, <2>11 DEF Requests
  <2> QED
    BY <1>2, <2>4, <2>5, <2>7, <2>8, <2>12
<1>5. CASE ~Under(m.local, dir)
  <2>1. IsStrictPrefix(dir, m.local)
    <3>1. Len(dir) \in Nat /\ Len(m.local) \in Nat
      BY <1>1, LenProperties
    <3>2. ~(Len(m.local) <= Len(dir))
      BY <1>1, <1>5, PrefixOrder DEF Under
    <3>3. IsPrefix(dir, m.local)
      BY <1>1, <3>1, <3>2, PrefixOrder DEF Under
    <3> QED
      BY <3>1, <3>2, <3>3 DEF IsStrictPrefix
  <2>2. RequestFor(ms, dir, p) = [source |-> m.source, path |-> m.path, root |-> m.local]
    BY <1>5 DEF RequestFor
  <2>3. RequestFor(ms, dir, p) \in Requests(ms, dir)
    BY <2>1, <2>2 DEF Requests, Descendants
  <2>4. Under(m.path, m.path)
    BY <1>1, PrefixOrder DEF Under
  <2>5. IsPrefix(m.path, m.path \o u)
    BY <1>1, <1>3, JoinRests
  <2> QED
    BY <1>1, <1>2, <2>2, <2>3, <2>4, <2>5
<1> QED
  BY <1>4, <1>5

\* What a request collects can be read.
LEMMA CollectedIsThere ==
    ASSUME NEW ms, Proper(ms), Disjoint(ms), files \subseteq Places, NEW dir \in Seq(STRING),
           NEW q \in Requests(ms, dir), q.source \in table
    PROVE  Collected(ms, q) \subseteq Readable(ms)
<1>1. PICK m \in ms : /\ q = [source |-> m.source, path |-> q.path, root |-> m.local]
                      /\ q.path \in Seq(STRING) /\ Under(m.path, q.path)
  BY RequestMount
<1>2. q.source = m.source /\ q.root = m.local
  BY <1>1
<1> SUFFICES ASSUME NEW f \in Walked(q.source, q.path), Shown(ms, f.source, f.path),
                    ~Shadowed(ms, q.root, ToLocal(ms, f.source, f.path))
             PROVE  ToLocal(ms, f.source, f.path) \in Readable(ms)
  BY DEF Collected
<1>3. f \in files /\ f.source = m.source /\ IsPrefix(q.path, f.path)
  BY <1>2 DEF Walked, Below, IsStrictPrefix
<1>4. f \in [source : Sources, path : Seq(STRING) \ {<<>>}]
  BY <1>3, SourcesAssumption
<1>5. m.path \in Seq(STRING) /\ m.local \in Seq(STRING)
  BY MountPaths DEF Proper
<1>6. Under(m.path, f.path)
  BY <1>1, <1>3, <1>4, <1>5, PrefixOrder DEF Under
<1>7. PICK x : x = f.path
  OBVIOUS
<1>8. x \in Seq(STRING) /\ Under(m.path, x)
  BY <1>4, <1>6, <1>7
<1>9. IsFile(m.source, x)
  <2>1. f = FileAt(m.source, x)
    BY <1>3, <1>4, <1>7 DEF FileAt
  <2> QED
    BY <1>2, <1>3, <2>1 DEF IsFile
<1>10. ToLocal(ms, m.source, x) = m.local \o Rest(m.path, x)
  BY <1>8, ShownByOne
<1>11. PICK l : l = m.local \o Rest(m.path, x)
  OBVIOUS
<1>12. l = ToLocal(ms, f.source, f.path)
  BY <1>3, <1>7, <1>10, <1>11
<1>13. l \in Seq(STRING) /\ Under(m.local, l)
  <2>1. Rest(m.path, x) \in Seq(STRING)
    BY <1>5, <1>8, RestJoins DEF Under
  <2> QED
    BY <1>5, <1>11, <2>1, JoinRests DEF Under
<1>14. Resolves(ms, l) /\ Deepest(Over(ms, l)) = m
  BY <1>2, <1>12, <1>13, NotHidden
<1>15. l \in Readable(ms)
  BY <1>8, <1>9, <1>11, <1>14, ReadableHere
<1> QED
  BY <1>12, <1>15

\* A file that can be read is collected by the request for it, or another one above it
\* can be read.
LEMMA CollectedIsAll ==
    ASSUME NEW ms, Proper(ms), Disjoint(ms), files \subseteq Places, NEW dir \in Seq(STRING),
           NEW p \in Readable(ms), IsPrefix(dir, p),
           IsDirAt(RequestFor(ms, dir, p).source, RequestFor(ms, dir, p).path)
    PROVE  p \in Collected(ms, RequestFor(ms, dir, p))
             \/ \E x \in Readable(ms) : IsStrictPrefix(x, p)
<1>1. PICK m \in ms :
           /\ m = Deepest(Over(ms, p)) /\ Under(m.local, p)
           /\ \A n \in ms : Under(n.local, p) => n = m \/ IsStrictPrefix(n.local, m.local)
           /\ IsFile(m.source, m.path \o Rest(m.local, p))
  BY ReadIn
<1>2. p \in Seq(STRING) /\ m.path \in Seq(STRING) /\ m.local \in Seq(STRING)
  BY ReadablePaths, MountPaths DEF Proper
<1>3. PICK q : q = RequestFor(ms, dir, p)
  OBVIOUS
<1>4. PICK u : u = Rest(m.local, p)
  OBVIOUS
<1>5. u \in Seq(STRING) /\ m.local \o u = p
  BY <1>1, <1>2, <1>4, RestJoins DEF Under
<1>6. PICK x : x = m.path \o u
  OBVIOUS
<1>7. x \in Seq(STRING) /\ Under(m.path, x) /\ Rest(m.path, x) = u
  BY <1>2, <1>5, <1>6, JoinRests DEF Under
<1>8. /\ q.source = m.source /\ q.root = m.local /\ q.path \in Seq(STRING)
      /\ Under(m.path, q.path) /\ IsPrefix(q.path, x)
  <2>1. /\ RequestFor(ms, dir, p).source = m.source /\ RequestFor(ms, dir, p).root = m.local
        /\ RequestFor(ms, dir, p).path \in Seq(STRING)
        /\ Under(m.path, RequestFor(ms, dir, p).path)
        /\ IsPrefix(RequestFor(ms, dir, p).path, m.path \o Rest(m.local, p))
    BY <1>1, <1>2, RequestOf
  <2> QED
    BY <1>3, <1>4, <1>6, <2>1
<1>9. IsFile(m.source, x) /\ ~IsFile(m.source, q.path)
  BY <1>1, <1>3, <1>4, <1>6, <1>8 DEF IsDirAt
<1>10. PICK g \in files : g = FileAt(m.source, x)
  BY <1>9 DEF IsFile
<1>11. g.source = m.source /\ g.path = x
  BY <1>10 DEF FileAt
<1>12. g \in Below(q.path)
  BY <1>8, <1>9, <1>11 DEF Below, IsStrictPrefix
<1>13. CASE \E h \in Below(q.path) : h.source = m.source /\ IsStrictPrefix(h.path, x)
  <2>1. PICK h \in Below(q.path) : h.source = m.source /\ IsStrictPrefix(h.path, x)
    BY <1>13
  <2>2. h \in [source : Sources, path : Seq(STRING) \ {<<>>}] /\ h \in files
    BY SourcesAssumption DEF Below
  <2>3. PICK y : y = h.path
    OBVIOUS
  <2>4. y \in Seq(STRING) /\ IsPrefix(q.path, y) /\ IsPrefix(y, x) /\ y # x
    BY <2>1, <2>2, <2>3 DEF Below, IsStrictPrefix
  <2>5. Under(m.path, y)
    BY <1>2, <1>8, <2>4, PrefixOrder DEF Under
  <2>6. PICK v : v = Rest(m.path, y)
    OBVIOUS
  <2>7. v \in Seq(STRING) /\ m.path \o v = y
    BY <1>2, <2>4, <2>5, <2>6, RestJoins DEF Under
  <2>8. IsPrefix(v, u) /\ v # u
    BY <1>2, <1>5, <1>6, <2>4, <2>7, JoinOrder
  <2>9. PICK l : l = m.local \o v
    OBVIOUS
  <2>10. l \in Seq(STRING) /\ Under(m.local, l) /\ Rest(m.local, l) = v
    BY <1>2, <2>7, <2>9, JoinRests DEF Under
  <2>11. IsPrefix(l, p)
    BY <1>2, <1>5, <2>7, <2>8, <2>9, JoinOrder
  <2>12. l # p
    BY <1>4, <2>8, <2>10
  <2>13. Resolves(ms, l) /\ Deepest(Over(ms, l)) = m
    BY <1>1, <1>2, <2>10, <2>11, StillDeepest
  <2>14. IsFile(m.source, y)
    <3>1. h = FileAt(m.source, y)
      BY <2>1, <2>2, <2>3 DEF FileAt
    <3> QED
      BY <1>9, <2>2, <3>1 DEF IsFile
  <2>15. l \in Readable(ms)
    BY <2>4, <2>5, <2>6, <2>9, <2>13, <2>14, ReadableHere
  <2> QED
    BY <2>11, <2>12, <2>15 DEF IsStrictPrefix
<1>14. CASE ~\E h \in Below(q.path) : h.source = m.source /\ IsStrictPrefix(h.path, x)
  <2>1. g \in Walked(q.source, q.path)
    BY <1>8, <1>11, <1>12, <1>14 DEF Walked
  <2>2. Shown(ms, m.source, x) /\ ToLocal(ms, m.source, x) = m.local \o Rest(m.path, x)
    BY <1>7, ShownByOne
  <2>3. ToLocal(ms, m.source, x) = p
    BY <1>5, <1>7, <2>2
  <2>4. ~Shadowed(ms, m.local, p)
    <3>1. ASSUME NEW n \in ms, IsStrictPrefix(m.local, n.local), Under(n.local, p) PROVE FALSE
      <4>1. n.local \in Seq(STRING) /\ Len(n.local) \in Nat /\ Len(m.local) \in Nat
        BY <1>2, MountPaths, LenProperties DEF Proper
      <4>2. n = m \/ IsStrictPrefix(n.local, m.local)
        BY <1>1, <3>1
      <4> QED
        BY <1>2, <3>1, <4>1, <4>2, PrefixOrder DEF IsStrictPrefix
    <3> QED
      BY <3>1 DEF Shadowed, Descendants
  <2>5. p \in Collected(ms, q)
    BY <1>8, <1>11, <2>1, <2>2, <2>3, <2>4 DEF Collected
  <2> QED
    BY <1>3, <2>5
<1> QED
  BY <1>13, <1>14

RunType == [on : BOOLEAN, dir : Seq(STRING), mounts : SUBSET MountType,
            todo : SUBSET [source : Sources, path : Seq(STRING), root : Seq(STRING)],
            nodes : SUBSET Seq(STRING), ever : SUBSET Seq(STRING), always : SUBSET Seq(STRING)]

\* A path that will be asked for, or was found, or is hidden below a file.
Accounted(r, p) ==
    \/ RequestFor(r.mounts, r.dir, p) \in r.todo
    \/ p \in r.nodes
    \/ \E q \in r.ever : IsStrictPrefix(q, p)

\* What the listing r has found can have been read, and all that can be read is accounted for.
Listing(r) ==
    /\ Proper(r.mounts)
    /\ Readable(r.mounts) \subseteq r.ever /\ r.always \subseteq Readable(r.mounts)
    /\ r.todo \subseteq Requests(r.mounts, r.dir)
    /\ Disjoint(r.mounts) =>
        /\ r.nodes \subseteq r.ever
        /\ \A p \in r.always : Under(r.dir, p) => Accounted(r, p)

ListingInv == run \in RunType /\ (run.on => Listing(run))

\* The requests of a listing.
LEMMA RequestTypes ==
    ASSUME NEW ms, Proper(ms), NEW dir \in Seq(STRING)
    PROVE  Requests(ms, dir) \subseteq [source : Sources, path : Seq(STRING), root : Seq(STRING)]
<1> SUFFICES ASSUME NEW q \in Requests(ms, dir)
             PROVE  q \in [source : Sources, path : Seq(STRING), root : Seq(STRING)]
  OBVIOUS
<1>1. PICK m \in ms : /\ q = [source |-> m.source, path |-> q.path, root |-> m.local]
                      /\ q.path \in Seq(STRING)
  BY RequestMount
<1>2. m.source \in Sources /\ m.local \in Seq(STRING)
  BY MountPaths DEF Proper
<1> QED
  BY <1>1, <1>2

\* A new listing asks for all that can be read.
LEMMA BrowseListing ==
    ASSUME MountsInv, NEW dir \in Dirs, Browse(dir)
    PROVE  ListingInv'
<1>1. dir \in Seq(STRING) /\ Proper(mounts) /\ files \subseteq Places
  BY MountsAssumption DEF MountsInv
<1>2. Readable(mounts) \subseteq Seq(STRING)
  BY <1>1, ReadablePaths
<1>3. Requests(mounts, dir) \subseteq [source : Sources, path : Seq(STRING), root : Seq(STRING)]
  BY <1>1, RequestTypes
<1>4. /\ run' = [on |-> TRUE, dir |-> dir, mounts |-> mounts, todo |-> Requests(mounts, dir),
                 nodes |-> {}, ever |-> Readable(mounts), always |-> Readable(mounts)]
      /\ UNCHANGED <<files, table, mounts>>
  BY DEF Browse, workspace
<1>5. run' \in RunType
  BY <1>1, <1>2, <1>3, <1>4 DEF RunType, Proper
<1>6. Readable(run.mounts)' = Readable(mounts)
  <2>1. run'.mounts = mounts /\ files' = files /\ table' = table
    BY <1>4
  <2> QED
    BY <2>1 DEF Readable, CanRead, IsFile
<1>7. ASSUME NEW p \in Readable(mounts), Under(dir, p) PROVE RequestFor(mounts, dir, p) \in Requests(mounts, dir)
  <2>1. PICK m \in mounts :
           /\ m = Deepest(Over(mounts, p)) /\ Under(m.local, p)
           /\ \A n \in mounts : Under(n.local, p) => n = m \/ IsStrictPrefix(n.local, m.local)
    BY <1>1, ReadIn
  <2> QED
    BY <1>1, <1>2, <1>7, <2>1, RequestOf DEF Under
<1>8. /\ run'.dir = dir /\ run'.mounts = mounts /\ run'.todo = Requests(mounts, dir)
      /\ run'.nodes = {} /\ run'.ever = Readable(mounts) /\ run'.always = Readable(mounts)
  BY <1>4
<1>9. \A p \in Readable(mounts) : Under(dir, p) => Accounted(run', p)
  BY <1>7, <1>8 DEF Accounted
<1>10. Listing(run)'
  BY <1>1, <1>6, <1>8, <1>9 DEF Listing
<1> QED
  BY <1>5, <1>10 DEF ListingInv

\* A response brings what can be read, and all that it was asked for.
LEMMA FetchListing ==
    ASSUME MountsInv, ListingInv, Fetch
    PROVE  ListingInv'
<1>1. run \in RunType /\ Listing(run) /\ files \subseteq Places
  BY DEF Fetch, ListingInv, MountsInv
<1>2. PICK q \in run.todo :
        /\ IsDirAt(q.source, q.path)
        /\ run' = [run EXCEPT !.todo = @ \ {q}, !.nodes = @ \cup Collected(run.mounts, q)]
  BY DEF Fetch
<1>3. PICK ms, dir : ms = run.mounts /\ dir = run.dir
  OBVIOUS
<1>4. Proper(ms) /\ dir \in Seq(STRING) /\ q \in Requests(ms, dir)
  BY <1>1, <1>3 DEF Listing, RunType
<1>5. /\ run'.on = run.on /\ run'.dir = dir /\ run'.mounts = ms /\ run'.todo = run.todo \ {q}
      /\ run'.nodes = run.nodes \cup Collected(ms, q)
      /\ run'.ever = run.ever /\ run'.always = run.always
  BY <1>1, <1>2, <1>3 DEF RunType
<1>6. Collected(ms, q) \subseteq Seq(STRING)
  <2> SUFFICES ASSUME NEW f \in files, Shown(ms, f.source, f.path)
               PROVE  ToLocal(ms, f.source, f.path) \in Seq(STRING)
    BY DEF Collected, Walked, Below
  <2>1. f.path \in Seq(STRING)
    BY <1>1, SourcesAssumption
  <2> QED
    BY <1>4, <2>1, ShownAt
<1>7. run' \in RunType
  BY <1>1, <1>2, <1>3, <1>6 DEF RunType
<1>8. Readable(ms)' = Readable(ms)
  BY DEF Fetch, Readable, CanRead, IsFile
<1>9. ASSUME Disjoint(ms)
      PROVE  /\ run'.nodes \subseteq run'.ever
             /\ \A p \in run'.always : Under(dir, p) => Accounted(run', p)
  <2>1. Collected(ms, q) \subseteq run.ever
    <3>1. q.source \in table
      BY <1>2 DEF IsDirAt
    <3>2. Collected(ms, q) \subseteq Readable(ms)
      BY <1>1, <1>4, <1>9, <3>1, CollectedIsThere
    <3> QED
      BY <1>1, <1>3, <3>2 DEF Listing
  <2>2. run'.nodes \subseteq run'.ever
    BY <1>1, <1>3, <1>5, <1>9, <2>1 DEF Listing
  <2>3. ASSUME NEW p \in run.always, Under(dir, p) PROVE Accounted(run', p)
    <3>1. p \in Readable(ms) /\ Accounted(run, p)
      BY <1>1, <1>3, <1>9, <2>3 DEF Listing
    <3>2. CASE RequestFor(ms, dir, p) = q
      <4>1. p \in Collected(ms, q) \/ \E x \in Readable(ms) : IsStrictPrefix(x, p)
        BY <1>1, <1>2, <1>4, <1>9, <2>3, <3>1, <3>2, CollectedIsAll DEF Under
      <4> QED
        BY <1>1, <1>3, <1>5, <4>1 DEF Accounted, Listing
    <3>3. CASE RequestFor(ms, dir, p) # q
      BY <1>3, <1>5, <3>1, <3>3 DEF Accounted
    <3> QED
      BY <3>2, <3>3
  <2> QED
    BY <1>5, <2>2, <2>3
<1>10. Listing(run)'
  BY <1>1, <1>3, <1>4, <1>5, <1>8, <1>9 DEF Listing
<1> QED
  BY <1>7, <1>10 DEF ListingInv

\* Changes of the sources are in the history.
LEMMA WitnessedListing ==
    ASSUME MountsInv', ListingInv, Witnessed
    PROVE  ListingInv'
<1>1. CASE ~run.on /\ UNCHANGED run
  BY <1>1 DEF ListingInv
<1>2. CASE run.on /\ ~(UNCHANGED run /\ ~run.on)
  <2>1. PICK ms, now : /\ ms = run.mounts /\ now = Readable(ms)'
                       /\ run' = [run EXCEPT !.ever = @ \cup now, !.always = @ \cap now]
    BY <1>2 DEF Witnessed
  <2>2. run \in RunType /\ Listing(run)
    BY <1>2 DEF ListingInv
  <2>3. /\ run'.on = run.on /\ run'.dir = run.dir /\ run'.mounts = ms /\ run'.todo = run.todo
        /\ run'.nodes = run.nodes /\ run'.ever = run.ever \cup now
        /\ run'.always = run.always \cap now
    BY <2>1, <2>2 DEF RunType
  <2>4. now \subseteq Seq(STRING)
    <3> SUFFICES ASSUME NEW f \in files', Shown(ms, f.source, f.path)
                 PROVE  ToLocal(ms, f.source, f.path) \in Seq(STRING)
      BY <2>1 DEF Readable
    <3>1. f.path \in Seq(STRING)
      BY SourcesAssumption DEF MountsInv
    <3>2. Proper(ms)
      BY <2>1, <2>2 DEF Listing
    <3> QED
      BY <3>1, <3>2, ShownAt
  <2>5. run' \in RunType
    BY <2>1, <2>2, <2>4 DEF RunType
  <2>6. \A p : Accounted(run, p) => Accounted(run', p)
    BY <2>1, <2>3 DEF Accounted
  <2>7. Listing(run)'
    BY <2>1, <2>2, <2>3, <2>6 DEF Listing
  <2> QED
    BY <2>5, <2>7 DEF ListingInv
<1> QED
  BY <1>1, <1>2 DEF Witnessed

\* Each step keeps the listing accounted for.
LEMMA ListingInvStep == MountsInv /\ MountsInv' /\ ListingInv /\ [Next]_vars => ListingInv'
<1> SUFFICES ASSUME MountsInv, MountsInv', ListingInv, [Next]_vars PROVE ListingInv'
  OBVIOUS
<1>1. ASSUME UNCHANGED <<files, table, run>> PROVE ListingInv'
  <2>1. Readable(run.mounts)' = Readable(run.mounts)
    BY <1>1 DEF Readable, CanRead, IsFile
  <2> QED
    BY <1>1, <2>1 DEF ListingInv, Listing
<1>2. ASSUME run' = NoRun PROVE ListingInv'
  <2>1. NoRun \in RunType /\ ~NoRun.on
    BY EmptySeq DEF NoRun, RunType
  <2> QED
    BY <1>2, <2>1 DEF ListingInv
<1>3. ASSUME NEW c \in Procs, Command(c) PROVE ListingInv'
  BY <1>1, <1>3 DEF Command, MountAdd, Attach, Place, MountRemove, Materialize, Dematerialize,
                    Begin, SaveMounts, CheckRemove, SaveRemoved, SaveManifest, Interrupted
<1>4. CASE Outside
  BY <1>4, WitnessedListing DEF Outside
<1>5. CASE Fetch
  BY <1>5, FetchListing
<1>6. CASE FetchFails
  BY <1>2, <1>6 DEF FetchFails
<1>7. CASE Respond
  BY <1>2, <1>7 DEF Respond
<1>8. CASE \E dir \in Dirs : Browse(dir)
  BY <1>8, BrowseListing
<1>9. CASE \E p : Delete(p) \/ Write(p)
  BY <1>9, WitnessedListing DEF Delete, Write
<1>10. CASE UNCHANGED vars
  BY <1>1, <1>10 DEF vars
<1> QED
  BY <1>3, <1>4, <1>5, <1>6, <1>7, <1>8, <1>9, <1>10 DEF Next

THEOREM ListingInvariant == Spec => []ListingInv
<1>1. Init => ListingInv
  BY EmptySeq DEF Init, NoRun, ListingInv, RunType
<1> QED
  BY <1>1, ListingInvStep, MountsInvariant, PTL DEF Spec

\* Listing a directory with mounts below it shows what can be read, and all that
\* could be read all the time, for any number of mounts that show no place twice
\* (adapter.go, overlayPlan and shadowedByMount).
THEOREM ListingsAreFaithful == Spec => []ListingsFaithful
<1>1. ListingInv => ListingsFaithful
  <2> SUFFICES ASSUME ListingInv, Answered, Disjoint(run.mounts) PROVE
               /\ Answer \subseteq run.ever
               /\ \A p \in run.always \ Answer :
                    Under(run.dir, p) => \E q \in run.ever : IsStrictPrefix(q, p)
    BY DEF ListingsFaithful
  <2>1. /\ run.todo = {} /\ run.nodes \subseteq run.ever
        /\ \A p \in run.always : Under(run.dir, p) => Accounted(run, p)
    BY DEF ListingInv, Listing, Answered
  <2>2. Answer \subseteq run.ever
    BY <2>1 DEF Answer
  <2>3. ASSUME NEW p \in run.always \ Answer, Under(run.dir, p)
        PROVE  \E q \in run.ever : IsStrictPrefix(q, p)
    <3>1. p \in run.nodes \/ \E q \in run.ever : IsStrictPrefix(q, p)
      BY <2>1, <2>3 DEF Accounted
    <3>2. CASE p \in run.nodes
      BY <2>1, <2>3, <3>2 DEF Answer
    <3> QED
      BY <3>1, <3>2
  <2> QED
    BY <2>2, <2>3
<1> QED
  BY <1>1, ListingInvariant, PTL

-----------------------------------------------------------------------------
(* The virtual root *)

\* A path with a name before it.
LEMMA ConsPath ==
    ASSUME NEW S, NEW b \in S, NEW w \in Seq(S)
    PROVE  /\ <<b>> \o w \in Seq(S) /\ <<b>> \o w # <<>> /\ Len(<<b>> \o w) = 1 + Len(w)
           /\ Head(<<b>> \o w) = b /\ Tail(<<b>> \o w) = w
<1>1. PICK v : v = <<b>> \o w
  OBVIOUS
<1>2. <<b>> \in Seq(S) /\ Len(<<b>>) = 1 /\ <<b>>[1] = b
  OBVIOUS
<1>2a. Len(w) \in Nat /\ 1 \in 1 .. 1 + Len(w)
  BY LenProperties
<1>3. /\ v \in Seq(S) /\ Len(v) = 1 + Len(w)
      /\ \A i \in 1 .. 1 + Len(w) : v[i] = IF i <= 1 THEN <<b>>[i] ELSE w[i - 1]
  BY <1>1, <1>2, ConcatProperties
<1>4. v # <<>>
  BY <1>2a, <1>3, EmptySeq
<1>5. v[1] = b
  BY <1>2, <1>2a, <1>3
<1>6. Head(v) = b
  BY <1>3, <1>4, <1>5
<1>7. /\ Tail(v) \in Seq(S) /\ Len(Tail(v)) = Len(w)
      /\ \A i \in 1 .. Len(w) : Tail(v)[i] = v[i + 1]
  BY <1>2a, <1>3, <1>4, HeadTailProperties
<1>8. \A i \in 1 .. Len(w) : v[i + 1] = w[i]
  <2> SUFFICES ASSUME NEW i \in 1 .. Len(w) PROVE v[i + 1] = w[i]
    OBVIOUS
  <2>1. i + 1 \in 1 .. 1 + Len(w) /\ ~(i + 1 <= 1) /\ i + 1 - 1 = i
    BY <1>2a
  <2> QED
    BY <1>3, <2>1
<1>9. Tail(v) = w
  BY <1>7, <1>8, SeqEqual
<1> QED
  BY <1>1, <1>3, <1>4, <1>6, <1>9

\* A path begins with its head.
LEMMA HeadJoins ==
    ASSUME NEW S, NEW p \in Seq(S), p # <<>>
    PROVE  /\ Head(p) \in S /\ Tail(p) \in Seq(S) /\ p = <<Head(p)>> \o Tail(p)
<1>1. Head(p) \in S /\ Tail(p) \in Seq(S) /\ Len(Tail(p)) = Len(p) - 1
        /\ \A i \in 1 .. Len(Tail(p)) : Tail(p)[i] = p[i + 1]
  BY HeadTailProperties
<1>2. Len(p) \in Nat \ {0} /\ p[1] = Head(p)
  BY EmptySeq
<1>3. PICK b, w : b = Head(p) /\ w = Tail(p)
  OBVIOUS
<1>4. b \in S /\ w \in Seq(S) /\ Len(w) = Len(p) - 1
        /\ \A i \in 1 .. Len(w) : w[i] = p[i + 1]
  BY <1>1, <1>3
<1>5. PICK v : v = <<b>> \o w
  OBVIOUS
<1>6. <<b>> \in Seq(S) /\ Len(<<b>>) = 1 /\ <<b>>[1] = b
  BY <1>4
<1>7. /\ v \in Seq(S) /\ Len(v) = 1 + Len(w)
      /\ \A i \in 1 .. 1 + Len(w) : v[i] = IF i <= 1 THEN <<b>>[i] ELSE w[i - 1]
  BY <1>4, <1>5, <1>6, ConcatProperties
<1>8. ASSUME NEW i \in 1 .. Len(p) PROVE v[i] = p[i]
  <2>1. CASE i = 1
    BY <1>2, <1>3, <1>4, <1>6, <1>7, <2>1
  <2>2. CASE i # 1
    <3>1. i - 1 \in 1 .. Len(w) /\ ~(i <= 1) /\ i \in 1 .. 1 + Len(w) /\ i - 1 + 1 = i
      BY <1>2, <1>4, <2>2
    <3> QED
      BY <1>4, <1>7, <3>1
  <2> QED
    BY <2>1, <2>2
<1>9. v = p
  <2>1. Len(v) = Len(p)
    BY <1>2, <1>4, <1>7
  <2> QED
    BY <1>7, <1>8, <2>1, SeqEqual
<1> QED
  BY <1>1, <1>3, <1>5, <1>9

\* The root of a source is at its name, and at no other one's.
LEMMA Roots ==
    /\ \A s \in Sources : /\ Root(s) \in Seq(STRING) /\ Root(s) # <<>>
                          /\ Name[s] \in Seq(STRING) \ {<<>>} /\ Base[s] \in STRING
                          /\ Root(s) = <<Base[s]>> \o Name[s] /\ Len(Root(s)) = 1 + Len(Name[s])
                          /\ Len(Name[s]) \in Nat \ {0}
    /\ \A s, t \in Sources : Root(s) = Root(t) => s = t
<1>1. ASSUME NEW s \in Sources
      PROVE  /\ Root(s) \in Seq(STRING) /\ Root(s) # <<>>
             /\ Name[s] \in Seq(STRING) \ {<<>>} /\ Base[s] \in STRING
             /\ Root(s) = <<Base[s]>> \o Name[s] /\ Len(Root(s)) = 1 + Len(Name[s])
             /\ Len(Name[s]) \in Nat \ {0}
             /\ Head(Root(s)) = Base[s] /\ Tail(Root(s)) = Name[s]
  <2>1. Name[s] \in Seq(STRING) \ {<<>>} /\ Base[s] \in {"repos", "docsets"}
    BY SourcesAssumption
  <2>2. Base[s] \in STRING
    BY RootAssumption
  <2>3. Len(Name[s]) \in Nat \ {0}
    BY <2>1, EmptySeq
  <2> QED
    BY <2>1, <2>2, <2>3, ConsPath DEF Root
<1>2. ASSUME NEW s \in Sources, NEW t \in Sources, Root(s) = Root(t) PROVE s = t
  <2>1. Base[s] = Base[t] /\ Name[s] = Name[t]
    BY <1>1, <1>2
  <2> QED
    BY <2>1, SourcesAssumption
<1> QED
  BY <1>1, <1>2

\* A path is at or below a source, or above it, when it is so as a whole.
LEMMA WholePaths ==
    ASSUME table \subseteq Sources, NEW p \in Seq(STRING), NEW s \in table
    PROVE  /\ s \in Routed(p) <=> IsPrefix(Root(s), p)
           /\ p # <<>> => (s \in Of(p) /\ IsPrefix(Rel(p), Name[s]) <=> IsPrefix(p, Root(s)))
<1>1. s \in Sources /\ Root(s) \in Seq(STRING) /\ Root(s) = <<Base[s]>> \o Name[s]
        /\ Name[s] \in Seq(STRING) /\ Base[s] \in STRING
        /\ Len(Root(s)) = 1 + Len(Name[s]) /\ Len(Name[s]) \in Nat
  BY Roots
<1>2. CASE p = <<>>
  <2>1. s \notin Routed(p)
    BY <1>2 DEF Routed, Of
  <2>2. ~(Len(Root(s)) <= Len(p))
    BY <1>1, <1>2, EmptySeq
  <2>3. ~IsPrefix(Root(s), p)
    BY <1>1, <2>2, PrefixMeaning
  <2> QED
    BY <1>2, <2>1, <2>3
<1>3. CASE p # <<>>
  <2>1. PICK b, w : b = Head(p) /\ w = Tail(p)
    OBVIOUS
  <2>2. b \in STRING /\ w \in Seq(STRING) /\ p = <<b>> \o w
    BY <1>3, <2>1, HeadJoins
  <2>3. s \in Of(p) <=> Base[s] = b
    BY <1>3, <2>1 DEF Of
  <2>4. ASSUME Base[s] = b
        PROVE  /\ IsPrefix(Name[s], w) <=> IsPrefix(Root(s), p)
               /\ IsPrefix(w, Name[s]) <=> IsPrefix(p, Root(s))
    <3>1. <<b>> \in Seq(STRING) /\ Root(s) = <<b>> \o Name[s]
      BY <1>1, <2>2, <2>4
    <3>2. IsPrefix(Name[s], w) <=> IsPrefix(<<b>> \o Name[s], <<b>> \o w)
      BY <1>1, <2>2, <3>1, JoinOrder
    <3>3. IsPrefix(w, Name[s]) <=> IsPrefix(<<b>> \o w, <<b>> \o Name[s])
      BY <1>1, <2>2, <3>1, JoinOrder
    <3> QED
      BY <2>2, <3>1, <3>2, <3>3
  <2>5. ASSUME IsPrefix(Root(s), p) \/ IsPrefix(p, Root(s)) PROVE Base[s] = b
    <3>1. Len(p) \in Nat \ {0}
      BY <1>3, EmptySeq
    <3>2. Root(s)[1] = p[1]
      <4>1. 1 \in 1 .. Len(Root(s)) /\ 1 \in 1 .. Len(p)
        BY <1>1, <3>1
      <4>2. CASE IsPrefix(Root(s), p)
        BY <1>1, <4>1, <4>2, PrefixMeaning
      <4>3. CASE IsPrefix(p, Root(s))
        BY <1>1, <4>1, <4>3, PrefixMeaning
      <4> QED
        BY <2>5, <4>2, <4>3
    <3>3. p[1] = b
      BY <2>1
    <3>4. Root(s)[1] = Base[s]
      <4>1. Head(<<Base[s]>> \o Name[s]) = Base[s]
        BY <1>1, ConsPath
      <4> QED
        BY <1>1, <4>1
    <3> QED
      BY <3>2, <3>3, <3>4
  <2>6. Rel(p) = w
    BY <2>1 DEF Rel
  <2> QED
    BY <1>3, <2>3, <2>4, <2>5, <2>6 DEF Routed
<1> QED
  BY <1>2, <1>3

\* The source that a path is routed to, and what is left of the path.
LEMMA RoutedTo ==
    ASSUME table \subseteq Sources, NEW p \in Seq(STRING), NEW s \in table, IsPrefix(Root(s), p),
           \A t \in table : IsPrefix(Root(t), p) => Len(Root(t)) <= Len(Root(s))
    PROVE  /\ Routed(p) # {}
           /\ Route(p).source = s /\ Route(p).path = Rest(Root(s), p)
           /\ Route(p) = [source |-> s, path |-> Rest(Root(s), p)]
           /\ Rest(Root(s), p) \in Seq(STRING) /\ Root(s) \o Rest(Root(s), p) = p
<1>1. \A t \in table : t \in Routed(p) <=> IsPrefix(Root(t), p)
  BY WholePaths
<1>2. Routed(p) \subseteq table /\ s \in Routed(p)
  BY <1>1 DEF Routed, Of
<1>3. \A t \in Routed(p) : Len(Name[s]) >= Len(Name[t])
  <2> SUFFICES ASSUME NEW t \in Routed(p) PROVE Len(Name[s]) >= Len(Name[t])
    OBVIOUS
  <2>1. Len(Root(t)) <= Len(Root(s))
    BY <1>1, <1>2
  <2>2. /\ Len(Root(t)) = 1 + Len(Name[t]) /\ Len(Root(s)) = 1 + Len(Name[s])
        /\ Len(Name[t]) \in Nat /\ Len(Name[s]) \in Nat
    BY <1>2, Roots
  <2> QED
    BY <2>1, <2>2
<1>4. PICK x : x = LongestOf(Routed(p))
  OBVIOUS
<1>5. x \in Routed(p) /\ \A t \in Routed(p) : Len(Name[x]) >= Len(Name[t])
  BY <1>2, <1>3, <1>4 DEF LongestOf
<1>6. x = s
  <2>1. /\ x \in Sources /\ s \in Sources /\ Root(x) \in Seq(STRING) /\ Root(s) \in Seq(STRING)
        /\ Len(Root(x)) = 1 + Len(Name[x]) /\ Len(Root(s)) = 1 + Len(Name[s])
        /\ Len(Name[x]) \in Nat /\ Len(Name[s]) \in Nat
    BY <1>2, <1>5, Roots
  <2>2. Len(Root(x)) = Len(Root(s))
    BY <1>2, <1>3, <1>5, <2>1
  <2>3. IsPrefix(Root(x), p)
    BY <1>1, <1>2, <1>5
  <2>4. IsPrefix(Root(x), Root(s))
    BY <2>1, <2>2, <2>3, PrefixOrder
  <2>5. Root(x) = Root(s)
    BY <2>1, <2>2, <2>4, PrefixOrder
  <2> QED
    BY <2>1, <2>5, Roots
<1>7. Route(p) = [source |-> s, path |-> Rest(Root(s), p)]
  BY <1>4, <1>6 DEF Route, Rest
<1>8. Rest(Root(s), p) \in Seq(STRING) /\ Root(s) \o Rest(Root(s), p) = p
  BY Roots, RestJoins
<1> QED
  BY <1>2, <1>7, <1>8

\* A directory above sources, or a source.
LEMMA VirtualMeaning ==
    ASSUME table \subseteq Sources, NEW p \in Seq(STRING)
    PROVE  IsVirtual(p) <=> \/ p = <<>> \/ p \in {<<b>> : b \in Bases}
                            \/ \E s \in table : IsPrefix(p, Root(s))
<1>1. CASE p = <<>>
  BY <1>1 DEF IsVirtual
<1>2. CASE p # <<>>
  <2>1. Of(p) \subseteq table
    BY DEF Of
  <2>2. (\E s \in Of(p) : IsPrefix(Rel(p), Name[s])) <=> \E s \in table : IsPrefix(p, Root(s))
    BY <1>2, <2>1, WholePaths
  <2> QED
    BY <2>2 DEF IsVirtual
<1> QED
  BY <1>1, <1>2

\* A path is not as long as a base.
LEMMA BasePaths ==
    ASSUME NEW p \in Seq(STRING)
    PROVE  p \in {<<b>> : b \in Bases} => Len(p) = 1
OBVIOUS

\* A file is reached at the name of its source.
LEMMA FileReached ==
    ASSUME table \subseteq Sources, files \subseteq Places, NEW f \in files, f.source \in table,
           ~\E t \in {u \in table : Base[u] = Base[f.source]
                                       /\ IsStrictPrefix(Name[f.source], Name[u])} :
               IsPrefix(Root(t), LocalPath(f)) \/ IsPrefix(LocalPath(f), Root(t))
    PROVE  CatReads(LocalPath(f)) /\ Route(LocalPath(f)) = f /\ Writable(LocalPath(f))
<1>1. f \in [source : Sources, path : Seq(STRING) \ {<<>>}]
  BY SourcesAssumption
<1>2. PICK s, w : s = f.source /\ w = f.path
  OBVIOUS
<1>3. s \in table /\ s \in Sources /\ w \in Seq(STRING) /\ w # <<>> /\ Len(w) \in Nat \ {0}
  BY <1>1, <1>2, EmptySeq
<1>4. PICK p : p = Root(s) \o w
  OBVIOUS
<1>5. Root(s) \in Seq(STRING) /\ Len(Root(s)) \in Nat \ {0, 1}
  <2>1. /\ Root(s) \in Seq(STRING) /\ Len(Root(s)) = 1 + Len(Name[s])
        /\ Len(Name[s]) \in Nat \ {0}
    BY <1>3, Roots
  <2> QED
    BY <2>1
<1>6. /\ p \in Seq(STRING) /\ IsPrefix(Root(s), p) /\ Rest(Root(s), p) = w
      /\ Len(p) = Len(Root(s)) + Len(w)
  BY <1>3, <1>4, <1>5, JoinRests
<1>7. p = LocalPath(f)
  BY <1>2, <1>4 DEF LocalPath
\* A source whose root is above or below the path has no longer name.
<1>8. ASSUME NEW t \in table, IsPrefix(Root(t), p) \/ IsPrefix(p, Root(t))
      PROVE  Len(Root(t)) <= Len(Root(s)) /\ ~IsPrefix(p, Root(t))
  <2>1. t \in Sources /\ Root(t) \in Seq(STRING) /\ Len(Root(t)) \in Nat /\ Len(p) \in Nat
    BY <1>6, Roots, LenProperties
  <2>2. IsPrefix(p, Root(t)) => Len(p) <= Len(Root(t))
    BY <1>6, <2>1, PrefixMeaning
  <2>3. ASSUME ~(Len(Root(t)) <= Len(Root(s))) PROVE FALSE
    <3>1. IsPrefix(Root(s), Root(t)) /\ Root(s) # Root(t)
      BY <1>5, <1>6, <1>8, <2>1, <2>3, PrefixOrder
    <3>2. PICK y : y = Root(t)
      OBVIOUS
    <3>3. y \in Seq(STRING) /\ y # <<>> /\ IsPrefix(Root(s), y)
      BY <2>1, <3>1, <3>2, Roots
    <3>4. Head(y) = Base[t] /\ Tail(y) = Name[t]
      <4>1. y = <<Base[t]>> \o Name[t] /\ Base[t] \in STRING /\ Name[t] \in Seq(STRING)
        BY <2>1, <3>2, Roots
      <4>2. Head(<<Base[t]>> \o Name[t]) = Base[t] /\ Tail(<<Base[t]>> \o Name[t]) = Name[t]
        BY <4>1, ConsPath
      <4> QED
        BY <4>1, <4>2
    <3>5. s \in Routed(y)
      BY <1>3, <3>3, WholePaths
    <3>6. Base[s] = Base[t] /\ IsPrefix(Name[s], Name[t])
      BY <3>4, <3>5 DEF Routed, Of, Rel
    <3>7. Name[s] # Name[t]
      BY <1>3, <2>1, <3>1, <3>6, SourcesAssumption
    <3> QED
      BY <1>2, <1>7, <1>8, <3>6, <3>7 DEF IsStrictPrefix
  <2>4. Len(p) > Len(Root(s))
    BY <1>3, <1>5, <1>6
  <2> QED
    BY <1>5, <2>1, <2>2, <2>3, <2>4
<1>9. /\ Routed(p) # {} /\ Route(p).source = s /\ Route(p).path = w
      /\ Route(p) = [source |-> s, path |-> w]
  <2>1. \A t \in table : IsPrefix(Root(t), p) => Len(Root(t)) <= Len(Root(s))
    BY <1>8
  <2> QED
    BY <1>3, <1>6, <2>1, RoutedTo
<1>10. ~IsVirtual(p)
  <2>1. p # <<>> /\ Len(p) # 1
    BY <1>3, <1>5, <1>6, EmptySeq
  <2>2. p \notin {<<b>> : b \in Bases}
    BY <1>6, <2>1, BasePaths
  <2> QED
    BY <1>6, <1>8, <2>1, <2>2, VirtualMeaning
<1>11. f = [source |-> s, path |-> w]
  BY <1>1, <1>2
<1>12. IsFile(s, w)
  BY <1>3, <1>11 DEF IsFile, FileAt
<1> QED
  BY <1>3, <1>7, <1>9, <1>10, <1>11, <1>12 DEF CatReads, Writable

RootType == files \subseteq Places /\ table \subseteq Sources

\* Files are where files can be, and sources are known, whatever requests do.
LEMMA RootTypes == RootSpec => []RootType
<1>1. RootInit => RootType
  BY DEF RootInit, RootType
<1>2. RootType /\ [RootNext]_rootVars => RootType'
  <2> SUFFICES ASSUME RootType, [RootNext]_rootVars PROVE RootType'
    OBVIOUS
  <2>1. ASSUME NEW p, RootPut(p) PROVE RootType'
    BY <2>1 DEF RootPut, WriteAt, RootType
  <2>2. ASSUME NEW p, RootDelete(p) PROVE RootType'
    BY <2>2 DEF RootDelete, DeleteAt, RootType
  <2>3. CASE Elsewhere
    BY <2>3 DEF Elsewhere, WriteFile, RemoveFile, Register, Unregister, RootType
  <2>4. CASE UNCHANGED rootVars
    BY <2>4 DEF rootVars, RootType
  <2> QED
    BY <2>1, <2>2, <2>3, <2>4 DEF RootNext
<1> QED
  BY <1>1, <1>2, PTL DEF RootSpec

\* A file is reached at the name of its source (registry.go, sourceRouteForNamespace).
THEOREM FilesAreReached == RootSpec => []RootReaches
<1>1. RootType => RootReaches
  BY FileReached DEF RootType, RootReaches
<1> QED
  BY <1>1, RootTypes, PTL

\* Where one name is not the beginning of another, one source is at or above a path.
LEMMA OneSource ==
    ASSUME table \subseteq Sources, Plain, NEW s \in table, NEW t \in table,
           IsPrefix(Root(s), Root(t))
    PROVE  s = t
<1>1. t \in Sources /\ Root(t) \in Seq(STRING) /\ Root(t) # <<>>
        /\ Base[t] \in STRING /\ Name[t] \in Seq(STRING) /\ Root(t) = <<Base[t]>> \o Name[t]
  BY Roots
<1>2. PICK y : y = Root(t)
  OBVIOUS
<1>3. y \in Seq(STRING) /\ y # <<>> /\ IsPrefix(Root(s), y)
  BY <1>1, <1>2
<1>4. Head(y) = Base[t] /\ Tail(y) = Name[t]
  <2>1. Head(<<Base[t]>> \o Name[t]) = Base[t] /\ Tail(<<Base[t]>> \o Name[t]) = Name[t]
    BY <1>1, ConsPath
  <2> QED
    BY <1>1, <1>2, <2>1
<1>5. s \in Routed(y)
  BY <1>3, WholePaths
<1>6. Base[s] = Base[t] /\ IsPrefix(Name[s], Name[t])
  BY <1>4, <1>5 DEF Routed, Of, Rel
<1> QED
  BY <1>6 DEF Plain

\* What the requests do with a path that is in no source.
LEMMA Unrouted ==
    ASSUME NEW p \in Seq(STRING), Routed(p) = {}
    PROVE  /\ Stat(p) = IF IsVirtual(p) THEN "dir" ELSE "none"
           /\ LSFails(p) <=> ~IsVirtual(p)
           /\ ~CatReads(p)
<1>1. p = <<>> \/ p \in {<<b>> : b \in Bases} => IsVirtual(p)
  BY DEF IsVirtual
<1> QED
  BY <1>1 DEF Stat, LSFails, CatReads

\* What they do with a path in a source.
LEMMA InSource ==
    ASSUME table \subseteq Sources, files \subseteq Places, Plain,
           NEW p \in Seq(STRING), NEW s \in table, IsPrefix(Root(s), p)
    PROVE  \E x \in Seq(STRING) :
           /\ p = Root(s) \o x /\ x = Rest(Root(s), p)
           /\ Routed(p) # {} /\ Route(p) = [source |-> s, path |-> x]
           /\ p # <<>> /\ p \notin {<<b>> : b \in Bases}
           /\ LSFails(p) <=> ~IsDirAt(s, x)
           /\ Stat(p) = "dir" <=> IsDirAt(s, x)
           /\ Stat(p) = "file" <=> IsFile(s, x)
           /\ Stat(p) # "none" <=> Exists(s, x)
           /\ CatReads(p) <=> IsFile(s, x)
<1>1. s \in Sources /\ Root(s) \in Seq(STRING) /\ Len(Root(s)) \in Nat \ {0, 1}
  <2>1. /\ s \in Sources /\ Root(s) \in Seq(STRING) /\ Len(Root(s)) = 1 + Len(Name[s])
        /\ Len(Name[s]) \in Nat \ {0}
    BY Roots
  <2> QED
    BY <2>1
<1>2. \A t \in table : IsPrefix(Root(t), p) => t = s
  <2> SUFFICES ASSUME NEW t \in table, IsPrefix(Root(t), p) PROVE t = s
    OBVIOUS
  <2>1. Root(t) \in Seq(STRING) /\ Len(Root(t)) \in Nat
    BY Roots, LenProperties
  <2>2. CASE Len(Root(t)) <= Len(Root(s))
    <3>1. IsPrefix(Root(t), Root(s))
      BY <1>1, <2>1, <2>2, PrefixOrder
    <3> QED
      BY <3>1, OneSource
  <2>3. CASE Len(Root(s)) <= Len(Root(t))
    <3>1. IsPrefix(Root(s), Root(t))
      BY <1>1, <2>1, <2>3, PrefixOrder
    <3> QED
      BY <3>1, OneSource
  <2> QED
    BY <1>1, <2>1, <2>2, <2>3
<1>3. PICK x : x = Rest(Root(s), p)
  OBVIOUS
<1>4. /\ Routed(p) # {} /\ Route(p) = [source |-> s, path |-> x]
      /\ x \in Seq(STRING) /\ Root(s) \o x = p
  <2>1. \A t \in table : IsPrefix(Root(t), p) => Len(Root(t)) <= Len(Root(s))
    BY <1>1, <1>2
  <2>2. /\ Routed(p) # {} /\ Route(p) = [source |-> s, path |-> Rest(Root(s), p)]
        /\ Rest(Root(s), p) \in Seq(STRING) /\ Root(s) \o Rest(Root(s), p) = p
    BY <2>1, RoutedTo
  <2> QED
    BY <1>3, <2>2
<1>5. p # <<>> /\ p \notin {<<b>> : b \in Bases}
  <2>1. Len(p) \in Nat /\ Len(Root(s)) <= Len(p)
    BY <1>1, PrefixMeaning, LenProperties
  <2>2. Len(p) # 0 /\ Len(p) # 1
    BY <1>1, <2>1
  <2> QED
    BY <2>2, EmptySeq, BasePaths
<1>6. ASSUME IsVirtual(p) PROVE x = <<>>
  <2>1. PICK t \in table : IsPrefix(p, Root(t))
    BY <1>5, <1>6, VirtualMeaning
  <2>2. Root(t) \in Seq(STRING)
    BY Roots
  <2>3. IsPrefix(Root(s), Root(t))
    BY <1>1, <2>1, <2>2, PrefixOrder
  <2>4. s = t
    BY <2>3, OneSource
  <2>5. Len(p) \in Nat /\ Len(p) <= Len(Root(s)) /\ Len(p) = Len(Root(s)) + Len(x) /\ Len(x) \in Nat
    BY <1>1, <1>4, <2>1, <2>4, PrefixMeaning, JoinRests, LenProperties
  <2>6. Len(x) = 0
    BY <1>1, <2>5
  <2> QED
    BY <1>4, <2>6, EmptySeq
<1>7. ASSUME x = <<>> PROVE IsDirAt(s, x) /\ ~IsFile(s, x)
  <2>1. FileAt(s, x) \notin Places
    BY <1>7, SourcesAssumption DEF FileAt
  <2> QED
    BY <1>7, <2>1 DEF IsDirAt, IsFile
<1>8. Route(p).source = s /\ Route(p).path = x
  BY <1>4
<1>9. LSFails(p) <=> ~IsDirAt(s, x)
  BY <1>4, <1>5, <1>8 DEF LSFails
<1>10. CASE IsVirtual(p)
  <2>1. Stat(p) = "dir" /\ ~CatReads(p)
    BY <1>10 DEF Stat, CatReads
  <2> QED
    BY <1>3, <1>4, <1>5, <1>6, <1>7, <1>9, <1>10, <2>1 DEF Exists
<1>11. CASE ~IsVirtual(p)
  <2>1. Stat(p) = IF IsFile(s, x) THEN "file" ELSE IF IsDirAt(s, x) THEN "dir" ELSE "none"
    BY <1>4, <1>8, <1>11 DEF Stat
  <2>2. CatReads(p) <=> IsFile(s, x)
    BY <1>4, <1>8, <1>11 DEF CatReads
  <2>3. ~(IsFile(s, x) /\ IsDirAt(s, x))
    BY DEF IsDirAt
  <2> QED
    BY <1>3, <1>4, <1>5, <1>9, <2>1, <2>2, <2>3 DEF Exists
<1> QED
  BY <1>10, <1>11

\* The beginning of a path.
LEMMA Cuts ==
    ASSUME NEW y \in Seq(STRING)
    PROVE  /\ \A k \in 0 .. Len(y) : /\ SubSeq(y, 1, k) \in Seq(STRING)
                                     /\ IsPrefix(SubSeq(y, 1, k), y) /\ Len(SubSeq(y, 1, k)) = k
           /\ \A p \in Seq(STRING) : IsPrefix(p, y) => SubSeq(y, 1, Len(p)) = p
<1>1. Len(y) \in Nat /\ \A i \in 1 .. Len(y) : y[i] \in STRING
  BY LenProperties, ElementOfSeq
<1>2. ASSUME NEW k \in 0 .. Len(y)
      PROVE  /\ SubSeq(y, 1, k) \in Seq(STRING)
             /\ IsPrefix(SubSeq(y, 1, k), y) /\ Len(SubSeq(y, 1, k)) = k
  <2>1. k \in Int /\ 1 \in Int /\ \A i \in 1 .. k : y[i] \in STRING
    BY <1>1
  <2>2. PICK c : c = SubSeq(y, 1, k)
    OBVIOUS
  <2>3. /\ c \in Seq(STRING) /\ Len(c) = IF 1 <= k THEN k - 1 + 1 ELSE 0
        /\ \A i \in 1 .. k - 1 + 1 : c[i] = y[1 + i - 1]
    BY <2>1, <2>2, SubSeqProperties
  <2>4. Len(c) = k /\ \A i \in 1 .. k : c[i] = y[i]
    BY <1>1, <2>3
  <2>5. IsPrefix(c, y)
    BY <1>1, <2>3, <2>4, PrefixMeaning
  <2> QED
    BY <2>2, <2>3, <2>4, <2>5
<1>3. ASSUME NEW p \in Seq(STRING), IsPrefix(p, y) PROVE SubSeq(y, 1, Len(p)) = p
  <2>1. SubSeq(p, 1, Len(p)) = p
    BY SubSeqFull
  <2> QED
    BY <1>3, <2>1 DEF IsPrefix
<1> QED
  BY <1>2, <1>3

\* The parent of a path.
LEMMA Parents ==
    ASSUME NEW p \in Seq(STRING), p # <<>>
    PROVE  /\ Front(p) \in Seq(STRING) /\ IsStrictPrefix(Front(p), p)
           /\ Len(p) \in Nat \ {0} /\ Len(Front(p)) = Len(p) - 1
           /\ \A z \in Seq(STRING) : IsPrefix(z, p) /\ z # p => IsPrefix(z, Front(p))
<1>1. Len(p) \in Nat \ {0}
  BY EmptySeq
<1>2. PICK q : q = Front(p)
  OBVIOUS
<1>3. q \in Seq(STRING) /\ IsPrefix(q, p) /\ Len(q) = Len(p) - 1
  <2>1. Len(p) - 1 \in 0 .. Len(p)
    BY <1>1
  <2> QED
    BY <1>2, <2>1, Cuts DEF Front
<1>4. q # p
  BY <1>1, <1>3
<1>5. ASSUME NEW z \in Seq(STRING), IsPrefix(z, p), z # p PROVE IsPrefix(z, q)
  <2>1. Len(z) \in Nat
    BY LenProperties
  <2>2. ~(Len(z) >= Len(p))
    BY <1>5, PrefixOrder
  <2>3. Len(z) <= Len(q)
    BY <1>1, <1>3, <2>1, <2>2
  <2> QED
    BY <1>3, <1>5, <2>3, PrefixOrder
<1> QED
  BY <1>1, <1>2, <1>3, <1>4, <1>5 DEF IsStrictPrefix

\* What is there is in the listing of its parent: at the root,
LEMMA ListedInRoot ==
    ASSUME table \subseteq Sources, NEW p \in Seq(STRING), p # <<>>, Front(p) = <<>>
    PROVE  Stat(p) # "none" <=> ~LSFails(Front(p)) /\ p \in LS(Front(p))
<1>1. Len(p) = 1
  <2>1. Len(Front(p)) = 0
    BY EmptySeq
  <2>2. Len(p) \in Nat /\ Len(Front(p)) = Len(p) - 1
    BY Parents
  <2> QED
    BY <2>1, <2>2
<1>2. ~LSFails(<<>>) /\ LS(<<>>) = {<<b>> : b \in Bases}
  BY DEF LSFails, LS
<1>3. ASSUME NEW s \in table
      PROVE  ~IsPrefix(Root(s), p) /\ (IsPrefix(p, Root(s)) => p \in {<<b>> : b \in Bases})
  <2>1. /\ Root(s) \in Seq(STRING) /\ Root(s) = <<Base[s]>> \o Name[s] /\ Base[s] \in STRING
        /\ Name[s] \in Seq(STRING) /\ Len(Root(s)) = 1 + Len(Name[s]) /\ Len(Name[s]) \in Nat \ {0}
    BY Roots
  <2>2. ~IsPrefix(Root(s), p)
    <3>1. ~(Len(Root(s)) <= Len(p))
      BY <1>1, <2>1
    <3> QED
      BY <2>1, <3>1, PrefixMeaning
  <2>3. ASSUME IsPrefix(p, Root(s)) PROVE p = <<Base[s]>>
    <3>1. p[1] = Root(s)[1]
      <4>1. 1 \in 1 .. Len(p)
        BY <1>1
      <4> QED
        BY <2>1, <2>3, <4>1, PrefixMeaning
    <3>2. Root(s)[1] = Base[s]
      <4>1. Head(<<Base[s]>> \o Name[s]) = Base[s]
        BY <2>1, ConsPath
      <4> QED
        BY <2>1, <4>1
    <3> QED
      BY <1>1, <3>1, <3>2
  <2>4. Base[s] \in Bases
    BY SourcesAssumption DEF Bases
  <2> QED
    BY <2>2, <2>3, <2>4
<1>4. Routed(p) = {}
  <2>1. Routed(p) \subseteq table
    BY DEF Routed, Of
  <2> QED
    BY <1>3, <2>1, WholePaths
<1>5. Stat(p) # "none" <=> IsVirtual(p)
  BY <1>4, Unrouted
<1>6. IsVirtual(p) <=> p \in {<<b>> : b \in Bases}
  BY <1>3, VirtualMeaning
<1> QED
  BY <1>2, <1>5, <1>6

\* above the sources,
LEMMA ListedAbove ==
    ASSUME table \subseteq Sources, files \subseteq Places, Plain,
           NEW p \in Seq(STRING), p # <<>>, Front(p) # <<>>, Routed(Front(p)) = {}
    PROVE  Stat(p) # "none" <=> ~LSFails(Front(p)) /\ p \in LS(Front(p))
<1>1. PICK q : q = Front(p)
  OBVIOUS
<1>2. /\ q \in Seq(STRING) /\ IsStrictPrefix(q, p) /\ q # <<>> /\ Routed(q) = {}
      /\ Len(p) \in Nat \ {0} /\ Len(q) = Len(p) - 1 /\ Len(q) + 1 = Len(p)
      /\ \A z \in Seq(STRING) : IsPrefix(z, p) /\ z # p => IsPrefix(z, q)
  <2>1. /\ q \in Seq(STRING) /\ IsStrictPrefix(q, p) /\ Len(p) \in Nat \ {0}
        /\ Len(q) = Len(p) - 1
        /\ \A z \in Seq(STRING) : IsPrefix(z, p) /\ z # p => IsPrefix(z, q)
    BY <1>1, Parents
  <2> QED
    BY <1>1, <2>1
<1>3. LSFails(q) <=> ~IsVirtual(q)
  BY <1>2, Unrouted
<1>4. LS(q) = ChildrenOf(q)
  BY <1>2 DEF LS
<1> DEFINE Above(r) == \E s \in table : IsPrefix(r, Root(s))
<1>5. p \in ChildrenOf(q) <=> Above(p)
  <2>1. ASSUME NEW s \in table
        PROVE  /\ Root(s) \in Seq(STRING)
               /\ IsStrictPrefix(q, Root(s)) => s \in Of(q)
               /\ IsPrefix(p, Root(s)) => IsStrictPrefix(q, Root(s))
               /\ IsStrictPrefix(q, Root(s)) => (SubSeq(Root(s), 1, Len(p)) = p <=> IsPrefix(p, Root(s)))
    <3>1. Root(s) \in Seq(STRING) /\ Len(Root(s)) \in Nat
      BY Roots, LenProperties
    <3>2. IsStrictPrefix(q, Root(s)) => s \in Of(q)
      BY <1>2, WholePaths DEF IsStrictPrefix
    <3>3. ASSUME IsPrefix(p, Root(s)) PROVE IsStrictPrefix(q, Root(s))
      <4>1. IsPrefix(q, Root(s))
        BY <1>2, <3>1, <3>3, PrefixOrder DEF IsStrictPrefix
      <4>2. Len(p) <= Len(Root(s))
        BY <3>1, <3>3, PrefixMeaning
      <4> QED
        BY <1>2, <3>1, <4>1, <4>2 DEF IsStrictPrefix
    <3>4. ASSUME IsStrictPrefix(q, Root(s))
          PROVE  SubSeq(Root(s), 1, Len(p)) = p <=> IsPrefix(p, Root(s))
      <4>1. Len(q) <= Len(Root(s)) /\ ~(Len(q) >= Len(Root(s)))
        BY <1>2, <3>1, <3>4, PrefixMeaning, PrefixOrder DEF IsStrictPrefix
      <4>2. Len(p) \in 0 .. Len(Root(s))
        BY <1>2, <3>1, <4>1
      <4>3. IsPrefix(SubSeq(Root(s), 1, Len(p)), Root(s))
        BY <3>1, <4>2, Cuts
      <4>4. IsPrefix(p, Root(s)) => SubSeq(Root(s), 1, Len(p)) = p
        BY <3>1, Cuts
      <4> QED
        BY <4>3, <4>4
    <3> QED
      BY <3>1, <3>2, <3>3, <3>4
  <2>2. Of(q) \subseteq table
    BY DEF Of
  <2>3. p \in ChildrenOf(q) <=> \E s \in Of(q) : IsStrictPrefix(q, Root(s)) /\ p = SubSeq(Root(s), 1, Len(p))
    BY <1>2 DEF ChildrenOf
  <2> QED
    BY <2>1, <2>2, <2>3
<1>6. IsVirtual(p) <=> Above(p)
  <2>1. p \notin {<<b>> : b \in Bases}
    <3>1. Len(q) # 0 /\ Len(q) \in Nat
      BY <1>2, EmptySeq
    <3>2. Len(p) # 1
      BY <1>2, <3>1
    <3> QED
      BY <3>2, BasePaths
  <2> QED
    BY <2>1, VirtualMeaning
<1>7. Above(p) => IsVirtual(q)
  <2> SUFFICES ASSUME NEW s \in table, IsPrefix(p, Root(s)) PROVE IsVirtual(q)
    OBVIOUS
  <2>1. Root(s) \in Seq(STRING)
    BY Roots
  <2>2. IsPrefix(q, Root(s))
    BY <1>2, <2>1, PrefixOrder DEF IsStrictPrefix
  <2> QED
    BY <1>2, <2>2, VirtualMeaning
<1>8. Stat(p) # "none" <=> Above(p)
  <2>1. CASE Routed(p) = {}
    BY <1>6, <2>1, Unrouted
  <2>2. CASE Routed(p) # {}
    <3>1. PICK s \in table : IsPrefix(Root(s), p)
      <4>1. Routed(p) \subseteq table
        BY DEF Routed, Of
      <4> QED
        BY <2>2, <4>1, WholePaths
    <3>2. Root(s) \in Seq(STRING)
      BY Roots
    <3>3. ~IsPrefix(Root(s), q)
      BY <1>2, WholePaths
    <3>4. Root(s) = p
      BY <1>2, <3>1, <3>2, <3>3
    <3>5. IsPrefix(p, Root(s))
      BY <3>2, <3>4, PrefixOrder
    <3>6. Stat(p) = "dir"
      BY <1>6, <3>5 DEF Stat
    <3> QED
      BY <3>5, <3>6
  <2> QED
    BY <2>1, <2>2
<1> QED
  BY <1>1, <1>3, <1>4, <1>5, <1>7, <1>8

\* in a source,
LEMMA ListedInSource ==
    ASSUME table \subseteq Sources, files \subseteq Places, Plain,
           NEW p \in Seq(STRING), p # <<>>, NEW s \in table, IsPrefix(Root(s), Front(p))
    PROVE  Stat(p) # "none" <=> ~LSFails(Front(p)) /\ p \in LS(Front(p))
<1>1. PICK q : q = Front(p)
  OBVIOUS
<1>2. /\ q \in Seq(STRING) /\ IsPrefix(q, p) /\ q # p /\ IsPrefix(Root(s), q)
      /\ Len(p) \in Nat \ {0} /\ Len(q) = Len(p) - 1
  <2>1. /\ q \in Seq(STRING) /\ IsStrictPrefix(q, p) /\ Len(p) \in Nat \ {0}
        /\ Len(q) = Len(p) - 1
    BY <1>1, Parents
  <2> QED
    BY <1>1, <2>1 DEF IsStrictPrefix
<1>3. Root(s) \in Seq(STRING)
  BY Roots
<1>4. IsPrefix(Root(s), p)
  BY <1>2, <1>3, PrefixOrder
<1>5. PICK x \in Seq(STRING) :
        /\ q = Root(s) \o x /\ Routed(q) # {} /\ Route(q) = [source |-> s, path |-> x]
        /\ q # <<>> /\ q \notin {<<b>> : b \in Bases} /\ (LSFails(q) <=> ~IsDirAt(s, x))
  BY <1>2, InSource
<1>6. PICK y \in Seq(STRING) : p = Root(s) \o y /\ (Stat(p) # "none" <=> Exists(s, y))
  BY <1>4, InSource
<1>7. IsPrefix(x, y) /\ x # y /\ Len(y) = Len(x) + 1 /\ Len(x) \in Nat
  <2>1. IsPrefix(x, y) /\ x # y
    BY <1>2, <1>3, <1>5, <1>6, JoinOrder
  <2>2. Len(q) = Len(Root(s)) + Len(x)
    BY <1>3, <1>5, JoinRests
  <2>3. Len(p) = Len(Root(s)) + Len(y)
    BY <1>3, <1>6, JoinRests
  <2>4. Len(Root(s)) \in Nat /\ Len(x) \in Nat /\ Len(y) \in Nat
    BY <1>3, LenProperties
  <2> QED
    BY <1>2, <2>1, <2>2, <2>3, <2>4
<1> DEFINE There == \E g \in files : g.source = s /\ IsPrefix(y, g.path)
<1>8. \A g \in files : g \in [source : Sources, path : Seq(STRING) \ {<<>>}]
  BY SourcesAssumption
<1>9. \A g \in files : g.source = s => (g = FileAt(s, g.path))
  BY <1>8 DEF FileAt
<1>10. Exists(s, y) <=> There
  <2>1. y # <<>>
    BY <1>7, EmptySeq
  <2>2. ASSUME Exists(s, y) PROVE There
    <3>1. CASE IsFile(s, y)
      <4>1. PICK g \in files : g = FileAt(s, y)
        BY <3>1 DEF IsFile
      <4>2. g.source = s /\ g.path = y
        BY <4>1 DEF FileAt
      <4>3. IsPrefix(y, y)
        BY PrefixOrder
      <4> QED
        BY <4>2, <4>3
    <3>2. CASE IsDirAt(s, y)
      BY <2>1, <3>2 DEF IsDirAt, Below, IsStrictPrefix
    <3> QED
      BY <2>2, <3>1, <3>2 DEF Exists
  <2>3. ASSUME NEW g \in files, g.source = s, IsPrefix(y, g.path) PROVE Exists(s, y)
    <3>1. CASE g.path = y
      BY <1>9, <2>3, <3>1 DEF Exists, IsFile
    <3>2. CASE g.path # y
      BY <2>3, <3>2 DEF Exists, IsDirAt, Below, IsStrictPrefix
    <3> QED
      BY <3>1, <3>2
  <2> QED
    BY <2>2, <2>3
<1>11. There => IsDirAt(s, x)
  <2> SUFFICES ASSUME NEW g \in files, g.source = s, IsPrefix(y, g.path) PROVE IsDirAt(s, x)
    OBVIOUS
  <2>1. g.path \in Seq(STRING) /\ Len(g.path) \in Nat
    BY <1>8, LenProperties
  <2>2. IsPrefix(x, g.path)
    BY <1>7, <2>1, PrefixOrder
  <2>3. Len(y) <= Len(g.path)
    BY <2>1, PrefixMeaning
  <2>4. x # g.path
    BY <1>7, <2>1, <2>3
  <2>5. g \in Below(x)
    BY <2>2, <2>4 DEF Below, IsStrictPrefix
  <2>6. ASSUME IsFile(s, x) PROVE FALSE
    <3>1. PICK f \in files : f = FileAt(s, x)
      BY <2>6 DEF IsFile
    <3>2. f.source = s /\ f.path = x
      BY <3>1 DEF FileAt
    <3>3. IsStrictPrefix(f.path, g.path)
      BY <2>2, <2>4, <3>2 DEF IsStrictPrefix
    <3> QED
      BY <3>2, <3>3 DEF Plain
  <2> QED
    BY <2>5, <2>6 DEF IsDirAt
<1>12. LS(q) = {Root(s) \o c : c \in SourceChildren(Route(q))}
  <2>1. \A c : LocalPath([Route(q) EXCEPT !.path = c]) = Root(s) \o c
    BY <1>5 DEF LocalPath
  <2> QED
    BY <1>5, <2>1 DEF LS
<1>13. p \in LS(q) <=> There
  <2>1. ASSUME NEW g \in files, g.source = s, IsStrictPrefix(x, g.path)
        PROVE  /\ SubSeq(g.path, 1, Len(x) + 1) \in Seq(STRING)
               /\ SubSeq(g.path, 1, Len(x) + 1) = y <=> IsPrefix(y, g.path)
    <3>1. g.path \in Seq(STRING) /\ Len(g.path) \in Nat
      BY <1>8, LenProperties
    <3>2. Len(x) <= Len(g.path) /\ ~(Len(x) >= Len(g.path))
      BY <2>1, <3>1, PrefixMeaning, PrefixOrder DEF IsStrictPrefix
    <3>3. Len(x) + 1 \in 0 .. Len(g.path)
      BY <1>7, <3>1, <3>2
    <3>4. SubSeq(g.path, 1, Len(x) + 1) \in Seq(STRING) /\ IsPrefix(SubSeq(g.path, 1, Len(x) + 1), g.path)
      BY <3>1, <3>3, Cuts
    <3>5. IsPrefix(y, g.path) => SubSeq(g.path, 1, Len(y)) = y
      BY <3>1, Cuts
    <3> QED
      BY <1>7, <3>4, <3>5
  <2>2. ASSUME p \in LS(q) PROVE There
    <3>1. PICK c \in SourceChildren(Route(q)) : p = Root(s) \o c
      BY <1>12, <2>2
    <3>2. PICK g \in files : /\ g.source = s /\ IsStrictPrefix(x, g.path)
                             /\ c = SubSeq(g.path, 1, Len(x) + 1)
      BY <1>5 DEF SourceChildren
    <3>3. c \in Seq(STRING)
      BY <2>1, <3>2
    <3>4. Root(s) \o y = Root(s) \o c
      BY <1>6, <3>1
    <3>5. c = y
      BY <1>3, <3>3, <3>4, ConcatSimplifications
    <3> QED
      BY <2>1, <3>2, <3>5
  <2>3. ASSUME NEW g \in files, g.source = s, IsPrefix(y, g.path) PROVE p \in LS(q)
    <3>1. g.path \in Seq(STRING) /\ Len(g.path) \in Nat
      BY <1>8, LenProperties
    <3>2. IsPrefix(x, g.path) /\ Len(y) <= Len(g.path)
      BY <1>7, <2>3, <3>1, PrefixOrder, PrefixMeaning
    <3>3. IsStrictPrefix(x, g.path)
      BY <1>7, <3>1, <3>2 DEF IsStrictPrefix
    <3>4. SubSeq(g.path, 1, Len(x) + 1) = y
      BY <2>1, <2>3, <3>3
    <3>5. y \in SourceChildren(Route(q))
      BY <1>5, <2>3, <3>3, <3>4 DEF SourceChildren
    <3> QED
      BY <1>6, <1>12, <3>5
  <2> QED
    BY <2>2, <2>3
<1> QED
  BY <1>1, <1>5, <1>6, <1>10, <1>11, <1>13

\* The virtual directories below one are listed.
LEMMA BelowVirtual ==
    ASSUME table \subseteq Sources, NEW p \in Seq(STRING), NEW q \in Seq(STRING)
    PROVE  q \in VirtualBelow(p) <=> IsVirtual(q) /\ IsStrictPrefix(p, q)
<1>1. Len(p) \in Nat /\ Len(q) \in Nat
  BY LenProperties
<1>2. q \in VirtualBelow(p) <=>
        \/ p = <<>> /\ q \in {<<b>> : b \in Bases}
        \/ \E s \in table : /\ IsStrictPrefix(p, Root(s))
                            /\ \E n \in Len(p) + 1 .. Len(Root(s)) : q = SubSeq(Root(s), 1, n)
  BY DEF VirtualBelow
<1>3. ASSUME p = <<>>, q \in {<<b>> : b \in Bases} PROVE IsVirtual(q) /\ IsStrictPrefix(p, q)
  <2>1. Len(p) = 0 /\ Len(q) = 1
    BY <1>3, EmptySeq, BasePaths
  <2>2. Len(p) <= Len(q) /\ (\A i \in 1 .. Len(p) : p[i] = q[i]) /\ p # q
    BY <2>1
  <2>3. IsPrefix(p, q)
    BY <2>2, PrefixMeaning
  <2>4. IsVirtual(q)
    BY <1>3 DEF IsVirtual
  <2> QED
    BY <2>2, <2>3, <2>4 DEF IsStrictPrefix
<1>4. ASSUME NEW s \in table, IsStrictPrefix(p, Root(s)), NEW n \in Len(p) + 1 .. Len(Root(s)),
             q = SubSeq(Root(s), 1, n)
      PROVE  IsVirtual(q) /\ IsStrictPrefix(p, q)
  <2>1. Root(s) \in Seq(STRING) /\ Len(Root(s)) \in Nat
    BY Roots, LenProperties
  <2>2. n \in 0 .. Len(Root(s)) /\ Len(p) < n
    BY <1>1, <2>1
  <2>3. IsPrefix(q, Root(s)) /\ Len(q) = n
    BY <1>4, <2>1, <2>2, Cuts
  <2>4. IsPrefix(p, q)
    <3>1. IsPrefix(p, Root(s)) /\ Len(p) <= Len(q)
      BY <1>1, <1>4, <2>2, <2>3 DEF IsStrictPrefix
    <3> QED
      BY <2>1, <2>3, <3>1, PrefixOrder
  <2> QED
    BY <1>1, <2>2, <2>3, <2>4, VirtualMeaning DEF IsStrictPrefix
<1>5. ASSUME IsVirtual(q), IsStrictPrefix(p, q) PROVE q \in VirtualBelow(p)
  <2>1. Len(p) < Len(q) /\ IsPrefix(p, q)
    BY <1>1, <1>5, PrefixMeaning, PrefixOrder DEF IsStrictPrefix
  <2>2. q # <<>>
    BY <1>1, <2>1, EmptySeq
  <2>3. CASE q \in {<<b>> : b \in Bases}
    <3>1. Len(q) = 1
      BY <2>3, BasePaths
    <3>2. p = <<>>
      BY <1>1, <2>1, <3>1, EmptySeq
    <3> QED
      BY <1>2, <2>3, <3>2
  <2>4. CASE \E s \in table : IsPrefix(q, Root(s))
    <3>1. PICK s \in table : IsPrefix(q, Root(s))
      BY <2>4
    <3>2. Root(s) \in Seq(STRING) /\ Len(Root(s)) \in Nat
      BY Roots, LenProperties
    <3>3. Len(q) <= Len(Root(s)) /\ q = SubSeq(Root(s), 1, Len(q))
      BY <3>1, <3>2, PrefixMeaning, Cuts
    <3>4. IsPrefix(p, Root(s))
      BY <2>1, <3>1, <3>2, PrefixOrder
    <3>5. IsStrictPrefix(p, Root(s))
      BY <1>1, <2>1, <3>2, <3>3, <3>4 DEF IsStrictPrefix
    <3>6. Len(q) \in Len(p) + 1 .. Len(Root(s))
      BY <1>1, <2>1, <3>2, <3>3
    <3> QED
      BY <1>2, <3>3, <3>5, <3>6
  <2> QED
    BY <1>5, <2>2, <2>3, <2>4, VirtualMeaning
<1> QED
  BY <1>2, <1>3, <1>4, <1>5

\* The files below a path in a source are found.
LEMMA FoundBelow ==
    ASSUME table \subseteq Sources, files \subseteq Places, Plain,
           NEW p \in Seq(STRING), NEW s \in table, IsPrefix(Root(s), p), NEW q \in Seq(STRING)
    PROVE  q \in Found(p) <=> CatReads(q) /\ IsPrefix(p, q)
<1>1. Root(s) \in Seq(STRING)
  BY Roots
<1>2. PICK x \in Seq(STRING) : /\ p = Root(s) \o x /\ Routed(p) # {}
                               /\ Route(p) = [source |-> s, path |-> x]
  BY InSource
<1>3. Found(p) = {LocalPath(f) : f \in {g \in files : g.source = s /\ IsPrefix(x, g.path)}}
  BY <1>2 DEF Found
<1>4. \A g \in files : g \in [source : Sources, path : Seq(STRING) \ {<<>>}]
  BY SourcesAssumption
<1>5. ASSUME q \in Found(p) PROVE CatReads(q) /\ IsPrefix(p, q)
  <2>1. PICK g \in files : g.source = s /\ IsPrefix(x, g.path) /\ q = LocalPath(g)
    BY <1>3, <1>5
  <2>2. PICK w : w = g.path
    OBVIOUS
  <2>3. w \in Seq(STRING) /\ IsPrefix(x, w) /\ q = Root(s) \o w
    BY <1>4, <2>1, <2>2 DEF LocalPath
  <2>4. IsPrefix(p, q)
    BY <1>1, <1>2, <2>3, JoinOrder
  <2>5. IsPrefix(Root(s), q) /\ Rest(Root(s), q) = w
    BY <1>1, <2>3, JoinRests
  <2>6. CatReads(q) <=> IsFile(s, w)
    BY <2>5, InSource
  <2>7. g = FileAt(s, w)
    BY <1>4, <2>1, <2>2 DEF FileAt
  <2> QED
    BY <2>4, <2>6, <2>7 DEF IsFile
<1>6. ASSUME CatReads(q), IsPrefix(p, q) PROVE q \in Found(p)
  <2>1. IsPrefix(Root(s), q)
    BY <1>1, <1>6, PrefixOrder
  <2>2. PICK w \in Seq(STRING) : q = Root(s) \o w /\ (CatReads(q) <=> IsFile(s, w))
    BY <2>1, InSource
  <2>3. IsPrefix(x, w)
    <3>1. IsPrefix(Root(s) \o x, Root(s) \o w)
      BY <1>2, <1>6, <2>2
    <3> QED
      BY <1>1, <3>1, JoinOrder
  <2>4. PICK g \in files : g = FileAt(s, w)
    BY <1>6, <2>2 DEF IsFile
  <2>5. g.source = s /\ g.path = w
    BY <2>4 DEF FileAt
  <2>6. LocalPath(g) = q
    BY <2>2, <2>5 DEF LocalPath
  <2> QED
    BY <1>3, <2>3, <2>5, <2>6
<1> QED
  BY <1>5, <1>6

\* The requests see one tree at each path.
LEMMA OneTree ==
    ASSUME table \subseteq Sources, files \subseteq Places, Plain, NEW p \in RootPaths
    PROVE  LET virtual  == {q \in RootPaths : IsVirtual(q)}
               readable == {q \in RootPaths : CatReads(q)} IN
           /\ Stat(p) = "dir" <=> ~LSFails(p)
           /\ Stat(p) = "file" <=> p \in readable
           /\ p # <<>> => (Stat(p) # "none" <=> ~LSFails(Front(p)) /\ p \in LS(Front(p)))
           /\ IF Routed(p) = {}
              THEN VirtualBelow(p) \cap RootPaths = {q \in virtual : IsStrictPrefix(p, q)}
              ELSE Found(p) \cap RootPaths = {q \in readable : IsPrefix(p, q)}
<1>1. p \in Seq(STRING) /\ RootPaths \subseteq Seq(STRING)
  BY RootAssumption
<1>2. ASSUME NEW q \in Seq(STRING), Routed(q) # {} PROVE \E s \in table : IsPrefix(Root(s), q)
  <2>1. Routed(q) \subseteq table
    BY DEF Routed, Of
  <2> QED
    BY <1>2, <2>1, WholePaths
<1>3. (Stat(p) = "dir" <=> ~LSFails(p)) /\ (Stat(p) = "file" <=> CatReads(p))
  <2>1. CASE Routed(p) = {}
    <3>1. /\ Stat(p) = IF IsVirtual(p) THEN "dir" ELSE "none"
          /\ LSFails(p) <=> ~IsVirtual(p)
          /\ ~CatReads(p)
      BY <1>1, <2>1, Unrouted
    <3> QED
      BY <3>1
  <2>2. CASE Routed(p) # {}
    <3>1. PICK s \in table : IsPrefix(Root(s), p)
      BY <1>1, <1>2, <2>2
    <3>2. PICK x \in Seq(STRING) :
           /\ LSFails(p) <=> ~IsDirAt(s, x)
           /\ Stat(p) = "dir" <=> IsDirAt(s, x)
           /\ Stat(p) = "file" <=> IsFile(s, x)
           /\ CatReads(p) <=> IsFile(s, x)
      BY <1>1, <3>1, InSource
    <3> QED
      BY <3>2
  <2> QED
    BY <2>1, <2>2
<1>4. ASSUME p # <<>> PROVE Stat(p) # "none" <=> ~LSFails(Front(p)) /\ p \in LS(Front(p))
  <2>1. CASE Front(p) = <<>>
    BY <1>1, <1>4, <2>1, ListedInRoot
  <2>2. CASE Front(p) # <<>> /\ Routed(Front(p)) = {}
    BY <1>1, <1>4, <2>2, ListedAbove
  <2>3. CASE Routed(Front(p)) # {}
    <3>1. Front(p) \in Seq(STRING)
      BY <1>1, <1>4, Parents
    <3>2. PICK s \in table : IsPrefix(Root(s), Front(p))
      BY <1>2, <2>3, <3>1
    <3> QED
      BY <1>1, <1>4, <3>2, ListedInSource
  <2> QED
    BY <2>1, <2>2, <2>3
<1>5. ASSUME Routed(p) = {}
      PROVE  VirtualBelow(p) \cap RootPaths =
               {q \in {r \in RootPaths : IsVirtual(r)} : IsStrictPrefix(p, q)}
  <2>1. \A q \in RootPaths : q \in VirtualBelow(p) <=> IsVirtual(q) /\ IsStrictPrefix(p, q)
    BY <1>1, BelowVirtual
  <2> QED
    BY <2>1
<1>6. ASSUME Routed(p) # {}
      PROVE  Found(p) \cap RootPaths =
               {q \in {r \in RootPaths : CatReads(r)} : IsPrefix(p, q)}
  <2>1. PICK s \in table : IsPrefix(Root(s), p)
    BY <1>1, <1>2, <1>6
  <2>2. \A q \in RootPaths : q \in Found(p) <=> CatReads(q) /\ IsPrefix(p, q)
    BY <1>1, <2>1, FoundBelow
  <2> QED
    BY <2>2
<1> QED
  BY <1>3, <1>4, <1>5, <1>6

\* All requests see one tree under /repos and /docsets (registry.go, lsRoot, statRoot,
\* catRoot and the virtual nodes).
THEOREM RootIsOneTree == RootSpec => []RootAgrees
<1>1. RootType => RootAgrees
  BY OneTree DEF RootType, RootAgrees
<1> QED
  BY <1>1, RootTypes, PTL
=============================================================================
