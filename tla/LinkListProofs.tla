---------------------------- MODULE LinkListProofs ----------------------------
(***************************************************************************)
(* Proofs about the pointers of the lists, for any nodes, priorities and   *)
(* lists of both kinds: the chain of next and prev between head and tail   *)
(* is a sequence without repetition, no node is on two lists, and each     *)
(* call does to the sequence what its operator of ThreadList says.         *)
(***************************************************************************)
EXTENDS LinkList, ThreadListProofs, FiniteSetTheorems, WellFoundedInduction

\* What follows and what precedes the i-th node of a list.
Behind(l, s, i) == IF i < Len(s) THEN s[i + 1] ELSE IF l \in Double THEN Null ELSE s[1]
Before(l, s, i) == IF i > 1 THEN s[i - 1] ELSE IF l \in Double THEN Null ELSE s[Len(s)]

\* The pointers link the nodes of s in that order, and head and tail are its ends.
Chained(l, nx, pv, s) ==
  /\ s \in Seq(Node) /\ IsInjective(s)
  /\ \A i \in 1 .. Len(s) : nx[s[i]] = Behind(l, s, i) /\ pv[s[i]] = Before(l, s, i)

Linked(l, nx, pv, h, t, s) ==
  /\ Chained(l, nx, pv, s)
  /\ h = IF s = <<>> THEN Null ELSE s[1]
  /\ t = IF s = <<>> THEN Null ELSE s[Len(s)]

PointersOK ==
  /\ next \in [Node -> Node \cup {Null}] /\ prev \in [Node -> Node \cup {Null}]
  /\ head \in [List -> Node \cup {Null}] /\ tail \in [List -> Node \cup {Null}]

\* Every list is linked from its head to its tail, through nodes that are used
\* with it, and no node is on two lists.
LinkInv ==
  /\ PointersOK
  /\ \A l \in List : /\ ToSet(Walk(l)) \subseteq NodeOf[l]
                     /\ Linked(l, next, prev, head[l], tail[l], Walk(l))
  /\ \A l, m \in List : l # m => ToSet(Walk(l)) \cap ToSet(Walk(m)) = {}

-----------------------------------------------------------------------------
(* Reading a list off its pointers *)

IsPath(g, nx, h, n) ==
  g = [i \in 1 .. n |-> IF i = 1 \/ g[i - 1] = Null THEN h ELSE nx[g[i - 1]]]

Reading(nx, h, t, n) ==
  LET g == CHOOSE f : IsPath(f, nx, h, n)
      lengths == {i \in 1 .. n : g[i] = t}
  IN  IF h = Null THEN <<>>
      ELSE IF lengths = {} THEN <<Null>>
      ELSE SubSeq(g, 1, Min(lengths))

\* Walk is the reading, before and after a step.
LEMMA WalkReads ==
  ASSUME NEW l \in List
  PROVE  /\ Walk(l) = Reading(next, head[l], tail[l], Cardinality(NodeOf[l]))
         /\ Walk(l)' = Reading(next', head'[l], tail'[l], Cardinality(NodeOf[l]))
BY DEF Walk, Reading, IsPath

\* A set of numbers that is not empty has a least element.
LEMMA LeastExists ==
  ASSUME NEW T, T \subseteq Nat, T # {}
  PROVE  \E i \in T : \A j \in T : i <= j
<1> DEFINE R == OpToRel(<, Nat)
<1>1. IsWellFoundedOn(R, Nat)
  BY NatLessThanWellFounded
<1>2. PICK i \in T : \A j \in T : ~(<<j, i>> \in R)
  <2> HIDE DEF R
  <2> QED BY <1>1, WFMin
<1>3. i \in Nat /\ \A j \in T : j \in Nat /\ ~(j < i)
  BY <1>2 DEF OpToRel
<1> QED BY <1>3

\* The walk of any length can be made.
LEMMA PathExists ==
  ASSUME NEW nx, NEW h, NEW n \in Nat
  PROVE  \E g : IsPath(g, nx, h, n)
<1> DEFINE Bad == {i \in Nat : ~\E g : IsPath(g, nx, h, i)}
<1>1. ASSUME Bad # {} PROVE FALSE
  <2>1. PICK i \in Bad : \A j \in Bad : i <= j
    <3>1. Bad \subseteq Nat
      OBVIOUS
    <3> HIDE DEF Bad
    <3> QED BY <1>1, <3>1, LeastExists
  <2>2. i # 0
    <3> DEFINE g == [j \in 1 .. 0 |-> h]
    <3>1. 1 .. 0 = {}
      OBVIOUS
    <3>2. IsPath(g, nx, h, 0)
      BY <3>1 DEF IsPath
    <3> QED BY <3>2
  <2>3. i \in Nat /\ i - 1 \in Nat /\ i - 1 \notin Bad
    BY <2>1, <2>2
  <2>4. PICK f : IsPath(f, nx, h, i - 1)
    BY <2>3
  <2> DEFINE g == [j \in 1 .. i |-> IF j < i THEN f[j]
                                    ELSE IF j = 1 \/ f[j - 1] = Null THEN h ELSE nx[f[j - 1]]]
  <2>5. ASSUME NEW j \in 1 .. i
        PROVE  g[j] = IF j = 1 \/ g[j - 1] = Null THEN h ELSE nx[g[j - 1]]
    <3>0. j \in Nat /\ j >= 1 /\ j <= i
      BY <2>3
    <3>1. j # 1 => g[j - 1] = f[j - 1]
      BY <3>0, <2>3
    <3>2. CASE j < i
      <4>1. j \in 1 .. i - 1
        BY <3>0, <3>2, <2>3
      <4>2. f[j] = IF j = 1 \/ f[j - 1] = Null THEN h ELSE nx[f[j - 1]]
        BY <2>4, <4>1 DEF IsPath
      <4>3. g[j] = f[j]
        BY <3>2
      <4> HIDE DEF g
      <4> QED BY <3>1, <4>2, <4>3
    <3>3. CASE j = i
      <4>1. g[j] = IF j = 1 \/ f[j - 1] = Null THEN h ELSE nx[f[j - 1]]
        BY <3>3, <2>3
      <4> HIDE DEF g
      <4> QED BY <3>1, <4>1
    <3> QED BY <3>0, <3>2, <3>3, <2>3
  <2>6. g = [j \in 1 .. i |-> g[j]]
    OBVIOUS
  <2>7. IsPath(g, nx, h, i)
    <3> HIDE DEF g
    <3> QED BY <2>5, <2>6 DEF IsPath
  <2> QED BY <2>1, <2>7
<1> QED BY <1>1

\* A walk along a list passes its nodes.
LEMMA PathPasses ==
  ASSUME LinkListAssumption, NEW l, NEW nx, NEW pv, NEW h, NEW t, NEW s,
         Linked(l, nx, pv, h, t, s), s # <<>>,
         NEW n \in Nat, Len(s) <= n, NEW g, IsPath(g, nx, h, n)
  PROVE  \A i \in 1 .. Len(s) : g[i] = s[i]
<1> DEFINE Bad == {i \in 1 .. Len(s) : g[i] # s[i]}
<1>0. s \in Seq(Node) /\ Len(s) \in Nat /\ h = s[1] /\ Null \notin Node
  BY DEF Linked, Chained, LinkListAssumption
<1>1. ASSUME Bad # {} PROVE FALSE
  <2>1. PICK i \in Bad : \A j \in Bad : i <= j
    <3>1. Bad \subseteq Nat
      OBVIOUS
    <3> HIDE DEF Bad
    <3> QED BY <1>1, <3>1, LeastExists
  <2>2. i \in 1 .. Len(s) /\ i \in 1 .. n /\ i \in Nat /\ g[i] # s[i]
    BY <1>0
  <2>3. g[i] = IF i = 1 \/ g[i - 1] = Null THEN h ELSE nx[g[i - 1]]
    BY <2>2 DEF IsPath
  <2>4. CASE i = 1
    BY <1>0, <2>2, <2>3, <2>4
  <2>5. CASE i # 1
    <3>1. i - 1 \in 1 .. Len(s) /\ i - 1 < Len(s) /\ (i - 1) + 1 = i
      BY <1>0, <2>2, <2>5
    <3>2. g[i - 1] = s[i - 1]
      BY <2>1, <2>2, <3>1
    <3>3. s[i - 1] \in Node
      BY <1>0, <3>1
    <3>4. nx[s[i - 1]] = s[i]
      BY <3>1 DEF Linked, Chained, Behind
    <3> QED BY <1>0, <2>2, <2>3, <2>5, <3>2, <3>3, <3>4
  <2> QED BY <2>4, <2>5
<1> QED BY <1>1

\* A list without repetition is no longer than there are nodes.
LEMMA ListFits ==
  ASSUME LinkListAssumption, NEW s \in Seq(Node), IsInjective(s), NEW N, N \subseteq Node, ToSet(s) \subseteq N
  PROVE  Cardinality(N) \in Nat /\ Len(s) <= Cardinality(N)
<1>1. IsFiniteSet(N) /\ IsFiniteSet(ToSet(s))
  BY FS_Subset DEF LinkListAssumption
<1>2. Cardinality(N) \in Nat /\ Cardinality(ToSet(s)) <= Cardinality(N)
  BY <1>1, FS_Subset, FS_CardinalityType
<1>3. Len(s) \in Nat /\ DOMAIN s = 1 .. Len(s)
  OBVIOUS
<1>4. s \in Bijection(1 .. Len(s), ToSet(s))
  BY <1>3 DEF Bijection, Injection, Surjection, IsInjective, ToSet
<1>5. Cardinality(ToSet(s)) = Len(s)
  BY <1>1, <1>3, <1>4, FS_CountingElements DEF ExistsBijection
<1> QED BY <1>2, <1>5

\* What is read off the pointers of a list is the list.
LEMMA ReadingIs ==
  ASSUME LinkListAssumption, NEW l, NEW nx, NEW pv, NEW h, NEW t, NEW s,
         Linked(l, nx, pv, h, t, s), NEW N, N \subseteq Node, ToSet(s) \subseteq N
  PROVE  Reading(nx, h, t, Cardinality(N)) = s
<1> DEFINE n == Cardinality(N)
           g == CHOOSE f : IsPath(f, nx, h, n)
           lengths == {i \in 1 .. n : g[i] = t}
<1>0. s \in Seq(Node) /\ Len(s) \in Nat /\ DOMAIN s = 1 .. Len(s) /\ IsInjective(s) /\ Null \notin Node
  BY DEF Linked, Chained, LinkListAssumption
<1>1. n \in Nat /\ Len(s) <= n
  BY <1>0, ListFits
<1>2. CASE s = <<>>
  BY <1>2 DEF Linked, Reading
<1>3. CASE s # <<>>
  <2> HIDE DEF n
  <2>1. IsPath(g, nx, h, n)
    BY <1>1, PathExists
  <2>2. \A i \in 1 .. Len(s) : g[i] = s[i]
    <3> HIDE DEF g
    <3> QED BY <1>1, <1>3, <2>1, PathPasses
  <2>3. DOMAIN g = 1 .. n /\ g = [i \in 1 .. n |-> g[i]]
    <3> HIDE DEF g
    <3> QED BY <2>1 DEF IsPath
  <2> HIDE DEF g
  <2>4. Len(s) \in 1 .. n /\ Len(s) \in 1 .. Len(s) /\ 1 \in 1 .. Len(s)
    BY <1>0, <1>1, <1>3
  <2>5. h = s[1] /\ t = s[Len(s)] /\ h # Null
    BY <1>0, <1>3, <2>4 DEF Linked
  <2>6. Len(s) \in lengths
    BY <2>2, <2>4, <2>5
  <2>7. \A i \in lengths : Len(s) <= i
    <3> SUFFICES ASSUME NEW i \in lengths, ~(Len(s) <= i) PROVE FALSE
      OBVIOUS
    <3>1. i \in 1 .. Len(s) /\ g[i] = t
      BY <1>0, <1>1
    <3>2. s[i] = s[Len(s)]
      BY <2>2, <2>5, <3>1
    <3>3. i = Len(s)
      BY <1>0, <2>4, <3>1, <3>2 DEF IsInjective
    <3> QED BY <1>0, <3>3
  <2>8. Min(lengths) = Len(s)
    <3>1. lengths \subseteq Nat
      OBVIOUS
    <3> HIDE DEF lengths
    <3>2. ASSUME NEW x \in lengths, \A y \in lengths : x <= y PROVE x = Len(s)
      <4>1. x \in Nat /\ Len(s) \in Nat
        BY <1>0, <3>1
      <4>2. x <= Len(s) /\ Len(s) <= x
        BY <2>6, <2>7, <3>2
      <4> QED BY <4>1, <4>2
    <3>3. Min(lengths) \in lengths /\ \A y \in lengths : Min(lengths) <= y
      BY <2>6, <2>7 DEF Min
    <3> QED BY <3>2, <3>3
  <2>9. SubSeq(g, 1, Len(s)) = s
    <3> DEFINE V == {g[i] : i \in 1 .. n}
    <3>1. g \in Seq(V) /\ Len(g) = n
      <4>1. g \in [1 .. n -> V]
        BY <2>3
      <4> HIDE DEF V
      <4> QED BY <1>1, <2>3, <4>1
    <3> HIDE DEF V
    <3>2. /\ SubSeq(g, 1, Len(s)) \in Seq(V)
          /\ Len(SubSeq(g, 1, Len(s))) = Len(s)
          /\ \A i \in 1 .. Len(s) : SubSeq(g, 1, Len(s))[i] = g[i]
      BY <1>0, <1>1, <2>4, <3>1
    <3> DEFINE r == SubSeq(g, 1, Len(s))
    <3>3. r \in Seq(V) /\ Len(r) = Len(s) /\ \A i \in 1 .. Len(s) : r[i] = s[i]
      BY <2>2, <3>2
    <3> HIDE DEF r
    <3>4. r = s
      BY <1>0, <3>3
    <3> QED BY <3>4 DEF r
  <2>10. Reading(nx, h, t, n) = SubSeq(g, 1, Min(lengths))
    BY <2>5, <2>6 DEF Reading, g, n
  <2> QED BY <2>8, <2>9, <2>10 DEF n
<1> QED BY <1>2, <1>3

-----------------------------------------------------------------------------
(* What linking, unlinking and turning does to the sequence *)

\* The first and the last node of a list are among its nodes.
LEMMA EndsMembers ==
  ASSUME NEW S, NEW s \in Seq(S), s # <<>>
  PROVE  s[1] \in ToSet(s) /\ s[1] \in S /\ s[Len(s)] \in ToSet(s) /\ s[Len(s)] \in S
<1>1. 1 \in DOMAIN s /\ Len(s) \in DOMAIN s
  OBVIOUS
<1>2. s[1] \in S /\ s[Len(s)] \in S
  BY <1>1
<1> QED BY <1>1, <1>2 DEF ToSet

\* A list is what its elements are.
LEMMA PivotElements ==
  ASSUME NEW S, NEW s \in Seq(S), s # <<>>
  PROVE  /\ PivotForward(s) \in Seq(S) /\ Len(PivotForward(s)) = Len(s)
         /\ \A i \in 1 .. Len(s) : PivotForward(s)[i] = IF i < Len(s) THEN s[i + 1] ELSE s[1]
         /\ PivotBackward(s) \in Seq(S) /\ Len(PivotBackward(s)) = Len(s)
         /\ \A i \in 1 .. Len(s) : PivotBackward(s)[i] = IF i = 1 THEN s[Len(s)] ELSE s[i - 1]
<1>1. Len(s) \in Nat \ {0} /\ s[1] \in S /\ s[Len(s)] \in S
  OBVIOUS
<1>2. /\ PivotForward(s) \in Seq(S) /\ Len(PivotForward(s)) = Len(s)
      /\ \A i \in 1 .. Len(s) : PivotForward(s)[i] = IF i < Len(s) THEN s[i + 1] ELSE s[1]
  <2> DEFINE u == Tail(s)
  <2>1. u \in Seq(S) /\ Len(u) = Len(s) - 1 /\ \A i \in 1 .. Len(s) - 1 : u[i] = s[i + 1]
    BY <1>1
  <2>2. Head(s) = s[1] /\ PivotForward(s) = Append(u, s[1])
    BY DEF PivotForward
  <2> HIDE DEF u
  <2>3. /\ Append(u, s[1]) \in Seq(S) /\ Len(Append(u, s[1])) = Len(s)
        /\ \A i \in 1 .. Len(s) : Append(u, s[1])[i] = IF i < Len(s) THEN u[i] ELSE s[1]
    BY <1>1, <2>1
  <2>4. \A i \in 1 .. Len(s) : i < Len(s) => u[i] = s[i + 1]
    BY <1>1, <2>1
  <2> QED BY <2>2, <2>3, <2>4
<1>3. /\ PivotBackward(s) \in Seq(S) /\ Len(PivotBackward(s)) = Len(s)
      /\ \A i \in 1 .. Len(s) : PivotBackward(s)[i] = IF i = 1 THEN s[Len(s)] ELSE s[i - 1]
  <2> DEFINE u == SubSeq(s, 1, Len(s) - 1)
  <2>1. u \in Seq(S) /\ Len(u) = Len(s) - 1 /\ \A i \in 1 .. Len(s) - 1 : u[i] = s[i]
    <3> DEFINE m == Len(s) - 1
    <3>1. m \in 0 .. Len(s) /\ s \in Seq(S)
      BY <1>1
    <3> HIDE DEF m
    <3>2. /\ SubSeq(s, 1, m) \in Seq(S) /\ Len(SubSeq(s, 1, m)) = m
          /\ \A i \in 1 .. m : SubSeq(s, 1, m)[i] = s[i]
      BY <1>1, <3>1
    <3> QED BY <3>2 DEF m
  <2>2. PivotBackward(s) = <<s[Len(s)]>> \o u
    BY DEF PivotBackward, Cons, Last, Front
  <2> HIDE DEF u
  <2> DEFINE r == <<s[Len(s)]>> \o u
  <2>3. <<s[Len(s)]>> \in Seq(S) /\ Len(<<s[Len(s)]>>) = 1 /\ <<s[Len(s)]>>[1] = s[Len(s)]
    BY <1>1
  <2>4. /\ r \in Seq(S) /\ Len(r) = Len(s)
        /\ \A i \in 1 .. Len(s) : r[i] = IF i = 1 THEN s[Len(s)] ELSE u[i - 1]
    BY <1>1, <2>1, <2>3
  <2>5. \A i \in 1 .. Len(s) : i # 1 => u[i - 1] = s[i - 1]
    BY <1>1, <2>1
  <2> HIDE DEF r
  <2> QED BY <2>2, <2>4, <2>5 DEF r
<1> QED BY <1>2, <1>3

\* A circular list may be read from any of its nodes.
LEMMA ForwardChained ==
  ASSUME NEW l, l \notin Double, NEW nx, NEW pv, NEW s, Chained(l, nx, pv, s), s # <<>>, NEW r, r = PivotForward(s)
  PROVE  Chained(l, nx, pv, r)
<1>1. s \in Seq(Node) /\ IsInjective(s) /\ Len(s) \in Nat \ {0}
  BY DEF Chained
<1>2. /\ r \in Seq(Node) /\ Len(r) = Len(s)
      /\ \A i \in 1 .. Len(s) : r[i] = IF i < Len(s) THEN s[i + 1] ELSE s[1]
  BY <1>1, PivotElements
<1>3. IsInjective(r)
  BY <1>1, PivotFacts
<1>4. ASSUME NEW i \in 1 .. Len(r)
      PROVE  nx[r[i]] = Behind(l, r, i) /\ pv[r[i]] = Before(l, r, i)
  <2> DEFINE j == IF i < Len(s) THEN i + 1 ELSE 1
  <2>1. j \in 1 .. Len(s) /\ i \in 1 .. Len(s) /\ r[i] = s[j]
    BY <1>1, <1>2
  <2>2. nx[s[j]] = Behind(l, s, j) /\ pv[s[j]] = Before(l, s, j)
    BY <2>1 DEF Chained
  <2>3. Behind(l, s, j) = Behind(l, r, i)
    BY <1>1, <1>2, <2>1 DEF Behind
  <2>4. Before(l, s, j) = Before(l, r, i)
    BY <1>1, <1>2, <2>1 DEF Before
  <2> QED BY <2>1, <2>2, <2>3, <2>4
<1> QED BY <1>2, <1>3, <1>4 DEF Chained

\* ... and from the other side.
LEMMA BackwardChained ==
  ASSUME NEW l, l \notin Double, NEW nx, NEW pv, NEW s, Chained(l, nx, pv, s), s # <<>>, NEW r, r = PivotBackward(s)
  PROVE  Chained(l, nx, pv, r)
<1>1. s \in Seq(Node) /\ IsInjective(s) /\ Len(s) \in Nat \ {0}
  BY DEF Chained
<1>2. /\ r \in Seq(Node) /\ Len(r) = Len(s)
      /\ \A i \in 1 .. Len(s) : r[i] = IF i = 1 THEN s[Len(s)] ELSE s[i - 1]
  BY <1>1, PivotElements
<1> DEFINE At(i) == IF i = 1 THEN Len(s) ELSE i - 1
<1>3. \A i \in 1 .. Len(s) : At(i) \in 1 .. Len(s) /\ r[i] = s[At(i)]
  BY <1>1, <1>2
<1>4. IsInjective(r)
  <2>1. \A i, j \in 1 .. Len(s) : At(i) = At(j) => i = j
    BY <1>1
  <2>2. DOMAIN r = 1 .. Len(s) /\ DOMAIN s = 1 .. Len(s)
    BY <1>1, <1>2
  <2> HIDE DEF At
  <2> QED BY <1>1, <1>3, <2>1, <2>2 DEF IsInjective
<1>5. ASSUME NEW i \in 1 .. Len(r)
      PROVE  nx[r[i]] = Behind(l, r, i) /\ pv[r[i]] = Before(l, r, i)
  <2>1. At(i) \in 1 .. Len(s) /\ i \in 1 .. Len(s) /\ r[i] = s[At(i)]
    BY <1>1, <1>2
  <2>2. nx[s[At(i)]] = Behind(l, s, At(i)) /\ pv[s[At(i)]] = Before(l, s, At(i))
    BY <2>1 DEF Chained
  <2>3. Behind(l, s, At(i)) = Behind(l, r, i)
    BY <1>1, <1>2, <2>1 DEF Behind
  <2>4. Before(l, s, At(i)) = Before(l, r, i)
    BY <1>1, <1>2, <2>1 DEF Before
  <2> QED BY <2>1, <2>2, <2>3, <2>4
<1> QED BY <1>2, <1>4, <1>5 DEF Chained

Pointers(nx) == nx \in [Node -> Node \cup {Null}]

LinksBefore(nxt, prv, nx, pv, n, at) ==
  /\ nxt = [nx EXCEPT ![n] = at, ![pv[at]] = n]
  /\ prv = [pv EXCEPT ![n] = pv[at], ![at] = n]

\* InsertNodeBefore, the node of a circular list at place p, which is its first
\* when p is behind the last.
LEMMA InsertChained ==
  ASSUME NEW l, l \notin Double, NEW nx, NEW pv, Pointers(nx), Pointers(pv), NEW s, Chained(l, nx, pv, s), s # <<>>,
         NEW n \in Node, n \notin ToSet(s), NEW p \in 1 .. Len(s) + 1,
         NEW at, at = (IF p <= Len(s) THEN s[p] ELSE s[1]), NEW r, r = InsertAt(s, p, n),
         NEW nxt, NEW prv, LinksBefore(nxt, prv, nx, pv, n, at)
  PROVE  Chained(l, nxt, prv, r) /\ Pointers(nxt) /\ Pointers(prv)
<1> DEFINE L == Len(s)
           a == IF p <= L THEN p ELSE 1
           q == IF p > 1 THEN p - 1 ELSE L
<1>1. s \in Seq(Node) /\ IsInjective(s) /\ L \in Nat \ {0} /\ DOMAIN s = 1 .. L
  BY DEF Chained
<1>2. /\ r \in Seq(Node) /\ Len(r) = L + 1
      /\ \A i \in 1 .. L + 1 : r[i] = IF i < p THEN s[i] ELSE IF i = p THEN n ELSE s[i - 1]
  <2>1. s \in Seq(Node) /\ n \in Node /\ p \in 1 .. Len(s) + 1
    BY <1>1
  <2>2. InsertAt(s, p, n) \in Seq(Node) /\ IsInserted(InsertAt(s, p, n), s, p, n)
    BY <2>1, Inserted
  <2>3. r \in Seq(Node) /\ IsInserted(r, s, p, n)
    BY <2>2
  <2> QED BY <2>3 DEF IsInserted
<1>3. IsInjective(r)
  BY <1>1, InsertFacts
<1>4. a \in 1 .. L /\ q \in 1 .. L /\ at = s[a]
  BY <1>1
<1>5. pv[at] = s[q]
  <2>1. pv[at] = Before(l, s, a)
    BY <1>4 DEF Chained
  <2> QED BY <1>1, <1>4, <2>1 DEF Before
<1>6. \A i \in 1 .. L : s[i] \in Node /\ s[i] # n
  BY <1>1 DEF ToSet
<1>7. nxt[n] = s[a] /\ prv[n] = s[q]
  BY <1>4, <1>5, <1>6 DEF Pointers, LinksBefore
<1>8. ASSUME NEW i \in 1 .. L
      PROVE  /\ nxt[s[i]] = IF i = q THEN n ELSE nx[s[i]]
             /\ prv[s[i]] = IF i = a THEN n ELSE pv[s[i]]
  <2>1. s[i] = s[q] <=> i = q
    BY <1>1, <1>4 DEF IsInjective
  <2>2. s[i] = s[a] <=> i = a
    BY <1>1, <1>4 DEF IsInjective
  <2> QED BY <1>4, <1>5, <1>6, <2>1, <2>2 DEF Pointers, LinksBefore
<1>9. Pointers(nxt) /\ Pointers(prv)
  BY <1>4, <1>5, <1>6 DEF Pointers, LinksBefore
<1>10. ASSUME NEW i \in 1 .. L
       PROVE  nx[s[i]] = Behind(l, s, i) /\ pv[s[i]] = Before(l, s, i)
  BY DEF Chained
<1> HIDE DEF L
<1>11. ASSUME NEW i \in 1 .. Len(r)
       PROVE  nxt[r[i]] = Behind(l, r, i) /\ prv[r[i]] = Before(l, r, i)
  <2>1. i \in 1 .. L + 1
    BY <1>2
  <2>2. CASE i = p
    <3>1. r[i] = n
      BY <1>2, <2>1, <2>2
    <3>2. Behind(l, r, i) = s[a]
      <4>1. CASE p <= L
        <5>1. p + 1 \in 1 .. L + 1 /\ r[p + 1] = s[p]
          BY <1>1, <1>2, <4>1
        <5> QED BY <1>1, <1>2, <2>2, <4>1, <5>1 DEF Behind
      <4>2. CASE p > L
        <5>1. p = L + 1 /\ 1 \in 1 .. L + 1 /\ r[1] = s[1]
          BY <1>1, <1>2, <4>2 DEF L
        <5> QED BY <1>1, <1>2, <2>2, <4>2, <5>1 DEF Behind
      <4>3. p <= L \/ p > L
        BY <1>1 DEF L
      <4> QED BY <4>1, <4>2, <4>3
    <3>3. Before(l, r, i) = s[q]
      BY <1>1, <1>2, <2>1, <2>2 DEF Before
    <3> QED BY <1>7, <3>1, <3>2, <3>3
  <2>3. CASE i # p
    <3> DEFINE j == IF i < p THEN i ELSE i - 1
    <3>1. j \in 1 .. L /\ r[i] = s[j]
      BY <1>1, <1>2, <2>1, <2>3
    <3>2. Behind(l, r, i) = IF j = q THEN n ELSE Behind(l, s, j)
      <4>1. Len(s) = L /\ Len(r) = L + 1
        BY <1>2 DEF L
      <4>2. CASE i = L + 1
        <5>1. j = L /\ r[1] = (IF p = 1 THEN n ELSE s[1]) /\ (j = q <=> p = 1)
          BY <1>1, <1>2, <2>1, <2>3, <4>2
        <5>2. Behind(l, r, i) = r[1]
          BY <1>1, <4>1, <4>2 DEF Behind
        <5>3. Behind(l, s, j) = s[1]
          BY <1>1, <4>1, <5>1 DEF Behind
        <5> HIDE DEF j, q
        <5> QED BY <5>1, <5>2, <5>3
      <4>3. CASE i < L + 1
        <5>1. Behind(l, r, i) = r[i + 1] /\ i + 1 \in 1 .. L + 1
          BY <1>1, <2>1, <4>1, <4>3 DEF Behind
        <5>2. CASE i < p /\ i + 1 = p
          <6>1. j = i /\ j = q /\ r[i + 1] = n
            BY <1>1, <1>2, <2>1, <5>1, <5>2
          <6> HIDE DEF j, q
          <6> QED BY <5>1, <6>1
        <5>3. CASE i < p /\ i + 1 < p
          <6>1. j = i /\ j # q /\ j < L /\ r[i + 1] = s[i + 1]
            BY <1>1, <1>2, <2>1, <5>1, <5>3
          <6> HIDE DEF j, q
          <6> QED BY <4>1, <5>1, <6>1 DEF Behind
        <5>4. CASE i > p
          <6>1. i \in Int /\ p \in Int /\ p >= 1 /\ L \in Int /\ i <= L /\ i > p
            BY <1>1, <2>1, <4>3, <5>4
          <6>2. j = i - 1 /\ j + 1 = i /\ j < L
            BY <6>1
          <6>3. j # q
            BY <6>1, <6>2
          <6>4. r[i + 1] = s[i]
            <7>1. i + 1 \in 1 .. L + 1 /\ ~(i + 1 < p) /\ i + 1 # p /\ (i + 1) - 1 = i
              BY <6>1
            <7> QED BY <1>2, <7>1
          <6> HIDE DEF j, q
          <6>5. Behind(l, s, j) = s[i]
            BY <4>1, <6>2 DEF Behind
          <6> QED BY <5>1, <6>3, <6>4, <6>5
        <5>5. (i < p /\ i + 1 = p) \/ (i < p /\ i + 1 < p) \/ i > p
          BY <1>1, <2>1, <2>3
        <5> QED BY <5>2, <5>3, <5>4, <5>5
      <4>4. i = L + 1 \/ i < L + 1
        BY <1>1, <2>1
      <4> HIDE DEF j, q
      <4> QED BY <4>2, <4>3, <4>4
    <3>3. Before(l, r, i) = IF j = a THEN n ELSE Before(l, s, j)
      BY <1>1, <1>2, <2>1, <2>3 DEF Before, L
    <3> HIDE DEF j
    <3> QED BY <1>8, <1>10, <3>1, <3>2, <3>3
  <2> QED BY <2>2, <2>3
<1> QED BY <1>2, <1>3, <1>9, <1>11 DEF Chained

IsRemoved(r, s, p) ==
  /\ r \in Seq(Node) /\ Len(r) = Len(s) - 1
  /\ \A i \in 1 .. Len(s) - 1 : r[i] = IF i < p THEN s[i] ELSE s[i + 1]

LEMMA RemovedAt ==
  ASSUME NEW r, NEW s, NEW p, IsRemoved(r, s, p), NEW i \in 1 .. Len(s) - 1
  PROVE  r[i] = IF i < p THEN s[i] ELSE s[i + 1]
BY DEF IsRemoved

\* What is left when a node is taken out.
LEMMA Removed ==
  ASSUME NEW s \in Seq(Node), NEW t \in ToSet(s)
  PROVE  IsRemoved(ListRemove(s, t), s, Position(s, t))
<1>1. ListRemove(s, t) \in Seq(Node) /\ Len(ListRemove(s, t)) = Len(s) - 1
  BY ListRemoveElements
<1>2. \A i \in 1 .. Len(s) - 1 :
        ListRemove(s, t)[i] = IF i < Position(s, t) THEN s[i] ELSE s[i + 1]
  BY ListRemoveElements
<1> QED BY <1>1, <1>2 DEF IsRemoved

\* What the neighbours of the node at place p are told when it is unlinked.
Unlinks(nxt, prv, nx, pv, s, p) ==
  /\ \A i \in 1 .. Len(s) : i # p => /\ nxt[s[i]] = IF nx[s[i]] = s[p] THEN nx[s[p]] ELSE nx[s[i]]
                                     /\ prv[s[i]] = IF pv[s[i]] = s[p] THEN pv[s[p]] ELSE pv[s[i]]

\* Unlinking a node leaves the others linked in their order, in a circular list
\* of more than one node or in a double one.
LEMMA UnlinkChained ==
  ASSUME LinkListAssumption, NEW l, NEW nx, NEW pv, NEW s, Chained(l, nx, pv, s),
         NEW n \in ToSet(s), NEW p, p = Position(s, n), l \in Double \/ Len(s) > 1,
         NEW r, r = ListRemove(s, n), NEW nxt, NEW prv, Unlinks(nxt, prv, nx, pv, s, p)
  PROVE  Chained(l, nxt, prv, r)
<1>1. s \in Seq(Node) /\ IsInjective(s) /\ Len(s) \in Nat /\ DOMAIN s = 1 .. Len(s) /\ Null \notin Node
  BY DEF Chained, LinkListAssumption
<1>2. p \in 1 .. Len(s) /\ s[p] = n
  BY <1>1, PositionFacts
<1>3. IsRemoved(r, s, p)
  BY <1>1, Removed
<1>4. IsInjective(r)
  BY <1>1, ListRemoveFacts
<1>5. \A i \in 1 .. Len(s) : s[i] \in Node /\ s[i] # Null /\ (s[i] = s[p] <=> i = p)
  BY <1>1, <1>2 DEF IsInjective
<1>6. ASSUME NEW i \in 1 .. Len(r)
      PROVE  nxt[r[i]] = Behind(l, r, i) /\ prv[r[i]] = Before(l, r, i)
  <2> DEFINE j == IF i < p THEN i ELSE i + 1
  <2>1. i \in 1 .. Len(s) - 1 /\ Len(r) = Len(s) - 1
    BY <1>3 DEF IsRemoved
  <2>2. j \in 1 .. Len(s) /\ j # p /\ r[i] = s[j]
    <3>1. j \in 1 .. Len(s) /\ j # p
      BY <1>1, <1>2, <2>1
    <3>2. r[i] = IF i < p THEN s[i] ELSE s[i + 1]
      BY <1>3, <2>1 DEF IsRemoved
    <3> QED BY <3>1, <3>2
  <2>3. /\ nx[s[j]] = Behind(l, s, j) /\ pv[s[j]] = Before(l, s, j)
        /\ nx[s[p]] = Behind(l, s, p) /\ pv[s[p]] = Before(l, s, p)
    BY <1>2, <2>2 DEF Chained
  <2>4. nxt[s[j]] = IF nx[s[j]] = s[p] THEN nx[s[p]] ELSE nx[s[j]]
    BY <2>2 DEF Unlinks
  <2>5. prv[s[j]] = IF pv[s[j]] = s[p] THEN pv[s[p]] ELSE pv[s[j]]
    BY <2>2 DEF Unlinks
  <2>6. nxt[s[j]] = Behind(l, r, i)
    <3>1. CASE i < Len(s) - 1
      <4>1. Behind(l, r, i) = r[i + 1] /\ r[i + 1] = IF i + 1 < p THEN s[i + 1] ELSE s[i + 2]
        <5>1. i + 1 \in 1 .. Len(s) - 1 /\ i < Len(r) /\ (i + 1) + 1 = i + 2
          BY <1>1, <2>1, <3>1
        <5>2. Behind(l, r, i) = r[i + 1]
          BY <5>1 DEF Behind
        <5>3. r[i + 1] = IF i + 1 < p THEN s[i + 1] ELSE s[(i + 1) + 1]
          BY <1>3, <5>1, RemovedAt
        <5> QED BY <5>1, <5>2, <5>3
      <4>2. CASE i < p
        <5>1. j = i /\ i + 1 <= p /\ i + 1 \in 1 .. Len(s) /\ Behind(l, s, j) = s[i + 1]
          BY <1>1, <1>2, <2>1, <4>2 DEF Behind
        <5>2. CASE i + 1 = p
          <6>1. Behind(l, s, p) = s[i + 2]
            BY <1>1, <1>2, <2>1, <3>1, <5>2 DEF Behind
          <6>2. ~(i + 1 < p)
            BY <1>2, <5>2
          <6> HIDE DEF j
          <6> QED BY <2>3, <2>4, <4>1, <5>1, <5>2, <6>1, <6>2
        <5>3. CASE i + 1 < p
          <6>1. s[i + 1] # s[p]
            BY <1>2, <1>5, <5>1, <5>3
          <6> HIDE DEF j
          <6> QED BY <2>3, <2>4, <4>1, <5>1, <5>3, <6>1
        <5> QED BY <1>2, <2>1, <5>1, <5>2, <5>3
      <4>3. CASE ~(i < p)
        <5>1. j = i + 1 /\ ~(i + 1 < p) /\ i + 2 \in 1 .. Len(s) /\ i + 2 # p
          BY <1>1, <1>2, <2>1, <3>1, <4>3
        <5>2. Behind(l, s, j) = s[i + 2]
          BY <1>1, <2>1, <3>1, <5>1 DEF Behind
        <5>3. s[i + 2] # s[p]
          BY <1>5, <5>1
        <5> HIDE DEF j
        <5> QED BY <2>3, <2>4, <4>1, <5>1, <5>2, <5>3
      <4> QED BY <4>2, <4>3
    <3>2. CASE i = Len(s) - 1
      <4>1. Behind(l, r, i) = IF l \in Double THEN Null ELSE r[1]
        BY <1>1, <2>1, <3>2 DEF Behind
      <4>2. r[1] = IF 1 < p THEN s[1] ELSE s[2]
        BY <1>1, <1>3, <2>1, <3>2 DEF IsRemoved
      <4>3. CASE p = Len(s)
        <5>1. j = i /\ Behind(l, s, j) = s[p] /\ 1 < p
          BY <1>1, <1>2, <2>1, <3>2, <4>3 DEF Behind
        <5>2. Behind(l, s, p) = IF l \in Double THEN Null ELSE s[1]
          BY <1>1, <4>3 DEF Behind
        <5> HIDE DEF j
        <5> QED BY <2>3, <2>4, <4>1, <4>2, <5>1, <5>2
      <4>4. CASE p < Len(s)
        <5>1. j = Len(s) /\ Behind(l, s, j) = IF l \in Double THEN Null ELSE s[1]
          <6>1. j = Len(s)
            <7>1. i \in Int /\ p \in Int /\ Len(s) \in Int
              BY <1>1, <1>2, <2>1
            <7>2. ~(i < p) /\ i + 1 = Len(s)
              BY <3>2, <4>4, <7>1
            <7> QED BY <7>2
          <6> HIDE DEF j
          <6> QED BY <1>1, <6>1 DEF Behind
        <5>2. Behind(l, s, p) = s[p + 1]
          BY <1>1, <1>2, <4>4 DEF Behind
        <5>3. 1 \in 1 .. Len(s) /\ (s[1] = s[p] <=> 1 = p) /\ s[p] # Null /\ (1 < p <=> p # 1)
          BY <1>1, <1>2, <1>5
        <5>4. p = 1 => s[p + 1] = s[2]
          OBVIOUS
        <5> HIDE DEF j
        <5> QED BY <2>3, <2>4, <4>1, <4>2, <5>1, <5>2, <5>3, <5>4
      <4> QED BY <1>1, <1>2, <4>3, <4>4
    <3> QED BY <1>1, <2>1, <3>1, <3>2
  <2>7. prv[s[j]] = Before(l, r, i)
    <3>1. CASE i > 1
      <4>1. Before(l, r, i) = r[i - 1] /\ r[i - 1] = IF i - 1 < p THEN s[i - 1] ELSE s[i]
        <5>1. i - 1 \in 1 .. Len(s) - 1 /\ (i - 1) + 1 = i
          BY <1>1, <2>1, <3>1
        <5>2. Before(l, r, i) = r[i - 1]
          BY <3>1 DEF Before
        <5>3. r[i - 1] = IF i - 1 < p THEN s[i - 1] ELSE s[(i - 1) + 1]
          BY <1>3, <5>1, RemovedAt
        <5> QED BY <5>1, <5>2, <5>3
      <4>2. CASE i < p
        <5>1. j = i /\ i - 1 < p /\ i - 1 \in 1 .. Len(s) /\ i - 1 # p /\ Before(l, s, j) = s[i - 1]
          BY <1>1, <1>2, <2>1, <3>1, <4>2 DEF Before
        <5>2. s[i - 1] # s[p]
          BY <1>5, <5>1
        <5> HIDE DEF j
        <5> QED BY <2>3, <2>5, <4>1, <5>1, <5>2
      <4>3. CASE i = p
        <5>1. j = p + 1 /\ i - 1 < p /\ Before(l, s, j) = s[p] /\ Before(l, s, p) = s[i - 1]
          BY <1>1, <1>2, <2>1, <3>1, <4>3 DEF Before
        <5> HIDE DEF j
        <5> QED BY <2>3, <2>5, <4>1, <5>1
      <4>4. CASE i > p
        <5>1. j = i + 1 /\ ~(i - 1 < p) /\ i \in 1 .. Len(s) /\ i # p /\ Before(l, s, j) = s[i]
          BY <1>1, <1>2, <2>1, <3>1, <4>4 DEF Before
        <5>2. s[i] # s[p]
          BY <1>5, <5>1
        <5> HIDE DEF j
        <5> QED BY <2>3, <2>5, <4>1, <5>1, <5>2
      <4>5. i < p \/ i = p \/ i > p
        BY <1>2, <2>1
      <4> HIDE DEF j
      <4> QED BY <4>2, <4>3, <4>4, <4>5
    <3>2. CASE i = 1
      <4>1. Before(l, r, i) = IF l \in Double THEN Null ELSE r[Len(s) - 1]
        BY <1>1, <2>1, <3>2 DEF Before
      <4>2. r[Len(s) - 1] = IF Len(s) - 1 < p THEN s[Len(s) - 1] ELSE s[Len(s)]
        <5>1. Len(s) - 1 \in 1 .. Len(s) - 1 /\ (Len(s) - 1) + 1 = Len(s)
          BY <1>1, <2>1
        <5>2. r[Len(s) - 1] = IF Len(s) - 1 < p THEN s[Len(s) - 1] ELSE s[(Len(s) - 1) + 1]
          BY <1>3, <5>1, RemovedAt
        <5> QED BY <5>1, <5>2
      <4>3. CASE p = 1
        <5>1. j = 2 /\ Before(l, s, j) = s[p] /\ 2 \in 1 .. Len(s)
          BY <1>1, <1>2, <2>1, <3>2, <4>3 DEF Before
        <5>2. Before(l, s, p) = IF l \in Double THEN Null ELSE s[Len(s)]
          BY <1>1, <4>3 DEF Before
        <5>3. ~(Len(s) - 1 < p)
          BY <1>1, <4>3, <5>1
        <5> HIDE DEF j
        <5> QED BY <2>3, <2>5, <4>1, <4>2, <5>1, <5>2, <5>3
      <4>4. CASE p > 1
        <5>1. j = 1 /\ Before(l, s, j) = IF l \in Double THEN Null ELSE s[Len(s)]
          BY <1>1, <1>2, <2>1, <3>2, <4>4 DEF Before
        <5>2. Before(l, s, p) = s[p - 1]
          BY <1>1, <1>2, <4>4 DEF Before
        <5>3. Len(s) \in 1 .. Len(s) /\ (s[Len(s)] = s[p] <=> Len(s) = p) /\ s[p] # Null
              /\ (Len(s) - 1 < p <=> Len(s) = p)
          BY <1>1, <1>2, <1>5
        <5>4. p = Len(s) => s[p - 1] = s[Len(s) - 1]
          OBVIOUS
        <5> HIDE DEF j
        <5> QED BY <2>3, <2>5, <4>1, <4>2, <5>1, <5>2, <5>3, <5>4
      <4>5. p = 1 \/ p > 1
        BY <1>2
      <4> HIDE DEF j
      <4> QED BY <4>3, <4>4, <4>5
    <3>3. i > 1 \/ i = 1
      BY <2>1
    <3> HIDE DEF j
    <3> QED BY <3>1, <3>2, <3>3
  <2> QED BY <2>2, <2>6, <2>7
<1> QED BY <1>3, <1>4, <1>6 DEF Chained, IsRemoved

-----------------------------------------------------------------------------
(* Where AddPriority stops *)

\* The walk compares the node at place i, and finds a lower priority there.
Lower(s, p, pri, i) == p > pri[s[i]]

IsStop(f, nx, S, t, p, pri) ==
  f = [m \in S |-> IF p > pri[m] THEN m ELSE IF nx[m] = t THEN t ELSE f[nx[m]]]

\* i is the first place from j on that is lower, or the last place of all.
IsFirst(s, p, pri, j, i) ==
  /\ i \in j .. Len(s) /\ (i < Len(s) => Lower(s, p, pri, i))
  /\ \A m \in j .. Len(s) : m < i => ~Lower(s, p, pri, m)

\* There is such a place ...
LEMMA FirstExists ==
  ASSUME NEW S, NEW s \in Seq(S), s # <<>>, NEW p, NEW pri, NEW j \in 1 .. Len(s)
  PROVE  \E i : IsFirst(s, p, pri, j, i)
<1> DEFINE T == {i \in j .. Len(s) : i < Len(s) => Lower(s, p, pri, i)}
<1>1. Len(s) \in Nat /\ j \in Nat /\ j <= Len(s)
  OBVIOUS
<1>2. T \subseteq Nat /\ Len(s) \in T
  BY <1>1
<1>3. PICK i \in T : \A m \in T : i <= m
  <2> HIDE DEF T
  <2> QED BY <1>2, LeastExists
<1>4. i \in j .. Len(s) /\ (i < Len(s) => Lower(s, p, pri, i))
  OBVIOUS
<1>5. ASSUME NEW m \in j .. Len(s), m < i PROVE ~Lower(s, p, pri, m)
  <2>1. m \notin T
    BY <1>1, <1>3, <1>4, <1>5
  <2> QED BY <2>1
<1> QED BY <1>4, <1>5 DEF IsFirst

\* ... and only one.
LEMMA FirstUnique ==
  ASSUME NEW S, NEW s \in Seq(S), NEW p, NEW pri, NEW j \in 1 .. Len(s),
         NEW i, NEW h, IsFirst(s, p, pri, j, i), IsFirst(s, p, pri, j, h)
  PROVE  i = h
<1>1. /\ i \in Nat /\ h \in Nat /\ Len(s) \in Nat /\ i <= Len(s) /\ h <= Len(s)
      /\ i \in j .. Len(s) /\ h \in j .. Len(s)
  BY DEF IsFirst
<1>2. ~(i < h)
  <2> SUFFICES ASSUME i < h PROVE FALSE
    OBVIOUS
  <2>1. i < Len(s)
    BY <1>1
  <2> QED BY <1>1, <2>1 DEF IsFirst
<1>3. ~(h < i)
  <2> SUFFICES ASSUME h < i PROVE FALSE
    OBVIOUS
  <2>1. h < Len(s)
    BY <1>1
  <2> QED BY <1>1, <2>1 DEF IsFirst
<1> QED BY <1>1, <1>2, <1>3

\* From a place that is not lower the walk goes on to the next.
LEMMA FirstMoves ==
  ASSUME NEW S, NEW s \in Seq(S), NEW p, NEW pri, NEW j \in 1 .. Len(s), j < Len(s),
         ~Lower(s, p, pri, j), NEW i, IsFirst(s, p, pri, j + 1, i)
  PROVE  IsFirst(s, p, pri, j, i)
<1>1. Len(s) \in Nat /\ i \in j + 1 .. Len(s)
  BY DEF IsFirst
<1>2. ASSUME NEW m \in j .. Len(s), m < i PROVE ~Lower(s, p, pri, m)
  <2>1. m = j \/ m \in j + 1 .. Len(s)
    BY <1>1
  <2> QED BY <1>2, <2>1 DEF IsFirst
<1>3. i \in j .. Len(s) /\ (i < Len(s) => Lower(s, p, pri, i))
  BY <1>1 DEF IsFirst
<1> QED BY <1>2, <1>3 DEF IsFirst

\* The place the walk from place i ends at, were it to start there.
From(s, p, pri, i) == CHOOSE j : IsFirst(s, p, pri, i, j)
EndsAt(s, p, pri, i) ==
  IF Lower(s, p, pri, i) THEN i
  ELSE IF i < Len(s) THEN From(s, p, pri, i)
  ELSE IF Len(s) = 1 THEN 1 ELSE From(s, p, pri, 1)

\* Where the walk ends from each place.
LEMMA FromFacts ==
  ASSUME NEW S, NEW s \in Seq(S), s # <<>>, NEW p, NEW pri, NEW i \in 1 .. Len(s)
  PROVE  /\ From(s, p, pri, i) \in i .. Len(s) /\ IsFirst(s, p, pri, i, From(s, p, pri, i))
         /\ i < Len(s) => From(s, p, pri, i) = EndsAt(s, p, pri, i)
         /\ i < Len(s) /\ ~Lower(s, p, pri, i) => From(s, p, pri, i) = From(s, p, pri, i + 1)
         /\ From(s, p, pri, Len(s)) = Len(s)
         /\ EndsAt(s, p, pri, i) \in 1 .. Len(s)
<1>0. Len(s) \in Nat \ {0} /\ Len(s) \in 1 .. Len(s) /\ 1 \in 1 .. Len(s)
  OBVIOUS
<1>1. ASSUME NEW j \in 1 .. Len(s)
      PROVE  IsFirst(s, p, pri, j, From(s, p, pri, j)) /\ From(s, p, pri, j) \in j .. Len(s)
  <2>1. IsFirst(s, p, pri, j, From(s, p, pri, j))
    BY FirstExists DEF From
  <2> QED BY <2>1 DEF IsFirst
<1>2. ASSUME i < Len(s) PROVE From(s, p, pri, i) = EndsAt(s, p, pri, i)
  <2>1. CASE Lower(s, p, pri, i)
    <3>1. IsFirst(s, p, pri, i, i)
      BY <1>0, <2>1 DEF IsFirst
    <3>2. From(s, p, pri, i) = i
      BY <1>1, <3>1, FirstUnique
    <3> QED BY <2>1, <3>2 DEF EndsAt
  <2>2. CASE ~Lower(s, p, pri, i)
    BY <1>2, <2>2 DEF EndsAt
  <2> QED BY <2>1, <2>2
<1>3. ASSUME i < Len(s), ~Lower(s, p, pri, i) PROVE From(s, p, pri, i) = From(s, p, pri, i + 1)
  <2>1. i + 1 \in 1 .. Len(s)
    BY <1>0, <1>3
  <2>2. IsFirst(s, p, pri, i + 1, From(s, p, pri, i + 1))
    BY <1>1, <2>1
  <2>3. IsFirst(s, p, pri, i, From(s, p, pri, i + 1))
    BY <1>3, <2>2, FirstMoves
  <2> QED BY <1>1, <2>3, FirstUnique
<1>4. From(s, p, pri, Len(s)) = Len(s)
  BY <1>0, <1>1
<1>5. EndsAt(s, p, pri, i) \in 1 .. Len(s)
  <2>1. From(s, p, pri, i) \in i .. Len(s) /\ From(s, p, pri, 1) \in 1 .. Len(s)
    BY <1>0, <1>1
  <2>2. From(s, p, pri, i) \in 1 .. Len(s)
    BY <2>1
  <2> QED BY <1>0, <2>1, <2>2 DEF EndsAt
<1> QED BY <1>1, <1>2, <1>3, <1>4, <1>5

\* The walk from any node of a circular list can be made.
LEMMA StopExists ==
  ASSUME NEW l, l \notin Double, NEW nx, NEW pv, NEW s, Chained(l, nx, pv, s), s # <<>>, NEW p, NEW pri,
         NEW t, t = s[Len(s)]
  PROVE  \E f : IsStop(f, nx, ToSet(s), t, p, pri)
<1> DEFINE f == [m \in ToSet(s) |-> s[EndsAt(s, p, pri, Position(s, m))]]
<1>1. s \in Seq(Node) /\ IsInjective(s) /\ Len(s) \in Nat \ {0} /\ DOMAIN s = 1 .. Len(s)
  BY DEF Chained
<1>2. ASSUME NEW i \in 1 .. Len(s)
      PROVE  f[s[i]] = s[EndsAt(s, p, pri, i)]
  <2>1. s[i] \in ToSet(s)
    BY <1>1 DEF ToSet
  <2>2. Position(s, s[i]) = i
    BY <1>1, <2>1, PositionFacts
  <2> QED BY <2>1, <2>2
<1>3. f = [m \in ToSet(s) |-> f[m]]
  OBVIOUS
<1> HIDE DEF f
<1>4. ASSUME NEW m \in ToSet(s)
      PROVE  f[m] = IF p > pri[m] THEN m ELSE IF nx[m] = t THEN t ELSE f[nx[m]]
  <2>1. PICK i \in 1 .. Len(s) : m = s[i]
    BY <1>1 DEF ToSet
  <2>2. f[m] = s[EndsAt(s, p, pri, i)] /\ (Lower(s, p, pri, i) <=> p > pri[m])
    BY <1>2, <2>1 DEF Lower
  <2>3. nx[m] = Behind(l, s, i)
    BY <2>1 DEF Chained
  <2>4. CASE Lower(s, p, pri, i)
    BY <2>1, <2>2, <2>4 DEF EndsAt
  <2>5. CASE ~Lower(s, p, pri, i) /\ i < Len(s)
    <3>1. i + 1 \in 1 .. Len(s) /\ nx[m] = s[i + 1]
      BY <1>1, <2>3, <2>5 DEF Behind
    <3>2. EndsAt(s, p, pri, i) = From(s, p, pri, i + 1)
      BY <1>1, <2>5, FromFacts
    <3>3. CASE i + 1 = Len(s)
      BY <1>1, <2>2, <2>5, <3>1, <3>2, <3>3, FromFacts
    <3>4. CASE i + 1 < Len(s)
      <4>1. nx[m] # t
        BY <1>1, <3>1, <3>4 DEF IsInjective
      <4>2. From(s, p, pri, i + 1) = EndsAt(s, p, pri, i + 1)
        BY <1>1, <3>1, <3>4, FromFacts
      <4>3. f[nx[m]] = s[EndsAt(s, p, pri, i + 1)]
        BY <1>2, <3>1
      <4>4. f[m] = f[nx[m]]
        BY <2>2, <3>2, <4>2, <4>3
      <4>5. ~(p > pri[m])
        BY <2>2, <2>5
      <4>6. f[m] = IF nx[m] = t THEN t ELSE f[nx[m]]
        BY <4>1, <4>4
      <4> QED BY <4>5, <4>6
    <3>5. i + 1 = Len(s) \/ i + 1 < Len(s)
      <4>1. i \in Int /\ Len(s) \in Int /\ i < Len(s)
        BY <1>1, <2>5
      <4> QED BY <4>1
    <3> QED BY <3>3, <3>4, <3>5
  <2>6. CASE ~Lower(s, p, pri, i) /\ i = Len(s)
    <3>1. 1 \in 1 .. Len(s) /\ nx[m] = s[1]
      BY <1>1, <2>3, <2>6 DEF Behind
    <3>2. CASE Len(s) = 1
      <4>1. EndsAt(s, p, pri, i) = 1 /\ s[1] = t
        BY <2>6, <3>2 DEF EndsAt
      <4> QED BY <2>2, <2>6, <3>1, <4>1
    <3>3. CASE Len(s) > 1
      <4>1. nx[m] # t
        BY <1>1, <3>1, <3>3 DEF IsInjective
      <4>2. EndsAt(s, p, pri, i) = From(s, p, pri, 1)
        BY <1>1, <2>6, <3>3 DEF EndsAt
      <4>3. From(s, p, pri, 1) = EndsAt(s, p, pri, 1)
        BY <1>1, <3>1, <3>3, FromFacts
      <4>4. f[nx[m]] = s[EndsAt(s, p, pri, 1)]
        BY <1>2, <3>1
      <4> QED BY <2>2, <2>6, <4>1, <4>2, <4>3, <4>4
    <3> QED BY <1>1, <3>2, <3>3
  <2>7. i < Len(s) \/ i = Len(s)
    <3>1. i \in Nat /\ i <= Len(s) /\ Len(s) \in Nat
      BY <1>1
    <3> QED BY <3>1
  <2> QED BY <2>4, <2>5, <2>6, <2>7
<1> QED BY <1>3, <1>4 DEF IsStop

\* at is the node at place q, or, behind the only node of a list, that node.
StopsBefore(at, s, p, pri, q) ==
  /\ q \in 1 .. Len(s) + 1 /\ at = (IF q <= Len(s) THEN s[q] ELSE s[1])
  /\ (p > pri[s[1]] <=> q = 1)
  /\ (q = Len(s) + 1 => Len(s) = 1)

\* It stops at the place InsertPosition names, or, behind the only node of a
\* list, at that node.
LEMMA StopIs ==
  ASSUME NEW l, l \notin Double, NEW nx, NEW pv, NEW s, Chained(l, nx, pv, s), s # <<>>, NEW p, NEW pri,
         NEW t, t = s[Len(s)], NEW f, IsStop(f, nx, ToSet(s), t, p, pri),
         NEW q, q = InsertPosition(s, p, pri)
  PROVE  StopsBefore(f[s[1]], s, p, pri, q)
<1>1. s \in Seq(Node) /\ IsInjective(s) /\ Len(s) \in Nat \ {0} /\ DOMAIN s = 1 .. Len(s)
  BY DEF Chained
<1>2. ASSUME NEW i \in 1 .. Len(s)
      PROVE  f[s[i]] = IF Lower(s, p, pri, i) THEN s[i] ELSE IF nx[s[i]] = t THEN t ELSE f[nx[s[i]]]
  <2>1. s[i] \in ToSet(s)
    BY <1>1 DEF ToSet
  <2> QED BY <2>1 DEF IsStop, Lower
<1> DEFINE low == {i \in Compared(s) : p > pri[s[i]]}
           least == CHOOSE i \in low : \A j \in low : i <= j
<1>3. q = IF low # {} THEN least ELSE IF Len(s) = 1 THEN 2 ELSE Len(s)
  BY DEF InsertPosition
<1>4. low # {} => least \in low /\ \A j \in low : least <= j
  <2>1. low \subseteq Nat
    BY <1>1 DEF Compared
  <2> HIDE DEF low
  <2> QED BY <2>1, LeastExists
<1>5. \A i : i \in low <=> i \in Compared(s) /\ Lower(s, p, pri, i)
  BY DEF Lower
<1> HIDE DEF low, least
<1>6. CASE Len(s) = 1
  <2>1. Compared(s) = {1}
    BY <1>6 DEF Compared
  <2>2. q = IF Lower(s, p, pri, 1) THEN 1 ELSE 2
    <3>1. CASE Lower(s, p, pri, 1)
      <4>1. 1 \in low
        BY <1>5, <2>1, <3>1
      <4>2. least \in low /\ q = least
        BY <1>3, <1>4, <4>1
      <4> QED BY <1>5, <2>1, <3>1, <4>2
    <3>2. CASE ~Lower(s, p, pri, 1)
      <4>1. low = {}
        BY <1>5, <2>1, <3>2
      <4> QED BY <1>3, <1>6, <3>2, <4>1
    <3> QED BY <3>1, <3>2
  <2>3. nx[s[1]] = s[1]
    BY <1>1, <1>6 DEF Chained, Behind
  <2>4. f[s[1]] = s[1]
    BY <1>1, <1>2, <1>6, <2>3
  <2> QED BY <1>6, <2>2, <2>4 DEF Lower, StopsBefore
<1>7. CASE Len(s) > 1
  <2>1. Compared(s) = 1 .. Len(s) - 1
    BY <1>7 DEF Compared
  <2>2. IsFirst(s, p, pri, 1, q)
    <3>1. CASE low = {}
      <4>1. q = Len(s)
        BY <1>3, <1>7, <3>1
      <4>2. \A m \in 1 .. Len(s) : m < q => ~Lower(s, p, pri, m)
        BY <1>1, <1>5, <2>1, <3>1, <4>1
      <4> QED BY <1>1, <4>1, <4>2 DEF IsFirst
    <3>2. CASE low # {}
      <4>1. q \in low /\ \A j \in low : q <= j
        BY <1>3, <1>4, <3>2
      <4>2. q \in 1 .. Len(s) - 1 /\ Lower(s, p, pri, q)
        BY <1>5, <2>1, <4>1
      <4>3. ASSUME NEW m \in 1 .. Len(s), m < q PROVE ~Lower(s, p, pri, m)
        <5>1. m \in 1 .. Len(s) - 1 /\ ~(q <= m)
          BY <1>1, <4>2, <4>3
        <5> QED BY <1>5, <2>1, <4>1, <5>1
      <4>4. q \in 1 .. Len(s)
        BY <1>1, <4>2
      <4> QED BY <4>2, <4>3, <4>4 DEF IsFirst
    <3> QED BY <3>1, <3>2
  <2>3. q \in 1 .. Len(s) /\ (q < Len(s) => Lower(s, p, pri, q))
        /\ \A m \in 1 .. Len(s) : m < q => ~Lower(s, p, pri, m)
    BY <2>2 DEF IsFirst
  <2> DEFINE Bad == {d \in Nat : \E i \in 1 .. q : i < Len(s) /\ d = q - i /\ f[s[i]] # s[q]}
  <2>4. ASSUME Bad # {} PROVE FALSE
    <3>1. PICK d \in Bad : \A e \in Bad : d <= e
      <4>1. Bad \subseteq Nat
        OBVIOUS
      <4> HIDE DEF Bad
      <4> QED BY <2>4, <4>1, LeastExists
    <3>2. PICK i \in 1 .. q : i < Len(s) /\ d = q - i /\ f[s[i]] # s[q]
      OBVIOUS
    <3>3. i \in 1 .. Len(s) /\ i \in Nat /\ q \in Nat
      BY <1>1, <2>3
    <3>4. nx[s[i]] = s[i + 1]
      BY <3>2, <3>3 DEF Chained, Behind
    <3>5. CASE i = q
      <4>1. Lower(s, p, pri, i)
        BY <2>3, <3>2, <3>5
      <4> QED BY <1>2, <3>2, <3>3, <3>5, <4>1
    <3>6. CASE i < q
      <4>1. ~Lower(s, p, pri, i)
        BY <2>3, <3>3, <3>6
      <4>2. f[s[i]] = IF s[i + 1] = t THEN t ELSE f[s[i + 1]]
        BY <1>2, <3>3, <3>4, <4>1
      <4>3. CASE i + 1 = Len(s)
        <5>1. q = Len(s)
          BY <2>3, <3>3, <3>6, <4>3
        <5> QED BY <3>2, <4>2, <4>3, <5>1
      <4>4. CASE i + 1 # Len(s)
        <5>1. i + 1 \in 1 .. q /\ i + 1 < Len(s) /\ q - (i + 1) \in Nat /\ q - (i + 1) < d
              /\ i + 1 \in 1 .. Len(s)
          <6>1. i \in Nat /\ q \in Nat /\ Len(s) \in Nat /\ q <= Len(s) /\ i >= 1
            BY <1>1, <2>3, <3>3
          <6> HIDE DEF Bad
          <6> QED BY <3>2, <3>6, <4>4, <6>1
        <5>2. q - (i + 1) \notin Bad
          BY <3>1, <5>1
        <5>3. f[s[i + 1]] = s[q]
          BY <5>1, <5>2
        <5>4. s[i + 1] # t
          BY <1>1, <5>1 DEF IsInjective
        <5> QED BY <3>2, <4>2, <5>3, <5>4
      <4> QED BY <4>3, <4>4
    <3> QED BY <3>3, <3>5, <3>6
  <2>5. f[s[1]] = s[q]
    <3>1. 1 \in 1 .. q /\ 1 < Len(s) /\ q - 1 \in Nat
      BY <1>7, <2>3
    <3> QED BY <2>4, <3>1
  <2>6. p > pri[s[1]] <=> q = 1
    <3>1. 1 \in 1 .. Len(s) /\ (1 < q \/ q = 1)
      BY <1>1, <2>3
    <3> QED BY <1>7, <2>3, <3>1 DEF Lower
  <2>7. q \in 1 .. Len(s) + 1 /\ q <= Len(s) /\ q # Len(s) + 1
    BY <1>1, <2>3
  <2> QED BY <2>5, <2>6, <2>7 DEF StopsBefore
<1> QED BY <1>1, <1>6, <1>7

-----------------------------------------------------------------------------
(* What each call does *)

\* Pointers that do not change keep a list linked.
LEMMA OthersChained ==
  ASSUME NEW l, NEW nx, NEW pv, NEW s, Chained(l, nx, pv, s), NEW nxt, NEW prv,
         \A m \in ToSet(s) : nxt[m] = nx[m] /\ prv[m] = pv[m]
  PROVE  Chained(l, nxt, prv, s)
<1>1. s \in Seq(Node) /\ DOMAIN s = 1 .. Len(s)
  BY DEF Chained
<1>2. \A i \in 1 .. Len(s) : s[i] \in ToSet(s)
  BY <1>1 DEF ToSet
<1> QED BY <1>2 DEF Chained

\* A list of one node.
LEMMA AloneChained ==
  ASSUME NEW l, NEW nx, NEW pv, NEW n \in Node,
         nx[n] = (IF l \in Double THEN Null ELSE n), pv[n] = (IF l \in Double THEN Null ELSE n)
  PROVE  Chained(l, nx, pv, <<n>>)
<1> DEFINE s == <<n>>
<1>1. s \in Seq(Node) /\ Len(s) = 1 /\ s[1] = n /\ DOMAIN s = {1}
  OBVIOUS
<1> HIDE DEF s
<1>2. IsInjective(s)
  BY <1>1 DEF IsInjective
<1>3. ASSUME NEW i \in 1 .. Len(s)
      PROVE  nx[s[i]] = Behind(l, s, i) /\ pv[s[i]] = Before(l, s, i)
  <2>1. i = 1
    BY <1>1
  <2> QED BY <1>1, <2>1 DEF Behind, Before
<1>4. Chained(l, nx, pv, s)
  BY <1>1, <1>2, <1>3 DEF Chained
<1> QED BY <1>4 DEF s

\* A timer is linked behind the last one.
LEMMA AppendChained ==
  ASSUME LinkListAssumption, NEW l \in Double, NEW nx, NEW pv, Pointers(nx), Pointers(pv),
         NEW s, Chained(l, nx, pv, s), s # <<>>,
         NEW n \in Node, n \notin ToSet(s), nx[n] = Null, NEW t, t = s[Len(s)],
         NEW nxt, nxt = [nx EXCEPT ![t] = n], NEW prv, prv = [pv EXCEPT ![n] = t]
  PROVE  Chained(l, nxt, prv, Append(s, n)) /\ Pointers(nxt) /\ Pointers(prv)
<1> DEFINE r == Append(s, n)
<1>1. s \in Seq(Node) /\ IsInjective(s) /\ Len(s) \in Nat \ {0} /\ DOMAIN s = 1 .. Len(s)
  BY DEF Chained
<1>2. /\ r \in Seq(Node) /\ Len(r) = Len(s) + 1
      /\ \A i \in 1 .. Len(s) + 1 : r[i] = IF i = Len(s) + 1 THEN n ELSE s[i]
  BY <1>1
<1>3. IsInjective(r)
  BY <1>1, AppendOnce
<1> HIDE DEF r
<1>4. ASSUME NEW i \in 1 .. Len(s)
      PROVE  s[i] \in Node /\ s[i] # n /\ (s[i] = t <=> i = Len(s))
  <2>1. s[i] \in Node /\ s[i] # n
    BY <1>1 DEF ToSet
  <2>2. s[i] = t <=> i = Len(s)
    BY <1>1 DEF IsInjective
  <2> QED BY <2>1, <2>2
<1>5. t \in Node /\ t # n
  BY <1>1, <1>4
<1>6. Pointers(nxt) /\ Pointers(prv)
  BY <1>5 DEF Pointers
<1>7. nxt[n] = Null /\ prv[n] = t
  BY <1>5 DEF Pointers
<1>8. ASSUME NEW i \in 1 .. Len(s)
      PROVE  nxt[s[i]] = (IF i = Len(s) THEN n ELSE nx[s[i]]) /\ prv[s[i]] = pv[s[i]]
  BY <1>4 DEF Pointers
<1>9. ASSUME NEW i \in 1 .. Len(r)
      PROVE  nxt[r[i]] = Behind(l, r, i) /\ prv[r[i]] = Before(l, r, i)
  <2>1. i \in 1 .. Len(s) + 1 /\ i \in Nat
    BY <1>2
  <2>2. CASE i = Len(s) + 1
    <3>1. r[i] = n /\ Behind(l, r, i) = Null
      BY <1>1, <1>2, <2>1, <2>2 DEF Behind
    <3>2. Before(l, r, i) = t
      BY <1>1, <1>2, <2>1, <2>2 DEF Before
    <3> QED BY <1>7, <3>1, <3>2
  <2>3. CASE i # Len(s) + 1
    <3>1. i \in 1 .. Len(s) /\ r[i] = s[i]
      BY <1>1, <1>2, <2>1, <2>3
    <3>2. nx[s[i]] = Behind(l, s, i) /\ pv[s[i]] = Before(l, s, i)
      BY <3>1 DEF Chained
    <3>3. Behind(l, r, i) = IF i = Len(s) THEN n ELSE Behind(l, s, i)
      <4>1. Behind(l, r, i) = r[i + 1] /\ i + 1 \in 1 .. Len(s) + 1
        BY <1>1, <1>2, <3>1 DEF Behind
      <4>2. CASE i = Len(s)
        BY <1>2, <4>1, <4>2
      <4>3. CASE i < Len(s)
        <5>1. r[i + 1] = s[i + 1]
          BY <1>1, <1>2, <3>1, <4>1, <4>3
        <5>2. Behind(l, s, i) = s[i + 1] /\ i # Len(s)
          BY <1>1, <4>3 DEF Behind
        <5> QED BY <4>1, <5>1, <5>2
      <4> QED BY <1>1, <3>1, <4>2, <4>3
    <3>4. Before(l, r, i) = Before(l, s, i)
      BY <1>1, <1>2, <3>1 DEF Before
    <3> QED BY <1>8, <3>1, <3>2, <3>3, <3>4
  <2> QED BY <2>2, <2>3
<1>10. Chained(l, nxt, prv, r)
  BY <1>2, <1>3, <1>9 DEF Chained
<1> QED BY <1>6, <1>10 DEF r

Contents == [l \in List |-> Walk(l)]

\* A call changes list l to r and no other list.
Becomes(l, r) == LinkInv' /\ Contents' = [Contents EXCEPT ![l] = r]

\* It is enough to know the new chain of l, its ends, and that no node but
\* those of l and n is touched.
LEMMA CallBecomes ==
  ASSUME LinkListAssumption, LinkInv, NEW l \in List, NEW r,
         Pointers(next'), Pointers(prev'),
         NEW h \in Node \cup {Null}, head' = [head EXCEPT ![l] = h],
         NEW t \in Node \cup {Null}, tail' = [tail EXCEPT ![l] = t],
         Chained(l, next', prev', r),
         h = (IF r = <<>> THEN Null ELSE r[1]), t = (IF r = <<>> THEN Null ELSE r[Len(r)]),
         NEW n \in NodeOf[l], \A m \in List : m # l => n \notin ToSet(Walk(m)),
         ToSet(r) \subseteq ToSet(Walk(l)) \cup {n},
         \A x \in Node : x \notin ToSet(Walk(l)) \cup {n} => next'[x] = next[x] /\ prev'[x] = prev[x]
  PROVE  Becomes(l, r)
<1>1. PointersOK'
  BY DEF LinkInv, PointersOK, Pointers
<1>2. head'[l] = h /\ tail'[l] = t /\ \A m \in List : m # l => head'[m] = head[m] /\ tail'[m] = tail[m]
  BY DEF LinkInv, PointersOK
<1>3. NodeOf \in [List -> SUBSET Node]
  BY DEF LinkListAssumption
<1>4. ToSet(r) \subseteq NodeOf[l]
  BY DEF LinkInv
<1>5. Linked(l, next', prev', head'[l], tail'[l], r)
  BY <1>2 DEF Linked
<1>6. Walk(l)' = r
  <2>1. NodeOf[l] \subseteq Node
    BY <1>3
  <2>2. Reading(next', head'[l], tail'[l], Cardinality(NodeOf[l])) = r
    BY <1>4, <1>5, <2>1, ReadingIs
  <2> QED BY <2>2, WalkReads
<1>7. ASSUME NEW m \in List, m # l
      PROVE  /\ Walk(m)' = Walk(m)
             /\ Linked(m, next', prev', head'[m], tail'[m], Walk(m))
  <2>1. PICK s : s = Walk(m)
    OBVIOUS
  <2>2. /\ ToSet(s) \subseteq NodeOf[m] /\ NodeOf[m] \subseteq Node
        /\ Linked(m, next, prev, head[m], tail[m], s)
        /\ ToSet(Walk(l)) \cap ToSet(s) = {} /\ n \notin ToSet(s)
    BY <1>3, <1>7, <2>1 DEF LinkInv
  <2>3. \A x \in ToSet(s) : next'[x] = next[x] /\ prev'[x] = prev[x]
    BY <2>2
  <2>4. Chained(m, next, prev, s)
    BY <2>2 DEF Linked
  <2>5. Chained(m, next', prev', s)
    BY <2>2, <2>3, <2>4, OthersChained
  <2>6. Linked(m, next', prev', head'[m], tail'[m], s)
    BY <1>2, <1>7, <2>2, <2>5 DEF Linked
  <2>7. Reading(next', head'[m], tail'[m], Cardinality(NodeOf[m])) = s
    BY <2>2, <2>6, ReadingIs
  <2> QED BY <2>1, <2>6, <2>7, WalkReads
<1>8. Contents' = [Contents EXCEPT ![l] = r]
  BY <1>6, <1>7 DEF Contents
<1>9. ASSUME NEW m \in List
      PROVE  /\ ToSet(Walk(m)') \subseteq NodeOf[m]
             /\ Linked(m, next', prev', head'[m], tail'[m], Walk(m)')
  <2>1. CASE m = l
    BY <1>4, <1>5, <1>6, <2>1
  <2>2. CASE m # l
    BY <1>7, <2>2 DEF LinkInv
  <2> QED BY <2>1, <2>2
<1>10. ASSUME NEW m \in List, NEW u \in List, m # u
       PROVE  ToSet(Walk(m)') \cap ToSet(Walk(u)') = {}
  <2>1. ASSUME NEW v \in List, v # l PROVE ToSet(r) \cap ToSet(Walk(v)') = {}
    BY <1>7, <2>1 DEF LinkInv
  <2>2. CASE m = l
    BY <1>6, <1>10, <2>1, <2>2
  <2>3. CASE u = l
    BY <1>6, <1>10, <2>1, <2>3
  <2>4. CASE m # l /\ u # l
    BY <1>7, <1>10, <2>4 DEF LinkInv
  <2> QED BY <2>2, <2>3, <2>4
<1> QED BY <1>1, <1>8, <1>9, <1>10 DEF Becomes, LinkInv

\* The nodes of a list that is not empty, and its ends.
LEMMA ListOf ==
  ASSUME LinkListAssumption, LinkInv, NEW l \in List, NEW s, s = Walk(l)
  PROVE  /\ Chained(l, next, prev, s) /\ s \in Seq(Node) /\ ToSet(s) \subseteq NodeOf[l]
         /\ NodeOf[l] \subseteq Node /\ Pointers(next) /\ Pointers(prev)
         /\ head[l] = (IF s = <<>> THEN Null ELSE s[1]) /\ tail[l] = (IF s = <<>> THEN Null ELSE s[Len(s)])
         /\ s # <<>> => /\ head[l] \in Node /\ tail[l] \in Node /\ Len(s) \in Nat \ {0}
                        /\ head[l] \in ToSet(s) /\ tail[l] \in ToSet(s)
         /\ (s = <<>> <=> head[l] = Null)
<1>1. /\ Chained(l, next, prev, s) /\ ToSet(s) \subseteq NodeOf[l]
      /\ head[l] = (IF s = <<>> THEN Null ELSE s[1]) /\ tail[l] = (IF s = <<>> THEN Null ELSE s[Len(s)])
      /\ Pointers(next) /\ Pointers(prev)
  BY DEF LinkInv, Linked, PointersOK, Pointers
<1>2. s \in Seq(Node)
  BY <1>1 DEF Chained
<1>3. NodeOf[l] \subseteq Node /\ Null \notin Node
  BY DEF LinkListAssumption
<1>4. ASSUME s # <<>>
      PROVE  /\ head[l] \in Node /\ tail[l] \in Node /\ Len(s) \in Nat \ {0}
             /\ head[l] \in ToSet(s) /\ tail[l] \in ToSet(s)
  <2>1. Len(s) \in Nat \ {0} /\ DOMAIN s = 1 .. Len(s)
    BY <1>2, <1>4
  <2>2. 1 \in DOMAIN s /\ Len(s) \in DOMAIN s
    BY <2>1
  <2>3. head[l] = s[1] /\ tail[l] = s[Len(s)]
    BY <1>1, <1>4
  <2>4. s[1] \in Node /\ s[Len(s)] \in Node
    BY <1>2, <2>1, <2>2
  <2> QED BY <2>1, <2>2, <2>3, <2>4 DEF ToSet
<1> QED BY <1>1, <1>2, <1>3, <1>4

\* A node that is on no list.
LEMMA FreeNode ==
  ASSUME LinkListAssumption, LinkInv, NEW l \in List, NEW n \in NodeOf[l], Free(n)
  PROVE  /\ n \in Node /\ n # Null /\ n \notin ToSet(Walk(l))
         /\ \A m \in List : m # l => n \notin ToSet(Walk(m))
BY DEF Free, LinkListAssumption

\* The first and the last place.
LEMMA Ends ==
  ASSUME NEW n \in Nat \ {0}
  PROVE  1 \in 1 .. n /\ n \in 1 .. n /\ ~(n < n) /\ (1 < n \/ n = 1)
<1>1. 1 \in 1 .. n /\ n \in 1 .. n /\ ~(n < n)
  OBVIOUS
<1>2. 1 < n \/ n = 1
  OBVIOUS
<1> QED BY <1>1, <1>2

\* Add of ll.cpp, to a list that is empty ...
LEMMA AddToEmpty ==
  ASSUME LinkListAssumption, LinkInv, NEW l \in List \ Double, NEW n \in NodeOf[l], Add(l, n),
         head[l] = Null
  PROVE  Becomes(l, <<n>>)
<1>1. Walk(l) = <<>> /\ Pointers(next) /\ Pointers(prev)
  BY ListOf
<1>2. /\ n \in Node /\ n # Null /\ \A m \in List : m # l => n \notin ToSet(Walk(m))
  BY FreeNode DEF Add
<1>3. /\ next' = [next EXCEPT ![n] = n] /\ prev' = [prev EXCEPT ![n] = n]
      /\ head' = [head EXCEPT ![l] = n] /\ tail' = [tail EXCEPT ![l] = n]
  BY DEF Add
<1>4. Pointers(next') /\ Pointers(prev') /\ next'[n] = n /\ prev'[n] = n
  BY <1>1, <1>2, <1>3 DEF Pointers
<1>5. Chained(l, next', prev', <<n>>)
  BY <1>2, <1>4, AloneChained
<1> DEFINE r == <<n>>
<1>6. r # <<>> /\ r[1] = n /\ Len(r) = 1 /\ ToSet(r) = {n}
  BY DEF ToSet
<1>7. \A x \in Node : x # n => next'[x] = next[x] /\ prev'[x] = prev[x]
  BY <1>1, <1>3 DEF Pointers
<1> HIDE DEF r
<1>8. Becomes(l, r)
  <2>1. /\ l \in List /\ n \in NodeOf[l] /\ n \in Node \cup {Null}
        /\ n = (IF r = <<>> THEN Null ELSE r[1]) /\ n = (IF r = <<>> THEN Null ELSE r[Len(r)])
        /\ ToSet(r) \subseteq ToSet(Walk(l)) \cup {n}
        /\ \A x \in Node : x \notin ToSet(Walk(l)) \cup {n} => next'[x] = next[x] /\ prev'[x] = prev[x]
    BY <1>2, <1>6, <1>7
  <2>2. Chained(l, next', prev', r)
    BY <1>5 DEF r
  <2> QED BY <1>2, <1>3, <1>4, <2>1, <2>2, CallBecomes
<1> QED BY <1>8 DEF r

\* Appending is inserting behind the last place.
LEMMA InsertAtEnd ==
  ASSUME NEW S, NEW s \in Seq(S), NEW n \in S
  PROVE  InsertAt(s, Len(s) + 1, n) = Append(s, n)
<1> DEFINE r == InsertAt(s, Len(s) + 1, n)
           u == Append(s, n)
<1>1. Len(s) + 1 \in 1 .. Len(s) + 1 /\ Len(s) \in Nat
  OBVIOUS
<1>2. r \in Seq(S) /\ IsInserted(r, s, Len(s) + 1, n)
  BY <1>1, Inserted
<1>3. u \in Seq(S) /\ Len(u) = Len(s) + 1
      /\ \A i \in 1 .. Len(s) + 1 : u[i] = IF i = Len(s) + 1 THEN n ELSE s[i]
  OBVIOUS
<1> HIDE DEF r, u
<1>4. Len(r) = Len(u) /\ \A i \in 1 .. Len(r) : r[i] = u[i]
  <2>1. Len(r) = Len(s) + 1
    BY <1>2 DEF IsInserted
  <2>2. ASSUME NEW i \in 1 .. Len(s) + 1 PROVE r[i] = u[i]
    <3>1. r[i] = IF i < Len(s) + 1 THEN s[i] ELSE IF i = Len(s) + 1 THEN n ELSE s[i - 1]
      BY <1>2 DEF IsInserted
    <3>2. i \in Int /\ (i < Len(s) + 1 \/ i = Len(s) + 1)
      BY <1>1
    <3> QED BY <1>1, <1>3, <3>1, <3>2
  <2> QED BY <1>3, <2>1, <2>2
<1>5. r = u
  BY <1>2, <1>3, <1>4
<1> QED BY <1>5 DEF r, u

\* ... and to one that is not: the node goes behind the tail, and the list turns.
LEMMA AddToOthers ==
  ASSUME LinkListAssumption, LinkInv, NEW l \in List \ Double, NEW n \in NodeOf[l], Add(l, n),
         head[l] # Null
  PROVE  Becomes(l, ListAdd(Walk(l), n))
<1>1. PICK s : s = Walk(l)
  OBVIOUS
<1>2. /\ s # <<>> /\ Chained(l, next, prev, s) /\ s \in Seq(Node) /\ Len(s) \in Nat \ {0}
      /\ Pointers(next) /\ Pointers(prev) /\ head[l] = s[1] /\ tail[l] = s[Len(s)]
      /\ head[l] \in Node /\ tail[l] \in Node /\ head[l] \in ToSet(s) /\ tail[l] \in ToSet(s)
  BY <1>1, ListOf
<1>3. n \in Node /\ n \notin ToSet(s) /\ \A m \in List : m # l => n \notin ToSet(Walk(m))
  BY <1>1, FreeNode DEF Add
<1>4. PICK at, t, nx, pv, nxt, prv :
        at = head[l] /\ t = tail[l] /\ nx = next /\ pv = prev /\ nxt = next' /\ prv = prev'
  OBVIOUS
<1>5. /\ nxt = [nx EXCEPT ![t] = n, ![n] = at] /\ prv = [pv EXCEPT ![n] = t, ![at] = n]
      /\ head' = [head EXCEPT ![l] = nxt[at]] /\ tail' = [tail EXCEPT ![l] = nxt[n]]
  BY <1>4 DEF Add
<1>6. pv[at] = t
  <2>1. prev[s[1]] = Before(l, s, 1)
    BY <1>2 DEF Chained
  <2> QED BY <1>2, <1>4, <2>1 DEF Before
<1>7. at \in Node /\ t \in Node /\ t # n /\ at # n /\ Pointers(nx) /\ Pointers(pv)
  BY <1>2, <1>3, <1>4
<1>8. LinksBefore(nxt, prv, nx, pv, n, at)
  <2>1. nxt = [nx EXCEPT ![n] = at, ![pv[at]] = n] /\ prv = [pv EXCEPT ![n] = pv[at], ![at] = n]
    BY <1>5, <1>6, <1>7 DEF Pointers
  <2> QED BY <2>1 DEF LinksBefore
<1>9. PICK u : u = Append(s, n)
  OBVIOUS
<1>10. Chained(l, nxt, prv, u) /\ Pointers(nxt) /\ Pointers(prv)
  <2>1. PICK p : p = Len(s) + 1
    OBVIOUS
  <2>2. /\ l \notin Double /\ p \in 1 .. Len(s) + 1 /\ at = (IF p <= Len(s) THEN s[p] ELSE s[1])
    BY <1>2, <1>4, <2>1
  <2>3. u = InsertAt(s, p, n) /\ Chained(l, nx, pv, s)
    BY <1>2, <1>3, <1>4, <1>9, <2>1, InsertAtEnd
  <2> QED BY <1>2, <1>3, <1>7, <1>8, <2>2, <2>3, InsertChained
<1>11. PICK r : r = PivotForward(u)
  OBVIOUS
<1>12. /\ u \in Seq(Node) /\ u # <<>> /\ Len(u) = Len(s) + 1 /\ u[1] = s[1] /\ u[Len(s) + 1] = n
       /\ ToSet(u) = ToSet(s) \cup {n}
  <2>1. u \in Seq(Node) /\ u # <<>> /\ Len(u) = Len(s) + 1 /\ u[1] = s[1] /\ u[Len(s) + 1] = n
    BY <1>2, <1>3, <1>9
  <2> QED BY <1>2, <1>3, <1>9, <2>1, AppendMembers
<1>13. Chained(l, nxt, prv, r)
  BY <1>10, <1>11, <1>12, ForwardChained
<1>14. /\ r \in Seq(Node) /\ Len(r) = Len(s) + 1 /\ r[1] = u[2] /\ r[Len(s) + 1] = s[1]
       /\ ToSet(r) = ToSet(s) \cup {n}
  <2>1. 1 \in 1 .. Len(u) /\ Len(s) + 1 \in 1 .. Len(u) /\ 1 < Len(u) /\ ~(Len(s) + 1 < Len(u))
    BY <1>2, <1>12
  <2>2. u \in Seq(Node) /\ u # <<>> /\ r = PivotForward(u)
    BY <1>11, <1>12
  <2>3. r \in Seq(Node) /\ Len(r) = Len(u) /\ ToSet(r) = ToSet(u)
    BY <2>2, PivotFacts
  <2>4. \A i \in 1 .. Len(u) : r[i] = IF i < Len(u) THEN u[i + 1] ELSE u[1]
    BY <2>2, PivotElements
  <2>5. r[1] = u[2] /\ r[Len(s) + 1] = u[1]
    BY <2>1, <2>4
  <2> QED BY <1>12, <2>3, <2>5
<1>15. nxt[at] = r[1] /\ nxt[n] = r[Len(r)] /\ r # <<>>
  <2>1. 1 \in 1 .. Len(u) /\ Len(s) + 1 \in 1 .. Len(u) /\ 1 < Len(u) /\ ~(Len(s) + 1 < Len(u))
    BY <1>2, <1>12
  <2>2. nxt[u[1]] = Behind(l, u, 1) /\ nxt[u[Len(s) + 1]] = Behind(l, u, Len(s) + 1)
    BY <1>10, <2>1 DEF Chained
  <2>3. Behind(l, u, 1) = u[2] /\ Behind(l, u, Len(s) + 1) = u[1]
    BY <2>1 DEF Behind
  <2> QED BY <1>2, <1>4, <1>12, <1>14, <2>2, <2>3
<1>16. \A x \in Node : x \notin ToSet(s) \cup {n} => nxt[x] = nx[x] /\ prv[x] = pv[x]
  BY <1>2, <1>4, <1>5, <1>7 DEF Pointers
<1>17. PICK h : h = nxt[at]
  OBVIOUS
<1>18. h \in Node \cup {Null} /\ at \in Node \cup {Null} /\ nxt[n] = at
  BY <1>5, <1>7, <1>10, <1>17 DEF Pointers
<1>19. Becomes(l, r)
  <2>1. /\ l \in List /\ head' = [head EXCEPT ![l] = h] /\ tail' = [tail EXCEPT ![l] = at]
        /\ h = (IF r = <<>> THEN Null ELSE r[1]) /\ at = (IF r = <<>> THEN Null ELSE r[Len(r)])
        /\ ToSet(r) \subseteq ToSet(Walk(l)) \cup {n}
        /\ \A x \in Node : x \notin ToSet(Walk(l)) \cup {n} => next'[x] = next[x] /\ prev'[x] = prev[x]
    BY <1>1, <1>4, <1>5, <1>14, <1>15, <1>16, <1>17, <1>18
  <2>2. Pointers(next') /\ Pointers(prev') /\ Chained(l, next', prev', r)
    BY <1>4, <1>10, <1>13
  <2> QED BY <1>3, <1>18, <2>1, <2>2, CallBecomes
<1>20. r = ListAdd(Walk(l), n)
  BY <1>1, <1>9, <1>11 DEF ListAdd
<1> QED BY <1>19, <1>20

\* What Add does.
LEMMA AddBecomes ==
  ASSUME LinkListAssumption, LinkInv, NEW l \in List \ Double, NEW n \in NodeOf[l], Add(l, n)
  PROVE  Becomes(l, ListAdd(Walk(l), n))
<1>1. CASE head[l] = Null
  <2>1. Becomes(l, <<n>>)
    BY <1>1, AddToEmpty
  <2>2. Walk(l) = <<>>
    BY <1>1, ListOf
  <2>3. ListAdd(<<>>, n) = <<n>>
    <3> DEFINE u == Append(<<>>, n)
    <3>1. u = <<n>> /\ u # <<>> /\ Head(u) = n /\ Tail(u) = <<>>
      OBVIOUS
    <3> QED BY <3>1 DEF ListAdd, PivotForward
  <2> QED BY <2>1, <2>2, <2>3
<1>2. CASE head[l] # Null
  BY <1>2, AddToOthers
<1> QED BY <1>1, <1>2

\* A turned circular list has the same nodes and other ends.
LEMMA ForwardBecomes ==
  ASSUME LinkListAssumption, LinkInv, NEW l \in List \ Double, Forward(l)
  PROVE  Becomes(l, PivotForward(Walk(l)))
<1>1. PICK s : s = Walk(l)
  OBVIOUS
<1>2. /\ s # <<>> /\ Chained(l, next, prev, s) /\ s \in Seq(Node) /\ Len(s) \in Nat \ {0}
      /\ Pointers(next) /\ Pointers(prev) /\ head[l] = s[1] /\ tail[l] = s[Len(s)]
      /\ ToSet(s) \subseteq NodeOf[l]
  BY <1>1, ListOf DEF Forward
<1>3. PICK r : r = PivotForward(s)
  OBVIOUS
<1>4. Chained(l, next, prev, r)
  <2>1. PICK nx, pv : nx = next /\ pv = prev
    OBVIOUS
  <2>2. Chained(l, nx, pv, s) /\ l \notin Double
    BY <1>2, <2>1
  <2> QED BY <1>2, <1>3, <2>1, <2>2, ForwardChained
<1>5. /\ r \in Seq(Node) /\ Len(r) = Len(s) /\ r # <<>> /\ r[Len(r)] = s[1] /\ ToSet(r) = ToSet(s)
      /\ r[1] = (IF 1 < Len(s) THEN s[2] ELSE s[1])
  <2>1. 1 \in 1 .. Len(s) /\ Len(s) \in 1 .. Len(s) /\ ~(Len(s) < Len(s))
    BY <1>2
  <2>2. /\ r \in Seq(Node) /\ Len(r) = Len(s)
        /\ \A i \in 1 .. Len(s) : r[i] = IF i < Len(s) THEN s[i + 1] ELSE s[1]
    BY <1>2, <1>3, PivotElements
  <2>3. ToSet(r) = ToSet(s)
    BY <1>2, <1>3, PivotFacts
  <2>4. r[Len(s)] = s[1] /\ r[1] = (IF 1 < Len(s) THEN s[2] ELSE s[1])
    BY <2>1, <2>2
  <2>5. r # <<>>
    BY <1>2, <2>2
  <2> QED BY <2>2, <2>3, <2>4, <2>5
<1>6. next[s[1]] = r[1] /\ next[s[Len(s)]] = s[1]
  <2>1. 1 \in 1 .. Len(s) /\ Len(s) \in 1 .. Len(s) /\ ~(Len(s) < Len(s)) /\ (1 < Len(s) \/ Len(s) = 1)
    BY <1>2, Ends
  <2>2. next[s[1]] = Behind(l, s, 1) /\ next[s[Len(s)]] = Behind(l, s, Len(s))
    BY <1>2, <2>1 DEF Chained
  <2> QED BY <1>5, <2>1, <2>2 DEF Behind
<1>7. PICK h, t : h = r[1] /\ t = r[Len(r)]
  OBVIOUS
<1>8. head' = [head EXCEPT ![l] = h] /\ tail' = [tail EXCEPT ![l] = t] /\ next' = next /\ prev' = prev
  <2>1. next[head[l]] = h /\ next[tail[l]] = t
    BY <1>2, <1>5, <1>6, <1>7
  <2> QED BY <2>1 DEF Forward
<1>9. s[1] \in ToSet(s) /\ h \in Node /\ t \in Node
  <2>1. s \in Seq(Node) /\ s # <<>> /\ r \in Seq(Node) /\ r # <<>>
    BY <1>2, <1>5
  <2> QED BY <1>7, <2>1, EndsMembers
<1>10. PICK n : n = s[1]
  OBVIOUS
<1>11. \A m \in List : m # l => n \notin ToSet(Walk(m))
  BY <1>1, <1>9, <1>10 DEF LinkInv
<1>12. Becomes(l, r)
  <2>1. /\ l \in List /\ n \in NodeOf[l] /\ h \in Node \cup {Null} /\ t \in Node \cup {Null}
        /\ h = (IF r = <<>> THEN Null ELSE r[1]) /\ t = (IF r = <<>> THEN Null ELSE r[Len(r)])
        /\ ToSet(r) \subseteq ToSet(Walk(l)) \cup {n}
        /\ \A x \in Node : x \notin ToSet(Walk(l)) \cup {n} => next'[x] = next[x] /\ prev'[x] = prev[x]
    BY <1>1, <1>2, <1>5, <1>7, <1>8, <1>9, <1>10
  <2>2. Pointers(next') /\ Pointers(prev') /\ Chained(l, next', prev', r)
    BY <1>2, <1>4, <1>8
  <2> QED BY <1>8, <1>11, <2>1, <2>2, CallBecomes
<1> QED BY <1>1, <1>3, <1>12

\* ... and the other way round.
LEMMA BackwardBecomes ==
  ASSUME LinkListAssumption, LinkInv, NEW l \in List \ Double, Backward(l)
  PROVE  Becomes(l, PivotBackward(Walk(l)))
<1>1. PICK s : s = Walk(l)
  OBVIOUS
<1>2. /\ s # <<>> /\ Chained(l, next, prev, s) /\ s \in Seq(Node) /\ Len(s) \in Nat \ {0}
      /\ Pointers(next) /\ Pointers(prev) /\ head[l] = s[1] /\ tail[l] = s[Len(s)]
      /\ ToSet(s) \subseteq NodeOf[l]
  BY <1>1, ListOf DEF Backward
<1>3. PICK r : r = PivotBackward(s)
  OBVIOUS
<1>4. Chained(l, next, prev, r)
  <2>1. PICK nx, pv : nx = next /\ pv = prev
    OBVIOUS
  <2>2. Chained(l, nx, pv, s) /\ l \notin Double
    BY <1>2, <2>1
  <2> QED BY <1>2, <1>3, <2>1, <2>2, BackwardChained
<1>5. /\ r \in Seq(Node) /\ Len(r) = Len(s) /\ r # <<>> /\ r[1] = s[Len(s)]
      /\ r[Len(r)] = (IF Len(s) = 1 THEN s[1] ELSE s[Len(s) - 1])
      /\ \A i \in 1 .. Len(s) : r[i] = IF i = 1 THEN s[Len(s)] ELSE s[i - 1]
  <2>4. 1 \in 1 .. Len(s) /\ Len(s) \in 1 .. Len(s)
    BY <1>2, Ends
  <2>5. s \in Seq(Node) /\ s # <<>>
    BY <1>2
  <2>6. PivotBackward(s) \in Seq(Node) /\ Len(PivotBackward(s)) = Len(s)
    BY <2>5, PivotElements
  <2>7. \A i \in 1 .. Len(s) : PivotBackward(s)[i] = IF i = 1 THEN s[Len(s)] ELSE s[i - 1]
    BY <2>5, PivotElements
  <2>1. 1 \in 1 .. Len(s) /\ Len(s) \in 1 .. Len(s) /\ r \in Seq(Node) /\ Len(r) = Len(s)
        /\ \A i \in 1 .. Len(s) : r[i] = IF i = 1 THEN s[Len(s)] ELSE s[i - 1]
    BY <1>3, <2>4, <2>6, <2>7
  <2>2. r[1] = s[Len(s)] /\ r[Len(s)] = (IF Len(s) = 1 THEN s[1] ELSE s[Len(s) - 1])
    BY <2>1
  <2>3. r # <<>>
    BY <1>2, <2>1
  <2> QED BY <2>1, <2>2, <2>3
<1>6. prev[s[1]] = s[Len(s)] /\ prev[s[Len(s)]] = r[Len(r)]
  <2>1. 1 \in 1 .. Len(s) /\ Len(s) \in 1 .. Len(s) /\ (1 < Len(s) \/ Len(s) = 1)
    BY <1>2, Ends
  <2>2. prev[s[1]] = Before(l, s, 1) /\ prev[s[Len(s)]] = Before(l, s, Len(s))
    BY <1>2, <2>1 DEF Chained
  <2> QED BY <1>5, <2>1, <2>2 DEF Before
<1>7. PICK h, t : h = r[1] /\ t = r[Len(r)]
  OBVIOUS
<1>8. head' = [head EXCEPT ![l] = h] /\ tail' = [tail EXCEPT ![l] = t] /\ next' = next /\ prev' = prev
  <2>1. prev[head[l]] = h /\ prev[tail[l]] = t
    BY <1>2, <1>5, <1>6, <1>7
  <2> QED BY <2>1 DEF Backward
<1>9. s[1] \in ToSet(s) /\ h \in Node /\ t \in Node
  <2>1. s \in Seq(Node) /\ s # <<>> /\ r \in Seq(Node) /\ r # <<>>
    BY <1>2, <1>5
  <2> QED BY <1>7, <2>1, EndsMembers
<1>10. PICK n : n = s[1]
  OBVIOUS
<1>11. \A m \in List : m # l => n \notin ToSet(Walk(m))
  BY <1>1, <1>9, <1>10 DEF LinkInv
<1>12. ToSet(r) \subseteq ToSet(s)
  <2>1. DOMAIN r = 1 .. Len(s) /\ DOMAIN s = 1 .. Len(s)
    BY <1>2, <1>5
  <2>2. ASSUME NEW i \in 1 .. Len(s) PROVE r[i] \in ToSet(s)
    <3>1. Len(s) \in 1 .. Len(s) /\ (i # 1 => i - 1 \in 1 .. Len(s))
      BY <1>2
    <3> QED BY <1>5, <2>1, <3>1 DEF ToSet
  <2> QED BY <2>1, <2>2 DEF ToSet
<1>13. Becomes(l, r)
  <2>1. /\ l \in List /\ n \in NodeOf[l] /\ h \in Node \cup {Null} /\ t \in Node \cup {Null}
        /\ h = (IF r = <<>> THEN Null ELSE r[1]) /\ t = (IF r = <<>> THEN Null ELSE r[Len(r)])
        /\ ToSet(r) \subseteq ToSet(Walk(l)) \cup {n}
        /\ \A x \in Node : x \notin ToSet(Walk(l)) \cup {n} => next'[x] = next[x] /\ prev'[x] = prev[x]
    BY <1>1, <1>2, <1>5, <1>7, <1>8, <1>9, <1>10, <1>12
  <2>2. Pointers(next') /\ Pointers(prev') /\ Chained(l, next', prev', r)
    BY <1>2, <1>4, <1>8
  <2> QED BY <1>8, <1>11, <2>1, <2>2, CallBecomes
<1> QED BY <1>1, <1>3, <1>13

\* Where the code stops in a list that is not empty.
LEMMA StopsThere ==
  ASSUME LinkListAssumption, LinkInv, NEW l \in List \ Double, NEW s, s = Walk(l), s # <<>>, NEW p,
         NEW q, q = InsertPosition(s, p, Priority)
  PROVE  StopsBefore(StopsAt(l, p), s, p, Priority, q)
<1>1. PICK nx, pv, t, h : nx = next /\ pv = prev /\ t = tail[l] /\ h = head[l]
  OBVIOUS
<1>2. l \notin Double /\ Chained(l, nx, pv, s) /\ t = s[Len(s)] /\ h = s[1]
  BY <1>1, ListOf
<1>3. PICK f : f = CHOOSE g : IsStop(g, nx, ToSet(s), t, p, Priority)
  OBVIOUS
<1>4. IsStop(f, nx, ToSet(s), t, p, Priority)
  <2>1. \E g : IsStop(g, nx, ToSet(s), t, p, Priority)
    BY <1>2, StopExists
  <2> QED BY <1>3, <2>1
<1>5. StopsAt(l, p) = f[s[1]]
  BY <1>1, <1>2, <1>3 DEF StopsAt, IsStop
<1>6. StopsBefore(f[s[1]], s, p, Priority, q)
  BY <1>2, <1>4, StopIs
<1> QED BY <1>5, <1>6

\* What AddPriority does.
LEMMA AddPriorityBecomes ==
  ASSUME LinkListAssumption, LinkInv, NEW l \in List \ Double, NEW n \in NodeOf[l], AddPriority(l, n)
  PROVE  Becomes(l, ListAddPriority(Walk(l), n, Priority))
<1>1. PICK s : s = Walk(l)
  OBVIOUS
<1>2. CASE s = <<>>
  <2>1. head[l] = Null
    BY <1>1, <1>2, ListOf
  <2>2. Add(l, n)
    BY <2>1 DEF AddPriority
  <2>3. Becomes(l, <<n>>)
    BY <2>1, <2>2, AddToEmpty
  <2> QED BY <1>1, <1>2, <2>3 DEF ListAddPriority
<1>3. CASE s # <<>>
  <2>1. /\ Chained(l, next, prev, s) /\ s \in Seq(Node) /\ Len(s) \in Nat \ {0}
        /\ Pointers(next) /\ Pointers(prev) /\ head[l] = s[1] /\ tail[l] = s[Len(s)] /\ head[l] # Null
        /\ head[l] \in Node /\ tail[l] \in Node /\ head[l] \in ToSet(s) /\ tail[l] \in ToSet(s)
        /\ head[l] # Null
    BY <1>1, <1>3, ListOf
  <2>2. n \in Node /\ n \notin ToSet(s) /\ \A m \in List : m # l => n \notin ToSet(Walk(m))
    BY <1>1, <2>1, FreeNode DEF AddPriority
  <2>3. PICK at, nx, pv, nxt, prv, q :
          /\ at = StopsAt(l, Priority[n]) /\ nx = next /\ pv = prev /\ nxt = next' /\ prv = prev'
          /\ q = InsertPosition(s, Priority[n], Priority)
    OBVIOUS
  <2>4. /\ q \in 1 .. Len(s) + 1 /\ at = (IF q <= Len(s) THEN s[q] ELSE s[1])
        /\ (Priority[n] > Priority[s[1]] <=> q = 1)
        /\ (q = Len(s) + 1 => Len(s) = 1)
    BY <1>1, <1>3, <2>3, StopsThere DEF StopsBefore
  <2>5. LinksBefore(nxt, prv, nx, pv, n, at)
    BY <2>1, <2>3 DEF AddPriority, InsertNodeBefore, LinksBefore
  <2>6. PICK r : r = InsertAt(s, q, n)
    OBVIOUS
  <2>7. Chained(l, nxt, prv, r) /\ Pointers(nxt) /\ Pointers(prv)
    <3>1. l \notin Double /\ Pointers(nx) /\ Pointers(pv) /\ Chained(l, nx, pv, s)
      BY <2>1, <2>3
    <3> QED BY <1>3, <2>2, <2>4, <2>5, <2>6, <3>1, InsertChained
  <2>8. r \in Seq(Node) /\ IsInserted(r, s, q, n) /\ ToSet(r) = ToSet(s) \cup {n}
    BY <2>1, <2>2, <2>4, <2>6, Inserted, InsertFacts
  <2>9. /\ Len(r) = Len(s) + 1 /\ r # <<>> /\ r[1] = (IF q = 1 THEN n ELSE s[1])
        /\ r[Len(s) + 1] = (IF q = Len(s) + 1 THEN n ELSE s[Len(s)])
    <3>1. 1 \in 1 .. Len(s) + 1 /\ Len(s) + 1 \in 1 .. Len(s) + 1 /\ (Len(s) + 1) - 1 = Len(s)
      BY <2>1
    <3>2. 1 < q <=> q # 1
      BY <2>1, <2>4
    <3>3. ~(Len(s) + 1 < q)
      BY <2>1, <2>4
    <3>4. Len(r) = Len(s) + 1 /\ r # <<>>
      BY <2>1, <2>8 DEF IsInserted
    <3>5. r[1] = (IF q = 1 THEN n ELSE s[1])
      BY <2>8, <3>1, <3>2 DEF IsInserted
    <3>6. r[Len(s) + 1] = (IF q = Len(s) + 1 THEN n ELSE s[Len(s)])
      BY <2>8, <3>1, <3>3 DEF IsInserted
    <3> QED BY <3>4, <3>5, <3>6
  <2>10. /\ at \in Node /\ at \in ToSet(s) /\ (at = s[1] <=> (q = 1 \/ q = Len(s) + 1))
         /\ pv[at] \in Node /\ pv[at] \in ToSet(s) /\ (q = 1 => pv[at] = s[Len(s)])
    <3>1. PICK i : i \in 1 .. Len(s) /\ at = s[i] /\ i = (IF q <= Len(s) THEN q ELSE 1)
      BY <2>1, <2>4
    <3>2. IsInjective(s) /\ DOMAIN s = 1 .. Len(s) /\ 1 \in 1 .. Len(s) /\ Len(s) \in 1 .. Len(s)
      BY <2>1, Ends DEF Chained
    <3>3. at = s[1] <=> i = 1
      BY <3>1, <3>2 DEF IsInjective
    <3>4. i = 1 <=> (q = 1 \/ q = Len(s) + 1)
      BY <2>1, <2>4, <3>1
    <3>5. pv[at] = Before(l, s, i)
      BY <2>1, <2>3, <3>1 DEF Chained
    <3>6. PICK j : j \in 1 .. Len(s) /\ Before(l, s, i) = s[j] /\ (i = 1 => j = Len(s))
      <4>1. CASE i > 1
        <5>1. i - 1 \in 1 .. Len(s) /\ Before(l, s, i) = s[i - 1] /\ i # 1
          BY <2>1, <3>1, <4>1 DEF Before
        <5> QED BY <5>1
      <4>2. CASE i = 1
        BY <3>2, <4>2 DEF Before
      <4>3. i > 1 \/ i = 1
        BY <3>1
      <4> QED BY <4>1, <4>2, <4>3
    <3>7. s[i] \in Node /\ s[j] \in Node /\ s[i] \in ToSet(s) /\ s[j] \in ToSet(s)
      <4>1. s[i] \in Node /\ s[j] \in Node
        BY <2>1, <3>1, <3>6
      <4>2. s[i] \in ToSet(s) /\ s[j] \in ToSet(s)
        BY <3>1, <3>2, <3>6 DEF ToSet
      <4> QED BY <4>1, <4>2
    <3>8. at \in Node /\ at \in ToSet(s) /\ (at = s[1] <=> (q = 1 \/ q = Len(s) + 1))
      BY <3>1, <3>3, <3>4, <3>7
    <3>9. pv[at] = s[j] /\ (q = 1 => j = Len(s))
      BY <3>1, <3>4, <3>5, <3>6
    <3> QED BY <3>7, <3>8, <3>9
  <2>11. nxt[n] = at /\ prv[n] = pv[at] /\ nxt = next' /\ prv = prev'
    <3>1. at # n /\ pv[at] # n
      BY <2>2, <2>10
    <3>2. Pointers(nx) /\ Pointers(pv)
      BY <2>1, <2>3
    <3> QED BY <2>2, <2>3, <2>5, <2>10, <3>1, <3>2 DEF Pointers, LinksBefore
  <2>12. PICK h, t : h = r[1] /\ t = r[Len(r)]
    OBVIOUS
  <2>13. head' = [head EXCEPT ![l] = h] /\ tail' = [tail EXCEPT ![l] = t]
    <3>1. head \in [List -> Node \cup {Null}] /\ tail \in [List -> Node \cup {Null}]
      BY DEF LinkInv, PointersOK
    <3>2. CASE q = 1
      <4>1. h = n /\ t = s[Len(s)]
        BY <2>1, <2>9, <2>12, <3>2
      <4>2. head' = [head EXCEPT ![l] = n] /\ tail' = [tail EXCEPT ![l] = prev'[n]]
        BY <2>1, <2>4, <3>2 DEF AddPriority
      <4> QED BY <2>10, <2>11, <3>2, <4>1, <4>2
    <3>3. CASE q # 1
      <4>1. h = s[1] /\ t = (IF q = Len(s) + 1 THEN n ELSE s[Len(s)])
        BY <2>9, <2>12, <3>3
      <4>2. head' = head /\ tail' = IF next'[n] = head[l] THEN [tail EXCEPT ![l] = n] ELSE tail
        BY <2>1, <2>4, <3>3 DEF AddPriority
      <4>3. next'[n] = head[l] <=> q = Len(s) + 1
        BY <2>1, <2>10, <2>11, <3>3
      <4>4. head = [head EXCEPT ![l] = s[1]] /\ tail = [tail EXCEPT ![l] = s[Len(s)]]
        BY <2>1, <3>1
      <4> QED BY <4>1, <4>2, <4>3, <4>4
    <3> QED BY <3>2, <3>3
  <2>14. h \in Node /\ t \in Node
    BY <2>1, <2>2, <2>9, <2>12
  <2>15. \A x \in Node : x \notin ToSet(s) \cup {n} => nxt[x] = nx[x] /\ prv[x] = pv[x]
    <3>1. Pointers(nx) /\ Pointers(pv)
      BY <2>1, <2>3
    <3> QED BY <2>2, <2>5, <2>10, <3>1 DEF Pointers, LinksBefore
  <2>16. Becomes(l, r)
    <3>1. /\ l \in List /\ h \in Node \cup {Null} /\ t \in Node \cup {Null}
          /\ h = (IF r = <<>> THEN Null ELSE r[1]) /\ t = (IF r = <<>> THEN Null ELSE r[Len(r)])
          /\ ToSet(r) \subseteq ToSet(Walk(l)) \cup {n}
          /\ \A x \in Node : x \notin ToSet(Walk(l)) \cup {n} => next'[x] = next[x] /\ prev'[x] = prev[x]
      BY <1>1, <2>3, <2>8, <2>9, <2>12, <2>14, <2>15
    <3>2. Pointers(next') /\ Pointers(prev') /\ Chained(l, next', prev', r)
      BY <2>3, <2>7
    <3> QED BY <2>2, <2>13, <3>1, <3>2, CallBecomes
  <2> QED BY <1>1, <1>3, <2>3, <2>6, <2>16 DEF ListAddPriority
<1> QED BY <1>2, <1>3

\* Following next and following prev are the reverse of each other.
LEMMA BothWays ==
  ASSUME LinkListAssumption, NEW l, NEW nx, NEW pv, NEW s, Chained(l, nx, pv, s),
         NEW i \in 1 .. Len(s), NEW j \in 1 .. Len(s)
  PROVE  nx[s[i]] = s[j] <=> pv[s[j]] = s[i]
<1>1. s \in Seq(Node) /\ IsInjective(s) /\ Len(s) \in Nat \ {0} /\ DOMAIN s = 1 .. Len(s)
      /\ 1 \in 1 .. Len(s) /\ Len(s) \in 1 .. Len(s)
  BY DEF Chained
<1>2. nx[s[i]] = Behind(l, s, i) /\ pv[s[j]] = Before(l, s, j)
  BY DEF Chained
<1>3. \A a, b \in 1 .. Len(s) : s[a] \in Node /\ s[a] # Null /\ (s[a] = s[b] <=> a = b)
  BY <1>1 DEF IsInjective, LinkListAssumption
<1> DEFINE onward == i < Len(s) /\ j = i + 1
           around == i = Len(s) /\ j = 1 /\ l \notin Double
<1>0. i \in Int /\ j \in Int /\ Len(s) \in Int /\ i <= Len(s) /\ j >= 1
  BY <1>1
<1>4. Behind(l, s, i) = s[j] <=> (onward \/ around)
  <2>1. CASE i < Len(s)
    <3>1. i + 1 \in 1 .. Len(s) /\ i # Len(s)
      BY <1>0, <2>1
    <3>2. Behind(l, s, i) = s[i + 1]
      BY <2>1 DEF Behind
    <3> QED BY <1>3, <2>1, <3>1, <3>2
  <2>2. CASE i = Len(s)
    <3>1. ~(i < Len(s))
      BY <1>0, <2>2
    <3>2. Behind(l, s, i) = IF l \in Double THEN Null ELSE s[1]
      BY <3>1 DEF Behind
    <3> QED BY <1>1, <1>3, <2>2, <3>1, <3>2
  <2>3. i < Len(s) \/ i = Len(s)
    BY <1>0
  <2> QED BY <2>1, <2>2, <2>3
<1>5. Before(l, s, j) = s[i] <=> (onward \/ around)
  <2>1. CASE j > 1
    <3>1. j - 1 \in 1 .. Len(s) /\ j # 1 /\ (onward <=> i = j - 1)
      BY <1>0, <2>1
    <3>2. Before(l, s, j) = s[j - 1]
      BY <2>1 DEF Before
    <3> HIDE DEF onward
    <3> QED BY <1>3, <3>1, <3>2
  <2>2. CASE j = 1
    <3>1. ~(j > 1) /\ ~onward
      BY <1>0, <2>2
    <3>2. Before(l, s, j) = IF l \in Double THEN Null ELSE s[Len(s)]
      BY <3>1 DEF Before
    <3> HIDE DEF onward
    <3> QED BY <1>1, <1>3, <2>2, <3>1, <3>2
  <2>3. j > 1 \/ j = 1
    BY <1>0
  <2> HIDE DEF onward, around
  <2> QED BY <2>1, <2>2, <2>3
<1> HIDE DEF onward, around
<1> QED BY <1>2, <1>4, <1>5

\* The node is taken out between its neighbours.
Unlinked(l, n) ==
  /\ next' = [m \in Node |-> IF m = n THEN Null ELSE IF m = prev[n] THEN next[n] ELSE next[m]]
  /\ prev' = [m \in Node |-> IF m = n THEN Null ELSE IF m = next[n] THEN prev[n] ELSE prev[m]]
  /\ head' = [head EXCEPT ![l] = IF head[l] = n THEN next[n] ELSE head[l]]
  /\ tail' = [tail EXCEPT ![l] = IF tail[l] = n THEN prev[n] ELSE tail[l]]

\* Neighbours are on the same list.
LEMMA NeighboursIn ==
  ASSUME NEW l, NEW nx, NEW pv, NEW s, Chained(l, nx, pv, s), NEW i \in 1 .. Len(s)
  PROVE  nx[s[i]] \in ToSet(s) \cup {Null} /\ pv[s[i]] \in ToSet(s) \cup {Null}
<1>1. s \in Seq(Node) /\ Len(s) \in Nat \ {0} /\ DOMAIN s = 1 .. Len(s)
      /\ 1 \in 1 .. Len(s) /\ Len(s) \in 1 .. Len(s)
  BY DEF Chained
<1>2. \A j \in 1 .. Len(s) : s[j] \in ToSet(s)
  BY <1>1 DEF ToSet
<1>3. Behind(l, s, i) \in ToSet(s) \cup {Null}
  <2>1. i < Len(s) => i + 1 \in 1 .. Len(s)
    BY <1>1
  <2> QED BY <1>1, <1>2, <2>1 DEF Behind
<1>4. Before(l, s, i) \in ToSet(s) \cup {Null}
  <2>1. i > 1 => i - 1 \in 1 .. Len(s)
    BY <1>1
  <2> QED BY <1>1, <1>2, <2>1 DEF Before
<1> QED BY <1>3, <1>4 DEF Chained

\* The ends of what is left.
LEMMA EndsLeft ==
  ASSUME LinkListAssumption, NEW l, NEW nx, NEW pv, NEW s, Chained(l, nx, pv, s),
         NEW n \in ToSet(s), NEW p, p = Position(s, n), l \in Double \/ Len(s) > 1,
         NEW r, r = ListRemove(s, n)
  PROVE  /\ (IF s[1] = n THEN nx[n] ELSE s[1]) = IF r = <<>> THEN Null ELSE r[1]
         /\ (IF s[Len(s)] = n THEN pv[n] ELSE s[Len(s)]) = IF r = <<>> THEN Null ELSE r[Len(r)]
<1>1. s \in Seq(Node) /\ IsInjective(s) /\ Len(s) \in Nat /\ DOMAIN s = 1 .. Len(s)
  BY DEF Chained
<1>2. p \in 1 .. Len(s) /\ s[p] = n
  BY <1>1, PositionFacts
<1>3. IsRemoved(r, s, p)
  BY <1>1, Removed
<1>4. Len(s) \in Nat \ {0} /\ Len(s) \in Int /\ p \in Int /\ p >= 1 /\ p <= Len(s)
  BY <1>1, <1>2
<1>5. 1 \in 1 .. Len(s) /\ Len(s) \in 1 .. Len(s)
  BY <1>4
<1>6. (s[1] = n <=> p = 1) /\ (s[Len(s)] = n <=> p = Len(s))
  BY <1>1, <1>2, <1>5 DEF IsInjective
<1>7. nx[n] = Behind(l, s, p) /\ pv[n] = Before(l, s, p)
  BY <1>2 DEF Chained
<1>8. CASE Len(s) = 1
  <2>1. p = 1 /\ p = Len(s) /\ l \in Double /\ ~(p < Len(s)) /\ ~(p > 1)
    BY <1>4, <1>8
  <2>2. nx[n] = Null /\ pv[n] = Null
    BY <1>7, <2>1 DEF Behind, Before
  <2>3. r = <<>>
    <3>1. r \in Seq(Node) /\ Len(r) = 0
      BY <1>3, <1>8 DEF IsRemoved
    <3> QED BY <3>1
  <2> QED BY <1>6, <2>1, <2>2, <2>3
<1>9. CASE Len(s) > 1
  <2>1. r \in Seq(Node) /\ Len(r) = Len(s) - 1 /\ r # <<>>
    BY <1>3, <1>4, <1>9 DEF IsRemoved
  <2>2. 1 \in 1 .. Len(s) - 1 /\ Len(s) - 1 \in 1 .. Len(s) - 1 /\ (Len(s) - 1) + 1 = Len(s)
    BY <1>4, <1>9
  <2>3. r[1] = IF 1 < p THEN s[1] ELSE s[2]
    BY <1>3, <2>2 DEF IsRemoved
  <2>4. r[Len(s) - 1] = IF Len(s) - 1 < p THEN s[Len(s) - 1] ELSE s[Len(s)]
    BY <1>3, <2>2 DEF IsRemoved
  <2>5. (1 < p <=> p # 1) /\ (Len(s) - 1 < p <=> p = Len(s))
    BY <1>4
  <2>6. p = 1 => nx[n] = s[2]
    BY <1>7, <1>9 DEF Behind
  <2>7. p = Len(s) => pv[n] = s[Len(s) - 1]
    BY <1>7, <1>9 DEF Before
  <2> QED BY <1>6, <2>1, <2>3, <2>4, <2>5, <2>6, <2>7
<1>10. Len(s) = 1 \/ 1 < Len(s)
  BY <1>4, Ends
<1> QED BY <1>8, <1>9, <1>10

\* An unlinked node is gone from its list, unless it was alone in a circular one.
LEMMA UnlinkBecomes ==
  ASSUME LinkListAssumption, LinkInv, NEW l \in List, NEW n \in ToSet(Walk(l)),
         l \in Double \/ Len(Walk(l)) > 1, Unlinked(l, n)
  PROVE  Becomes(l, ListRemove(Walk(l), n))
<1>1. PICK s : s = Walk(l)
  OBVIOUS
<1>2. /\ Chained(l, next, prev, s) /\ s \in Seq(Node) /\ Len(s) \in Nat /\ DOMAIN s = 1 .. Len(s)
      /\ Pointers(next) /\ Pointers(prev) /\ ToSet(s) \subseteq NodeOf[l] /\ NodeOf[l] \subseteq Node
  BY <1>1, ListOf
<1>3. n \in ToSet(s) /\ s # <<>> /\ n \in NodeOf[l] /\ n \in Node
  BY <1>1, <1>2 DEF ToSet
<1>4. head[l] = s[1] /\ tail[l] = s[Len(s)]
  BY <1>1, <1>3, ListOf
<1>5. PICK nx, pv, nxt, prv, p, r :
        /\ nx = next /\ pv = prev /\ nxt = next' /\ prv = prev'
        /\ p = Position(s, n) /\ r = ListRemove(s, n)
  OBVIOUS
<1>6. /\ Chained(l, nx, pv, s) /\ Pointers(nx) /\ Pointers(pv) /\ IsInjective(s)
      /\ nx[n] \in Node \cup {Null} /\ pv[n] \in Node \cup {Null}
  BY <1>2, <1>3, <1>5 DEF Chained, Pointers
<1>7. p \in 1 .. Len(s) /\ s[p] = n
  BY <1>2, <1>3, <1>5, <1>6, PositionFacts
<1>8. /\ nxt = [m \in Node |-> IF m = n THEN Null ELSE IF m = pv[n] THEN nx[n] ELSE nx[m]]
      /\ prv = [m \in Node |-> IF m = n THEN Null ELSE IF m = nx[n] THEN pv[n] ELSE pv[m]]
  BY <1>5 DEF Unlinked
<1>9. Pointers(nxt) /\ Pointers(prv)
  BY <1>6, <1>8 DEF Pointers
<1>10. Unlinks(nxt, prv, nx, pv, s, p)
  <2>1. ASSUME NEW i \in 1 .. Len(s), i # p
        PROVE  /\ nxt[s[i]] = IF nx[s[i]] = s[p] THEN nx[s[p]] ELSE nx[s[i]]
               /\ prv[s[i]] = IF pv[s[i]] = s[p] THEN pv[s[p]] ELSE pv[s[i]]
    <3>1. s[i] \in Node /\ s[i] # n
      <4>1. s \in [1 .. Len(s) -> Node] /\ DOMAIN s = 1 .. Len(s)
        BY <1>2
      <4>2. \A a, b \in DOMAIN s : s[a] = s[b] => a = b
        BY <1>6 DEF IsInjective
      <4> QED BY <1>7, <2>1, <4>1, <4>2
    <3>2. nx[s[i]] = s[p] <=> pv[s[p]] = s[i]
      BY <1>6, <1>7, BothWays
    <3>3. nx[s[p]] = s[i] <=> pv[s[i]] = s[p]
      BY <1>6, <1>7, BothWays
    <3>4. /\ nxt[s[i]] = IF s[i] = pv[n] THEN nx[n] ELSE nx[s[i]]
          /\ prv[s[i]] = IF s[i] = nx[n] THEN pv[n] ELSE pv[s[i]]
      BY <1>8, <3>1
    <3> QED BY <1>7, <3>2, <3>3, <3>4
  <2> QED BY <2>1 DEF Unlinks
<1>11. Chained(l, nxt, prv, r)
  <2>1. l \in Double \/ Len(s) > 1
    BY <1>1
  <2> QED BY <1>3, <1>5, <1>6, <1>10, <2>1, UnlinkChained
<1>12. PICK h, t : /\ h = (IF s[1] = n THEN nx[n] ELSE s[1])
                   /\ t = (IF s[Len(s)] = n THEN pv[n] ELSE s[Len(s)])
  OBVIOUS
<1>13. h = (IF r = <<>> THEN Null ELSE r[1]) /\ t = (IF r = <<>> THEN Null ELSE r[Len(r)])
  <2>1. l \in Double \/ Len(s) > 1
    BY <1>1
  <2>2. /\ (IF s[1] = n THEN nx[n] ELSE s[1]) = IF r = <<>> THEN Null ELSE r[1]
        /\ (IF s[Len(s)] = n THEN pv[n] ELSE s[Len(s)]) = IF r = <<>> THEN Null ELSE r[Len(r)]
    BY <1>3, <1>5, <1>6, <2>1, EndsLeft
  <2> QED BY <1>12, <2>2
<1>14. head' = [head EXCEPT ![l] = h] /\ tail' = [tail EXCEPT ![l] = t]
  BY <1>4, <1>5, <1>12 DEF Unlinked
<1>15. h \in Node \cup {Null} /\ t \in Node \cup {Null}
  <2>1. s[1] \in Node /\ s[Len(s)] \in Node
    BY <1>2, <1>3
  <2> QED BY <1>6, <1>12, <2>1
<1>16. ToSet(r) \subseteq ToSet(s)
  BY <1>2, <1>3, <1>5, <1>6, ListRemoveFacts
<1>17. \A x \in Node : x \notin ToSet(s) \cup {n} => nxt[x] = nx[x] /\ prv[x] = pv[x]
  <2>1. nx[n] \in ToSet(s) \cup {Null} /\ pv[n] \in ToSet(s) \cup {Null}
    BY <1>6, <1>7, NeighboursIn
  <2>2. Null \notin Node
    BY DEF LinkListAssumption
  <2> QED BY <1>8, <2>1, <2>2
<1>18. \A m \in List : m # l => n \notin ToSet(Walk(m))
  BY <1>1, <1>3 DEF LinkInv
<1>19. Becomes(l, r)
  <2>1. /\ l \in List /\ n \in NodeOf[l]
        /\ ToSet(r) \subseteq ToSet(Walk(l)) \cup {n}
        /\ \A x \in Node : x \notin ToSet(Walk(l)) \cup {n} => next'[x] = next[x] /\ prev'[x] = prev[x]
    BY <1>1, <1>3, <1>5, <1>16, <1>17
  <2>2. Pointers(next') /\ Pointers(prev') /\ Chained(l, next', prev', r)
    BY <1>5, <1>9, <1>11
  <2> QED BY <1>13, <1>14, <1>15, <1>18, <2>1, <2>2, CallBecomes
<1> QED BY <1>1, <1>5, <1>19

\* The only node of a list.
LEMMA AloneIs ==
  ASSUME NEW S, NEW s \in Seq(S), IsInjective(s), NEW n \in ToSet(s)
  PROVE  /\ (s[1] = n /\ s[Len(s)] = n <=> Len(s) = 1)
         /\ (Len(s) = 1 \/ Len(s) > 1) /\ (Len(s) = 1 => ListRemove(s, n) = <<>>)
<1>1. Len(s) \in Nat \ {0} /\ DOMAIN s = 1 .. Len(s)
  BY DEF ToSet
<1>2. 1 \in 1 .. Len(s) /\ Len(s) \in 1 .. Len(s) /\ (Len(s) = 1 \/ 1 < Len(s))
  BY <1>1, Ends
<1>3. s[1] = s[Len(s)] <=> Len(s) = 1
  BY <1>1, <1>2 DEF IsInjective
<1>4. Len(s) = 1 => s[1] = n
  BY <1>1 DEF ToSet
<1>5. ASSUME Len(s) = 1 PROVE ListRemove(s, n) = <<>>
  <2>1. ListRemove(s, n) \in Seq(S) /\ Len(ListRemove(s, n)) = Len(s) - 1
    BY ListRemoveElements
  <2> QED BY <1>5, <2>1
<1> QED BY <1>2, <1>3, <1>4, <1>5

\* The only node of a circular list keeps its pointers and is on no list.
LEMMA DeleteAloneBecomes ==
  ASSUME LinkListAssumption, LinkInv, NEW l \in List \ Double, NEW n \in NodeOf[l], Delete(l, n),
         Len(Walk(l)) = 1
  PROVE  Becomes(l, ListRemove(Walk(l), n))
<1>1. PICK s : s = Walk(l)
  OBVIOUS
<1>2. /\ s \in Seq(Node) /\ n \in ToSet(s) /\ IsInjective(s) /\ s # <<>> /\ Len(s) = 1
      /\ Pointers(next) /\ Pointers(prev) /\ n \in Node
  <2>1. n \in ToSet(s) /\ Len(s) = 1
    BY <1>1 DEF Delete
  <2>2. s # <<>>
    BY <2>1 DEF ToSet
  <2>3. /\ Chained(l, next, prev, s) /\ ToSet(s) \subseteq Node
        /\ Pointers(next) /\ Pointers(prev)
    BY <1>1, ListOf
  <2> QED BY <2>1, <2>2, <2>3 DEF Chained
<1>3. head[l] = n /\ tail[l] = n /\ ListRemove(s, n) = <<>>
  BY <1>1, <1>2, ListOf, AloneIs
<1>4. /\ head' = [head EXCEPT ![l] = Null] /\ tail' = [tail EXCEPT ![l] = Null]
      /\ next' = next /\ prev' = prev
  BY <1>3 DEF Delete
<1> DEFINE r == <<>>
<1>5. r \in Seq(Node) /\ Len(r) = 0 /\ DOMAIN r = {} /\ ToSet(r) = {}
  BY DEF ToSet
<1>6. Chained(l, next', prev', r)
  <2>1. 1 .. 0 = {}
    OBVIOUS
  <2> HIDE DEF r
  <2> QED BY <1>5, <2>1 DEF Chained, IsInjective
<1>7. \A m \in List : m # l => n \notin ToSet(Walk(m))
  BY <1>1, <1>2 DEF LinkInv
<1>8. /\ Null = (IF r = <<>> THEN Null ELSE r[1]) /\ Null = (IF r = <<>> THEN Null ELSE r[Len(r)])
      /\ Null \in Node \cup {Null}
  OBVIOUS
<1> HIDE DEF r
<1>9. Becomes(l, r)
  <2>1. /\ l \in List
        /\ ToSet(r) \subseteq ToSet(Walk(l)) \cup {n}
        /\ \A x \in Node : x \notin ToSet(Walk(l)) \cup {n} => next'[x] = next[x] /\ prev'[x] = prev[x]
    BY <1>4, <1>5
  <2>2. Pointers(next') /\ Pointers(prev')
    BY <1>2, <1>4
  <2> QED BY <1>4, <1>6, <1>7, <1>8, <2>1, <2>2, CallBecomes
<1> QED BY <1>1, <1>3, <1>9 DEF r

\* What Delete does.
LEMMA DeleteBecomes ==
  ASSUME LinkListAssumption, LinkInv, NEW l \in List \ Double, NEW n \in NodeOf[l], Delete(l, n)
  PROVE  Becomes(l, ListRemove(Walk(l), n))
<1>1. PICK s : s = Walk(l)
  OBVIOUS
<1>2. /\ Chained(l, next, prev, s) /\ s \in Seq(Node) /\ n \in ToSet(s) /\ IsInjective(s) /\ s # <<>>
      /\ Pointers(next) /\ Pointers(prev) /\ n \in Node /\ DOMAIN s = 1 .. Len(s)
      /\ head[l] = s[1] /\ tail[l] = s[Len(s)]
  <2>1. n \in ToSet(s)
    BY <1>1 DEF Delete
  <2>2. s # <<>>
    BY <2>1 DEF ToSet
  <2>3. Chained(l, next, prev, s) /\ ToSet(s) \subseteq Node /\ Pointers(next) /\ Pointers(prev)
        /\ head[l] = s[1] /\ tail[l] = s[Len(s)]
    BY <1>1, <2>2, ListOf
  <2> QED BY <2>1, <2>2, <2>3 DEF Chained
<1>3. CASE Len(s) = 1
  BY <1>1, <1>3, DeleteAloneBecomes
<1>4. CASE Len(s) # 1
  <2>1. ~(head[l] = n /\ tail[l] = n)
    BY <1>2, <1>4, AloneIs
  <2>2. PICK i \in 1 .. Len(s) : n = s[i]
    BY <1>2 DEF ToSet
  <2>3. next[n] \in Node /\ prev[n] \in Node
    <3>1. next[n] = Behind(l, s, i) /\ prev[n] = Before(l, s, i)
      BY <1>2, <2>2 DEF Chained
    <3>2. 1 \in 1 .. Len(s) /\ Len(s) \in 1 .. Len(s) /\ (i < Len(s) => i + 1 \in 1 .. Len(s))
          /\ (i > 1 => i - 1 \in 1 .. Len(s))
      <4>1. Len(s) \in Nat \ {0} /\ i \in Nat
        BY <1>2
      <4>2. 1 \in 1 .. Len(s) /\ Len(s) \in 1 .. Len(s)
        BY <4>1, Ends
      <4> QED BY <4>1, <4>2
    <3>3. \A j \in 1 .. Len(s) : s[j] \in Node
      BY <1>2
    <3> QED BY <3>1, <3>2, <3>3 DEF Behind, Before
  <2>4. PICK nxt, prv : nxt = [next EXCEPT ![prev[n]] = next[n]] /\ prv = [prev EXCEPT ![next[n]] = prev[n]]
    OBVIOUS
  <2>5. /\ head' = IF n = head[l] THEN [head EXCEPT ![l] = nxt[n]] ELSE head
        /\ tail' = IF n = tail[l] THEN [tail EXCEPT ![l] = prv[n]] ELSE tail
        /\ next' = [nxt EXCEPT ![n] = Null] /\ prev' = [prv EXCEPT ![n] = Null]
    BY <2>1, <2>4 DEF Delete
  <2>6. nxt[n] = next[n] /\ prv[n] = prev[n]
    BY <1>2, <2>3, <2>4 DEF Pointers
  <2>7. /\ next' = [m \in Node |-> IF m = n THEN Null ELSE IF m = prev[n] THEN next[n] ELSE next[m]]
        /\ prev' = [m \in Node |-> IF m = n THEN Null ELSE IF m = next[n] THEN prev[n] ELSE prev[m]]
    BY <1>2, <2>3, <2>4, <2>5 DEF Pointers
  <2>8. /\ head' = [head EXCEPT ![l] = IF head[l] = n THEN next[n] ELSE head[l]]
        /\ tail' = [tail EXCEPT ![l] = IF tail[l] = n THEN prev[n] ELSE tail[l]]
    <3>1. head = [head EXCEPT ![l] = head[l]] /\ tail = [tail EXCEPT ![l] = tail[l]]
      BY DEF LinkInv, PointersOK
    <3> QED BY <2>5, <2>6, <3>1
  <2>9. Unlinked(l, n)
    BY <2>7, <2>8 DEF Unlinked
  <2>10. Len(s) > 1
    BY <1>2, <1>4, AloneIs
  <2> QED BY <1>1, <1>2, <2>9, <2>10, UnlinkBecomes
<1> QED BY <1>3, <1>4

\* What Add of a DoubleLinkList does.
LEMMA DoubleAddBecomes ==
  ASSUME LinkListAssumption, LinkInv, NEW l \in Double, NEW n \in NodeOf[l], DoubleAdd(l, n)
  PROVE  Becomes(l, Append(Walk(l), n))
<1>1. PICK s, r : s = Walk(l) /\ r = Append(s, n)
  OBVIOUS
<1>2. l \in List
  BY DEF LinkListAssumption
<1>3. /\ Chained(l, next, prev, s) /\ s \in Seq(Node) /\ Pointers(next) /\ Pointers(prev)
      /\ ToSet(s) \subseteq NodeOf[l]
  BY <1>1, <1>2, ListOf
<1>4. /\ n \in Node /\ n # Null /\ n \notin ToSet(s) /\ next[n] = Null /\ prev[n] = Null
      /\ \A m \in List : m # l => n \notin ToSet(Walk(m))
  BY <1>1, <1>2, FreeNode DEF DoubleAdd, Cleared
<1>5. r \in Seq(Node) /\ r # <<>> /\ ToSet(r) = ToSet(s) \cup {n} /\ r[Len(r)] = n
      /\ r[1] = (IF s = <<>> THEN n ELSE s[1])
  <2>1. r \in Seq(Node) /\ r # <<>> /\ r[Len(r)] = n
    <3>1. s \in Seq(Node) /\ n \in Node /\ r = Append(s, n)
      BY <1>1, <1>3, <1>4
    <3>2. r \in Seq(Node) /\ Len(r) = Len(s) + 1 /\ r[Len(s) + 1] = n
      BY <3>1
    <3>3. r # <<>>
      BY <3>1
    <3> QED BY <3>2, <3>3
  <2>2. r[1] = (IF s = <<>> THEN n ELSE s[1])
    BY <1>1, <1>3, <1>4
  <2>3. ToSet(r) = ToSet(s) \cup {n}
    BY <1>1, <1>3, <1>4, AppendMembers
  <2> QED BY <2>1, <2>2, <2>3
<1>6. tail' = [tail EXCEPT ![l] = n]
  BY DEF DoubleAdd
<1>7. PICK h : h = r[1]
  OBVIOUS
<1>8. /\ head' = [head EXCEPT ![l] = h] /\ h \in Node
      /\ Chained(l, next', prev', r) /\ Pointers(next') /\ Pointers(prev')
      /\ \A x \in Node : x \notin ToSet(s) \cup {n} => next'[x] = next[x] /\ prev'[x] = prev[x]
  <2>1. CASE s = <<>>
    <3>1. head[l] = Null
      BY <1>1, <1>2, <2>1, ListOf
    <3>2. head' = [head EXCEPT ![l] = n] /\ next' = next /\ prev' = prev
      BY <3>1 DEF DoubleAdd
    <3>3. Chained(l, next', prev', <<n>>)
      BY <1>4, <3>2, AloneChained
    <3>4. r = <<n>>
      BY <1>1, <2>1
    <3> QED BY <1>3, <1>4, <1>5, <1>7, <2>1, <3>2, <3>3, <3>4
  <2>2. CASE s # <<>>
    <3>1. head[l] # Null /\ tail[l] = s[Len(s)] /\ tail[l] \in ToSet(s) /\ head[l] = s[1] /\ head[l] \in Node
      BY <1>1, <1>2, <2>2, ListOf
    <3>2. PICK t, nx, pv, nxt, prv : t = tail[l] /\ nx = next /\ pv = prev /\ nxt = next' /\ prv = prev'
      OBVIOUS
    <3>3. nxt = [nx EXCEPT ![t] = n] /\ prv = [pv EXCEPT ![n] = t] /\ head' = head
      BY <3>1, <3>2 DEF DoubleAdd
    <3>4. Chained(l, nxt, prv, Append(s, n)) /\ Pointers(nxt) /\ Pointers(prv)
      <4>1. Chained(l, nx, pv, s) /\ Pointers(nx) /\ Pointers(pv) /\ nx[n] = Null /\ t = s[Len(s)]
        BY <1>3, <1>4, <3>1, <3>2
      <4> QED BY <1>3, <1>4, <2>2, <3>3, <4>1, AppendChained
    <3>5. \A x \in Node : x \notin ToSet(s) \cup {n} => nxt[x] = nx[x] /\ prv[x] = pv[x]
      BY <1>3, <3>1, <3>2, <3>3 DEF Pointers
    <3>6. head' = [head EXCEPT ![l] = h] /\ h \in Node
      <4>1. h = head[l] /\ head = [head EXCEPT ![l] = head[l]]
        BY <1>5, <1>7, <2>2, <3>1 DEF LinkInv, PointersOK
      <4> QED BY <3>1, <3>3, <4>1
    <3> QED BY <1>1, <3>2, <3>4, <3>5, <3>6
  <2> QED BY <2>1, <2>2
<1>9. Becomes(l, r)
  <2>1. /\ h \in Node \cup {Null} /\ n \in Node \cup {Null}
        /\ h = (IF r = <<>> THEN Null ELSE r[1]) /\ n = (IF r = <<>> THEN Null ELSE r[Len(r)])
        /\ ToSet(r) \subseteq ToSet(Walk(l)) \cup {n}
        /\ \A x \in Node : x \notin ToSet(Walk(l)) \cup {n} => next'[x] = next[x] /\ prev'[x] = prev[x]
    BY <1>1, <1>4, <1>5, <1>7, <1>8
  <2> QED BY <1>2, <1>4, <1>6, <1>8, <2>1, CallBecomes
<1> QED BY <1>1, <1>9

\* A timer that is linked is unlinked; for one that is not, nothing changes.
LEMMA DoubleRemoveBecomes ==
  ASSUME LinkListAssumption, LinkInv, NEW l \in Double, NEW n \in NodeOf[l], DoubleRemove(l, n)
  PROVE  \/ n \in ToSet(Walk(l)) /\ Becomes(l, ListRemove(Walk(l), n))
         \/ UNCHANGED vars
<1>1. l \in List /\ Null \notin Node
  BY DEF LinkListAssumption
<1>2. CASE n \in ToSet(Walk(l))
  <2>1. Unlinked(l, n)
    BY DEF DoubleRemove, Unlinked
  <2>2. Becomes(l, ListRemove(Walk(l), n))
    BY <1>1, <1>2, <2>1, UnlinkBecomes
  <2> QED BY <1>2, <2>2
<1>3. CASE n \notin ToSet(Walk(l))
  <2>1. next[n] = Null /\ prev[n] = Null
    BY <1>3 DEF DoubleRemove, Cleared
  <2>2. head[l] # n /\ tail[l] # n /\ n \in Node
    <3>1. n \in Node
      BY <1>1, ListOf
    <3>2. PICK s : s = Walk(l)
      OBVIOUS
    <3>3. CASE s = <<>>
      BY <1>1, <3>1, <3>2, <3>3, ListOf
    <3>4. CASE s # <<>>
      BY <1>1, <1>3, <3>2, <3>4, ListOf
    <3> QED BY <3>1, <3>3, <3>4
  <2>3. PointersOK
    BY DEF LinkInv
  <2>4. head' = head /\ tail' = tail
    BY <2>2, <2>3 DEF DoubleRemove, PointersOK
  <2>5. next' = next /\ prev' = prev
    BY <1>1, <2>1, <2>2, <2>3 DEF DoubleRemove, PointersOK
  <2> QED BY <2>4, <2>5 DEF vars
<1> QED BY <1>2, <1>3

-----------------------------------------------------------------------------
(* The invariant *)

\* All lists are empty at first.
LEMMA InitLinked ==
  ASSUME LinkListAssumption, Init
  PROVE  LinkInv /\ Lists!Init
<1>1. PointersOK /\ \A l \in List : head[l] = Null /\ tail[l] = Null /\ Walk(l) = <<>>
  BY DEF Init, PointersOK, Walk
<1> DEFINE r == <<>>
<1>2. r \in Seq(Node) /\ Len(r) = 0 /\ DOMAIN r = {} /\ ToSet(r) = {} /\ 1 .. 0 = {}
  BY DEF ToSet
<1>3. r = <<>>
  OBVIOUS
<1> HIDE DEF r
<1>4. ASSUME NEW l \in List
      PROVE  ToSet(r) \subseteq NodeOf[l] /\ Linked(l, next, prev, head[l], tail[l], r)
  BY <1>1, <1>2, <1>3 DEF Linked, Chained, IsInjective
<1>5. LinkInv
  BY <1>1, <1>2, <1>3, <1>4 DEF LinkInv
<1>6. Lists!Init
  BY <1>1 DEF Lists!Init
<1> QED BY <1>5, <1>6

\* Nothing happens when no pointer changes.
LEMMA StutterLinked ==
  ASSUME LinkListAssumption, LinkInv, UNCHANGED vars
  PROVE  LinkInv' /\ Contents' = Contents
<1>1. \A l \in List : Walk(l)' = Walk(l)
  BY WalkReads DEF vars
<1>2. LinkInv'
  BY <1>1 DEF LinkInv, PointersOK, vars
<1>3. Contents' = Contents
  BY <1>1 DEF Contents
<1> QED BY <1>2, <1>3

\* The operators of the abstract lists are those of ThreadList.
LEMMA SameOperators ==
  ASSUME NEW s, NEW n
  PROVE  /\ Lists!ListAdd(s, n) = ListAdd(s, n)
         /\ Lists!ListAddPriority(s, n, Priority) = ListAddPriority(s, n, Priority)
         /\ Lists!ListRemove(s, n) = ListRemove(s, n)
         /\ Lists!PivotForward(s) = PivotForward(s) /\ Lists!PivotBackward(s) = PivotBackward(s)
         /\ Lists!ToSet(s) = ToSet(s)
<1>1. Lists!PivotForward(s) = PivotForward(s)
  BY DEF PivotForward, Lists!PivotForward
<1>2. Lists!PivotBackward(s) = PivotBackward(s)
  BY DEF PivotBackward, Lists!PivotBackward, Cons, Lists!Cons, Last, Lists!Last, Front, Lists!Front
<1>3. Lists!ListAdd(s, n) = ListAdd(s, n)
  BY DEF ListAdd, Lists!ListAdd, PivotForward, Lists!PivotForward
<1>4. Lists!ToSet(s) = ToSet(s)
  BY DEF ToSet, Lists!ToSet
<1>5. Lists!ListRemove(s, n) = ListRemove(s, n)
  BY DEF ListRemove, Lists!ListRemove, Position, Lists!Position, RemoveAt, Lists!RemoveAt
<1>6. Lists!ListAddPriority(s, n, Priority) = ListAddPriority(s, n, Priority)
  <2>1. Lists!InsertPosition(s, Priority[n], Priority) = InsertPosition(s, Priority[n], Priority)
    BY DEF InsertPosition, Lists!InsertPosition, Compared, Lists!Compared
  <2>2. \A i : Lists!InsertAt(s, i, n) = InsertAt(s, i, n)
    BY DEF InsertAt, Lists!InsertAt
  <2> QED BY <2>1, <2>2 DEF ListAddPriority, Lists!ListAddPriority
<1> QED BY <1>1, <1>2, <1>3, <1>4, <1>5, <1>6

\* What the abstract actions say of the lists read off the pointers.
LEMMA AbstractSteps ==
  ASSUME NEW l \in List, NEW n
  PROVE  /\ (Free(n) /\ Contents' = [Contents EXCEPT ![l] = ListAdd(Walk(l), n)] => Lists!Add(l, n))
         /\ (Free(n) /\ Contents' = [Contents EXCEPT ![l] = ListAddPriority(Walk(l), n, Priority)]
              => Lists!AddPriority(l, n))
         /\ (n \in ToSet(Walk(l)) /\ Contents' = [Contents EXCEPT ![l] = ListRemove(Walk(l), n)]
              => Lists!Delete(l, n))
         /\ (Free(n) /\ Contents' = [Contents EXCEPT ![l] = Append(Walk(l), n)] => Lists!DoubleAdd(l, n))
         /\ (Contents' = [Contents EXCEPT ![l] = PivotForward(Walk(l))] => Lists!Forward(l))
         /\ (Contents' = [Contents EXCEPT ![l] = PivotBackward(Walk(l))] => Lists!Backward(l))
<1>1. Contents[l] = Walk(l)
  BY DEF Contents
<1>2. Free(n) => Lists!Free(n)
  BY SameOperators DEF Free, Lists!Free
<1>4. Free(n) /\ Contents' = [Contents EXCEPT ![l] = ListAdd(Walk(l), n)] => Lists!Add(l, n)
  BY <1>1, <1>2, SameOperators DEF Lists!Add, Contents
<1>5. Free(n) /\ Contents' = [Contents EXCEPT ![l] = ListAddPriority(Walk(l), n, Priority)] => Lists!AddPriority(l, n)
  BY <1>1, <1>2, SameOperators DEF Lists!AddPriority, Contents
<1>6. n \in ToSet(Walk(l)) /\ Contents' = [Contents EXCEPT ![l] = ListRemove(Walk(l), n)] => Lists!Delete(l, n)
  BY <1>1, SameOperators DEF Lists!Delete, Contents
<1>7. Free(n) /\ Contents' = [Contents EXCEPT ![l] = Append(Walk(l), n)] => Lists!DoubleAdd(l, n)
  BY <1>1, <1>2 DEF Lists!DoubleAdd, Contents
<1>8. Contents' = [Contents EXCEPT ![l] = PivotForward(Walk(l))] => Lists!Forward(l)
  BY <1>1, SameOperators DEF Lists!Forward, Contents
<1>9. Contents' = [Contents EXCEPT ![l] = PivotBackward(Walk(l))] => Lists!Backward(l)
  BY <1>1, SameOperators DEF Lists!Backward, Contents
<1> QED BY <1>4, <1>5, <1>6, <1>7, <1>8, <1>9

\* Each call keeps the invariant and is a step of the abstract lists.
Implemented == LinkInv' /\ (Lists!Next \/ Contents' = Contents)

\* The calls on the lists of threads ...
LEMMA CircularCalls ==
  ASSUME LinkListAssumption, LinkInv, NEW l \in List \ Double, NEW n \in NodeOf[l],
         Add(l, n) \/ AddPriority(l, n) \/ Delete(l, n)
  PROVE  Implemented
<1>1. n \in Node
  BY DEF LinkListAssumption
<1>2. CASE Add(l, n)
  <2>1. Becomes(l, ListAdd(Walk(l), n)) /\ Free(n)
    BY <1>2, AddBecomes DEF Add
  <2>2. LinkInv' /\ Lists!Add(l, n)
    BY <2>1, AbstractSteps DEF Becomes
  <2> QED BY <1>1, <2>2 DEF Implemented, Lists!Next
<1>3. CASE AddPriority(l, n)
  <2>1. Becomes(l, ListAddPriority(Walk(l), n, Priority)) /\ Free(n)
    BY <1>3, AddPriorityBecomes DEF AddPriority, Add
  <2>2. LinkInv' /\ Lists!AddPriority(l, n)
    BY <2>1, AbstractSteps DEF Becomes
  <2> QED BY <1>1, <2>2 DEF Implemented, Lists!Next
<1>4. CASE Delete(l, n)
  <2>1. Becomes(l, ListRemove(Walk(l), n)) /\ n \in ToSet(Walk(l))
    BY <1>4, DeleteBecomes DEF Delete
  <2>2. LinkInv' /\ Lists!Delete(l, n)
    BY <2>1, AbstractSteps DEF Becomes
  <2> QED BY <1>1, <2>2 DEF Implemented, Lists!Next
<1> QED BY <1>2, <1>3, <1>4

\* ... that turn them ...
LEMMA PivotCalls ==
  ASSUME LinkListAssumption, LinkInv, NEW l \in List \ Double, Forward(l) \/ Backward(l)
  PROVE  Implemented
<1>1. CASE Forward(l)
  <2>1. Becomes(l, PivotForward(Walk(l)))
    BY <1>1, ForwardBecomes
  <2>2. LinkInv' /\ Lists!Forward(l)
    BY <2>1, AbstractSteps DEF Becomes
  <2> QED BY <2>2 DEF Implemented, Lists!Next
<1>2. CASE Backward(l)
  <2>1. Becomes(l, PivotBackward(Walk(l)))
    BY <1>2, BackwardBecomes
  <2>2. LinkInv' /\ Lists!Backward(l)
    BY <2>1, AbstractSteps DEF Becomes
  <2> QED BY <2>2 DEF Implemented, Lists!Next
<1> QED BY <1>1, <1>2

\* ... and those on the lists of timers.
LEMMA DoubleCalls ==
  ASSUME LinkListAssumption, LinkInv, NEW l \in Double, NEW n \in NodeOf[l],
         DoubleAdd(l, n) \/ DoubleRemove(l, n)
  PROVE  Implemented
<1>1. n \in Node /\ l \in List
  BY DEF LinkListAssumption
<1>2. CASE DoubleAdd(l, n)
  <2>1. Becomes(l, Append(Walk(l), n)) /\ Free(n)
    BY <1>2, DoubleAddBecomes DEF DoubleAdd
  <2>2. LinkInv' /\ Lists!DoubleAdd(l, n)
    BY <1>1, <2>1, AbstractSteps DEF Becomes
  <2> QED BY <1>1, <2>2 DEF Implemented, Lists!Next
<1>3. CASE DoubleRemove(l, n)
  <2>1. CASE n \in ToSet(Walk(l)) /\ Becomes(l, ListRemove(Walk(l), n))
    <3>1. LinkInv' /\ Lists!Delete(l, n)
      BY <1>1, <2>1, AbstractSteps DEF Becomes
    <3> QED BY <1>1, <3>1 DEF Implemented, Lists!Next
  <2>2. CASE UNCHANGED vars
    BY <2>2, StutterLinked DEF Implemented
  <2> QED BY <1>3, <2>1, <2>2, DoubleRemoveBecomes
<1> QED BY <1>2, <1>3

\* Every step is one of these.
LEMMA EachCall ==
  ASSUME LinkListAssumption, LinkInv, [Next]_vars
  PROVE  Implemented
<1>1. CASE UNCHANGED vars
  BY <1>1, StutterLinked DEF Implemented
<1>2. CASE \E l \in List \ Double : \E n \in NodeOf[l] : Add(l, n) \/ AddPriority(l, n) \/ Delete(l, n)
  BY <1>2, CircularCalls
<1>3. CASE \E l \in List \ Double : Forward(l) \/ Backward(l)
  BY <1>3, PivotCalls
<1>4. CASE \E l \in Double : \E n \in NodeOf[l] : DoubleAdd(l, n) \/ DoubleRemove(l, n)
  BY <1>4, DoubleCalls
<1> QED BY <1>1, <1>2, <1>3, <1>4 DEF Next

\* In every reachable state the pointers of each list are a chain from its
\* head to its tail, linked both ways, without a node twice, and no node is on
\* two lists.
THEOREM LinkInvariance == Spec => []LinkInv
<1>1. Init => LinkInv
  BY InitLinked, LinkListAssumption
<1>2. LinkInv /\ [Next]_vars => LinkInv'
  BY EachCall, LinkListAssumption DEF Implemented
<1> QED BY <1>1, <1>2, PTL DEF Spec

\* The pointers are nodes or null, and a list has a head exactly if it has a tail.
THEOREM PointersTypeCorrect == Spec => []TypeOK
<1>1. LinkInv => TypeOK
  <2> SUFFICES ASSUME LinkInv PROVE TypeOK
    OBVIOUS
  <2>1. PointersOK
    BY DEF LinkInv
  <2>2. ASSUME NEW l \in List PROVE head[l] = Null <=> tail[l] = Null
    <3>1. PICK s : s = Walk(l)
      OBVIOUS
    <3>2. Null \notin Node
      BY LinkListAssumption DEF LinkListAssumption
    <3>3. CASE s = <<>>
      BY <3>1, <3>3, LinkListAssumption, ListOf
    <3>4. CASE s # <<>>
      BY <3>1, <3>2, <3>4, LinkListAssumption, ListOf
    <3> QED BY <3>3, <3>4
  <2> QED BY <2>1, <2>2 DEF TypeOK, PointersOK
<1> QED BY <1>1, LinkInvariance, PTL

\* What SAFE_UNLINK checks holds of every node on a list.
THEOREM UnlinksAreSafe == Spec => []UnlinkSafe
<1>1. LinkInv => UnlinkSafe
  <2> SUFFICES ASSUME LinkInv, NEW l \in List, NEW n \in ToSet(Walk(l))
               PROVE  /\ n # Null
                      /\ IF l \in Double /\ n = head[l] THEN prev[n] = Null
                                                       ELSE prev[n] # Null /\ next[prev[n]] = n
                      /\ IF l \in Double /\ n = tail[l] THEN next[n] = Null
                                                       ELSE next[n] # Null /\ prev[next[n]] = n
    BY DEF UnlinkSafe
  <2>1. PICK s, nx, pv : s = Walk(l) /\ nx = next /\ pv = prev
    OBVIOUS
  <2>2. s # <<>> /\ n \in ToSet(s)
    BY <2>1 DEF ToSet
  <2>3. /\ Chained(l, nx, pv, s) /\ s \in Seq(Node) /\ head[l] = s[1] /\ tail[l] = s[Len(s)]
        /\ Len(s) \in Nat \ {0} /\ DOMAIN s = 1 .. Len(s) /\ IsInjective(s) /\ LinkListAssumption
    BY <2>1, <2>2, LinkListAssumption, ListOf DEF Chained
  <2>4. PICK i \in 1 .. Len(s) : n = s[i]
    BY <2>2, <2>3 DEF ToSet
  <2>5. Null \notin Node /\ \A j \in 1 .. Len(s) : s[j] \in Node
    BY <2>3 DEF LinkListAssumption
  <2>6. 1 \in 1 .. Len(s) /\ Len(s) \in 1 .. Len(s)
    BY <2>3, Ends
  <2>7. nx[n] \in ToSet(s) \cup {Null} /\ pv[n] \in ToSet(s) \cup {Null}
    BY <2>3, <2>4, NeighboursIn
  <2>8. \A m \in ToSet(s) : (pv[n] = m => nx[m] = n) /\ (nx[n] = m => pv[m] = n)
    <3> SUFFICES ASSUME NEW m \in ToSet(s) PROVE (pv[n] = m => nx[m] = n) /\ (nx[n] = m => pv[m] = n)
      OBVIOUS
    <3>1. PICK j \in 1 .. Len(s) : m = s[j]
      BY <2>3 DEF ToSet
    <3>2. (nx[s[i]] = s[j] <=> pv[s[j]] = s[i]) /\ (nx[s[j]] = s[i] <=> pv[s[i]] = s[j])
      BY <2>3, BothWays
    <3> QED BY <2>4, <3>1, <3>2
  <2>9. pv[n] = Null <=> (l \in Double /\ n = head[l])
    <3>1. pv[n] = Before(l, s, i)
      BY <2>3, <2>4 DEF Chained
    <3>2. n = head[l] <=> i = 1
      BY <2>3, <2>4, <2>6 DEF IsInjective
    <3>3. CASE i > 1
      <4>1. i - 1 \in 1 .. Len(s) /\ i # 1
        BY <2>3, <3>3
      <4> QED BY <2>5, <3>1, <3>2, <3>3, <4>1 DEF Before
    <3>4. CASE i = 1
      BY <2>5, <2>6, <3>1, <3>2, <3>4 DEF Before
    <3>5. i > 1 \/ i = 1
      OBVIOUS
    <3> QED BY <3>3, <3>4, <3>5
  <2>10. nx[n] = Null <=> (l \in Double /\ n = tail[l])
    <3>1. nx[n] = Behind(l, s, i)
      BY <2>3, <2>4 DEF Chained
    <3>2. n = tail[l] <=> i = Len(s)
      BY <2>3, <2>4, <2>6 DEF IsInjective
    <3>3. CASE i < Len(s)
      <4>1. i + 1 \in 1 .. Len(s) /\ i # Len(s)
        BY <2>3, <3>3
      <4> QED BY <2>5, <3>1, <3>2, <3>3, <4>1 DEF Behind
    <3>4. CASE i = Len(s)
      <4>1. ~(i < Len(s))
        BY <2>3, <3>4
      <4> QED BY <2>5, <2>6, <3>1, <3>2, <3>4, <4>1 DEF Behind
    <3>5. i < Len(s) \/ i = Len(s)
      <4>1. i \in Int /\ Len(s) \in Int /\ i <= Len(s)
        BY <2>3
      <4> QED BY <4>1
    <3> QED BY <3>3, <3>4, <3>5
  <2>11. n # Null
    BY <2>4, <2>5
  <2> QED BY <2>1, <2>7, <2>8, <2>9, <2>10, <2>11
<1> QED BY <1>1, LinkInvariance, PTL

\* The pointers implement the abstract lists: read from head to tail, each
\* list starts empty and every call does to it what its operator says.
THEOREM ListsImplemented == Spec => ImplementsLists
<1>1. Init => Lists!Init
  BY InitLinked, LinkListAssumption
<1>2. LinkInv /\ [Next]_vars => [Lists!Next]_(Contents)
  BY EachCall, LinkListAssumption DEF Implemented
<1>3. LinkInv /\ [Next]_vars => [Lists!Next]_([l \in List |-> Walk(l)])
  BY <1>2 DEF Contents
<1> QED BY <1>1, <1>3, LinkInvariance, PTL DEF Spec, ImplementsLists, Lists!Spec

=============================================================================
