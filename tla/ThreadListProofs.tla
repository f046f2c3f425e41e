---------------------------- MODULE ThreadListProofs ----------------------------
(***************************************************************************)
(* What the list operations return, for lists over any set S: the facts    *)
(* every proof about the kernel's lists rests on.                          *)
(***************************************************************************)
EXTENDS ThreadList, SequenceTheorems, TLAPS

\* PivotForward only renumbers the nodes of a list (CircularLinkList::PivotForward).
LEMMA PivotFacts ==
  ASSUME NEW S, NEW s \in Seq(S)
  PROVE  /\ PivotForward(s) \in Seq(S)
         /\ Len(PivotForward(s)) = Len(s)
         /\ ToSet(PivotForward(s)) = ToSet(s)
         /\ IsInjective(s) => IsInjective(PivotForward(s))
<1>1. CASE s = <<>>
  BY <1>1 DEF PivotForward
<1>2. CASE s # <<>>
  <2> DEFINE r == Append(Tail(s), Head(s))
  <2>1. PivotForward(s) = r
    BY <1>2 DEF PivotForward
  <2>2. Len(s) \in Nat \ {0} /\ s[1] \in S
    BY <1>2
  <2>3. r \in Seq(S) /\ Len(r) = Len(s)
    BY <2>2, <1>2
  <2>4. \A i \in 1 .. Len(s) : r[i] = IF i = Len(s) THEN s[1] ELSE s[i + 1]
    BY <2>2, <1>2
  <2>5. DOMAIN r = 1 .. Len(s) /\ DOMAIN s = 1 .. Len(s)
    BY <2>3
  <2> HIDE DEF r
  <2>6. ToSet(r) = ToSet(s)
    <3>1. ASSUME NEW x \in ToSet(r) PROVE x \in ToSet(s)
      <4>1. PICK i \in 1 .. Len(s) : x = r[i]
        BY <2>5, <3>1 DEF ToSet
      <4>2. \E j \in 1 .. Len(s) : x = s[j]
        <5>1. CASE i = Len(s)
          BY <5>1, <4>1, <2>2, <2>4
        <5>2. CASE i # Len(s)
          <6>1. i + 1 \in 1 .. Len(s)
            BY <5>2, <2>2
          <6>2. x = s[i + 1]
            BY <5>2, <4>1, <2>4
          <6> QED BY <6>1, <6>2
        <5> QED BY <5>1, <5>2
      <4> QED BY <4>2, <2>5 DEF ToSet
    <3>2. ASSUME NEW i \in 1 .. Len(s) PROVE s[i] \in ToSet(r)
      <4>1. CASE i = 1
        <5>1. Len(s) \in 1 .. Len(s)
          BY <2>2
        <5>2. r[Len(s)] = s[i]
          BY <2>4, <5>1, <4>1
        <5> QED BY <5>1, <5>2, <2>5 DEF ToSet
      <4>2. CASE i # 1
        <5>1. i - 1 \in 1 .. Len(s) /\ i - 1 # Len(s) /\ (i - 1) + 1 = i
          BY <2>2, <4>2
        <5>2. r[i - 1] = s[i]
          BY <2>4, <5>1
        <5> QED BY <5>1, <5>2, <2>5 DEF ToSet
      <4> QED BY <4>1, <4>2
    <3> QED BY <3>1, <3>2, <2>5 DEF ToSet
  <2>7. IsInjective(s) => IsInjective(r)
    <3> SUFFICES ASSUME IsInjective(s), NEW i \in 1 .. Len(s), NEW j \in 1 .. Len(s),
                        r[i] = r[j]
                 PROVE  i = j
      BY <2>5 DEF IsInjective
    <3>1. \A m \in 1 .. Len(s), n \in 1 .. Len(s) : s[m] = s[n] => m = n
      BY <2>5 DEF IsInjective
    <3>2. i # Len(s) => i + 1 \in 1 .. Len(s) /\ i + 1 # 1
      BY <2>2
    <3>3. j # Len(s) => j + 1 \in 1 .. Len(s) /\ j + 1 # 1
      BY <2>2
    <3>4. 1 \in 1 .. Len(s)
      BY <2>2
    <3>5. i \in Int /\ j \in Int
      OBVIOUS
    <3> HIDE DEF r
    <3>6. CASE i = Len(s) /\ j = Len(s)
      BY <3>6
    <3>7. CASE i = Len(s) /\ j # Len(s)
      BY <3>1, <3>3, <3>4, <3>7, <2>4
    <3>8. CASE i # Len(s) /\ j = Len(s)
      BY <3>1, <3>2, <3>4, <3>8, <2>4
    <3>9. CASE i # Len(s) /\ j # Len(s)
      <4>1. s[i + 1] = s[j + 1]
        BY <3>9, <2>4
      <4>2. i + 1 = j + 1
        BY <3>1, <3>2, <3>3, <3>9, <4>1
      <4> QED BY <4>2, <3>5
    <3> QED BY <3>6, <3>7, <3>8, <3>9
  <2> QED BY <2>1, <2>3, <2>6, <2>7
<1> QED BY <1>1, <1>2

\* DoubleLinkList::Add adds one node.
LEMMA AppendMembers ==
  ASSUME NEW S, NEW s \in Seq(S), NEW t \in S
  PROVE  ToSet(Append(s, t)) = ToSet(s) \cup {t}
<1> DEFINE more == Append(s, t)
<1>1. Len(more) = Len(s) + 1 /\ Len(s) \in Nat /\ DOMAIN s = 1 .. Len(s) /\ DOMAIN more = 1 .. Len(s) + 1
  OBVIOUS
<1>2. more[Len(s) + 1] = t /\ \A i \in 1 .. Len(s) : more[i] = s[i]
  OBVIOUS
<1> HIDE DEF more
<1>3. ASSUME NEW x \in ToSet(more) PROVE x \in ToSet(s) \cup {t}
  BY <1>1, <1>2, <1>3 DEF ToSet
<1>4. ASSUME NEW i \in 1 .. Len(s) PROVE s[i] \in ToSet(more)
  <2>1. i \in 1 .. Len(s) + 1
    BY <1>1
  <2> QED BY <2>1, <1>1, <1>2 DEF ToSet
<1>5. t \in ToSet(more)
  <2>1. Len(s) + 1 \in 1 .. Len(s) + 1
    BY <1>1
  <2> QED BY <2>1, <1>1, <1>2 DEF ToSet
<1>6. ToSet(s) \subseteq ToSet(more)
  BY <1>1, <1>4 DEF ToSet
<1> QED BY <1>3, <1>5, <1>6 DEF more

\* Appending a node that is not on the list keeps every node on it once
\* (DoubleLinkList::Add, CircularLinkList::Add).
LEMMA AppendOnce ==
  ASSUME NEW S, NEW s \in Seq(S), NEW t \in S, IsInjective(s), t \notin ToSet(s)
  PROVE  IsInjective(Append(s, t))
<1> DEFINE more == Append(s, t)
<1>1. more \in Seq(S) /\ Len(more) = Len(s) + 1 /\ Len(s) \in Nat
  OBVIOUS
<1>2. \A i \in 1 .. Len(more) : more[i] = IF i = Len(more) THEN t ELSE s[i]
  OBVIOUS
<1>3. DOMAIN more = 1 .. Len(s) + 1 /\ DOMAIN s = 1 .. Len(s)
  OBVIOUS
<1>4. \A m, n \in 1 .. Len(s) : s[m] = s[n] => m = n
  BY <1>3 DEF IsInjective
<1>5. \A m \in 1 .. Len(s) : s[m] # t
  BY <1>3 DEF ToSet
<1> HIDE DEF more
<1>6. ASSUME NEW i \in 1 .. Len(s) + 1, NEW j \in 1 .. Len(s) + 1, more[i] = more[j]
      PROVE  i = j
  <2>1. CASE i # Len(more) /\ j # Len(more)
    BY <1>1, <1>2, <1>4, <1>6, <2>1
  <2>2. CASE i = Len(more) \/ j = Len(more)
    BY <1>1, <1>2, <1>5, <1>6, <2>2
  <2> QED BY <2>1, <2>2
<1>7. IsInjective(more)
  BY <1>3, <1>6 DEF IsInjective
<1> QED BY <1>7 DEF more

\* ThreadList::Add makes the node a member and disturbs no other.
LEMMA ListAddFacts ==
  ASSUME NEW S, NEW s \in Seq(S), NEW t \in S
  PROVE  /\ ListAdd(s, t) \in Seq(S)
         /\ ListAdd(s, t) # <<>>
         /\ ToSet(ListAdd(s, t)) = ToSet(s) \cup {t}
         /\ IsInjective(s) /\ t \notin ToSet(s) => IsInjective(ListAdd(s, t))
<1> DEFINE more == Append(s, t)
<1>1. more \in Seq(S) /\ Len(more) = Len(s) + 1 /\ Len(s) \in Nat
  OBVIOUS
<1>2. \A i \in 1 .. Len(more) : more[i] = IF i = Len(more) THEN t ELSE s[i]
  OBVIOUS
<1>3. DOMAIN more = 1 .. Len(s) + 1 /\ DOMAIN s = 1 .. Len(s)
  OBVIOUS
<1> HIDE DEF more
<1>4. ToSet(more) = ToSet(s) \cup {t}
  <2>1. ASSUME NEW x \in ToSet(more) PROVE x \in ToSet(s) \cup {t}
    BY <1>1, <1>2, <1>3 DEF ToSet
  <2>2. ASSUME NEW i \in 1 .. Len(s) PROVE s[i] \in ToSet(more)
    <3>1. i \in 1 .. Len(more) /\ i # Len(more)
      BY <1>1
    <3>2. more[i] = s[i]
      BY <1>2, <3>1
    <3> QED BY <3>1, <3>2, <1>1, <1>3 DEF ToSet
  <2>3. t \in ToSet(more)
    BY <1>1, <1>2, <1>3 DEF ToSet
  <2> QED BY <2>1, <2>2, <2>3, <1>3 DEF ToSet
<1>5. IsInjective(s) /\ t \notin ToSet(s) => IsInjective(more)
  <2> SUFFICES ASSUME IsInjective(s), t \notin ToSet(s) PROVE IsInjective(more)
    OBVIOUS
  <2>1. IsInjective(Append(s, t))
    BY AppendOnce
  <2> QED BY <2>1 DEF more
<1>6. ListAdd(s, t) = PivotForward(more)
  BY DEF ListAdd, more
<1>7. PivotForward(more) # <<>>
  BY <1>1, PivotFacts
<1> QED BY <1>1, <1>4, <1>5, <1>6, <1>7, PivotFacts

\* The place of a node that is on a list once.
LEMMA PositionFacts ==
  ASSUME NEW S, NEW s \in Seq(S), NEW t \in ToSet(s), IsInjective(s)
  PROVE  /\ Position(s, t) \in 1 .. Len(s) /\ s[Position(s, t)] = t
         /\ \A i \in 1 .. Len(s) : s[i] = t => i = Position(s, t)
<1>1. Len(s) \in Nat /\ DOMAIN s = 1 .. Len(s)
  OBVIOUS
<1>2. Position(s, t) \in 1 .. Len(s) /\ s[Position(s, t)] = t
  BY <1>1 DEF Position, ToSet
<1> QED BY <1>1, <1>2 DEF IsInjective

\* ThreadList::Remove closes the gap the node leaves.
LEMMA ListRemoveElements ==
  ASSUME NEW S, NEW s \in Seq(S), NEW t \in ToSet(s)
  PROVE  /\ ListRemove(s, t) \in Seq(S) /\ Len(ListRemove(s, t)) = Len(s) - 1
         /\ \A i \in 1 .. Len(s) - 1 :
              ListRemove(s, t)[i] = IF i < Position(s, t) THEN s[i] ELSE s[i + 1]
<1> DEFINE p == Position(s, t)
           r == ListRemove(s, t)
<1>1. Len(s) \in Nat /\ DOMAIN s = 1 .. Len(s)
  OBVIOUS
<1>2. p \in 1 .. Len(s) /\ s[p] = t
  BY <1>1 DEF Position, ToSet
<1> HIDE DEF p
<1>4. r = SubSeq(s, 1, p - 1) \o SubSeq(s, p + 1, Len(s))
  BY DEF ListRemove, RemoveAt, p
<1> DEFINE u == SubSeq(s, 1, p - 1)
           v == SubSeq(s, p + 1, Len(s))
<1>5. /\ u \in Seq(S) /\ Len(u) = p - 1 /\ \A i \in 1 .. p - 1 : u[i] = s[i]
      /\ v \in Seq(S) /\ Len(v) = Len(s) - p /\ \A i \in 1 .. Len(s) - p : v[i] = s[p + i]
  <2>1. p - 1 \in Int /\ p + 1 \in Int /\ Len(s) \in Int
    BY <1>1, <1>2
  <2>2. \A i \in 1 .. p - 1 : s[i] \in S
    BY <1>1, <1>2
  <2>3. \A i \in p + 1 .. Len(s) : s[i] \in S
    BY <1>1, <1>2
  <2>4. /\ u \in Seq(S) /\ Len(u) = IF 1 <= p - 1 THEN (p - 1) - 1 + 1 ELSE 0
        /\ \A i \in 1 .. (p - 1) - 1 + 1 : u[i] = s[1 + i - 1]
    BY <2>1, <2>2, SubSeqProperties
  <2>5. /\ v \in Seq(S) /\ Len(v) = IF p + 1 <= Len(s) THEN Len(s) - (p + 1) + 1 ELSE 0
        /\ \A i \in 1 .. Len(s) - (p + 1) + 1 : v[i] = s[(p + 1) + i - 1]
    BY <2>1, <2>3, SubSeqProperties
  <2> HIDE DEF r, u, v
  <2>6. Len(u) = p - 1 /\ (p - 1) - 1 + 1 = p - 1
    BY <1>1, <1>2, <2>4
  <2>7. Len(v) = Len(s) - p /\ Len(s) - (p + 1) + 1 = Len(s) - p
    <3>1. Len(s) - (p + 1) + 1 = Len(s) - p
      BY <1>1, <1>2
    <3>2. CASE p + 1 <= Len(s)
      BY <2>5, <3>1, <3>2
    <3>3. CASE ~(p + 1 <= Len(s))
      <4>1. p \in Int /\ p <= Len(s) /\ Len(s) \in Int
        BY <1>1, <1>2
      <4>2. p = Len(s)
        BY <4>1, <3>3
      <4>3. Len(s) - p = 0
        BY <4>1, <4>2
      <4> QED BY <2>5, <3>1, <3>3, <4>3
    <3> QED BY <3>2, <3>3
  <2>8. \A i \in 1 .. p - 1 : 1 + i - 1 = i
    BY <1>1, <1>2
  <2>9. \A i \in 1 .. Len(s) - p : (p + 1) + i - 1 = p + i
    BY <1>1, <1>2
  <2>10. \A i \in 1 .. p - 1 : u[i] = s[i]
    BY <2>4, <2>6, <2>8
  <2>11. \A i \in 1 .. Len(s) - p : v[i] = s[p + i]
    BY <2>5, <2>7, <2>9
  <2> QED BY <2>4, <2>5, <2>6, <2>7, <2>10, <2>11
<1>6. r = u \o v
  BY <1>4
<1> HIDE DEF r, u, v
<1>7. r \in Seq(S) /\ Len(r) = Len(s) - 1
  <2>1. u \o v \in Seq(S) /\ Len(u \o v) = Len(u) + Len(v)
    BY <1>5, ConcatProperties
  <2>2. (p - 1) + (Len(s) - p) = Len(s) - 1
    BY <1>1, <1>2
  <2> QED BY <2>1, <2>2, <1>5, <1>6
<1>8. \A i \in 1 .. Len(s) - 1 : r[i] = IF i < p THEN s[i] ELSE s[i + 1]
  <2> TAKE i \in 1 .. Len(s) - 1
  <2>1. i \in 1 .. Len(u) + Len(v)
    BY <1>1, <1>2, <1>5
  <2>2. r[i] = IF i <= Len(u) THEN u[i] ELSE v[i - Len(u)]
    BY <2>1, <1>5, <1>6, ConcatProperties
  <2>3. CASE i < p
    <3>1. i <= Len(u) /\ i \in 1 .. p - 1
      BY <1>1, <1>2, <1>5, <2>3
    <3> QED BY <3>1, <2>2, <2>3, <1>5
  <2>4. CASE ~(i < p)
    <3>1. ~(i <= Len(u)) /\ i - Len(u) \in 1 .. Len(s) - p /\ p + (i - Len(u)) = i + 1
      BY <1>1, <1>2, <1>5, <2>4
    <3>2. v[i - Len(u)] = s[p + (i - Len(u))]
      BY <1>5, <3>1
    <3> QED BY <3>1, <3>2, <2>2, <2>4
  <2> QED BY <2>3, <2>4
<1> QED BY <1>7, <1>8 DEF r, p

\* Whatever else is on the list stays there.
LEMMA ListRemoveOthers ==
  ASSUME NEW S, NEW s \in Seq(S), NEW t \in ToSet(s), NEW x, x # t
  PROVE  x \in ToSet(ListRemove(s, t)) <=> x \in ToSet(s)
<1> DEFINE p == Position(s, t)
           r == ListRemove(s, t)
<1>1. Len(s) \in Nat /\ DOMAIN s = 1 .. Len(s)
  OBVIOUS
<1>2. p \in 1 .. Len(s) /\ s[p] = t
  BY <1>1 DEF Position, ToSet
<1>3. /\ r \in Seq(S) /\ Len(r) = Len(s) - 1
      /\ \A i \in 1 .. Len(s) - 1 : r[i] = IF i < p THEN s[i] ELSE s[i + 1]
  BY ListRemoveElements
<1> HIDE DEF r, p
<1>4. DOMAIN r = 1 .. Len(s) - 1
  BY <1>3
<1>5. ASSUME NEW i \in 1 .. Len(s) - 1 PROVE r[i] \in ToSet(s)
  <2>1. i \in 1 .. Len(s) /\ i + 1 \in 1 .. Len(s)
    BY <1>1
  <2> QED BY <1>1, <1>3, <2>1 DEF ToSet
<1>6. ASSUME NEW i \in 1 .. Len(s), s[i] = x PROVE x \in ToSet(r)
  <2>1. CASE i < p
    <3>1. i \in 1 .. Len(s) - 1
      BY <1>1, <1>2, <2>1
    <3> QED BY <1>3, <1>4, <1>6, <2>1, <3>1 DEF ToSet
  <2>2. CASE i > p
    <3>1. i - 1 \in 1 .. Len(s) - 1 /\ ~(i - 1 < p) /\ (i - 1) + 1 = i
      BY <1>1, <1>2, <2>2
    <3>2. r[i - 1] = s[i]
      BY <1>3, <3>1
    <3> QED BY <1>4, <1>6, <3>1, <3>2 DEF ToSet
  <2>3. i # p
    BY <1>2, <1>6
  <2> QED BY <1>1, <1>2, <2>1, <2>2, <2>3
<1> QED BY <1>1, <1>4, <1>5, <1>6 DEF ToSet, r

\* ThreadList::Remove of a member takes that node off and no other.
LEMMA ListRemoveFacts ==
  ASSUME NEW S, NEW s \in Seq(S), NEW t \in ToSet(s), IsInjective(s)
  PROVE  /\ ListRemove(s, t) \in Seq(S)
         /\ ToSet(ListRemove(s, t)) = ToSet(s) \ {t}
         /\ IsInjective(ListRemove(s, t))
<1> DEFINE p == Position(s, t)
           r == ListRemove(s, t)
<1>1. Len(s) \in Nat /\ DOMAIN s = 1 .. Len(s)
  OBVIOUS
<1>2. p \in 1 .. Len(s) /\ s[p] = t
  BY PositionFacts
<1>3. \A i \in 1 .. Len(s) : s[i] = t => i = p
  BY PositionFacts
<1>4. r \in Seq(S) /\ Len(r) = Len(s) - 1
  BY ListRemoveElements
<1>5. \A i \in 1 .. Len(s) - 1 : r[i] = IF i < p THEN s[i] ELSE s[i + 1]
  BY ListRemoveElements
<1> HIDE DEF r, p
<1>6. DOMAIN r = 1 .. Len(s) - 1
  BY <1>4
<1>7. ToSet(r) = ToSet(s) \ {t}
  <2>1. ASSUME NEW i \in 1 .. Len(s) - 1 PROVE r[i] \in ToSet(s) \ {t}
    <3>1. i \in 1 .. Len(s) /\ i + 1 \in 1 .. Len(s)
      BY <1>1
    <3>2. CASE i < p
      BY <3>1, <3>2, <1>1, <1>2, <1>3, <1>5 DEF ToSet
    <3>3. CASE ~(i < p)
      <4>1. i + 1 # p
        BY <1>1, <1>2, <3>3
      <4> QED BY <4>1, <3>1, <3>3, <1>1, <1>3, <1>5 DEF ToSet
    <3> QED BY <3>2, <3>3
  <2>2. ASSUME NEW i \in 1 .. Len(s), s[i] # t PROVE s[i] \in ToSet(r)
    <3>1. CASE i < p
      <4>1. i \in 1 .. Len(s) - 1
        BY <1>1, <1>2, <3>1
      <4>2. r[i] = s[i]
        BY <4>1, <1>5, <3>1
      <4> QED BY <4>1, <4>2, <1>6 DEF ToSet
    <3>2. CASE i > p
      <4>1. i - 1 \in 1 .. Len(s) - 1 /\ ~(i - 1 < p) /\ (i - 1) + 1 = i
        BY <1>1, <1>2, <3>2
      <4>2. r[i - 1] = s[i]
        BY <4>1, <1>5
      <4> QED BY <4>1, <4>2, <1>6 DEF ToSet
    <3>3. i # p
      BY <2>2, <1>2
    <3> QED BY <3>1, <3>2, <3>3, <1>1, <1>2
  <2> QED BY <2>1, <2>2, <1>1, <1>6 DEF ToSet
<1>8. IsInjective(r)
  <2> SUFFICES ASSUME NEW i \in 1 .. Len(s) - 1, NEW j \in 1 .. Len(s) - 1, r[i] = r[j]
               PROVE  i = j
    BY <1>6 DEF IsInjective
  <2>1. \A m \in 1 .. Len(s), n \in 1 .. Len(s) : s[m] = s[n] => m = n
    BY <1>1 DEF IsInjective
  <2>2. /\ i \in 1 .. Len(s) /\ i + 1 \in 1 .. Len(s)
        /\ j \in 1 .. Len(s) /\ j + 1 \in 1 .. Len(s)
    BY <1>1
  <2>3. CASE i < p /\ j < p
    BY <2>1, <2>2, <2>3, <1>5
  <2>4. CASE i < p /\ ~(j < p)
    <3>1. s[i] = s[j + 1]
      BY <2>4, <1>5
    <3>2. i = j + 1
      BY <3>1, <2>1, <2>2
    <3> QED BY <3>2, <2>4, <1>2, <1>1
  <2>5. CASE ~(i < p) /\ j < p
    <3>1. s[j] = s[i + 1]
      BY <2>5, <1>5
    <3>2. j = i + 1
      BY <3>1, <2>1, <2>2
    <3> QED BY <3>2, <2>5, <1>2, <1>1
  <2>6. CASE ~(i < p) /\ ~(j < p)
    <3>1. s[i + 1] = s[j + 1]
      BY <2>6, <1>5
    <3>2. i + 1 = j + 1
      BY <3>1, <2>1, <2>2
    <3> QED BY <3>2, <1>1
  <2> QED BY <2>3, <2>4, <2>5, <2>6
<1> QED BY <1>4, <1>7, <1>8 DEF r

\* ThreadList::AddPriority links the node in front of the one it stops at and
\* leaves the others in their order (CircularLinkList::InsertNodeBefore).
LEMMA InsertElements ==
  ASSUME NEW S, NEW s \in Seq(S), NEW t \in S, NEW p \in 1 .. Len(s) + 1
  PROVE  /\ InsertAt(s, p, t) \in Seq(S) /\ Len(InsertAt(s, p, t)) = Len(s) + 1
         /\ \A i \in 1 .. Len(s) + 1 :
              InsertAt(s, p, t)[i] = IF i < p THEN s[i] ELSE IF i = p THEN t ELSE s[i - 1]
<1> DEFINE r == InsertAt(s, p, t)
           u == SubSeq(s, 1, p - 1)
           v == SubSeq(s, p, Len(s))
           w == Append(u, t)
<1>1. Len(s) \in Nat /\ DOMAIN s = 1 .. Len(s) /\ p \in Int
  OBVIOUS
<1>2. r = (u \o <<t>>) \o v
  BY DEF InsertAt
<1>3. /\ u \in Seq(S) /\ Len(u) = p - 1 /\ \A i \in 1 .. p - 1 : u[i] = s[i]
      /\ v \in Seq(S) /\ Len(v) = Len(s) + 1 - p
      /\ \A i \in 1 .. Len(s) + 1 - p : v[i] = s[p + i - 1]
  <2>1. p - 1 \in Int /\ Len(s) \in Int
    BY <1>1
  <2>2. \A i \in 1 .. p - 1 : s[i] \in S
    BY <1>1
  <2>3. \A i \in p .. Len(s) : s[i] \in S
    BY <1>1
  <2>4. /\ u \in Seq(S) /\ Len(u) = IF 1 <= p - 1 THEN (p - 1) - 1 + 1 ELSE 0
        /\ \A i \in 1 .. (p - 1) - 1 + 1 : u[i] = s[1 + i - 1]
    BY <2>1, <2>2, SubSeqProperties
  <2>5. /\ v \in Seq(S) /\ Len(v) = IF p <= Len(s) THEN Len(s) - p + 1 ELSE 0
        /\ \A i \in 1 .. Len(s) - p + 1 : v[i] = s[p + i - 1]
    BY <1>1, <2>1, <2>3, SubSeqProperties
  <2> HIDE DEF r, u, v
  <2>6. Len(u) = p - 1 /\ (p - 1) - 1 + 1 = p - 1
    BY <1>1, <2>4
  <2>7. Len(v) = Len(s) + 1 - p /\ Len(s) - p + 1 = Len(s) + 1 - p
    <3>1. CASE p <= Len(s)
      BY <1>1, <2>5, <3>1
    <3>2. CASE ~(p <= Len(s))
      <4>1. p = Len(s) + 1
        BY <1>1, <3>2
      <4> QED BY <1>1, <2>5, <3>2, <4>1
    <3> QED BY <3>1, <3>2
  <2>8. \A i \in 1 .. p - 1 : 1 + i - 1 = i
    BY <1>1
  <2>9. \A i \in 1 .. p - 1 : u[i] = s[i]
    BY <2>4, <2>6, <2>8
  <2> QED BY <2>4, <2>5, <2>6, <2>7, <2>9
<1> HIDE DEF u, v
<1>4. /\ u \o <<t>> = w /\ w \in Seq(S) /\ Len(w) = p
      /\ \A i \in 1 .. p : w[i] = IF i < p THEN u[i] ELSE t
  BY <1>1, <1>3
<1>5. r = w \o v
  BY <1>2, <1>4
<1> HIDE DEF r, w
<1>6. r \in Seq(S) /\ Len(r) = Len(s) + 1
  <2>1. w \o v \in Seq(S) /\ Len(w \o v) = Len(w) + Len(v)
    BY <1>3, <1>4, ConcatProperties
  <2>2. p + (Len(s) + 1 - p) = Len(s) + 1
    BY <1>1
  <2> QED BY <2>1, <2>2, <1>3, <1>4, <1>5
<1>7. \A i \in 1 .. Len(s) + 1 : r[i] = IF i < p THEN s[i] ELSE IF i = p THEN t ELSE s[i - 1]
  <2> TAKE i \in 1 .. Len(s) + 1
  <2>1. i \in 1 .. Len(w) + Len(v)
    BY <1>1, <1>3, <1>4
  <2>2. r[i] = IF i <= Len(w) THEN w[i] ELSE v[i - Len(w)]
    BY <2>1, <1>3, <1>4, <1>5, ConcatProperties
  <2>3. CASE i <= p
    <3>1. i \in 1 .. p /\ (i < p => i \in 1 .. p - 1) /\ (i < p \/ i = p)
      BY <1>1, <2>3
    <3>2. r[i] = IF i < p THEN u[i] ELSE t
      BY <1>4, <2>2, <2>3, <3>1
    <3> QED BY <1>1, <1>3, <3>1, <3>2
  <2>4. CASE ~(i <= p)
    <3>1. i - p \in 1 .. Len(s) + 1 - p /\ p + (i - p) - 1 = i - 1 /\ ~(i < p) /\ i # p
      BY <1>1, <2>4
    <3>2. v[i - p] = s[p + (i - p) - 1]
      BY <1>3, <3>1
    <3> QED BY <1>4, <2>2, <2>4, <3>1, <3>2
  <2> QED BY <2>3, <2>4
<1> QED BY <1>6, <1>7 DEF r

\* r is s with t inserted at place p.
IsInserted(r, s, p, t) ==
  /\ Len(r) = Len(s) + 1
  /\ \A i \in 1 .. Len(s) + 1 : r[i] = IF i < p THEN s[i] ELSE IF i = p THEN t ELSE s[i - 1]

LEMMA Inserted ==
  ASSUME NEW S, NEW s \in Seq(S), NEW t \in S, NEW p \in 1 .. Len(s) + 1
  PROVE  InsertAt(s, p, t) \in Seq(S) /\ IsInserted(InsertAt(s, p, t), s, p, t)
<1>1. InsertAt(s, p, t) \in Seq(S) /\ Len(InsertAt(s, p, t)) = Len(s) + 1
  BY InsertElements
<1>2. \A i \in 1 .. Len(s) + 1 :
        InsertAt(s, p, t)[i] = IF i < p THEN s[i] ELSE IF i = p THEN t ELSE s[i - 1]
  BY InsertElements
<1> QED BY <1>1, <1>2 DEF IsInserted

\* Linking a node that is not on the list links it once and keeps the others.
LEMMA InsertFacts ==
  ASSUME NEW S, NEW s \in Seq(S), NEW t \in S, NEW p \in 1 .. Len(s) + 1
  PROVE  /\ InsertAt(s, p, t) \in Seq(S)
         /\ ToSet(InsertAt(s, p, t)) = ToSet(s) \cup {t}
         /\ IsInjective(s) /\ t \notin ToSet(s) => IsInjective(InsertAt(s, p, t))
<1> DEFINE r == InsertAt(s, p, t)
           Old(i) == IF i < p THEN i ELSE i - 1
<1>1. r \in Seq(S) /\ Len(r) = Len(s) + 1
  BY InsertElements
<1>2. \A i \in 1 .. Len(s) + 1 : r[i] = IF i < p THEN s[i] ELSE IF i = p THEN t ELSE s[i - 1]
  BY InsertElements
<1> HIDE DEF r
<1>3. DOMAIN s = 1 .. Len(s) /\ DOMAIN r = 1 .. Len(s) + 1 /\ Len(s) \in Nat /\ p \in Int
  BY <1>1
<1>4. \A i \in 1 .. Len(s) + 1 : i # p => Old(i) \in 1 .. Len(s) /\ r[i] = s[Old(i)]
  BY <1>2, <1>3
<1>5. r[p] = t
  BY <1>2, <1>3
<1>6. \A i, j \in 1 .. Len(s) + 1 : i # p /\ j # p /\ Old(i) = Old(j) => i = j
  BY <1>3
<1>7. \A j \in 1 .. Len(s) : \E i \in 1 .. Len(s) + 1 : i # p /\ Old(i) = j
  <2> TAKE j \in 1 .. Len(s)
  <2>1. CASE j < p
    <3>1. j \in 1 .. Len(s) + 1 /\ j # p /\ Old(j) = j
      BY <1>3, <2>1
    <3> QED BY <3>1
  <2>2. CASE ~(j < p)
    <3>1. j + 1 \in 1 .. Len(s) + 1 /\ j + 1 # p /\ Old(j + 1) = j
      BY <1>3, <2>2
    <3> QED BY <3>1
  <2> QED BY <2>1, <2>2
<1> HIDE DEF Old
<1>8. ToSet(r) \subseteq ToSet(s) \cup {t}
  <2> SUFFICES ASSUME NEW i \in 1 .. Len(s) + 1 PROVE r[i] \in ToSet(s) \cup {t}
    BY <1>3 DEF ToSet
  <2> QED BY <1>3, <1>4, <1>5 DEF ToSet
<1>9. ToSet(s) \subseteq ToSet(r)
  <2> SUFFICES ASSUME NEW j \in 1 .. Len(s) PROVE s[j] \in ToSet(r)
    BY <1>3 DEF ToSet
  <2>1. PICK i \in 1 .. Len(s) + 1 : i # p /\ Old(i) = j
    BY <1>7
  <2>2. r[i] = s[j]
    BY <1>4, <2>1
  <2> QED BY <1>3, <2>2 DEF ToSet
<1>10. t \in ToSet(r)
  BY <1>3, <1>5 DEF ToSet
<1>11. ASSUME IsInjective(s), t \notin ToSet(s), NEW i \in 1 .. Len(s) + 1,
              NEW j \in 1 .. Len(s) + 1, r[i] = r[j]
       PROVE  i = j
  <2>1. \A m \in 1 .. Len(s) : s[m] # t
    BY <1>3, <1>11 DEF ToSet
  <2>2. CASE i # p /\ j # p
    <3>1. s[Old(i)] = s[Old(j)] /\ Old(i) \in DOMAIN s /\ Old(j) \in DOMAIN s
      BY <1>3, <1>4, <1>11, <2>2
    <3>2. Old(i) = Old(j)
      BY <1>11, <3>1 DEF IsInjective
    <3> QED BY <1>6, <2>2, <3>2
  <2>3. CASE i = p \/ j = p
    BY <1>4, <1>5, <1>11, <2>1, <2>3
  <2> QED BY <2>2, <2>3
<1>12. IsInjective(s) /\ t \notin ToSet(s) => IsInjective(r)
  BY <1>3, <1>11 DEF IsInjective
<1> QED BY <1>1, <1>8, <1>9, <1>10, <1>12 DEF r

=============================================================================
