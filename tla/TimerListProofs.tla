---------------------------- MODULE TimerListProofs ----------------------------
(***************************************************************************)
(* Proofs about the timer list, for any set of timers and any intervals:   *)
(* the walk of TimerList::Process calls every timer that has expired       *)
(* although its callbacks change the list, no timer is left on the list    *)
(* that will never expire, and every step is one TimerSpec allows.         *)
(***************************************************************************)
EXTENDS TimerList, ThreadListProofs

-----------------------------------------------------------------------------
(* The order of the list *)

\* DoubleLinkList::Add leaves every node in its place.
LEMMA AppendKeepsPlaces ==
  ASSUME NEW S, NEW s \in Seq(S), NEW t \in S, IsInjective(s), t \notin ToSet(s),
         NEW x \in ToSet(s)
  PROVE  Position(Append(s, t), x) = Position(s, x)
<1> DEFINE more == Append(s, t)
<1>1. more \in Seq(S) /\ IsInjective(more)
  BY AppendOnce
<1>2. Position(s, x) \in 1 .. Len(s) /\ s[Position(s, x)] = x
  BY PositionFacts
<1>3. Len(more) = Len(s) + 1 /\ Len(s) \in Nat /\ \A i \in 1 .. Len(s) : more[i] = s[i]
  OBVIOUS
<1> HIDE DEF more
<1>4. Position(s, x) \in 1 .. Len(more) /\ more[Position(s, x)] = x
  BY <1>2, <1>3
<1>5. DOMAIN more = 1 .. Len(more)
  BY <1>1
<1>6. x \in ToSet(more)
  BY <1>4, <1>5 DEF ToSet
<1>7. Position(s, x) = Position(more, x)
  BY <1>1, <1>4, <1>6, PositionFacts
<1> QED BY <1>7 DEF more

\* DoubleLinkList::Remove keeps the order of the others.
LEMMA RemoveKeepsOrder ==
  ASSUME NEW S, NEW s \in Seq(S), IsInjective(s), NEW t \in ToSet(s),
         NEW x \in ToSet(s) \ {t}, NEW y \in ToSet(s) \ {t},
         Position(s, x) <= Position(s, y)
  PROVE  Position(ListRemove(s, t), x) <= Position(ListRemove(s, t), y)
<1> DEFINE r == ListRemove(s, t)
           p == Position(s, t)
           place(z) == IF Position(s, z) < p THEN Position(s, z) ELSE Position(s, z) - 1
<1>1. r \in Seq(S) /\ IsInjective(r) /\ ToSet(r) = ToSet(s) \ {t}
  BY ListRemoveFacts
<1>2. /\ Len(r) = Len(s) - 1
      /\ \A i \in 1 .. Len(s) - 1 : r[i] = IF i < p THEN s[i] ELSE s[i + 1]
  BY ListRemoveElements
<1>3. p \in 1 .. Len(s) /\ s[p] = t /\ Len(s) \in Nat
  BY PositionFacts
<1> HIDE DEF r, p
<1>4. ASSUME NEW z \in ToSet(s) \ {t}
      PROVE  Position(r, z) = place(z) /\ Position(s, z) \in 1 .. Len(s) /\ Position(s, z) # p
  <2>1. Position(s, z) \in 1 .. Len(s) /\ s[Position(s, z)] = z
    BY PositionFacts
  <2>2. Position(s, z) # p
    BY <2>1, <1>3
  <2>3. place(z) \in 1 .. Len(s) - 1 /\ r[place(z)] = z
    <3>1. CASE Position(s, z) < p
      <4>1. Position(s, z) \in 1 .. Len(s) - 1
        BY <3>1, <2>1, <1>3
      <4> QED BY <4>1, <3>1, <2>1, <1>2
    <3>2. CASE ~(Position(s, z) < p)
      <4>1. /\ Position(s, z) - 1 \in 1 .. Len(s) - 1 /\ ~(Position(s, z) - 1 < p)
            /\ (Position(s, z) - 1) + 1 = Position(s, z)
        BY <3>2, <2>1, <2>2, <1>3
      <4> QED BY <4>1, <3>2, <2>1, <1>2
    <3> QED BY <3>1, <3>2
  <2>4. place(z) \in 1 .. Len(r) /\ z \in ToSet(r)
    BY <2>3, <1>1, <1>2
  <2>5. place(z) = Position(r, z)
    BY <2>3, <2>4, <1>1, PositionFacts
  <2> QED BY <2>1, <2>2, <2>5
<1>5. place(x) <= place(y)
  BY <1>3, <1>4
<1> QED BY <1>4, <1>5 DEF r

\* What is ahead of the walk is what comes after the node it stands at.
LEMMA AheadFacts ==
  ASSUME linked \in Seq(Timer), IsInjective(linked), Null \notin Timer,
         node = Null \/ node \in Linked
  PROVE  /\ node = Null => ToSet(Ahead) = {}
         /\ node # Null => ToSet(Ahead) = {x \in Linked : NotBefore(node, x)}
<1>1. CASE node = Null
  BY <1>1 DEF Ahead, ToSet
<1>2. CASE node # Null
  <2> DEFINE p == Position(linked, node)
             n == Len(linked)
  <2>1. p \in 1 .. n /\ n \in Nat /\ DOMAIN linked = 1 .. n
    BY <1>2, PositionFacts DEF Linked
  <2> HIDE DEF p, n
  <2>2. Ahead = SubSeq(linked, p, n)
    BY <1>2 DEF Ahead, p, n
  <2>3. \A i \in p .. n : linked[i] \in Timer
    BY <2>1 DEF n
  <2>4. /\ Ahead \in Seq(Timer) /\ Len(Ahead) = n - p + 1
        /\ \A i \in 1 .. n - p + 1 : Ahead[i] = linked[p + i - 1]
    <3>1. p <= n /\ p \in Int /\ n \in Int
      BY <2>1
    <3> QED BY <2>2, <2>3, <3>1, SubSeqProperties
  <2>5. DOMAIN Ahead = 1 .. n - p + 1
    BY <2>4
  <2>6. ASSUME NEW x \in ToSet(Ahead) PROVE x \in Linked /\ NotBefore(node, x)
    <3>1. PICK i \in 1 .. n - p + 1 : x = Ahead[i]
      BY <2>5, <2>6 DEF ToSet
    <3>2. x = linked[p + i - 1] /\ p + i - 1 \in 1 .. n /\ p <= p + i - 1
      BY <3>1, <2>1, <2>4
    <3>3. x \in Linked
      BY <3>2, <2>1 DEF Linked, ToSet
    <3>4. p + i - 1 = Position(linked, x)
      BY <3>2, <3>3, PositionFacts DEF Linked, n
    <3> QED BY <3>2, <3>3, <3>4 DEF NotBefore, p
  <2>7. ASSUME NEW x \in Linked, NotBefore(node, x) PROVE x \in ToSet(Ahead)
    <3> DEFINE q == Position(linked, x)
    <3>1. q \in 1 .. n /\ linked[q] = x /\ p <= q
      BY <2>7, PositionFacts DEF Linked, NotBefore, p, n
    <3> HIDE DEF q
    <3>2. q - p + 1 \in 1 .. n - p + 1 /\ p + (q - p + 1) - 1 = q
      BY <3>1, <2>1
    <3>3. Ahead[q - p + 1] = x
      BY <3>1, <3>2, <2>4
    <3> QED BY <3>2, <3>3, <2>5 DEF ToSet
  <2> QED BY <1>2, <2>6, <2>7
<1> QED BY <1>1, <1>2

\* GetNext of a linked timer comes right behind it.
LEMMA GetNextFacts ==
  ASSUME linked \in Seq(Timer), IsInjective(linked), Null \notin Timer, NEW x \in Linked
  PROVE  /\ GetNext(x) = Null => \A y \in Linked : NotBefore(y, x)
         /\ GetNext(x) # Null => /\ GetNext(x) \in Linked /\ GetNext(x) # x
                                 /\ \A y \in Linked \ {x} :
                                      NotBefore(x, y) => NotBefore(GetNext(x), y)
         /\ \A y \in Linked : NotBefore(x, y) /\ NotBefore(y, x) => x = y
<1> DEFINE p == Position(linked, x)
           n == Len(linked)
<1>1. /\ p \in 1 .. n /\ linked[p] = x /\ n \in Nat /\ DOMAIN linked = 1 .. n
      /\ \A i \in 1 .. n : linked[i] = x => i = p
  BY PositionFacts DEF Linked
<1>2. \A y \in Linked : Position(linked, y) \in 1 .. n /\ linked[Position(linked, y)] = y
  BY PositionFacts DEF Linked
<1>3. Last(linked) = linked[n]
  BY DEF Last
<1> HIDE DEF p, n
<1>4. x = Last(linked) <=> p = n
  BY <1>1, <1>3
<1>5. CASE p = n
  <2>1. GetNext(x) = Null
    BY <1>4, <1>5 DEF GetNext
  <2> QED BY <2>1, <1>1, <1>2, <1>5 DEF NotBefore, p
<1>6. CASE p # n
  <2>1. GetNext(x) = linked[p + 1]
    BY <1>4, <1>6 DEF GetNext, p
  <2>2. p + 1 \in 1 .. n /\ p + 1 # p
    BY <1>1, <1>6
  <2>3. GetNext(x) \in Linked /\ GetNext(x) # x
    BY <2>1, <2>2, <1>1 DEF Linked, ToSet
  <2>4. GetNext(x) # Null
    BY <2>1, <2>2, <1>1 DEF n
  <2>5. Position(linked, GetNext(x)) = p + 1
    BY <2>1, <2>2, <2>3, PositionFacts DEF Linked, n
  <2>6. ASSUME NEW y \in Linked \ {x}, NotBefore(x, y) PROVE NotBefore(GetNext(x), y)
    <3>1. Position(linked, y) \in 1 .. n /\ Position(linked, y) # p /\ p <= Position(linked, y)
      BY <2>6, <1>1, <1>2 DEF NotBefore, p
    <3> QED BY <3>1, <2>5, <1>1 DEF NotBefore
  <2> QED BY <2>3, <2>4, <2>6, <1>1, <1>2 DEF NotBefore, p
<1> QED BY <1>5, <1>6

-----------------------------------------------------------------------------
(* The invariant *)

LEMMA TimerInit == Init => TimerInv
<1> SUFFICES ASSUME Init PROVE TimerInv
  OBVIOUS
<1>1. linked \in Seq(Timer) /\ IsInjective(linked) /\ Linked = {}
  BY DEF Init, Linked, IsInjective, ToSet
<1>2. TypeOK
  <2>1. interval \in [Timer -> {0} \cup Interval] /\ left \in [Timer -> Nat]
    BY DEF Init
  <2>2. \A x \in Timer : left[x] <= interval[x]
    BY DEF Init
  <2> QED BY <1>1, <2>1, <2>2 DEF Init, TypeOK
<1> QED BY <1>1, <1>2 DEF Init, TimerInv, NoDeadTimer, AllCalled

LEMMA StartKeeps ==
  ASSUME TimerInv, NEW x \in Timer, NEW repeats \in BOOLEAN, NEW ticks \in Interval,
         Start(x, repeats, ticks)
  PROVE  TimerInv'
<1>1. /\ linked' \in Seq(Timer) /\ IsInjective(linked') /\ Linked' = Linked \cup {x}
      /\ \A y \in Linked : Position(linked', y) = Position(linked, y)
  <2>1. linked \in Seq(Timer) /\ IsInjective(linked) /\ x \notin ToSet(linked) /\ linked' = Append(linked, x)
    BY DEF TimerInv, TypeOK, Start, Linked
  <2>2. linked' \in Seq(Timer) /\ IsInjective(linked')
    BY <2>1, AppendOnce
  <2>3. \A y \in Linked : Position(linked', y) = Position(linked, y)
    BY <2>1, AppendKeepsPlaces DEF Linked
  <2>4. ToSet(linked') = ToSet(linked) \cup {x}
    BY <2>1, AppendMembers
  <2> QED BY <2>2, <2>3, <2>4 DEF Linked
<1>2. ticks \in Nat /\ ticks > 0 /\ Null \notin Timer
  BY TimerListAssumption
<1>3. TypeOK'
  BY <1>1, <1>2 DEF TimerInv, TypeOK, Start
<1>4. active' = Linked' \ {y \in oneShot' : left'[y] = 0} /\ \A y \in Linked' \ oneShot' : left'[y] > 0
  BY <1>1, <1>2 DEF TimerInv, TypeOK, Start
<1>5. NoDeadTimer' /\ AllCalled'
  BY <1>1 DEF TimerInv, NoDeadTimer, AllCalled, Start
<1>6. (at = "call" => node \in Timer /\ (cut \/ node \in Linked))'
  BY <1>1 DEF TimerInv, Start
<1>7. (at # "thread" /\ ~cut => \A y \in callback : node # Null /\ NotBefore(node, y))'
  <2> SUFFICES ASSUME at # "thread", ~cut, NEW y \in callback
               PROVE  node # Null /\ Position(linked', node) <= Position(linked', y)
    BY DEF Start, NotBefore
  <2>1. node # Null /\ NotBefore(node, y) /\ y \in Linked
    BY DEF TimerInv, TypeOK
  <2>2. node \in Linked
    BY <2>1 DEF TimerInv, TypeOK
  <2> QED BY <1>1, <2>1, <2>2 DEF NotBefore
<1> QED BY <1>3, <1>4, <1>5, <1>6, <1>7 DEF TimerInv

\* Taking a timer off the list, in Stop or after its callback.
LEMMA UnlinkFacts ==
  ASSUME TypeOK, NEW x \in Linked, Unlink(x)
  PROVE  /\ linked' \in Seq(Timer) /\ IsInjective(linked') /\ Linked' = Linked \ {x}
         /\ \A y, z \in Linked \ {x} : NotBefore(y, z) =>
              Position(linked', y) <= Position(linked', z)
<1>1. linked \in Seq(Timer) /\ IsInjective(linked) /\ x \in ToSet(linked) /\ linked' = ListRemove(linked, x)
  BY DEF TypeOK, Unlink, Linked
<1>2. linked' \in Seq(Timer) /\ IsInjective(linked') /\ Linked' = Linked \ {x}
  BY <1>1, ListRemoveFacts DEF Linked
<1>3. ASSUME NEW y \in Linked \ {x}, NEW z \in Linked \ {x}, NotBefore(y, z)
      PROVE  Position(linked', y) <= Position(linked', z)
  BY <1>1, <1>3, RemoveKeepsOrder DEF Linked, NotBefore
<1> QED BY <1>2, <1>3

LEMMA StopKeeps ==
  ASSUME TimerInv, NEW x \in Timer, Stop(x)
  PROVE  TimerInv'
<1>1. /\ linked' \in Seq(Timer) /\ IsInjective(linked') /\ Linked' = Linked \ {x}
      /\ \A y, z \in Linked \ {x} : NotBefore(y, z) => Position(linked', y) <= Position(linked', z)
  BY UnlinkFacts DEF Stop, TimerInv
<1>2. TypeOK'
  BY <1>1 DEF TimerInv, TypeOK, Stop, Unlink
<1>3. active' = Linked' \ {y \in oneShot' : left'[y] = 0} /\ \A y \in Linked' \ oneShot' : left'[y] > 0
  BY <1>1 DEF TimerInv, TypeOK, Stop, Unlink
<1>4. NoDeadTimer' /\ AllCalled'
  BY <1>1 DEF TimerInv, NoDeadTimer, AllCalled, Stop, Unlink
<1>5. (at = "call" => node \in Timer /\ (cut \/ node \in Linked))'
  BY <1>1 DEF TimerInv, Stop
<1>6. (at # "thread" /\ ~cut => \A y \in callback : node # Null /\ NotBefore(node, y))'
  <2> SUFFICES ASSUME at # "thread", ~cut, ~(at = "call" /\ x = node), NEW y \in callback \ {x}
               PROVE  node # Null /\ Position(linked', node) <= Position(linked', y)
    BY DEF Stop, Unlink, NotBefore
  <2>1. at = "call" /\ x # node
    BY DEF Stop
  <2>2. node # Null /\ NotBefore(node, y) /\ y \in Linked /\ node \in Linked
    BY <2>1 DEF TimerInv, TypeOK
  <2> QED BY <1>1, <2>1, <2>2
<1> QED BY <1>2, <1>3, <1>4, <1>5, <1>6 DEF TimerInv

LEMMA FirstPassKeeps ==
  ASSUME TimerInv, FirstPass
  PROVE  TimerInv'
<1>1. /\ linked' = linked /\ Linked' = Linked /\ linked \in Seq(Timer) /\ IsInjective(linked)
      /\ oneShot' = oneShot /\ interval' = interval /\ Null \notin Timer
  BY TimerListAssumption DEF TimerInv, TypeOK, FirstPass, Linked
<1>2. /\ linked # <<>> => Head(linked) \in Linked /\ Head(linked) \in Timer
                          /\ \A x \in Linked : Position(linked, Head(linked)) <= Position(linked, x)
      /\ linked = <<>> => Linked = {}
  <2>1. CASE linked # <<>>
    <3>1. Len(linked) \in Nat \ {0} /\ Head(linked) = linked[1] /\ DOMAIN linked = 1 .. Len(linked)
      BY <2>1, <1>1
    <3>2. Head(linked) \in Linked /\ Head(linked) \in Timer
      BY <3>1, <1>1 DEF Linked, ToSet
    <3>3. 1 = Position(linked, Head(linked))
      BY <3>1, <3>2, <1>1, PositionFacts DEF Linked
    <3>4. \A x \in Linked : 1 <= Position(linked, x)
      BY <1>1, PositionFacts DEF Linked
    <3> QED BY <2>1, <3>2, <3>3, <3>4
  <2>2. CASE linked = <<>>
    BY <2>2 DEF Linked, ToSet
  <2> QED BY <2>1, <2>2
<1>3. \A x \in Timer : left[x] \in Nat /\ interval[x] \in Nat /\ left[x] <= interval[x]
  <2>1. \A x \in Timer : interval[x] \in {0} \cup Interval /\ left[x] \in Nat /\ left[x] <= interval[x]
    BY DEF TimerInv, TypeOK
  <2>2. {0} \cup Interval \subseteq Nat
    BY TimerListAssumption
  <2> QED BY <2>1, <2>2
<1>4. \A x \in active : left[x] > 0 /\ x \in Linked /\ x \in Timer
  <2>1. Linked \subseteq Timer
    BY <1>1 DEF Linked, ToSet
  <2>2. /\ active = Linked \ {x \in oneShot : left[x] = 0}
        /\ \A x \in Linked \ oneShot : left[x] > 0
    BY DEF TimerInv
  <2>3. \A x \in active : x \in Linked /\ (x \notin oneShot \/ left[x] # 0)
    BY <2>2
  <2> QED BY <1>3, <2>1, <2>2, <2>3
<1>5. /\ left' \in [Timer -> Nat]
      /\ \A x \in Timer : left'[x] <= interval[x]
      /\ \A x \in active \cap oneShot : left'[x] = 0 <=> Expires(x)
      /\ \A x \in active \ oneShot : left'[x] > 0
      /\ \A x \in Timer \ active : left'[x] = left[x]
  <2>1. \A x \in Timer : left'[x] = IF x \notin active THEN left[x]
                                    ELSE IF Expires(x) /\ x \notin oneShot THEN interval[x]
                                    ELSE left[x] - 1
    BY DEF FirstPass
  <2>2. ASSUME NEW x \in Timer
        PROVE  /\ left'[x] \in Nat /\ left'[x] <= interval[x]
               /\ x \in active /\ x \in oneShot => (left'[x] = 0 <=> Expires(x))
               /\ x \in active /\ x \notin oneShot => left'[x] > 0
               /\ x \notin active => left'[x] = left[x]
    BY <2>1, <1>3, <1>4 DEF Expires
  <2>3. left' = [x \in Timer |-> left'[x]]
    BY DEF FirstPass
  <2> QED BY <2>2, <2>3, <1>4
<1>6. callback' = callback \cup {x \in active : Expires(x)} /\ callback' \subseteq Linked
  BY <1>4 DEF FirstPass, TimerInv, TypeOK
<1>7. active' = {x \in active : ~(Expires(x) /\ x \in oneShot)}
  BY DEF FirstPass
<1>8. TypeOK'
  <2>1. node' = (IF linked = <<>> THEN Null ELSE Head(linked)) /\ at' = "scan" /\ cut' = FALSE
    BY DEF FirstPass
  <2> QED BY <2>1, <1>1, <1>2, <1>5, <1>6, <1>7, <1>4 DEF TimerInv, TypeOK
<1>9. active' = Linked' \ {x \in oneShot' : left'[x] = 0}
  <2>1. oneShot \subseteq Linked /\ Linked \subseteq Timer
        /\ active = Linked \ {x \in oneShot : left[x] = 0}
    <3>1. Linked \subseteq Timer
      BY <1>1 DEF Linked, ToSet
    <3> QED BY <3>1 DEF TimerInv, TypeOK
  <2>2. ASSUME NEW x \in Linked
        PROVE  x \in active' <=> ~(x \in oneShot /\ left'[x] = 0)
    BY <2>1, <1>5, <1>7
  <2> QED BY <2>1, <2>2, <1>1, <1>7
<1>10. \A x \in Linked' \ oneShot' : left'[x] > 0
  BY <1>1, <1>5 DEF TimerInv
<1>11. NoDeadTimer' /\ AllCalled'
  BY <1>1, <1>6, <1>7 DEF TimerInv, NoDeadTimer, AllCalled, FirstPass
<1>12. (at = "call" => node \in Timer /\ (cut \/ node \in Linked))'
  BY DEF FirstPass
<1>13. (at # "thread" /\ ~cut => \A x \in callback : node # Null /\ NotBefore(node, x))'
  BY <1>1, <1>2, <1>6 DEF FirstPass, NotBefore
<1> QED BY <1>8, <1>9, <1>10, <1>11, <1>12, <1>13 DEF TimerInv

LEMMA CallNextKeeps ==
  ASSUME TimerInv, CallNext
  PROVE  TimerInv'
<1>1. PICK x \in ToSet(Ahead) \cap callback :
        /\ \A y \in ToSet(Ahead) \cap callback : NotBefore(x, y)
        /\ node' = x
  BY DEF CallNext, NotBefore
<1>2. /\ linked' = linked /\ Linked' = Linked /\ callback' = callback /\ at = "scan" /\ at' = "call"
      /\ cut' = cut /\ active' = active /\ oneShot' = oneShot /\ left' = left /\ interval' = interval
  BY DEF CallNext, Linked
<1>3. x \in Linked /\ x \in Timer /\ x # Null
  <2>1. callback \subseteq Linked /\ Linked \subseteq Timer /\ Null \notin Timer
    BY TimerListAssumption DEF TimerInv, TypeOK, Linked, ToSet
  <2> QED BY <1>1, <2>1
<1>4. TypeOK'
  BY <1>1, <1>2, <1>3 DEF TimerInv, TypeOK
<1>5. (at # "thread" /\ ~cut => \A y \in callback : node # Null /\ NotBefore(node, y))'
  <2> SUFFICES ASSUME ~cut, NEW y \in callback PROVE NotBefore(x, y)
    BY <1>1, <1>2, <1>3 DEF NotBefore
  <2>1. node # Null /\ NotBefore(node, y) /\ y \in Linked
    BY <1>2 DEF TimerInv, TypeOK
  <2>2. y \in ToSet(Ahead)
    BY <2>1, <1>2, TimerListAssumption, AheadFacts DEF TimerInv, TypeOK
  <2> QED BY <2>2, <1>1
<1>6. NoDeadTimer' /\ AllCalled'
  BY <1>2 DEF TimerInv, NoDeadTimer, AllCalled
<1> QED BY <1>1, <1>2, <1>3, <1>4, <1>5, <1>6 DEF TimerInv

LEMMA CallReturnsKeeps ==
  ASSUME TimerInv, CallReturns
  PROVE  TimerInv'
<1>1. /\ linked \in Seq(Timer) /\ IsInjective(linked) /\ Null \notin Timer /\ node \in Timer
      /\ cut \/ node \in Linked
      /\ callback \subseteq Linked /\ oneShot \subseteq Linked /\ Linked \subseteq Timer
      /\ at = "call" /\ at' = "scan" /\ cut' = cut /\ node' = GetNext(node)
  BY TimerListAssumption DEF TimerInv, TypeOK, CallReturns, Linked, ToSet
<1>2. node' = Null \/ (node' \in Linked /\ node' # node)
  <2>1. CASE node \in Linked
    BY <2>1, <1>1, GetNextFacts
  <2>2. CASE node \notin Linked
    BY <2>2, <1>1 DEF GetNext
  <2> QED BY <2>1, <2>2
<1>3. ~cut => \A x \in callback \ {node} : node' # Null /\ NotBefore(node', x)
  <2> SUFFICES ASSUME ~cut, NEW x \in callback, x # node
               PROVE  node' # Null /\ NotBefore(node', x)
    OBVIOUS
  <2>1. node \in Linked /\ NotBefore(node, x) /\ x \in Linked
    BY <1>1 DEF TimerInv
  <2> QED BY <2>1, <1>1, GetNextFacts
<1>4. CASE node \in oneShot
  <2>1. Unlink(node) /\ node \in Linked
    BY <1>1, <1>4 DEF CallReturns
  <2>2. /\ linked' \in Seq(Timer) /\ IsInjective(linked') /\ Linked' = Linked \ {node}
        /\ \A y, z \in Linked \ {node} : NotBefore(y, z) => Position(linked', y) <= Position(linked', z)
    BY <2>1, UnlinkFacts DEF TimerInv
  <2>3. TypeOK'
    BY <2>1, <2>2, <1>1, <1>2 DEF TimerInv, TypeOK, Unlink
  <2>4. active' = Linked' \ {y \in oneShot' : left'[y] = 0} /\ \A y \in Linked' \ oneShot' : left'[y] > 0
    BY <2>1, <2>2 DEF TimerInv, TypeOK, Unlink
  <2>5. NoDeadTimer' /\ AllCalled'
    BY <2>1, <2>2, <1>1 DEF TimerInv, NoDeadTimer, AllCalled, Unlink
  <2>6. (at # "thread" /\ ~cut => \A y \in callback : node # Null /\ NotBefore(node, y))'
    <3> SUFFICES ASSUME ~cut, NEW y \in callback \ {node}
                 PROVE  node' # Null /\ Position(linked', node') <= Position(linked', y)
      BY <2>1, <1>1 DEF Unlink, NotBefore
    <3> QED BY <1>1, <1>2, <1>3, <2>2
  <2> QED BY <2>3, <2>4, <2>5, <2>6, <1>1 DEF TimerInv
<1>5. CASE node \notin oneShot
  <2>1. /\ callback' = callback \ {node} /\ linked' = linked /\ Linked' = Linked
        /\ active' = active /\ oneShot' = oneShot /\ interval' = interval /\ left' = left
    BY <1>5 DEF CallReturns, Linked
  <2>2. TypeOK'
    BY <2>1, <1>1, <1>2 DEF TimerInv, TypeOK
  <2>3. NoDeadTimer'
    <3>1. node \in Linked => node \in active
      BY <1>5 DEF TimerInv
    <3> QED BY <3>1, <2>1 DEF TimerInv, NoDeadTimer
  <2>4. (at # "thread" /\ ~cut => \A y \in callback : node # Null /\ NotBefore(node, y))'
    BY <1>1, <1>3, <2>1 DEF NotBefore
  <2> QED BY <2>1, <2>2, <2>3, <2>4, <1>1 DEF TimerInv, AllCalled
<1> QED BY <1>4, <1>5

LEMMA PassEndsKeeps ==
  ASSUME TimerInv, PassEnds
  PROVE  TimerInv'
<1>1. /\ linked' = linked /\ Linked' = Linked /\ callback' = callback /\ at = "scan" /\ at' = "thread"
      /\ cut' = cut /\ active' = active /\ oneShot' = oneShot /\ left' = left /\ interval' = interval
      /\ node' = Null
  BY DEF PassEnds, Linked
<1>2. ~cut => callback = {}
  <2> SUFFICES ASSUME ~cut, NEW x \in callback PROVE FALSE
    OBVIOUS
  <2>1. node # Null /\ NotBefore(node, x) /\ x \in Linked
    BY <1>1 DEF TimerInv, TypeOK
  <2>2. x \in ToSet(Ahead)
    BY <2>1, <1>1, TimerListAssumption, AheadFacts DEF TimerInv, TypeOK
  <2> QED BY <2>2 DEF PassEnds
<1>3. TypeOK'
  BY <1>1 DEF TimerInv, TypeOK
<1> QED BY <1>1, <1>2, <1>3 DEF TimerInv, NoDeadTimer, AllCalled

LEMMA TimerNext == TimerInv /\ [Next]_vars => TimerInv'
<1> SUFFICES ASSUME TimerInv, [Next]_vars PROVE TimerInv'
  OBVIOUS
<1>1. ASSUME NEW x \in Timer, Stop(x) PROVE TimerInv'
  BY <1>1, StopKeeps
<1>2. ASSUME NEW x \in Timer, NEW repeats \in BOOLEAN, NEW ticks \in Interval,
             Start(x, repeats, ticks)
      PROVE  TimerInv'
  BY <1>2, StartKeeps
<1>3. CASE FirstPass
  BY <1>3, FirstPassKeeps
<1>4. CASE CallNext
  BY <1>4, CallNextKeeps
<1>5. CASE CallReturns
  BY <1>5, CallReturnsKeeps
<1>6. CASE PassEnds
  BY <1>6, PassEndsKeeps
<1>7. CASE UNCHANGED vars
  BY <1>7 DEF vars, TimerInv, TypeOK, Linked, NoDeadTimer, AllCalled, NotBefore
<1> QED BY <1>1, <1>2, <1>3, <1>4, <1>5, <1>6, <1>7 DEF Next

\* The invariant of the timer list holds in every reachable state.
THEOREM TimerInvariance == Spec => []TimerInv
<1>1. SafeSpec => []TimerInv
  BY TimerInit, TimerNext, PTL DEF SafeSpec
<1> QED BY <1>1, PTL DEF Spec

\* TypeOK of TimerList: the list has no timer twice, flags are those of linked
\* timers, and no timer has more to count than its interval.
THEOREM TimersTypeCorrect == Spec => []TypeOK
<1>1. TimerInv => TypeOK
  BY DEF TimerInv
<1> QED BY <1>1, TimerInvariance, PTL

\* A pass calls every timer that has expired, whatever its callbacks do to the
\* list, unless one of them stops its own timer (TimerList::Process).
THEOREM EveryExpiryCalled == Spec => []AllCalled
<1>1. TimerInv => AllCalled
  BY DEF TimerInv
<1> QED BY <1>1, TimerInvariance, PTL

\* No timer stays on the list that will never expire again.
THEOREM NoTimerDead == Spec => []NoDeadTimer
<1>1. TimerInv => NoDeadTimer
  BY DEF TimerInv
<1> QED BY <1>1, TimerInvariance, PTL

-----------------------------------------------------------------------------
(* The timers keep the promise of TimerSpec *)

LEMMA TimersInit == Init => Timers!Init
<1> SUFFICES ASSUME Init PROVE Timers!Init
  OBVIOUS
<1>1. Linked = {}
  BY DEF Init, Linked, ToSet
<1> QED BY <1>1 DEF Init, Timers!Init

\* The step of TimerSpec that each step of TimerList is.
LEMMA TimersNext ==
  ASSUME TimerInv, [Next]_vars
  PROVE  [Timers!Next]_(Timers!vars)
<1>1. /\ linked \in Seq(Timer) /\ IsInjective(linked) /\ Null \notin Timer
      /\ callback \subseteq Linked /\ oneShot \subseteq Linked /\ Linked \subseteq Timer
      /\ at \in {"thread", "scan", "call"}
  BY TimerListAssumption DEF TimerInv, TypeOK, Linked, ToSet
<1>2. ASSUME NEW x \in Timer, Stop(x) PROVE Timers!Stop(x)
  <2>1. Linked' = Linked \ {x}
    BY <1>2, UnlinkFacts DEF Stop, TimerInv
  <2> QED BY <1>2, <2>1 DEF Stop, Unlink, Timers!Stop, Timers!Off
<1>3. ASSUME NEW x \in Timer, NEW repeats \in BOOLEAN, NEW ticks \in Interval,
             Start(x, repeats, ticks)
      PROVE  Timers!Start(x, repeats, ticks)
  <2>1. Linked' = Linked \cup {x}
    BY <1>1, <1>3, AppendMembers DEF Start, Linked
  <2> QED BY <1>3, <2>1 DEF Start, Timers!Start
<1>4. CASE FirstPass
  <2>1. Timers!Counting = active
    BY DEF TimerInv, Timers!Counting
  <2>2. Linked' = Linked /\ oneShot' = oneShot /\ interval' = interval /\ at = "thread" /\ at' = "scan"
    BY <1>4 DEF FirstPass, Linked
  <2>3. left' = [x \in Timer |-> IF x \notin active THEN left[x]
                                 ELSE IF x \in {y \in active : left[y] = 1} \ oneShot THEN interval[x]
                                 ELSE left[x] - 1]
    BY <1>4 DEF FirstPass, Expires
  <2>4. callback' = callback \cup {x \in active : left[x] = 1}
    BY <1>4 DEF FirstPass, Expires
  <2>5. Timers!Tick
    BY <2>1, <2>2, <2>3, <2>4 DEF Timers!Tick
  <2> QED BY <2>5 DEF Timers!Next
<1>5. CASE CallNext
  <2>1. PICK x \in ToSet(Ahead) \cap callback : node' = x
    BY <1>5 DEF CallNext
  <2>2. /\ Linked' = Linked /\ callback' = callback /\ at = "scan" /\ at' = "call"
        /\ oneShot' = oneShot /\ left' = left /\ interval' = interval
    BY <1>5 DEF CallNext, Linked
  <2>3. Timers!Call(x)
    BY <2>1, <2>2 DEF Timers!Call
  <2>4. x \in Timer
    BY <1>1, <2>1
  <2> QED BY <2>3, <2>4 DEF Timers!Next
<1>6. CASE CallReturns
  <2>1. node \in Timer /\ at = "call" /\ at' = "scan"
    BY <1>6 DEF CallReturns, TimerInv
  <2>2. CASE node \in oneShot
    <3>1. Unlink(node) /\ Linked' = Linked \ {node}
      BY <1>1, <1>6, <2>2, UnlinkFacts DEF CallReturns, TimerInv
    <3>2. Timers!Return(node)
      BY <2>1, <2>2, <3>1 DEF Unlink, Timers!Return, Timers!Off
    <3> QED BY <2>1, <3>2 DEF Timers!Next
  <2>3. CASE node \notin oneShot
    <3>1. /\ callback' = callback \ {node} /\ Linked' = Linked
          /\ oneShot' = oneShot /\ left' = left /\ interval' = interval
      BY <1>6, <2>3 DEF CallReturns, Linked
    <3>2. Timers!Return(node)
      BY <2>1, <2>3, <3>1 DEF Timers!Return
    <3> QED BY <2>1, <3>2 DEF Timers!Next
  <2> QED BY <2>2, <2>3
<1>7. CASE PassEnds
  BY <1>7 DEF PassEnds, Timers!vars, Linked
<1>8. CASE UNCHANGED vars
  BY <1>8 DEF vars, Timers!vars, Linked
<1>9. ASSUME NEW x \in Timer, Stop(x) PROVE Timers!Next
  BY <1>2, <1>9 DEF Timers!Next
<1>10. ASSUME NEW x \in Timer, NEW repeats \in BOOLEAN, NEW ticks \in Interval,
              Start(x, repeats, ticks)
       PROVE  Timers!Next
  BY <1>3, <1>10 DEF Timers!Next
<1> QED BY <1>4, <1>5, <1>6, <1>7, <1>8, <1>9, <1>10 DEF Next

\* Every timer keeps its own time and is called once per expiry: the list, its
\* flags and the walk of Process implement TimerSpec.
THEOREM TimersImplemented == Spec => ImplementsTimers
<1>1. SafeSpec => []TimerInv
  BY TimerInit, TimerNext, PTL DEF SafeSpec
<1>2. TimerInv /\ [Next]_vars => [Timers!Next]_(Timers!vars)
  BY TimersNext
<1>3. SafeSpec => Timers!Spec
  BY <1>1, <1>2, TimersInit, PTL DEF SafeSpec, Timers!Spec
<1> QED BY <1>3, PTL DEF Spec, ImplementsTimers

=============================================================================
