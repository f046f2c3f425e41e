----------------------------- MODULE MailboxProofs -----------------------------
(***************************************************************************)
(* Proofs about mailboxes, among all the other objects: the ring of slots, *)
(* what each step of Send and Receive does to the letters of its box and   *)
(* to the threads that have a token for one, and that a mailbox is the     *)
(* sequence of letters its interface promises.                             *)
(***************************************************************************)
EXTENDS WaitProofs

-----------------------------------------------------------------------------
(* Rings: slots, places and the letters between them *)

\* The slot j places behind slot i.
Spot(i, j) == IF i + j < Capacity THEN i + j ELSE i + j - Capacity

LEMMA SlotsAre ==
  ASSUME MailboxAssumption
  PROVE  Capacity \in Nat \ {0} /\ Slot = 0 .. Capacity - 1
BY DEF MailboxAssumption, Slot

LEMMA Wraps ==
  ASSUME MailboxAssumption, NEW x \in Nat, x < Capacity + Capacity
  PROVE  x % Capacity = IF x < Capacity THEN x ELSE x - Capacity
<1>1. Capacity \in Nat \ {0}
  BY SlotsAre
<1>2. CASE x < Capacity
  BY <1>1, <1>2
<1>3. CASE ~(x < Capacity)
  BY <1>1, <1>3
<1> QED BY <1>2, <1>3

LEMMA SpotIs ==
  ASSUME MailboxAssumption, NEW i \in Slot, NEW j \in 0 .. Capacity
  PROVE  (i + j) % Capacity = Spot(i, j) /\ Spot(i, j) \in Slot
<1>1. PICK x \in Nat : x = i + j
  BY SlotsAre
<1>2. x < Capacity + Capacity /\ x - Capacity < Capacity
  BY <1>1, SlotsAre
<1>3. x % Capacity = IF x < Capacity THEN x ELSE x - Capacity
  BY <1>2, Wraps
<1>4. Spot(i, j) = IF x < Capacity THEN x ELSE x - Capacity
  BY <1>1, SlotsAre DEF Spot
<1>5. Spot(i, j) \in Slot
  BY <1>1, <1>2, <1>4, SlotsAre
<1> QED BY <1>1, <1>3, <1>4, <1>5

LEMMA Neighbours ==
  ASSUME MailboxAssumption, NEW i \in Slot
  PROVE  /\ After(i) = Spot(i, 1) /\ After(i) \in Slot
         /\ Before(i) = Spot(i, Capacity - 1) /\ Before(i) \in Slot
<1>1. Capacity \in Nat \ {0} /\ 1 \in 0 .. Capacity /\ Capacity - 1 \in 0 .. Capacity
  BY SlotsAre
<1>2. After(i) = Spot(i, 1) /\ After(i) \in Slot
  BY <1>1, SpotIs DEF After
<1>3. Before(i) = (i + (Capacity - 1)) % Capacity
  <2>1. i + Capacity - 1 = i + (Capacity - 1)
    BY <1>1, SlotsAre
  <2> QED BY <2>1 DEF Before
<1> QED BY <1>1, <1>2, <1>3, SpotIs

\* A step around the ring.
LEMMA SpotSteps ==
  ASSUME MailboxAssumption, NEW i \in Slot, NEW j \in 0 .. Capacity - 1
  PROVE  /\ Spot(Before(i), j + 1) = Spot(i, j)
         /\ Spot(After(i), j) = Spot(i, j + 1)
         /\ After(Spot(i, j)) = Spot(i, j + 1)
         /\ Before(Spot(i, j + 1)) = Spot(i, j)
<1>1. Capacity \in Nat \ {0} /\ i \in 0 .. Capacity - 1 /\ j \in 0 .. Capacity /\ j + 1 \in 0 .. Capacity
  BY SlotsAre
<1>2. Spot(i, j) \in Slot /\ Spot(i, j + 1) \in Slot
  BY <1>1, SpotIs
<1>3. ASSUME NEW h \in Slot
      PROVE  /\ After(h) = (IF h + 1 < Capacity THEN h + 1 ELSE 0)
             /\ Before(h) = (IF h = 0 THEN Capacity - 1 ELSE h - 1)
  <2>1. h \in 0 .. Capacity - 1 /\ After(h) = Spot(h, 1) /\ Before(h) = Spot(h, Capacity - 1)
    BY Neighbours, SlotsAre
  <2>2. Spot(h, 1) = (IF h + 1 < Capacity THEN h + 1 ELSE 0)
    BY <1>1, <2>1 DEF Spot
  <2>3. Spot(h, Capacity - 1) = (IF h = 0 THEN Capacity - 1 ELSE h - 1)
    BY <1>1, <2>1 DEF Spot
  <2> QED BY <2>1, <2>2, <2>3
<1>4. Spot(Before(i), j + 1) = Spot(i, j)
  <2>1. CASE i = 0
    BY <1>1, <1>3, <2>1 DEF Spot
  <2>2. CASE i # 0
    BY <1>1, <1>3, <2>2 DEF Spot
  <2> QED BY <2>1, <2>2
<1>5. Spot(After(i), j) = Spot(i, j + 1)
  BY <1>1, <1>3, SlotsAre DEF Spot
<1>6. After(Spot(i, j)) = Spot(i, j + 1)
  BY <1>1, <1>2, <1>3, SlotsAre DEF Spot
<1>7. Before(Spot(i, j + 1)) = Spot(i, j)
  BY <1>1, <1>2, <1>3, SlotsAre DEF Spot
<1> QED BY <1>4, <1>5, <1>6, <1>7

LEMMA SpotsDiffer ==
  ASSUME MailboxAssumption, NEW i \in Slot, NEW j \in 1 .. Capacity, NEW h \in 1 .. Capacity, j # h
  PROVE  Spot(i, j) # Spot(i, h)
BY SlotsAre DEF Spot

\* What is known of a ring that fits.
LEMMA RingFields ==
  ASSUME MailboxAssumption, NEW r, Fits(r)
  PROVE  /\ r \in Ring /\ r.tail \in Slot /\ r.head \in Slot /\ r.free \in 0 .. Capacity
         /\ Capacity - r.free \in 0 .. Capacity
         /\ r.slots \in [Slot -> Thread \cup {NoList}]
         /\ r.head = Spot(r.tail, Capacity - r.free)
<1>1. /\ r \in Ring /\ r.tail \in Slot /\ r.head \in Slot /\ r.free \in 0 .. Capacity
      /\ r.slots \in [Slot -> Thread \cup {NoList}]
  BY DEF Fits, Ring
<1>2. Capacity - r.free \in 0 .. Capacity
  BY <1>1, SlotsAre
<1> QED BY <1>1, <1>2, SpotIs DEF Fits

\* A ring with new places in it.
LEMMA RingFits ==
  ASSUME MailboxAssumption, NEW r \in Ring, r.head = Spot(r.tail, Capacity - r.free)
  PROVE  Fits(r)
<1>1. r.tail \in Slot /\ r.free \in 0 .. Capacity
  BY DEF Ring
<1>2. Capacity - r.free \in 0 .. Capacity
  BY <1>1, SlotsAre
<1> QED BY <1>1, <1>2, SpotIs DEF Fits

Frees == 0 .. Capacity
WithTail(r, f, x) == [r EXCEPT !.free = f, !.tail = x]
WithHead(r, f, x) == [r EXCEPT !.free = f, !.head = x]
Written(r, x, t)  == [r EXCEPT !.slots[x] = t]

LEMMA TailMoves ==
  ASSUME NEW r \in Ring, NEW f, NEW x, f \in Frees, x \in Slot,
         NEW d, d = WithTail(r, f, x)
  PROVE  d \in Ring /\ d.head = r.head /\ d.tail = x /\ d.free = f /\ d.slots = r.slots
BY DEF Ring, Frees, WithTail

LEMMA HeadMoves ==
  ASSUME NEW r \in Ring, NEW f, NEW x, f \in Frees, x \in Slot,
         NEW d, d = WithHead(r, f, x)
  PROVE  d \in Ring /\ d.head = x /\ d.tail = r.tail /\ d.free = f /\ d.slots = r.slots
BY DEF Ring, Frees, WithHead

LEMMA RingWritten ==
  ASSUME NEW r \in Ring, NEW x, x \in Slot, NEW t, t \in Thread,
         NEW d, d = Written(r, x, t)
  PROVE  /\ d \in Ring /\ d.head = r.head /\ d.tail = r.tail /\ d.free = r.free
         /\ d.slots = [r.slots EXCEPT ![x] = t]
BY DEF Ring, Written

-----------------------------------------------------------------------------
Run(r, e, m) == [i \in 1 .. m |-> r.slots[Spot(r.tail, e - 1 + i)]]

\* The letters between two places.
LEMMA BetweenIs ==
  ASSUME MailboxAssumption, NEW r, Fits(r), NEW first \in 0 .. 2, NEW last \in Int,
         last <= Capacity, last >= first - 1
  PROVE  /\ Between(r, first, last) = Run(r, first, last - first + 1)
         /\ Between(r, first, last) \in Seq(Thread \cup {NoList})
         /\ Len(Between(r, first, last)) = last - first + 1
<1> DEFINE m == last - first + 1
           s == Between(r, first, last)
<1>1. /\ Capacity \in Nat \ {0} /\ r.tail \in Slot /\ r.tail \in Nat
      /\ r.slots \in [Slot -> Thread \cup {NoList}]
  BY RingFields, SlotsAre
<1>2. m \in Nat /\ \A i \in 1 .. m : first - 1 + i \in 0 .. Capacity
  BY <1>1
<1>3. \A i \in 1 .. m : /\ (r.tail + first - 1 + i) % Capacity = Spot(r.tail, first - 1 + i)
                        /\ Spot(r.tail, first - 1 + i) \in Slot
  <2>1. \A i \in 1 .. m : (r.tail + first - 1 + i) = r.tail + (first - 1 + i)
    BY <1>1
  <2> QED BY <1>1, <1>2, <2>1, SpotIs
<1>4. s = [i \in 1 .. m |-> r.slots[Spot(r.tail, first - 1 + i)]]
  BY <1>3 DEF Between
<1>5. s \in [1 .. m -> Thread \cup {NoList}]
  BY <1>1, <1>3, <1>4
<1> HIDE DEF s, m
<1>6. s \in Seq(Thread \cup {NoList}) /\ Len(s) = m
  BY <1>2, <1>5
<1> QED BY <1>4, <1>6 DEF s, m, Run

\* The same letters, seen from another place.
LEMMA SameBetween ==
  ASSUME MailboxAssumption, NEW r, Fits(r), NEW d, Fits(d), d.slots = r.slots,
         NEW n \in 0 .. Capacity, NEW e \in 0 .. 2, n + e - 1 <= Capacity,
         \A i \in 1 .. n : Spot(d.tail, e - 1 + i) = Spot(r.tail, i)
  PROVE  Between(d, e, n + e - 1) = Between(r, 1, n)
<1>1. /\ n + e - 1 \in Int /\ n + e - 1 >= e - 1 /\ n \in Int /\ n >= 1 - 1 /\ n <= Capacity
      /\ 1 \in 0 .. 2
  BY SlotsAre
<1>2. PICK last \in Int : last = n + e - 1
  BY <1>1
<1>3. last <= Capacity /\ last >= e - 1 /\ last - e + 1 = n
  BY <1>1, <1>2
<1>4. Between(d, e, last) = Run(d, e, last - e + 1)
  BY <1>3, BetweenIs
<1>5. PICK one \in 0 .. 2 : one = 1
  OBVIOUS
<1>6. n <= Capacity /\ n >= one - 1 /\ n - one + 1 = n /\ \A i \in 1 .. n : one - 1 + i = i
  BY <1>1, <1>5
<1>7. Between(r, one, n) = Run(r, one, n - one + 1)
  BY <1>1, <1>6, BetweenIs
<1>8. Between(r, one, n) = [i \in 1 .. n |-> r.slots[Spot(r.tail, i)]]
  BY <1>6, <1>7 DEF Run
<1>9. Between(d, e, last) = [i \in 1 .. n |-> r.slots[Spot(r.tail, i)]]
  BY <1>3, <1>4 DEF Run
<1> QED BY <1>2, <1>5, <1>8, <1>9

\* The letters in a ring at one of whose ends a thread has reached the place at.
Seen(r, at, end) ==
  LET n == Capacity - r.free
  IN  Between(r,
        IF at = "copyIn" /\ end = "tail" THEN 2 ELSE IF at = "copyOut" /\ end = "tail" THEN 0 ELSE 1,
        IF at = "copyIn" /\ end = "head" THEN n - 1 ELSE IF at = "copyOut" /\ end = "head" THEN n + 1 ELSE n)

\* Such a thread has a slot to copy to or from.
Leaves(r, at) == (at = "copyIn" => r.free < Capacity) /\ (at = "copyOut" => r.free > 0)

LEMMA SeenIs ==
  ASSUME MailboxAssumption, NEW r, Fits(r), NEW at, Leaves(r, at), NEW end \in {"tail", "head"}
  PROVE  /\ Seen(r, at, end) \in Seq(Thread \cup {NoList})
         /\ Len(Seen(r, at, end)) = Capacity - r.free + (IF at = "copyIn" THEN -1 ELSE IF at = "copyOut" THEN 1 ELSE 0)
         /\ Len(Seen(r, at, end)) <= Capacity
<1> DEFINE n == Capacity - r.free
           first == IF at = "copyIn" /\ end = "tail" THEN 2 ELSE IF at = "copyOut" /\ end = "tail" THEN 0 ELSE 1
           last == IF at = "copyIn" /\ end = "head" THEN n - 1 ELSE IF at = "copyOut" /\ end = "head" THEN n + 1 ELSE n
<1>1. Capacity \in Nat \ {0} /\ r.free \in 0 .. Capacity /\ n \in 0 .. Capacity
  BY RingFields, SlotsAre
<1>2. (at = "copyIn" => n >= 1) /\ (at = "copyOut" => n < Capacity)
  BY <1>1 DEF Leaves
<1>3. first \in 0 .. 2 /\ last \in Int /\ last <= Capacity /\ last >= first - 1
  BY <1>1, <1>2
<1>4. last - first + 1 = n + (IF at = "copyIn" THEN -1 ELSE IF at = "copyOut" THEN 1 ELSE 0)
  BY <1>1
<1>5. Seen(r, at, end) = Between(r, first, last)
  BY DEF Seen
<1> HIDE DEF first, last
<1>6. Len(Between(r, first, last)) = last - first + 1 /\ Between(r, first, last) \in Seq(Thread \cup {NoList})
  BY <1>3, BetweenIs
<1> QED BY <1>1, <1>2, <1>4, <1>5, <1>6

\* A slot is claimed: the letters are the same.
LEMMA ClaimIs ==
  ASSUME MailboxAssumption, NEW r, Fits(r), r.free > 0, NEW end \in {"tail", "head"},
         NEW d, d = ClaimSlot(r, end)
  PROVE  /\ Fits(d) /\ d.free = r.free - 1 /\ d.free < Capacity
         /\ ClaimedSlot(r, end) = LastClaimed(d, end)
         /\ ClaimedSlot(r, end) \in Slot
         /\ Seen(d, "copyIn", end) = Seen(r, "run", end)
<1> DEFINE n == Capacity - r.free
<1>1. /\ Capacity \in Nat \ {0} /\ r.free \in 1 .. Capacity /\ n \in 0 .. Capacity - 1
      /\ r \in Ring /\ r.tail \in Slot /\ r.head \in Slot /\ r.head = Spot(r.tail, n)
      /\ r.free - 1 \in 0 .. Capacity /\ Capacity - (r.free - 1) = n + 1
  BY RingFields, SlotsAre
<1>2. CASE end = "tail"
  <2>1. /\ d \in Ring /\ d.head = r.head /\ d.tail = Before(r.tail) /\ d.free = r.free - 1 /\ d.slots = r.slots
    <3>1. PICK f, x : f = r.free - 1 /\ x = Before(r.tail)
      OBVIOUS
    <3>2. d = WithTail(r, f, x) /\ f \in Frees /\ x \in Slot
      BY <1>1, <1>2, <3>1, Neighbours DEF Frees, ClaimSlot, WithTail
    <3>3. d \in Ring /\ d.head = r.head /\ d.tail = x /\ d.free = f /\ d.slots = r.slots
      BY <1>1, <3>2, TailMoves
    <3> QED BY <3>1, <3>3
  <2>2. \A j \in 0 .. Capacity - 1 : Spot(d.tail, j + 1) = Spot(r.tail, j)
    BY <1>1, <2>1, SpotSteps
  <2>3. Fits(d)
    <3>1. d.head = Spot(d.tail, Capacity - d.free)
      BY <1>1, <2>1, <2>2
    <3> QED BY <2>1, <3>1, RingFits
  <2>4. ClaimedSlot(r, end) = After(d.tail) /\ ClaimedSlot(r, end) \in Slot
    <3>1. 0 \in 0 .. Capacity - 1 /\ d.tail \in Slot /\ 0 + 1 = 1
      BY <1>1, <2>1, Neighbours
    <3>2. Spot(r.tail, 0) = r.tail
      BY <1>1, SlotsAre DEF Spot
    <3>3. After(d.tail) = Spot(d.tail, 1)
      BY <3>1, Neighbours
    <3> QED BY <1>1, <1>2, <2>2, <3>1, <3>2, <3>3 DEF ClaimedSlot
  <2>5. Seen(d, "copyIn", end) = Between(d, 2, n + 1) /\ Seen(r, "run", end) = Between(r, 1, n)
    BY <1>1, <1>2, <2>1 DEF Seen
  <2>6. Between(d, 2, n + 1) = Between(r, 1, n)
    <3>1. ASSUME NEW i \in 1 .. n PROVE Spot(d.tail, 2 - 1 + i) = Spot(r.tail, i)
      <4>1. i \in 0 .. Capacity - 1 /\ 2 - 1 + i = i + 1
        BY <1>1
      <4> QED BY <2>2, <4>1
    <3>2. n \in 0 .. Capacity /\ 2 \in 0 .. 2 /\ n + 2 - 1 <= Capacity /\ n + 2 - 1 = n + 1
      BY <1>1
    <3> HIDE DEF n
    <3> QED BY <2>1, <2>3, <3>1, <3>2, SameBetween
  <2> QED BY <1>1, <1>2, <2>1, <2>3, <2>4, <2>5, <2>6 DEF LastClaimed
<1>3. CASE end = "head"
  <2>1. /\ d \in Ring /\ d.tail = r.tail /\ d.head = After(r.head) /\ d.free = r.free - 1 /\ d.slots = r.slots
    <3>1. PICK f, x : f = r.free - 1 /\ x = After(r.head)
      OBVIOUS
    <3>2. d = WithHead(r, f, x) /\ f \in Frees /\ x \in Slot
      BY <1>1, <1>3, <3>1, Neighbours DEF Frees, ClaimSlot, WithHead
    <3>3. d \in Ring /\ d.head = x /\ d.tail = r.tail /\ d.free = f /\ d.slots = r.slots
      BY <1>1, <3>2, HeadMoves
    <3> QED BY <3>1, <3>3
  <2>2. Fits(d)
    <3>1. d.head = Spot(d.tail, Capacity - d.free)
      BY <1>1, <2>1, SpotSteps
    <3> QED BY <2>1, <3>1, RingFits
  <2>3. ClaimedSlot(r, end) = d.head /\ ClaimedSlot(r, end) \in Slot
    BY <1>1, <1>3, <2>1, Neighbours DEF ClaimedSlot
  <2>4. Seen(d, "copyIn", end) = Between(d, 1, n) /\ Seen(r, "run", end) = Between(r, 1, n)
    <3>1. Capacity - d.free - 1 = n
      BY <1>1, <2>1
    <3> QED BY <1>1, <1>3, <3>1 DEF Seen
  <2>5. Between(d, 1, n) = Between(r, 1, n)
    BY <2>1 DEF Between
  <2> QED BY <1>1, <1>3, <2>1, <2>2, <2>3, <2>4, <2>5 DEF LastClaimed
<1> QED BY <1>2, <1>3

\* A slot is made free: the letters are the same.
LEMMA FreeIs ==
  ASSUME MailboxAssumption, NEW r, Fits(r), r.free < Capacity, NEW end \in {"tail", "head"},
         NEW d, d = FreeSlot(r, end)
  PROVE  /\ Fits(d) /\ d.free = r.free + 1 /\ d.free > 0
         /\ ReleasedSlot(r, end) = LastFreed(d, end)
         /\ ReleasedSlot(r, end) \in Slot
         /\ Seen(d, "copyOut", end) = Seen(r, "run", end)
<1> DEFINE n == Capacity - r.free
           m == n - 1
<1>1. /\ Capacity \in Nat \ {0} /\ r.free \in 0 .. Capacity - 1 /\ n \in 1 .. Capacity
      /\ m \in 0 .. Capacity - 1 /\ n = m + 1
      /\ r \in Ring /\ r.tail \in Slot /\ r.head \in Slot /\ r.head = Spot(r.tail, n)
      /\ r.free + 1 \in 0 .. Capacity /\ Capacity - (r.free + 1) = m
  BY RingFields, SlotsAre
<1>2. CASE end = "tail"
  <2>1. /\ d \in Ring /\ d.head = r.head /\ d.tail = After(r.tail) /\ d.free = r.free + 1 /\ d.slots = r.slots
    <3>1. PICK f, x : f = r.free + 1 /\ x = After(r.tail)
      OBVIOUS
    <3>2. d = WithTail(r, f, x) /\ f \in Frees /\ x \in Slot
      BY <1>1, <1>2, <3>1, Neighbours DEF Frees, FreeSlot, WithTail
    <3>3. d \in Ring /\ d.head = r.head /\ d.tail = x /\ d.free = f /\ d.slots = r.slots
      BY <1>1, <3>2, TailMoves
    <3> QED BY <3>1, <3>3
  <2>2. \A j \in 0 .. Capacity - 1 : Spot(d.tail, j) = Spot(r.tail, j + 1)
    BY <1>1, <2>1, SpotSteps
  <2>3. Fits(d)
    <3>1. d.head = Spot(d.tail, Capacity - d.free)
      BY <1>1, <2>1, <2>2
    <3> QED BY <2>1, <3>1, RingFits
  <2>4. ReleasedSlot(r, end) = d.tail /\ ReleasedSlot(r, end) \in Slot
    BY <1>1, <1>2, <2>1, Neighbours DEF ReleasedSlot
  <2>5. Seen(d, "copyOut", end) = Between(d, 0, m) /\ Seen(r, "run", end) = Between(r, 1, n)
    BY <1>1, <1>2, <2>1 DEF Seen
  <2>6. Between(d, 0, m) = Between(r, 1, n)
    <3>1. ASSUME NEW i \in 1 .. n PROVE Spot(d.tail, 0 - 1 + i) = Spot(r.tail, i)
      <4>1. i - 1 \in 0 .. Capacity - 1 /\ 0 - 1 + i = i - 1 /\ (i - 1) + 1 = i
        BY <1>1
      <4> QED BY <2>2, <4>1
    <3>2. n \in 0 .. Capacity /\ 0 \in 0 .. 2 /\ n + 0 - 1 <= Capacity /\ n + 0 - 1 = m
      BY <1>1
    <3> HIDE DEF n, m
    <3> QED BY <2>1, <2>3, <3>1, <3>2, SameBetween
  <2> QED BY <1>1, <1>2, <2>1, <2>3, <2>4, <2>5, <2>6 DEF LastFreed
<1>3. CASE end = "head"
  <2>1. /\ d \in Ring /\ d.tail = r.tail /\ d.head = Before(r.head) /\ d.free = r.free + 1 /\ d.slots = r.slots
    <3>1. PICK f, x : f = r.free + 1 /\ x = Before(r.head)
      OBVIOUS
    <3>2. d = WithHead(r, f, x) /\ f \in Frees /\ x \in Slot
      BY <1>1, <1>3, <3>1, Neighbours DEF Frees, FreeSlot, WithHead
    <3>3. d \in Ring /\ d.head = x /\ d.tail = r.tail /\ d.free = f /\ d.slots = r.slots
      BY <1>1, <3>2, HeadMoves
    <3> QED BY <3>1, <3>3
  <2>2. d.head = Spot(d.tail, m) /\ After(d.head) = r.head
    <3> HIDE DEF n, m
    <3> QED BY <1>1, <2>1, SpotSteps
  <2>3. Fits(d)
    BY <1>1, <2>1, <2>2, RingFits
  <2>4. ReleasedSlot(r, end) = After(d.head) /\ ReleasedSlot(r, end) \in Slot
    BY <1>1, <1>3, <2>2 DEF ReleasedSlot
  <2>5. Seen(d, "copyOut", end) = Between(d, 1, n) /\ Seen(r, "run", end) = Between(r, 1, n)
    <3>1. Capacity - d.free + 1 = n
      BY <1>1, <2>1
    <3> QED BY <1>1, <1>3, <3>1 DEF Seen
  <2>6. Between(d, 1, n) = Between(r, 1, n)
    BY <2>1 DEF Between
  <2> QED BY <1>1, <1>3, <2>1, <2>3, <2>4, <2>5, <2>6 DEF LastFreed
<1> QED BY <1>2, <1>3

\* A letter at the front of a sequence, and one at its back.
InFront(u, t, s) == u = <<t>> \o s

LEMMA FrontPut ==
  ASSUME NEW S, NEW s, s \in Seq(S), NEW u, u \in Seq(S), Len(u) = Len(s) + 1,
         NEW t, t = u[1], \A i \in 1 .. Len(s) : u[i + 1] = s[i]
  PROVE  InFront(u, t, s) /\ s = Tail(u) /\ t = Head(u) /\ u # <<>>
<1>1. /\ Len(s) \in Nat /\ s \in [1 .. Len(s) -> S] /\ u \in [1 .. Len(s) + 1 -> S]
      /\ t \in S /\ <<t>> \in Seq(S)
  OBVIOUS
<1>2. Tail(u) = s /\ t = Head(u) /\ u # <<>>
  <2>1. /\ Tail(u) \in Seq(S) /\ Len(Tail(u)) = Len(s)
        /\ \A i \in 1 .. Len(s) : Tail(u)[i] = u[i + 1]
    BY <1>1
  <2>2. \A i \in 1 .. Len(s) : Tail(u)[i] = s[i]
    BY <2>1
  <2>3. Tail(u) = s
    BY <2>1, <2>2, SeqEqual
  <2> QED BY <1>1, <2>3
<1>3. u = <<t>> \o s
  <2> DEFINE v == <<t>> \o s
  <2>1. v \in Seq(S) /\ Len(v) = Len(s) + 1 /\ v[1] = t /\ \A i \in 1 .. Len(s) : v[i + 1] = s[i]
    BY <1>1
  <2> HIDE DEF v
  <2>2. \A i \in 1 .. Len(u) : u[i] = v[i]
    <3> TAKE i \in 1 .. Len(u)
    <3>1. CASE i = 1
      BY <2>1, <3>1
    <3>2. CASE i # 1
      <4>1. i - 1 \in 1 .. Len(s) /\ (i - 1) + 1 = i
        BY <1>1, <3>2
      <4> QED BY <2>1, <4>1
    <3> QED BY <3>1, <3>2
  <2>3. u = v
    BY <2>1, <2>2, SeqEqual
  <2> QED BY <2>3 DEF v
<1> QED BY <1>2, <1>3 DEF InFront

LEMMA BackPut ==
  ASSUME NEW S, NEW s, s \in Seq(S), NEW u, u \in Seq(S), Len(u) = Len(s) + 1,
         NEW t, t = u[Len(u)], \A i \in 1 .. Len(s) : u[i] = s[i]
  PROVE  u = Append(s, t) /\ s = SubSeq(u, 1, Len(u) - 1) /\ u # <<>>
<1>1. /\ Len(s) \in Nat /\ s \in [1 .. Len(s) -> S] /\ u \in [1 .. Len(s) + 1 -> S] /\ t \in S
      /\ Len(u) - 1 = Len(s)
  OBVIOUS
<1>2. SubSeq(u, 1, Len(s)) = s
  <2> DEFINE v == SubSeq(u, 1, Len(s))
  <2>1. v \in Seq(S) /\ Len(v) = Len(s) /\ \A i \in 1 .. Len(s) : v[i] = u[i]
    BY <1>1
  <2> HIDE DEF v
  <2>2. \A i \in 1 .. Len(s) : v[i] = s[i]
    BY <2>1
  <2>3. v = s
    BY <2>1, <2>2, SeqEqual
  <2> QED BY <2>3 DEF v
<1>3. u = Append(s, t)
  <2> DEFINE v == Append(s, t)
  <2>1. /\ v \in Seq(S) /\ Len(v) = Len(s) + 1 /\ v[Len(s) + 1] = t
        /\ \A i \in 1 .. Len(s) : v[i] = s[i]
    BY <1>1
  <2> HIDE DEF v
  <2>2. \A i \in 1 .. Len(u) : u[i] = v[i]
    <3> TAKE i \in 1 .. Len(u)
    <3>1. CASE i = Len(u)
      BY <2>1, <3>1
    <3>2. CASE i # Len(u)
      <4>1. i \in 1 .. Len(s)
        BY <1>1, <3>2
      <4> QED BY <2>1, <4>1
    <3> QED BY <3>1, <3>2
  <2>3. u = v
    BY <2>1, <2>2, SeqEqual
  <2> QED BY <2>3 DEF v
<1> QED BY <1>1, <1>2, <1>3

\* Its members, one by one: from the place e, m of them.
Lines(s, r, e, m) ==
  /\ s \in Seq(Thread \cup {NoList}) /\ Len(s) = m
  /\ \A i \in 1 .. m : s[i] = r.slots[Spot(r.tail, e - 1 + i)]

LEMMA BetweenAt ==
  ASSUME MailboxAssumption, NEW r, Fits(r), NEW first, first \in 0 .. 2, NEW last, last \in Int,
         last <= Capacity, last >= first - 1, NEW s, s = Between(r, first, last)
  PROVE  Lines(s, r, first, last - first + 1)
<1>1. PICK m : m = last - first + 1
  OBVIOUS
<1>2. s = Run(r, first, m) /\ s \in Seq(Thread \cup {NoList}) /\ Len(s) = m
  BY <1>1, BetweenIs
<1>3. \A i \in 1 .. m : s[i] = r.slots[Spot(r.tail, first - 1 + i)]
  BY <1>2 DEF Run
<1> QED BY <1>1, <1>2, <1>3 DEF Lines

\* From the places zero, one and two, up to the last place.
LEMMA FromZero ==
  ASSUME MailboxAssumption, NEW r, Fits(r), NEW last, last \in Int, last < Capacity, last >= -1,
         NEW s, s = Between(r, 0, last)
  PROVE  /\ s \in Seq(Thread \cup {NoList}) /\ Len(s) = last + 1
         /\ \A i \in 1 .. Len(s) : s[i] = r.slots[Spot(r.tail, i - 1)]
<1>1. PICK e \in 0 .. 2 : e = 0
  OBVIOUS
<1>2. last <= Capacity /\ last >= e - 1 /\ s = Between(r, e, last) /\ last - e + 1 = last + 1
  BY <1>1, SlotsAre
<1>3. Lines(s, r, e, last + 1)
  BY <1>2, BetweenAt
<1>4. \A i \in 1 .. last + 1 : e - 1 + i = i - 1
  BY <1>1
<1> QED BY <1>3, <1>4 DEF Lines

LEMMA FromOne ==
  ASSUME MailboxAssumption, NEW r, Fits(r), NEW last, last \in Int, last <= Capacity, last >= 0,
         NEW s, s = Between(r, 1, last)
  PROVE  /\ s \in Seq(Thread \cup {NoList}) /\ Len(s) = last
         /\ \A i \in 1 .. Len(s) : s[i] = r.slots[Spot(r.tail, i)]
<1>1. PICK e \in 0 .. 2 : e = 1
  OBVIOUS
<1>2. last <= Capacity /\ last >= e - 1 /\ s = Between(r, e, last) /\ last - e + 1 = last
  BY <1>1, SlotsAre
<1>3. Lines(s, r, e, last)
  BY <1>2, BetweenAt
<1>4. \A i \in 1 .. last : e - 1 + i = i
  BY <1>1
<1> QED BY <1>3, <1>4 DEF Lines

LEMMA FromTwo ==
  ASSUME MailboxAssumption, NEW r, Fits(r), NEW last, last \in Int, last <= Capacity, last >= 1,
         NEW s, s = Between(r, 2, last)
  PROVE  /\ s \in Seq(Thread \cup {NoList}) /\ Len(s) = last - 1
         /\ \A i \in 1 .. Len(s) : s[i] = r.slots[Spot(r.tail, i + 1)]
<1>1. PICK e \in 0 .. 2 : e = 2
  OBVIOUS
<1>2. last <= Capacity /\ last >= e - 1 /\ s = Between(r, e, last) /\ last - e + 1 = last - 1
  BY <1>1, SlotsAre
<1>3. Lines(s, r, e, last - 1)
  BY <1>2, BetweenAt
<1>4. \A i \in 1 .. last - 1 : e - 1 + i = i + 1
  BY <1>1
<1> QED BY <1>3, <1>4 DEF Lines

\* Letter t is put at the end of s, and u is the sequence then.
PutOn(end, u, t, s) ==
  \/ end = "head" /\ u = Append(s, t)
  \/ end = "tail" /\ InFront(u, t, s)

\* A letter is written into the slot that was claimed for it.
LEMMA FillIs ==
  ASSUME MailboxAssumption, NEW r, Fits(r), r.free < Capacity, NEW end \in {"tail", "head"},
         NEW x, x = LastClaimed(r, end),
         NEW t \in Thread, NEW d, d = Written(r, x, t),
         NEW s, s = Seen(r, "copyIn", end), NEW u, u = Seen(d, "sent", end)
  PROVE  /\ Fits(d) /\ d.free = r.free
         /\ Len(s) < Capacity /\ Len(u) = Len(s) + 1 /\ Len(s) \in Nat
         /\ PutOn(end, u, t, s)
<1> DEFINE S == Thread \cup {NoList}
<1>0. PICK n, m : n = Capacity - r.free /\ m = n - 1
  OBVIOUS
<1>1. /\ Capacity \in Nat \ {0} /\ n \in 1 .. Capacity /\ m \in 0 .. Capacity - 1 /\ n = m + 1
      /\ r \in Ring /\ r.tail \in Slot /\ r.head \in Slot /\ r.head = Spot(r.tail, n)
      /\ r.slots \in [Slot -> S] /\ 1 \in 1 .. Capacity
  BY <1>0, RingFields, SlotsAre
<1>2. /\ x \in Slot /\ After(r.tail) = Spot(r.tail, 1)
  BY <1>1, Neighbours DEF LastClaimed
<1>3. /\ d \in Ring /\ d.head = r.head /\ d.tail = r.tail /\ d.free = r.free
      /\ d.slots = [r.slots EXCEPT ![x] = t]
  BY <1>1, <1>2, RingWritten
<1>4. Fits(d)
  BY <1>3, RingFields, RingFits
<1>5. /\ d.slots[x] = t
      /\ \A j \in 1 .. Capacity : Spot(r.tail, j) # x => d.slots[Spot(r.tail, j)] = r.slots[Spot(r.tail, j)]
  <2>1. \A j \in 1 .. Capacity : Spot(r.tail, j) \in Slot
    BY <1>1, SpotIs
  <2> QED BY <1>1, <1>2, <1>3, <2>1
<1>6. \A j, h \in 1 .. Capacity : j # h => Spot(r.tail, j) # Spot(r.tail, h)
  BY <1>1, SpotsDiffer
<1>7. /\ Between(d, 1, n) \in Seq(S) /\ Len(Between(d, 1, n)) = n
      /\ \A i \in 1 .. n : Between(d, 1, n)[i] = d.slots[Spot(r.tail, i)]
  <2>1. n \in Int /\ n <= Capacity /\ n >= 0
    BY <1>1
  <2>2. PICK v : v = Between(d, 1, n)
    OBVIOUS
  <2>3. v \in Seq(S) /\ Len(v) = n
    BY <1>4, <2>1, <2>2, FromOne
  <2>4. \A i \in 1 .. Len(v) : v[i] = d.slots[Spot(d.tail, i)]
    BY <1>4, <2>1, <2>2, FromOne
  <2> QED BY <1>3, <2>2, <2>3, <2>4
<1>8. ASSUME end = "tail"
      PROVE  Len(s) < Capacity /\ Len(u) = Len(s) + 1 /\ Len(s) \in Nat /\ InFront(u, t, s)
  <2>1. s = Between(r, 2, n) /\ u = Between(d, 1, n) /\ x = Spot(r.tail, 1)
    BY <1>0, <1>2, <1>3, <1>8 DEF Seen, LastClaimed
  <2>2. /\ s \in Seq(S) /\ Len(s) = n - 1
        /\ \A i \in 1 .. Len(s) : s[i] = r.slots[Spot(r.tail, i + 1)]
    <3>1. n \in Int /\ n <= Capacity /\ n >= 1
      BY <1>1
    <3>2. s \in Seq(S) /\ Len(s) = n - 1
      BY <2>1, <3>1, FromTwo
    <3>3. \A i \in 1 .. Len(s) : s[i] = r.slots[Spot(r.tail, i + 1)]
      BY <2>1, <3>1, FromTwo
    <3> QED BY <3>2, <3>3
  <2>3. u \in Seq(S) /\ Len(u) = n /\ \A i \in 1 .. n : u[i] = d.slots[Spot(r.tail, i)]
    BY <1>7, <2>1
  <2>4. Len(s) = m /\ Len(u) = Len(s) + 1 /\ Len(s) \in Nat /\ Len(s) < Capacity
    BY <1>1, <2>2, <2>3
  <2>5. t = u[1]
    BY <1>1, <1>5, <2>1, <2>3
  <2>6. ASSUME NEW i \in 1 .. Len(s) PROVE u[i + 1] = s[i]
    <3>1. PICK j \in 1 .. n : j = i + 1 /\ j # 1 /\ j \in 1 .. Capacity
      BY <1>1, <2>4
    <3>2. u[j] = d.slots[Spot(r.tail, j)] /\ s[i] = r.slots[Spot(r.tail, j)]
      BY <2>2, <2>3, <3>1
    <3>3. Spot(r.tail, j) # x
      BY <1>1, <1>6, <2>1, <3>1
    <3> QED BY <1>5, <3>1, <3>2, <3>3
  <2>7. PICK l : l = u[1]
    OBVIOUS
  <2>8. InFront(u, l, s)
    <3>1. s \in Seq(S) /\ u \in Seq(S)
      BY <2>2, <2>3
    <3>2. Len(u) = Len(s) + 1
      BY <2>4
    <3> HIDE DEF S
    <3>3. /\ s \in Seq(S) /\ u \in Seq(S) /\ Len(u) = Len(s) + 1 /\ l = u[1]
          /\ \A i \in 1 .. Len(s) : u[i + 1] = s[i]
      BY <2>6, <2>7, <3>1, <3>2
    <3> QED BY <3>3, FrontPut
  <2>9. InFront(u, t, s)
    BY <2>5, <2>7, <2>8
  <2> QED BY <2>4, <2>9
<1>9. ASSUME end = "head"
      PROVE  Len(s) < Capacity /\ Len(u) = Len(s) + 1 /\ Len(s) \in Nat /\ u = Append(s, t)
  <2>1. s = Between(r, 1, m) /\ u = Between(d, 1, n) /\ x = Spot(r.tail, n)
    BY <1>0, <1>1, <1>3, <1>9 DEF Seen, LastClaimed
  <2>0. m \in Int /\ m <= Capacity /\ m >= 0
    BY <1>1
  <2>2. /\ s \in Seq(S) /\ Len(s) = m
        /\ \A i \in 1 .. Len(s) : s[i] = r.slots[Spot(r.tail, i)]
    BY <2>0, <2>1, FromOne
  <2>3. u \in Seq(S) /\ Len(u) = n /\ \A i \in 1 .. n : u[i] = d.slots[Spot(r.tail, i)]
    BY <1>7, <2>1
  <2>4. Len(u) = Len(s) + 1 /\ Len(s) \in Nat /\ Len(s) < Capacity
    BY <1>1, <2>2, <2>3
  <2>5. t = u[Len(u)]
    BY <1>1, <1>5, <2>1, <2>3
  <2>6. \A i \in 1 .. Len(s) : u[i] = s[i]
    <3> TAKE i \in 1 .. Len(s)
    <3>1. i \in 1 .. n /\ i # n /\ i \in 1 .. Capacity /\ n \in 1 .. Capacity
      BY <1>1, <2>2
    <3>2. Spot(r.tail, i) # x
      BY <1>6, <2>1, <3>1
    <3> QED BY <1>5, <2>2, <2>3, <3>1, <3>2
  <2>7. u = Append(s, t)
    <3> HIDE DEF S
    <3> QED BY <2>2, <2>3, <2>4, <2>5, <2>6, BackPut
  <2> QED BY <2>4, <2>7
<1> QED BY <1>3, <1>4, <1>8, <1>9 DEF PutOn

\* Letter l is taken off that end of u, and s is left.
TakenOff(end, l, s, u) ==
  \/ end = "tail" /\ l = Head(u) /\ s = Tail(u)
  \/ end = "head" /\ l = u[Len(u)] /\ s = SubSeq(u, 1, Len(u) - 1)

\* A letter is read from the slot that was made free.
LEMMA EmptyIs ==
  ASSUME MailboxAssumption, NEW r, Fits(r), r.free > 0, NEW end \in {"tail", "head"},
         NEW x, x = LastFreed(r, end),
         NEW u, u = Seen(r, "copyOut", end), NEW s, s = Seen(r, "taken", end)
  PROVE  /\ u # <<>> /\ Len(u) = Len(s) + 1 /\ Len(s) \in Nat /\ x \in Slot
         /\ TakenOff(end, r.slots[x], s, u)
<1> DEFINE S == Thread \cup {NoList}
<1>0. PICK n, m : n = Capacity - r.free /\ m = n + 1
  OBVIOUS
<1>1. /\ Capacity \in Nat \ {0} /\ n \in 0 .. Capacity - 1 /\ m \in 1 .. Capacity /\ n = m - 1
      /\ r \in Ring /\ r.tail \in Slot /\ r.head \in Slot /\ r.head = Spot(r.tail, n)
  BY <1>0, RingFields, SlotsAre
<1>2. x \in Slot /\ After(r.head) = Spot(r.tail, n + 1) /\ r.tail = Spot(r.tail, 0)
  <2>1. x \in Slot
    BY <1>1, Neighbours DEF LastFreed
  <2>2. After(r.head) = Spot(r.tail, n + 1)
    BY <1>1, SpotSteps
  <2>3. r.tail = Spot(r.tail, 0)
    BY <1>1, SlotsAre DEF Spot
  <2> QED BY <2>1, <2>2, <2>3
<1>3. s = Between(r, 1, n)
  BY <1>0 DEF Seen
<1>4. /\ s \in Seq(S) /\ Len(s) = n
      /\ \A i \in 1 .. Len(s) : s[i] = r.slots[Spot(r.tail, i)]
  <2>1. n \in Int /\ n <= Capacity /\ n >= 0
    BY <1>1
  <2> QED BY <1>3, <2>1, FromOne
<1>5. Len(s) \in Nat /\ Len(s) + 1 = m
  BY <1>1, <1>4
<1>6. ASSUME end = "tail"
      PROVE  /\ u # <<>> /\ Len(u) = Len(s) + 1
             /\ r.slots[x] = Head(u) /\ s = Tail(u)
  <2>1. u = Between(r, 0, n) /\ x = r.tail
    BY <1>0, <1>6 DEF Seen, LastFreed
  <2>2. /\ u \in Seq(S) /\ Len(u) = n + 1
        /\ \A i \in 1 .. Len(u) : u[i] = r.slots[Spot(r.tail, i - 1)]
    <3>1. n \in Int /\ n < Capacity /\ n >= -1
      BY <1>1
    <3> QED BY <2>1, <3>1, FromZero
  <2>3. Len(u) = Len(s) + 1
    BY <1>4, <2>2
  <2>4. r.slots[x] = u[1]
    <3>1. PICK i \in 1 .. Len(u) : i = 1 /\ i - 1 = 0
      BY <1>5, <2>3
    <3> QED BY <1>2, <2>1, <2>2, <3>1
  <2>5. ASSUME NEW i \in 1 .. Len(s) PROVE u[i + 1] = s[i]
    <3>1. PICK j \in 1 .. Len(u) : j = i + 1 /\ j - 1 = i
      BY <1>5, <2>3
    <3> QED BY <1>4, <2>2, <3>1
  <2>6. PICK t : t = u[1]
    OBVIOUS
  <2>7. s = Tail(u) /\ t = Head(u) /\ u # <<>>
    <3> HIDE DEF S
    <3> QED BY <1>4, <2>2, <2>3, <2>5, <2>6, FrontPut
  <2> QED BY <2>3, <2>4, <2>6, <2>7
<1>7. ASSUME end = "head"
      PROVE  /\ u # <<>> /\ Len(u) = Len(s) + 1
             /\ r.slots[x] = u[Len(u)] /\ s = SubSeq(u, 1, Len(u) - 1)
  <2>1. u = Between(r, 1, m) /\ x = Spot(r.tail, m)
    BY <1>0, <1>2, <1>7 DEF Seen, LastFreed
  <2>2. /\ u \in Seq(S) /\ Len(u) = m
        /\ \A i \in 1 .. Len(u) : u[i] = r.slots[Spot(r.tail, i)]
    <3>1. m \in Int /\ m <= Capacity /\ m >= 0
      BY <1>1
    <3> QED BY <2>1, <3>1, FromOne
  <2>3. Len(u) = Len(s) + 1
    BY <1>5, <2>2
  <2>4. r.slots[x] = u[Len(u)]
    BY <1>1, <2>1, <2>2
  <2>5. \A i \in 1 .. Len(s) : u[i] = s[i]
    <3> TAKE i \in 1 .. Len(s)
    <3>1. i \in 1 .. Len(u)
      BY <1>5, <2>3
    <3> QED BY <1>4, <2>2, <3>1
  <2>6. PICK t : t = u[Len(u)]
    OBVIOUS
  <2>7. s = SubSeq(u, 1, Len(u) - 1) /\ u # <<>>
    <3> HIDE DEF S
    <3> QED BY <1>4, <2>2, <2>3, <2>5, <2>6, BackPut
  <2> QED BY <2>3, <2>4, <2>7
<1> QED BY <1>2, <1>5, <1>6, <1>7 DEF TakenOff

-----------------------------------------------------------------------------
(* Mailboxes: a thread that copies a letter keeps the CPU *)

Copying == {"copyIn", "copyOut"}

\* All it does is copy.
LEMMA CopierCopies ==
  ASSUME NEW t, ObjectsThreadStep(t), pc[t] \in Copying
  PROVE  BoxStep(t)
<1>1. pc[t] \notin {"run", "yield", "pend", "timed", "sleep", "block", "blockT", "claim", "claimT",
                    "inherit", "inheritT", "release", "wake", "unblock", "pop"}
  BY DEF Copying
<1>2. ~ThreadStep(t)
  BY <1>1 DEF ThreadStep, CallStart, CallStop, CallExit, CallInit, CallSetPriority,
              CallSetScheduler, CallYield, FinishCall, Calling
<1>3. ~SemThreadStep(t)
  BY <1>1 DEF SemThreadStep, CallPost, CallPend, CallTimedPend, PendReturns, PendEnds, Calling
<1>4. ~NotifyStep(t)
  BY <1>1 DEF NotifyStep, CallSignal, CallWait, CallTimedWait, PendEnds, YieldBlocked, Calling
<1>5. ~SleepStep(t)
  BY <1>1 DEF SleepStep, CallSleep, CallUSleep, SleepPends, SleepReturns, PendEnds, Calling
<1>6. ~FlagStep(t)
  BY <1>1 DEF FlagStep, CallSet, CallClear, CallWaitFlags, CallTimedWaitFlags, FlagsReturn, PendEnds, Calling
<1>7. ~MutexStep(t)
  BY <1>1 DEF MutexStep, CallClaim, CallTimedClaim, CallRelease, ClaimSucceeds, ReleaseCounts,
              ReleaseChecks, WakeNextChooses, WakeNextUnBlocks, ClaimBlocks, ClaimInherits,
              ClaimReturns, InMutexCall, PendEnds, YieldBlocked, Calling
<1>8. ~MessageStep(t)
  BY <1>1 DEF MessageStep, CallPop, CallPush, CallSendMessage, CallReceiveMessage,
              CallTimedReceiveMessage, MessageWakes, MessagePops, PendEnds, Calling
<1> QED BY <1>2, <1>3, <1>4, <1>5, <1>6, <1>7, <1>8 DEF ObjectsThreadStep

\* A thread that copies goes on with it, or stays where it is.
LEMMA CopierStays ==
  ASSUME KernelAssumption, SemaphoresAssumption, SleepAssumption, NotifyAssumption,
         EventFlagAssumption, ObjInv, ObjectsNext,
         ~k.enabled, pc[k.current] \in Copying
  PROVE  BoxStep(k.current) \/ SameCpu(k', k)
<1>1. Good(k) /\ k \in KernelState /\ ~k.pendsv /\ Shared \subseteq Sem
  BY DEF ObjInv, Good, Dispatches, SemaphoresAssumption
<1>2. CASE BeginPass \/ SwitchContext
  BY <1>1, <1>2, HandlersKeepCpu DEF BeginPass, SwitchContext, Interrupt
<1>3. CASE PassGoesOn
  BY <1>1, <1>3, HandlersKeepCpu, ExpiryKeepsCpu, SleepKeepsCpu
     DEF PassGoesOn, Interrupt, FlagWaitExpires
<1>4. CASE OtherInterrupt
  BY <1>1, <1>4, WakersKeepCpu DEF OtherInterrupt, InterruptPosts
<1>5. ASSUME NEW t \in Thread, ObjectsThreadStep(t) PROVE BoxStep(k.current)
  <2>1. Running(t)
    BY <1>5, StepRuns
  <2> QED BY <1>5, <2>1, CopierCopies DEF Running
<1> QED BY <1>2, <1>3, <1>4, <1>5 DEF ObjectsNext

-----------------------------------------------------------------------------
(* Mailboxes: the letters and the stamps of a box *)

\* What thread t makes of the letters in box c, when nobody else copies.
SeenBy(t, c) == Seen(ring[c], IF mail[t].box = c THEN pc[t] ELSE "run", mail[t].end)
OnlyCopier(t) == \A u \in Thread \ {t} : pc[u] \notin Copying

LEMMA LettersAre ==
  ASSUME NEW t \in Thread, NEW c
  PROVE  /\ OnlyCopier(t) => Letters(c) = SeenBy(t, c)
         /\ OnlyCopier(t)' => Letters(c)' = SeenBy(t, c)'
<1>1. ASSUME OnlyCopier(t) PROVE Letters(c) = SeenBy(t, c)
  <2> DEFINE at == IF mail[t].box = c THEN pc[t] ELSE "run"
  <2>1. ASSUME NEW e
        PROVE  /\ Writes(c, e) <=> at = "copyIn" /\ mail[t].end = e
               /\ Reads(c, e) <=> at = "copyOut" /\ mail[t].end = e
    BY <1>1 DEF Writes, Reads, In, OnlyCopier, Copying
  <2> HIDE DEF at
  <2>2. Letters(c) = Seen(ring[c], at, mail[t].end)
    BY <2>1 DEF Letters, Seen
  <2> QED BY <2>2 DEF SeenBy, at
<1>2. ASSUME OnlyCopier(t)' PROVE Letters(c)' = SeenBy(t, c)'
  <2> DEFINE at == IF mail'[t].box = c THEN pc'[t] ELSE "run"
  <2>1. ASSUME NEW e
        PROVE  /\ Writes(c, e)' <=> at = "copyIn" /\ mail'[t].end = e
               /\ Reads(c, e)' <=> at = "copyOut" /\ mail'[t].end = e
    BY <1>2 DEF Writes, Reads, In, OnlyCopier, Copying
  <2> HIDE DEF at
  <2>2. Letters(c)' = Seen(ring'[c], at, mail'[t].end)
    BY <2>1 DEF Letters, Seen
  <2> QED BY <2>2 DEF SeenBy, at
<1> QED BY <1>1, <1>2

LEMMA OneCopier ==
  ASSUME BoxInv, NEW t \in Thread, Running(t)
  PROVE  OnlyCopier(t)
<1> SUFFICES ASSUME NEW u \in Thread \ {t}, pc[u] \in Copying PROVE FALSE
  BY DEF OnlyCopier
<1>1. CopyStands(u)
  BY DEF BoxInv
<1>2. u = k.current
  BY <1>1 DEF CopyStands, Copying
<1> QED BY <1>2 DEF Running

\* Thread u stays where it is in its call.
Lingers(u) ==
  pc'[u] = pc[u] /\ pendOn'[u] = pendOn[u] /\ expired'[u] = expired[u] /\ mail'[u] = mail[u]

LEMMA RestBears ==
  ASSUME NEW u \in Thread, Lingers(u)
  PROVE  /\ \A c : k'.state[u] = k.state[u] \/ pendOn[u] # RecvSem[c] => (Bears(u, c)' <=> Bears(u, c))
         /\ Collects(u) /\ (k'.state[u] = "BLOCKED" => k.state[u] = "BLOCKED") => Collects(u)'
<1>1. pc'[u] = pc[u] /\ pendOn'[u] = pendOn[u] /\ mail'[u] = mail[u] /\ TimedOut(u)' = TimedOut(u)
  BY DEF Lingers, TimedOut
<1>2. ASSUME NEW c, k'.state[u] = k.state[u] \/ pendOn[u] # RecvSem[c]
      PROVE  Bears(u, c)' <=> Bears(u, c)
  BY <1>1, <1>2 DEF Bears
<1>3. ASSUME Collects(u), k'.state[u] = "BLOCKED" => k.state[u] = "BLOCKED" PROVE Collects(u)'
  BY <1>1, <1>3 DEF Collects
<1> QED BY <1>2, <1>3

\* Thread t, and no other, begins to bear a letter of the box, or ends it.
Joins(t, b) == /\ t \in Thread /\ Bears(t, b)' /\ ~Bears(t, b)
               /\ \A u \in Thread \ {t} : Bears(u, b)' <=> Bears(u, b)
Parts(t, b) == /\ t \in Thread /\ ~Bears(t, b)' /\ Bears(t, b)
               /\ \A u \in Thread \ {t} : Bears(u, b)' <=> Bears(u, b)
Alike(b)    == \A u \in Thread : Bears(u, b)' <=> Bears(u, b)
\* A sender hands its letter over to a receiver.
Hands(t, h, b) == /\ t \in Thread /\ h \in Thread /\ ~Bears(t, b)' /\ Bears(t, b)
                  /\ Bears(h, b)' /\ ~Bears(h, b)
                  /\ \A u \in Thread \ {t, h} : Bears(u, b)' <=> Bears(u, b)

LEMMA BearersFinite ==
  ASSUME KernelAssumption, NEW b
  PROVE  /\ IsFiniteSet(Bearers(b)) /\ Cardinality(Bearers(b)) \in Nat
         /\ IsFiniteSet(Bearers(b)') /\ Cardinality(Bearers(b)') \in Nat
<1>1. Bearers(b) \subseteq Thread /\ Bearers(b)' \subseteq Thread /\ IsFiniteSet(Thread)
  BY DEF Bearers, KernelAssumption
<1> QED BY <1>1, FS_Subset, FS_CardinalityType

LEMMA StampsAre ==
  ASSUME KernelAssumption, MailboxAssumption, SemaphoresAssumption, ObjInv, NEW b \in Box
  PROVE  value[RecvSem[b]] \in Nat /\ Stamps(b) \in Nat /\ Stamps(b) >= value[RecvSem[b]]
<1>1. value[RecvSem[b]] \in Nat
  BY DEF ObjInv, MailboxAssumption
<1> QED BY <1>1, BearersFinite DEF Stamps

LEMMA HandsOver ==
  ASSUME KernelAssumption, NEW t, NEW h, NEW b, Hands(t, h, b)
  PROVE  Cardinality(Bearers(b)') = Cardinality(Bearers(b))
<1> DEFINE M == Bearers(b) \ {t}
<1>1. t \in Bearers(b) /\ h \notin M /\ t # h
  BY DEF Hands, Bearers
<1>2. Bearers(b)' = M \cup {h}
  BY <1>1 DEF Hands, Bearers
<1>3. M = Bearers(b) \ {t} /\ IsFiniteSet(Bearers(b)) /\ IsFiniteSet(M)
  BY BearersFinite, FS_Subset
<1>4. Cardinality(M) = Cardinality(Bearers(b)) - 1
  BY <1>1, <1>3, OneLess
<1> HIDE DEF M
<1>5. Cardinality(Bearers(b)') = Cardinality(M) + 1
  BY <1>1, <1>2, <1>3, OneMore
<1>6. Cardinality(Bearers(b)) \in Nat
  BY BearersFinite
<1> QED BY <1>4, <1>5, <1>6

LEMMA StampsMove ==
  ASSUME KernelAssumption, MailboxAssumption, SemaphoresAssumption, ObjInv, ObjInv', NEW b \in Box
  PROVE  LET v == value[RecvSem[b]]
         IN  /\ Alike(b) /\ v' = v => Stamps(b)' = Stamps(b)
             /\ (\E t : Joins(t, b)) /\ v' = v => Stamps(b)' = Stamps(b) + 1
             /\ (\E t : Joins(t, b)) /\ v' = v - 1 => Stamps(b)' = Stamps(b)
             /\ (\E t : Parts(t, b)) /\ v' = v => Stamps(b)' = Stamps(b) - 1
             /\ (\E t : Parts(t, b)) /\ v' = v + 1 => Stamps(b)' = Stamps(b)
             /\ (\E t, h : Hands(t, h, b)) /\ v' = v => Stamps(b)' = Stamps(b)
<1> DEFINE v == value[RecvSem[b]]
           n == Cardinality(Bearers(b))
<1>1. v \in Nat /\ v' \in Nat /\ n \in Nat /\ n' \in Nat
  BY BearersFinite DEF ObjInv, MailboxAssumption
<1>2. Stamps(b) = v + n /\ Stamps(b)' = v' + n'
  BY DEF Stamps
<1>3. ASSUME Alike(b) PROVE n' = n
  <2>1. Bearers(b)' = Bearers(b)
    BY <1>3 DEF Alike, Bearers
  <2> QED BY <2>1
<1>4. ASSUME NEW t, Joins(t, b) PROVE n' = n + 1
  <2>1. t \notin Bearers(b) /\ Bearers(b)' = Bearers(b) \cup {t}
    BY <1>4 DEF Joins, Bearers
  <2> QED BY <2>1, BearersFinite, OneMore
<1>5. ASSUME NEW t, Parts(t, b) PROVE n' = n - 1
  <2>1. t \in Bearers(b) /\ Bearers(b)' = Bearers(b) \ {t}
    BY <1>5 DEF Parts, Bearers
  <2> QED BY <2>1, BearersFinite, OneLess
<1>6. ASSUME NEW t, NEW h, Hands(t, h, b) PROVE n' = n
  BY <1>6, HandsOver
<1>7. PICK v1, n1, v2, n2 : v1 = v /\ n1 = n /\ v2 = v' /\ n2 = n'
  OBVIOUS
<1>8. /\ v1 \in Nat /\ v2 \in Nat /\ n1 \in Nat /\ n2 \in Nat
      /\ Stamps(b) = v1 + n1 /\ Stamps(b)' = v2 + n2
      /\ Alike(b) => n2 = n1
      /\ (\E t : Joins(t, b)) => n2 = n1 + 1
      /\ (\E t : Parts(t, b)) => n2 = n1 - 1
      /\ (\E t, h : Hands(t, h, b)) => n2 = n1
  BY <1>1, <1>2, <1>3, <1>4, <1>5, <1>6, <1>7
<1> QED BY <1>7, <1>8

\* A thread that bears a letter shows that there is one.
LEMMA BearerCounts ==
  ASSUME KernelAssumption, MailboxAssumption, SemaphoresAssumption, ObjInv, StampInv,
         NEW b \in Box, NEW t \in Thread, Bears(t, b)
  PROVE  value[RecvSem[b]] + 1 <= Len(Letters(b))
<1>1. Cardinality(Bearers(b)) >= 1
  <2>1. t \in Bearers(b) /\ Bearers(b) \ {t} = Bearers(b) \ {t}
    BY DEF Bearers
  <2> QED BY <2>1, BearersFinite, OneLess
<1>2. value[RecvSem[b]] \in Nat /\ Cardinality(Bearers(b)) \in Nat
  BY StampsAre, BearersFinite
<1>3. Stamps(b) = value[RecvSem[b]] + Cardinality(Bearers(b)) /\ Stamps(b) <= Len(Letters(b))
  BY DEF Stamps, StampInv
<1> QED BY <1>1, <1>2, <1>3

-----------------------------------------------------------------------------
(* Mailboxes: a step inside a call of one box *)

\* Thread t does not copy a letter of box c.
Idles(t, c) == pc[t] \notin Copying \/ mail[t].box # c

Shows(c, at, end) == Letters(c) = Seen(ring[c], at, end)

LEMMA LettersIn ==
  ASSUME NEW t \in Thread, NEW c, NEW end
  PROVE  /\ OnlyCopier(t) /\ Idles(t, c)
              => Shows(c, "run", end)
         /\ OnlyCopier(t)' /\ Idles(t, c)'
              => Shows(c, "run", end)'
         /\ OnlyCopier(t) /\ mail[t].box = c => Shows(c, pc[t], mail[t].end)
         /\ OnlyCopier(t)' /\ mail'[t].box = c => Shows(c, pc[t], mail[t].end)'
<1>1. \A r, at, e : at \notin Copying => Seen(r, at, e) = Seen(r, "run", end)
  BY DEF Seen, Copying
<1>2. "run" \notin Copying
  BY DEF Copying
<1>3. ASSUME OnlyCopier(t) PROVE Letters(c) = SeenBy(t, c)
  BY <1>3, LettersAre
<1>4. ASSUME OnlyCopier(t)' PROVE Letters(c)' = SeenBy(t, c)'
  BY <1>4, LettersAre
<1> QED BY <1>1, <1>2, <1>3, <1>4 DEF SeenBy, Idles, Shows

\* A thread that is in no call of another box.
Belongs(t, b) ==
  /\ pc[t] \in Mailing => mail[t].box = b
  /\ pendOn[t] \in {NoList, RecvSem[b], SendSem[b]}

\* What a step of t in a call of box b leaves alone.
Works(t, b) ==
  /\ \A u \in Thread \ {t} :
       /\ Lingers(u)
       /\ \/ k'.state[u] = k.state[u]
          \/ k'.state[u] = "READY" /\ pendOn[u] \in {RecvSem[b], SendSem[b]}
  /\ Belongs(t, b) /\ Belongs(t, b)'
  /\ Counting({RecvSem[b], SendSem[b]})

RingIs(b, d) == ring' = [ring EXCEPT ![b] = d]
MailIs(t, g) == mail' = [mail EXCEPT ![t] = g]

LettersEven(b) == Len(Letters(b))' - Stamps(b)' = Len(Letters(b)) - Stamps(b)

LEMMA OtherBoxes ==
  ASSUME KernelAssumption, MailboxAssumption, SemaphoresAssumption, SleepAssumption,
         ObjectsAssumption, ObjInv, ObjInv', NEW t \in Thread, NEW b \in Box, Works(t, b),
         OnlyCopier(t), OnlyCopier(t)', NEW c \in Box, c # b, ring'[c] = ring[c]
  PROVE  Letters(c)' = Letters(c) /\ LettersEven(c)
<1>1. /\ RecvSem[c] \notin {RecvSem[b], SendSem[b]} /\ RecvSem[c] \in Sem /\ RecvSem[c] # NoList
  BY OwnBoxSems, KernelAssumption DEF SemaphoresAssumption, KernelAssumption
<1>2. value'[RecvSem[c]] = value[RecvSem[c]]
  BY <1>1 DEF Works, Counting
<1>3. Idles(t, c) /\ Idles(t, c)'
  BY DEF Works, Belongs, Idles, Copying, Mailing
<1>4. Letters(c)' = Letters(c)
  <2>1. Shows(c, "run", "tail") /\ Shows(c, "run", "tail")'
    BY <1>3, LettersIn
  <2> QED BY <2>1 DEF Shows
<1>5. Alike(c)
  <2>1. ~Bears(t, c) /\ ~Bears(t, c)'
    BY <1>1 DEF Works, Belongs, Bears, Mailing
  <2>2. ASSUME NEW u \in Thread \ {t} PROVE Bears(u, c)' <=> Bears(u, c)
    <3>1. Lingers(u) /\ (k'.state[u] = k.state[u] \/ pendOn[u] # RecvSem[c])
      BY <1>1 DEF Works
    <3> QED BY <3>1, RestBears
  <2> QED BY <2>1, <2>2 DEF Alike
<1>6. Stamps(c)' = Stamps(c)
  BY <1>2, <1>5, StampsMove
<1> QED BY <1>4, <1>6 DEF LettersEven

\* What becomes of the letters in box b and of the letter that t has got.
Lets(t, b) == Letters(b)' = Letters(b) /\ mail'[t].letter = NoList
Puts(t, b) == /\ pc[t] = "copyIn" /\ Len(Letters(b)) < Capacity
              /\ mail'[t].letter = mail[t].letter
              /\ PutOn(mail[t].end, Letters(b)', t, Letters(b))
Gets(t, b) == /\ pc[t] = "copyOut" /\ Letters(b) # <<>> /\ mail[t].letter = NoList
              /\ TakenOff(mail[t].end, mail'[t].letter, Letters(b)', Letters(b))

\* The step keeps what is known of mailboxes, stamps match letters as before, and
\* all that it does to letters is one of these.
Worked(t, b) ==
  /\ BoxInv' /\ \A c \in Box : LettersEven(c)
  /\ \A u \in Thread \ {t} : mail'[u] = mail[u]
  /\ \A c \in Box \ {b} : Letters(c)' = Letters(c)
  /\ Lets(t, b) \/ Puts(t, b) \/ Gets(t, b)

\* The thread and the box it works in decide.
LEMMA WorkerDecides ==
  ASSUME KernelAssumption, MailboxAssumption, SemaphoresAssumption, SleepAssumption,
         ObjectsAssumption, ObjInv, ObjInv', BoxInv, NEW t \in Thread, Running(t), NEW b \in Box,
         Works(t, b), NEW d, RingIs(b, d), Fits(d), NEW g, MailIs(t, g), g \in Mail,
         CopyStands(t)', Collects(t)', pc'[t] # "taken" => g.letter = NoList,
         LettersEven(b), Lets(t, b) \/ Puts(t, b) \/ Gets(t, b)
  PROVE  Worked(t, b)
<1>1. /\ ring \in [Box -> Ring] /\ mail \in [Thread -> Mail] /\ \A c \in Box : Fits(ring[c])
      /\ \A u \in Thread : CopyStands(u) /\ Collects(u)
      /\ \A u \in Thread : pc[u] # "taken" => mail[u].letter = NoList
  BY DEF BoxInv
<1>2. OnlyCopier(t) /\ OnlyCopier(t)'
  <2>1. OnlyCopier(t)
    BY OneCopier
  <2> QED BY <2>1 DEF OnlyCopier, Works, Lingers
<1>3. /\ ring' \in [Box -> Ring] /\ ring'[b] = d /\ \A c \in Box \ {b} : ring'[c] = ring[c]
  BY <1>1 DEF RingIs, Fits
<1>4. /\ mail' \in [Thread -> Mail] /\ mail'[t] = g /\ \A u \in Thread \ {t} : mail'[u] = mail[u]
  BY <1>1 DEF MailIs
<1>5. ASSUME NEW c \in Box, c # b PROVE Letters(c)' = Letters(c) /\ LettersEven(c)
  BY <1>2, <1>3, <1>5, OtherBoxes
<1>6. ASSUME NEW u \in Thread, u # t
      PROVE  CopyStands(u)' /\ Collects(u)' /\ (pc'[u] # "taken" => mail'[u].letter = NoList)
  <2>1. /\ Lingers(u) /\ pc[u] \notin Copying /\ pc'[u] = pc[u]
        /\ k'.state[u] = "BLOCKED" => k.state[u] = "BLOCKED"
    BY <1>2, <1>6 DEF Works, Lingers, OnlyCopier
  <2>2. Collects(u)'
    BY <1>1, <2>1, RestBears
  <2>3. CopyStands(u)'
    BY <2>1 DEF CopyStands, Copying
  <2> QED BY <1>1, <1>4, <1>6, <2>1, <2>2, <2>3
<1>7. \A c \in Box : Fits(ring'[c])
  BY <1>1, <1>3
<1>8. BoxInv'
  <2>1. \A u \in Thread : CopyStands(u)' /\ Collects(u)'
    BY <1>6
  <2>2. \A u \in Thread : pc'[u] # "taken" => mail'[u].letter = NoList
    BY <1>4, <1>6
  <2> QED BY <1>3, <1>4, <1>7, <2>1, <2>2 DEF BoxInv
<1> QED BY <1>4, <1>5, <1>8 DEF Worked

\* The other threads bear the letters they did.
RestAlike(t, b) == \A u \in Thread \ {t} : Bears(u, b)' <=> Bears(u, b)

LEMMA OnlyWorks ==
  ASSUME BoxInv, NEW t \in Thread, NEW b, NEW g, OnlyMoves(t), MailIs(t, g),
         Belongs(t, b), Belongs(t, b)', Counting({RecvSem[b], SendSem[b]})
  PROVE  Works(t, b) /\ RestAlike(t, b)
<1>1. \A u \in Thread \ {t} : Lingers(u) /\ k'.state[u] = k.state[u]
  BY DEF BoxInv, OnlyMoves, MovedAlone, MailIs, Lingers
<1>2. ASSUME NEW u \in Thread, u # t PROVE Bears(u, b)' <=> Bears(u, b)
  BY <1>1, <1>2, RestBears
<1> QED BY <1>1, <1>2 DEF Works, RestAlike

LEMMA NoCopyStands ==
  ASSUME NEW t, pc'[t] \notin Copying
  PROVE  CopyStands(t)'
BY DEF CopyStands, Copying

LEMMA NoneCollects ==
  ASSUME NEW t, \A b \in Box : pendOn'[t] # RecvSem[b]
  PROVE  Collects(t)'
BY DEF Collects

\* A step that moves t alone, and no letter.
LEMMA QuietWork ==
  ASSUME KernelAssumption, MailboxAssumption, SemaphoresAssumption, SleepAssumption,
         ObjectsAssumption, ObjInv, ObjInv', BoxInv, NEW t \in Thread, Running(t), NEW b \in Box,
         OnlyMoves(t), Belongs(t, b), Belongs(t, b)', Counting({RecvSem[b], SendSem[b]}),
         NEW d, RingIs(b, d), Fits(d), NEW g, MailIs(t, g), g \in Mail, g.letter = NoList,
         CopyStands(t)', Collects(t)', Letters(b)' = Letters(b),
         \/ (Bears(t, b)' <=> Bears(t, b)) /\ value'[RecvSem[b]] = value[RecvSem[b]]
         \/ Bears(t, b)' /\ ~Bears(t, b) /\ value'[RecvSem[b]] = value[RecvSem[b]] - 1
  PROVE  Worked(t, b)
<1>1. Works(t, b) /\ RestAlike(t, b)
  BY OnlyWorks
<1>2. Stamps(b)' = Stamps(b)
  <2>1. CASE (Bears(t, b)' <=> Bears(t, b)) /\ value'[RecvSem[b]] = value[RecvSem[b]]
    <3>1. Alike(b)
      BY <1>1, <2>1 DEF RestAlike, Alike
    <3> QED BY <2>1, <3>1, StampsMove
  <2>2. CASE Bears(t, b)' /\ ~Bears(t, b) /\ value'[RecvSem[b]] = value[RecvSem[b]] - 1
    <3>1. Joins(t, b)
      BY <1>1, <2>2 DEF RestAlike, Joins
    <3> QED BY <2>2, <3>1, StampsMove
  <2> QED BY <2>1, <2>2
<1>3. LettersEven(b)
  BY <1>2 DEF LettersEven
<1>4. Lets(t, b)
  BY DEF Lets, MailIs, BoxInv
<1> QED BY <1>1, <1>3, <1>4, WorkerDecides

\* A step that moves t alone, from a place where it does not copy to another.
LEMMA PlainWork ==
  ASSUME KernelAssumption, MailboxAssumption, SemaphoresAssumption, SleepAssumption,
         ObjectsAssumption, ObjInv, ObjInv', BoxInv, NEW t \in Thread, Running(t), NEW b \in Box,
         OnlyMoves(t), Belongs(t, b), Belongs(t, b)', Counting({RecvSem[b], SendSem[b]}),
         ring' = ring, NEW g, MailIs(t, g), g \in Mail, g.letter = NoList,
         pc[t] \notin Copying, pc'[t] \notin Copying, Collects(t)',
         \/ (Bears(t, b)' <=> Bears(t, b)) /\ value'[RecvSem[b]] = value[RecvSem[b]]
         \/ Bears(t, b)' /\ ~Bears(t, b) /\ value'[RecvSem[b]] = value[RecvSem[b]] - 1
  PROVE  Worked(t, b)
<1>1. PICK d : d = ring[b]
  OBVIOUS
<1>2. RingIs(b, d) /\ Fits(d) /\ ring'[b] = ring[b]
  BY <1>1 DEF RingIs, BoxInv
<1>3. OnlyCopier(t) /\ OnlyCopier(t)'
  <2>1. OnlyCopier(t)
    BY OneCopier
  <2> QED BY <2>1 DEF OnlyCopier, OnlyMoves, MovedAlone
<1>4. Letters(b)' = Letters(b)
  <2>1. Idles(t, b) /\ Idles(t, b)'
    BY DEF Idles
  <2>2. Shows(b, "run", "tail") /\ Shows(b, "run", "tail")'
    BY <1>3, <2>1, LettersIn
  <2> QED BY <1>2, <2>2 DEF Shows
<1>5. CopyStands(t)'
  BY NoCopyStands
<1> QED BY <1>2, <1>4, <1>5, QuietWork

\* A thread that runs in a call of a box, outside of its waits.
LEMMA BoxCaller ==
  ASSUME KernelAssumption, MailboxAssumption, SemaphoresAssumption, ObjInv, FrameInv, BoxInv,
         NEW t \in Thread, Running(t), pc[t] \in Mailing \cup {"run"}
  PROVE  /\ Outside(t) /\ pc[t] \in Plain /\ pendOn[t] = NoList /\ k.state[t] = "READY" /\ t = k.current
         /\ mail[t] \in Mail
         /\ pc[t] \in Mailing => mail[t].box \in Box /\ Belongs(t, mail[t].box)
         /\ pc[t] = "run" => \A b : Belongs(t, b)
         /\ pc[t] # "taken" => mail[t].letter = NoList
         /\ \A b \in Box : NoList \notin {RecvSem[b], SendSem[b]}
         /\ OnlyCopier(t)
         /\ pc \in [Thread -> Where] /\ value \in [Sem -> Nat] /\ k \in KernelState
<1>1. pc[t] \in Plain /\ Outside(t)
  BY DEF Outside, Plain, Where, InWait, Waiting, Yielding, Enabling, Mailing
<1>2. pendOn[t] = NoList /\ k.state[t] = "READY" /\ t = k.current
  BY <1>1, CallerHere
<1>3. mail[t] \in Mail /\ (pc[t] # "taken" => mail[t].letter = NoList)
  BY DEF BoxInv
<1>4. pc[t] \in Mailing => mail[t].box \in Box
  BY DEF FrameInv, MailInv, Suits
<1>5. \A b \in Box : NoList \notin {RecvSem[b], SendSem[b]}
  BY KernelAssumption DEF MailboxAssumption, SemaphoresAssumption, KernelAssumption
<1>6. OnlyCopier(t)
  BY OneCopier
<1>7. /\ pc[t] \in Mailing => Belongs(t, mail[t].box)
      /\ pc[t] = "run" => \A b : Belongs(t, b)
  BY <1>2 DEF Belongs, Mailing
<1>8. pc \in [Thread -> Where] /\ value \in [Sem -> Nat] /\ k \in KernelState
  BY DEF ObjInv, Good
<1> QED BY <1>1, <1>2, <1>3, <1>4, <1>5, <1>6, <1>7, <1>8

-----------------------------------------------------------------------------
(* Mailboxes: Send *)

\* Switching the scheduler moves no thread.
LEMMA SwitchMoves ==
  ASSUME KernelAssumption, ObjInv, NEW t \in Thread, Running(t), Outside(t), NEW e, e \in BOOLEAN,
         NEW d, d = SetScheduler(k, e)
  PROVE  d.state = k.state /\ d.current = k.current /\ d.enabled = e
<1>1. Good(k) /\ Dispatches(k, FALSE, FALSE) /\ ~k.pendsv /\ k.state[k.current] = "READY"
  BY CallerHere
<1>2. Toggled(d, k, e)
  BY <1>1, SetSchedulerDispatches
<1> QED BY <1>2 DEF Toggled

LEMMA SwitchTwice ==
  ASSUME KernelAssumption, ObjInv, NEW t \in Thread, Running(t), Outside(t), NEW e, e \in BOOLEAN,
         NEW d, d = SetScheduler(SetScheduler(k, FALSE), e)
  PROVE  d.state = k.state
<1> DEFINE a == SetScheduler(k, FALSE)
<1>1. Good(k) /\ Dispatches(k, FALSE, FALSE) /\ ~k.pendsv /\ k.state[k.current] = "READY"
  BY CallerHere
<1>2. a = SetScheduler(k, FALSE) /\ FALSE \in BOOLEAN
  OBVIOUS
<1> HIDE DEF a
<1>3. Toggled(a, k, FALSE) /\ Dispatches(a, FALSE, FALSE)
  BY <1>1, <1>2, SetSchedulerDispatches
<1>4. Good(a) /\ ~a.pendsv /\ a.state[a.current] = "READY" /\ a.state = k.state
  BY <1>1, <1>3 DEF Toggled, Dispatches
<1>5. d = SetScheduler(a, e)
  BY <1>2
<1>6. Toggled(d, a, e)
  BY <1>3, <1>4, <1>5, SetSchedulerDispatches
<1> QED BY <1>4, <1>6 DEF Toggled

\* A frame fit for another try.
Tries(f, t) == f \in Mail /\ f.box \in Box /\ f.letter = NoList /\ Belongs(t, f.box)

WithSlot(f, x) == [f EXCEPT !.slot = x]

LEMMA SlotSet ==
  ASSUME NEW f \in Mail, NEW x, x \in Slot, NEW g, g = WithSlot(f, x)
  PROVE  /\ g \in Mail /\ g.box = f.box /\ g.end = f.end /\ g.letter = f.letter /\ g.slot = x
         /\ g.sched = f.sched /\ g.ticks = f.ticks
BY DEF Mail, WithSlot

LEMMA NoFrameIs ==
  ASSUME MailboxAssumption
  PROVE  NoFrame \in Mail /\ NoFrame.letter = NoList
BY SlotsAre DEF NoFrame, Frame, Mail

LEMMA TrySendWorks ==
  ASSUME KernelAssumption, MailboxAssumption, SemaphoresAssumption, SleepAssumption,
         ObjectsAssumption, ObjInv, ObjInv', FrameInv, BoxInv, NEW t \in Thread, Running(t),
         pc[t] \in {"run", "retry"}, NEW f, Tries(f, t), NEW again, TrySend(t, f, again)
  PROVE  Worked(t, f.box)
<1> DEFINE b == f.box
           r == ring[b]
           e == f.end
<1>1. /\ Outside(t) /\ pendOn[t] = NoList /\ k.state[t] = "READY" /\ t = k.current
      /\ NoList \notin {RecvSem[b], SendSem[b]} /\ OnlyCopier(t) /\ k \in KernelState
      /\ pc \in [Thread -> Where] /\ \A c \in Box : NoList # RecvSem[c]
  BY BoxCaller DEF Mailing, Tries
<1>2. /\ b \in Box /\ f \in Mail /\ f.letter = NoList /\ Belongs(t, b) /\ f.sched \in BOOLEAN
      /\ e \in {"tail", "head"} /\ Fits(r) /\ mail[t].box \in Box \cup {NoList}
      /\ r.free \in 0 .. Capacity
  BY RingFields DEF Tries, Mail, BoxInv, Fits, Ring
<1>3. UNCHANGED semVars /\ pendOn' = pendOn /\ expired' = expired /\ value' = value
  BY DEF TrySend, semVars
<1>4. Idles(t, b) /\ Shows(b, "run", e)
  <2>1. Idles(t, b)
    BY DEF Idles, Copying
  <2> QED BY <1>1, <2>1, LettersIn
<1>5. /\ Counting({RecvSem[b], SendSem[b]}) /\ value'[RecvSem[b]] = value[RecvSem[b]]
      /\ ~Bears(t, b) /\ Collects(t)'
  BY <1>1, <1>2, <1>3, SameCounts, NoneCollects DEF Bears, Tries
<1>6. CASE /\ r.free > 0 /\ ring' = [ring EXCEPT ![b] = ClaimSlot(@, e)]
           /\ mail' = [mail EXCEPT ![t] = [f EXCEPT !.slot = ClaimedSlot(r, e)]]
           /\ k' = SetScheduler(k, FALSE) /\ pc' = [pc EXCEPT ![t] = "copyIn"]
  <2> DEFINE d == ClaimSlot(r, e)
             x == ClaimedSlot(r, e)
             g == WithSlot(f, x)
  <2>1. d = ClaimSlot(r, e) /\ x = ClaimedSlot(r, e) /\ g = WithSlot(f, x)
    OBVIOUS
  <2>2. RingIs(b, d) /\ MailIs(t, g)
    BY <1>6 DEF RingIs, MailIs, WithSlot
  <2> HIDE DEF b, r, e, d, x, g
  <2>3. /\ Fits(d) /\ d.free < Capacity /\ x = LastClaimed(d, e)
        /\ x \in Slot /\ Seen(d, "copyIn", e) = Seen(r, "run", e)
    BY <1>2, <1>6, <2>1, ClaimIs
  <2>4. g \in Mail /\ g.box = b /\ g.end = e /\ g.letter = NoList /\ g.slot = x
    BY <1>2, <2>1, <2>3, SlotSet DEF b, e
  <2>5. ring'[b] = d /\ mail'[t] = g /\ pc'[t] = "copyIn" /\ \A u \in Thread \ {t} : pc'[u] = pc[u]
    BY <1>1, <1>2, <1>6, <2>2 DEF RingIs, MailIs, BoxInv
  <2>6. k'.state = k.state /\ k'.current = k.current /\ ~k'.enabled
    BY <1>1, <1>6, SwitchMoves
  <2>7. OnlyMoves(t) /\ OnlyCopier(t)'
    BY <1>1, <1>3, <2>5, <2>6 DEF OnlyMoves, MovedAlone, OnlyCopier
  <2>8. Belongs(t, b)' /\ ~Bears(t, b)'
    BY <1>1, <1>2, <1>3, <2>4, <2>5 DEF Belongs, Bears
  <2>9. CopyStands(t)'
    BY <1>1, <2>3, <2>4, <2>5, <2>6 DEF CopyStands
  <2>10. Letters(b)' = Letters(b)
    <3>1. Shows(b, pc[t], mail[t].end)'
      BY <2>4, <2>5, <2>7, LettersIn
    <3> QED BY <1>4, <2>3, <2>4, <2>5, <3>1 DEF Shows, r
  <2>11. Worked(t, b)
    BY <1>2, <1>5, <2>2, <2>3, <2>4, <2>7, <2>8, <2>9, <2>10, QuietWork
  <2> QED BY <2>11 DEF b
<1>7. ASSUME NEW at \in {"full", "run"}, NEW g, MailIs(t, g), ring' = ring,
             k' = SetScheduler(SetScheduler(k, FALSE), f.sched), pc' = [pc EXCEPT ![t] = at],
             at = "full" => g = f, at = "run" => g = NoFrame
      PROVE  Worked(t, f.box)
  <2>1. k'.state = k.state
    BY <1>1, <1>2, <1>7, SwitchTwice
  <2>2. ring'[b] = r /\ mail'[t] = g /\ pc'[t] = at /\ \A u \in Thread \ {t} : pc'[u] = pc[u]
    BY <1>1, <1>7 DEF MailIs, BoxInv
  <2>3. g \in Mail /\ g.letter = NoList /\ (at = "full" => g.box = b)
    BY <1>2, <1>7, NoFrameIs
  <2> HIDE DEF b, r, e
  <2>4. OnlyMoves(t)
    BY <1>1, <1>3, <2>1, <2>2 DEF OnlyMoves, MovedAlone
  <2>5. Belongs(t, b)' /\ ~Bears(t, b)'
    BY <1>1, <1>2, <1>3, <2>2, <2>3 DEF Belongs, Bears, Mailing
  <2>6. pc[t] \notin Copying /\ pc'[t] \notin Copying
    BY <2>2 DEF Copying
  <2>7. Worked(t, b)
    BY <1>2, <1>5, <1>7, <2>3, <2>4, <2>5, <2>6, PlainWork
  <2> QED BY <2>7 DEF b
<1>8. CASE /\ k' = SetScheduler(SetScheduler(k, FALSE), f.sched) /\ ring' = ring
           /\ \/ pc' = [pc EXCEPT ![t] = "full"] /\ MailIs(t, f)
              \/ pc' = [pc EXCEPT ![t] = "run"] /\ MailIs(t, NoFrame)
  BY <1>7, <1>8
<1> QED BY <1>6, <1>8 DEF TrySend, MailIs

\* A Send that waits for a free slot, and the end of its wait.
LEMMA SendWaitWorks ==
  ASSUME KernelAssumption, MailboxAssumption, SemaphoresAssumption, SleepAssumption,
         ObjectsAssumption, ObjInv, ObjInv', FrameInv, BoxInv, NEW t \in Thread,
         SendWaits(t) \/ SendWakes(t)
  PROVE  \E b \in Box : Worked(t, b)
<1>1. PICK g : g = mail[t]
  OBVIOUS
<1>2. g \in Mail /\ MailIs(t, g) /\ ring' = ring /\ mail'[t] = g
  BY <1>1 DEF SendWaits, SendWakes, boxVars, MailIs, BoxInv
<1>3. Running(t) /\ pc \in [Thread -> Where] /\ value \in [Sem -> Nat]
  BY DEF SendWaits, SendWakes, PendEnds, ObjInv
<1>4. CASE SendWaits(t)
  <2>1. PICK b : b = g.box
    OBVIOUS
  <2>2. PICK s : s = SendSem[b]
    OBVIOUS
  <2>3. PICK n : n = g.ticks
    OBVIOUS
  <2>4. pc[t] = "full" /\ TimedPend(t, s, n, "retry")
    BY <1>1, <1>4, <2>1, <2>2, <2>3 DEF SendWaits
  <2>5. /\ b \in Box /\ Belongs(t, b) /\ Outside(t) /\ g.letter = NoList /\ pendOn[t] = NoList
        /\ NoList \notin {RecvSem[b], SendSem[b]}
    BY <1>1, <1>3, <2>1, <2>4, BoxCaller DEF Mailing
  <2>6. n \in WaitTicks
    BY <1>1, <2>3, <2>4 DEF FrameInv, MailInv, Suits
  <2>7. /\ s \in Sem /\ s \in BlockList /\ RecvSem[b] \in Sem /\ RecvSem[b] # s
        /\ \A c \in Box : s # RecvSem[c] /\ NoList # RecvSem[c]
    BY <2>2, <2>5, OwnBoxSems, KernelAssumption DEF SemaphoresAssumption, KernelAssumption
  <2>8. Takes(t, s, "retry") \/ Waits(t, s, "timed")
    BY <1>3, <2>4, <2>5, <2>6, <2>7, TimedPendMoves
  <2>9. /\ OnlyMoves(t) /\ pc'[t] \in {"retry", "timed"} /\ pendOn'[t] \in {NoList, s}
        /\ value'[RecvSem[b]] = value[RecvSem[b]]
    BY <1>3, <2>7, <2>8 DEF Takes, Waits
  <2>10. Counting({RecvSem[b], SendSem[b]})
    BY <1>3, <2>2, <2>7, <2>8, SameCounts, OneCounts DEF Takes, Waits
  <2>11. Collects(t)' /\ Belongs(t, b)' /\ ~Bears(t, b) /\ ~Bears(t, b)'
    BY <1>2, <2>1, <2>2, <2>4, <2>5, <2>7, <2>9, NoneCollects DEF Belongs, Bears, Mailing
  <2>12. pc[t] \notin Copying /\ pc'[t] \notin Copying
    BY <2>4, <2>9 DEF Copying
  <2>13. Worked(t, b)
    BY <1>2, <1>3, <2>5, <2>9, <2>10, <2>11, <2>12, PlainWork
  <2> QED BY <2>5, <2>13
<1>5. CASE SendWakes(t)
  <2>1. PICK b \in Box : pendOn[t] = SendSem[b]
    BY <1>5 DEF SendWakes
  <2>2. /\ PendEnds(t, "retry")
        /\ Same /\ MovedAlone(t) /\ pendOn'[t] = NoList /\ pc[t] \in {"pend", "timed"}
    BY <1>5, PendEndsMoves DEF SendWakes
  <2>3. pc'[t] = "retry" /\ value' = value /\ OnlyMoves(t)
    BY <1>3, <2>2 DEF PendEnds, OnlyMoves, Same
  <2>4. g.box = b /\ g.letter = NoList
    BY <1>1, <2>1, <2>2 DEF FrameInv, MailInv, Suits, BoxInv
  <2>5. /\ RecvSem[b] # SendSem[b] /\ RecvSem[b] # NoList /\ \A c \in Box : NoList # RecvSem[c]
    BY OwnBoxSems, KernelAssumption DEF SemaphoresAssumption, KernelAssumption
  <2>6. /\ Counting({RecvSem[b], SendSem[b]}) /\ Collects(t)' /\ Belongs(t, b) /\ Belongs(t, b)'
        /\ ~Bears(t, b) /\ ~Bears(t, b)' /\ value'[RecvSem[b]] = value[RecvSem[b]]
    BY <1>2, <2>1, <2>2, <2>3, <2>4, <2>5, SameCounts, NoneCollects DEF Belongs, Bears, Mailing
  <2>7. pc[t] \notin Copying /\ pc'[t] \notin Copying
    BY <2>2, <2>3 DEF Copying
  <2>8. Worked(t, b)
    BY <1>2, <1>3, <2>3, <2>4, <2>6, <2>7, PlainWork
  <2> QED BY <2>8
<1> QED BY <1>4, <1>5

\* A post from inside a call grants a token to one thread.
LEMMA UnBlockGrants ==
  ASSUME KernelAssumption, ObjInv, NEW t \in Thread, Running(t), Outside(t),
         NEW s, s \in BlockList, k.list[s] # <<>>, k' = UnBlock(k, Head(k.list[s]))
  PROVE  \E h : Grants(h, s)
<1> DEFINE h == Head(k.list[s])
<1>1. Good(k) /\ Dispatches(k, FALSE, FALSE)
  BY CallerHere
<1>2. h \in Thread /\ k.state[h] = "BLOCKED" /\ k.where[h] = s /\ k' = UnBlock(k, h)
  BY <1>1, HeadWaits
<1> HIDE DEF h
<1>3. OthersStay(k', k, h) /\ k'.state[h] \in {k.state[h], "READY"} /\ k'.state[h] # "BLOCKED"
  BY <1>1, <1>2, UnBlockDispatches
<1> QED BY <1>2, <1>3 DEF Grants, OthersStay

\* A Send copies its letter into the slot it has claimed.
LEMMA SendCopiesWorks ==
  ASSUME KernelAssumption, MailboxAssumption, SemaphoresAssumption, SleepAssumption,
         ObjectsAssumption, ObjInv, ObjInv', FrameInv, BoxInv, NEW t \in Thread, SendCopies(t)
  PROVE  \E b \in Box : Worked(t, b)
<1>1. PICK g : g = mail[t]
  OBVIOUS
<1>2. PICK b : b = g.box
  OBVIOUS
<1>3. PICK r, x, e, d : r = ring[b] /\ x = g.slot /\ e = g.end /\ d = Written(r, x, t)
  OBVIOUS
<1>4. /\ Running(t) /\ pc[t] = "copyIn" /\ pc' = [pc EXCEPT ![t] = "sent"]
      /\ k' = SetScheduler(k, g.sched) /\ UNCHANGED <<semVars, mail>>
      /\ ring' = [ring EXCEPT ![b].slots[x] = t]
  BY <1>1, <1>2, <1>3 DEF SendCopies
<1>5. /\ b \in Box /\ Belongs(t, b) /\ Outside(t) /\ g.letter = NoList /\ pendOn[t] = NoList
      /\ g \in Mail /\ OnlyCopier(t) /\ pc \in [Thread -> Where]
      /\ NoList \notin {RecvSem[b], SendSem[b]} /\ \A c \in Box : NoList # RecvSem[c]
  BY <1>1, <1>2, <1>4, BoxCaller DEF Mailing
<1>6. /\ g.sched \in BOOLEAN /\ e \in {"tail", "head"} /\ x \in Slot /\ Fits(r)
      /\ ring \in [Box -> Ring] /\ mail \in [Thread -> Mail]
  BY <1>3, <1>5 DEF Mail, BoxInv
<1>7. r.free < Capacity /\ x = LastClaimed(r, e)
  <2>1. CopyStands(t)
    BY DEF BoxInv
  <2> QED BY <1>1, <1>2, <1>3, <1>4, <2>1 DEF CopyStands
<1>8. PICK s, u : s = Seen(r, "copyIn", e) /\ u = Seen(d, "sent", e)
  OBVIOUS
<1>9. /\ Fits(d) /\ Len(s) < Capacity /\ Len(u) = Len(s) + 1 /\ Len(s) \in Nat
      /\ PutOn(e, u, t, s)
  <2>1. /\ Fits(r) /\ r.free < Capacity /\ e \in {"tail", "head"} /\ x = LastClaimed(r, e)
        /\ d = Written(r, x, t) /\ s = Seen(r, "copyIn", e) /\ u = Seen(d, "sent", e)
    BY <1>3, <1>6, <1>7, <1>8
  <2>2. Fits(d) /\ Len(s) < Capacity /\ Len(s) \in Nat /\ Len(u) = Len(s) + 1
    BY <2>1, FillIs
  <2>3. PutOn(e, u, t, s)
    BY <2>1, FillIs
  <2> QED BY <2>2, <2>3
<1>10. RingIs(b, d) /\ ring'[b] = d /\ MailIs(t, g) /\ mail'[t] = g
  BY <1>1, <1>3, <1>4, <1>6, <1>5 DEF RingIs, MailIs, Written
<1>11. /\ pc'[t] = "sent" /\ \A w \in Thread \ {t} : pc'[w] = pc[w]
       /\ value' = value /\ pendOn' = pendOn /\ expired' = expired
  BY <1>4, <1>5 DEF semVars
<1>12. k'.state = k.state
  BY <1>4, <1>5, <1>6, SwitchMoves
<1>13. OnlyMoves(t) /\ OnlyCopier(t)'
  BY <1>5, <1>11, <1>12 DEF OnlyMoves, MovedAlone, OnlyCopier
<1>14. /\ Belongs(t, b)' /\ Bears(t, b)' /\ ~Bears(t, b) /\ Collects(t)' /\ CopyStands(t)'
       /\ Counting({RecvSem[b], SendSem[b]}) /\ value'[RecvSem[b]] = value[RecvSem[b]]
  BY <1>1, <1>2, <1>4, <1>5, <1>10, <1>11, SameCounts, NoneCollects, NoCopyStands
     DEF Belongs, Bears, Copying
<1>15. Works(t, b) /\ RestAlike(t, b)
  BY <1>10, <1>13, <1>14, <1>5, OnlyWorks
<1>16. Letters(b) = s /\ Letters(b)' = u
  <2>1. Shows(b, pc[t], mail[t].end) /\ Shows(b, pc[t], mail[t].end)'
    BY <1>1, <1>2, <1>5, <1>10, <1>13, LettersIn
  <2>2. Seen(d, "sent", e) = Seen(ring'[b], pc'[t], mail'[t].end)
    BY <1>3, <1>10, <1>11
  <2> QED BY <1>1, <1>3, <1>4, <1>8, <2>1, <2>2 DEF Shows
<1>17. LettersEven(b)
  <2>1. Joins(t, b)
    BY <1>14, <1>15 DEF Joins, RestAlike
  <2>2. Stamps(b)' = Stamps(b) + 1 /\ Stamps(b) \in Nat
    BY <1>5, <1>14, <2>1, StampsMove, StampsAre
  <2> QED BY <1>9, <1>16, <2>2 DEF LettersEven
<1>18. Puts(t, b)
  BY <1>1, <1>3, <1>4, <1>9, <1>10, <1>16 DEF Puts
<1>19. Worked(t, b)
  BY <1>4, <1>5, <1>9, <1>10, <1>14, <1>15, <1>17, <1>18, WorkerDecides
<1> QED BY <1>5, <1>19

\* A Send posts the token for its letter, or hands it to a receiver.
LEMMA SendPostsWorks ==
  ASSUME KernelAssumption, MailboxAssumption, SemaphoresAssumption, SleepAssumption,
         ObjectsAssumption, ObjInv, ObjInv', FrameInv, BoxInv, StampInv, NEW t \in Thread,
         SendPosts(t)
  PROVE  \E b \in Box : Worked(t, b)
<1>1. PICK b : b = mail[t].box
  OBVIOUS
<1>2. PICK s : s = RecvSem[b]
  OBVIOUS
<1>3. PICK r : r = ring[b]
  OBVIOUS
<1>4. PICK g : g = NoFrame
  OBVIOUS
<1>5. /\ Running(t) /\ pc[t] = "sent" /\ PostBy(t, s) /\ MailIs(t, g) /\ ring' = ring
  BY <1>1, <1>2, <1>4 DEF SendPosts, MailIs
<1>6. /\ b \in Box /\ Belongs(t, b) /\ Outside(t) /\ k.state[t] = "READY" /\ pendOn[t] = NoList
      /\ OnlyCopier(t) /\ pc \in [Thread -> Where] /\ value \in [Sem -> Nat]
      /\ NoList \notin {RecvSem[b], SendSem[b]} /\ \A c \in Box : NoList # RecvSem[c]
  BY <1>1, <1>5, BoxCaller DEF Mailing
<1>7. /\ Fits(r) /\ RingIs(b, r) /\ ring'[b] = r /\ mail \in [Thread -> Mail]
  BY <1>3, <1>5, <1>6 DEF BoxInv, RingIs
<1>8. /\ g \in Mail /\ g.letter = NoList /\ mail'[t] = g /\ \A u \in Thread \ {t} : mail'[u] = mail[u]
  BY <1>4, <1>5, <1>7, NoFrameIs DEF MailIs
<1>9. /\ pc'[t] \in {"run", "yield"} /\ \A u \in Thread \ {t} : pc'[u] = pc[u]
      /\ pendOn' = pendOn /\ expired' = expired
  BY <1>5, <1>6 DEF PostBy
<1>10. s \in Sem /\ s \in BlockList
  BY <1>2, <1>6, OwnBoxSems DEF SemaphoresAssumption
<1>11. pc[t] \notin Copying /\ pc'[t] \notin Copying /\ OnlyCopier(t)'
  BY <1>5, <1>6, <1>9 DEF Copying, OnlyCopier
<1>12. /\ Belongs(t, b)' /\ Bears(t, b) /\ ~Bears(t, b)' /\ Collects(t)' /\ CopyStands(t)'
  BY <1>1, <1>5, <1>6, <1>9, <1>11, NoneCollects, NoCopyStands DEF Belongs, Bears, Mailing
<1>13. Counting({RecvSem[b], SendSem[b]})
  BY <1>2, <1>5, <1>6, <1>10, PostByCounts
<1>14. Letters(b)' = Letters(b)
  <2>1. Idles(t, b) /\ Idles(t, b)'
    BY <1>11 DEF Idles
  <2>2. Shows(b, "run", "tail") /\ Shows(b, "run", "tail")'
    BY <1>6, <1>11, <2>1, LettersIn
  <2> QED BY <1>3, <1>7, <2>2 DEF Shows
<1>15. value[s] + 1 <= Len(Letters(b)) /\ Len(Letters(b)) <= Capacity /\ MaxValue[s] = Capacity
  <2>1. value[s] + 1 <= Len(Letters(b))
    BY <1>2, <1>6, <1>12, BearerCounts
  <2>2. Letters(b) = Seen(r, "run", "tail") /\ Leaves(r, "run")
    <3>1. Idles(t, b)
      BY <1>11 DEF Idles
    <3>2. Shows(b, "run", "tail")
      BY <1>6, <3>1, LettersIn
    <3> QED BY <1>3, <3>2 DEF Shows, Leaves
  <2>3. Len(Letters(b)) <= Capacity
    BY <1>7, <2>2, SeenIs
  <2> QED BY <1>2, <1>6, <2>1, <2>3 DEF MailboxAssumption
<1>16. CASE Count(s) /\ k' = k
  <2>1. value'[s] = value[s] + 1
    <3>1. value[s] < MaxValue[s]
      <4>1. PICK v, n, m : v = value[s] /\ n = Len(Letters(b)) /\ m = Capacity
        OBVIOUS
      <4>2. v \in Nat /\ m \in Nat /\ v + 1 <= n /\ n <= m /\ n \in Int
        <5>1. Letters(b) = Seen(r, "run", "tail") /\ Leaves(r, "run")
          <6>1. Idles(t, b)
            BY <1>11 DEF Idles
          <6>2. Shows(b, "run", "tail")
            BY <1>6, <6>1, LettersIn
          <6> QED BY <1>3, <6>2 DEF Shows, Leaves
        <5>2. Letters(b) \in Seq(Thread \cup {NoList})
          BY <1>7, <5>1, SeenIs
        <5>3. Len(Letters(b)) \in Nat
          BY <5>2
        <5> QED BY <1>6, <1>10, <1>15, <4>1, <5>3 DEF MailboxAssumption
      <4> QED BY <1>15, <4>1, <4>2
    <3> QED BY <1>6, <1>10, <1>16, <3>1 DEF Count
  <2>2. OnlyMoves(t)
    BY <1>9, <1>16 DEF OnlyMoves, MovedAlone
  <2>3. Works(t, b) /\ RestAlike(t, b)
    BY <1>5, <1>6, <1>12, <1>13, <2>2, OnlyWorks
  <2>4. Parts(t, b)
    BY <1>12, <2>3 DEF Parts, RestAlike
  <2>5. Stamps(b)' = Stamps(b)
    BY <1>2, <1>6, <2>1, <2>4, StampsMove
  <2>6. LettersEven(b) /\ Lets(t, b)
    BY <1>8, <1>14, <2>5 DEF LettersEven, Lets
  <2>7. Worked(t, b)
    BY <1>5, <1>6, <1>7, <1>8, <1>12, <2>3, <2>6, WorkerDecides
  <2> QED BY <1>6, <2>7
<1>17. CASE k.list[s] # <<>> /\ k' = UnBlock(k, Head(k.list[s])) /\ value' = value
  <2>1. PICK h : Grants(h, s)
    BY <1>5, <1>6, <1>10, <1>17, UnBlockGrants
  <2>2. /\ h \in Thread /\ k.state[h] = "BLOCKED" /\ k.where[h] = s /\ k'.state[h] = "READY"
        /\ \A u \in Thread \ {h} : k'.state[u] = k.state[u]
    BY <2>1 DEF Grants
  <2>3. pendOn[h] = s /\ h # t
    BY <1>6, <2>2 DEF ObjInv, Placed
  <2>4. Collects(h) /\ pc[h] \in {"pend", "timed"} /\ ~TimedOut(h)
    BY <1>2, <1>6, <2>2, <2>3 DEF BoxInv, Collects
  <2>5. \A u \in Thread \ {t} : Lingers(u)
    BY <1>8, <1>9 DEF Lingers
  <2>6. Works(t, b)
    BY <1>2, <1>6, <1>12, <1>13, <2>2, <2>3, <2>5 DEF Works
  <2>7. Hands(t, h, b)
    <3>1. ~Bears(h, b)
      BY <2>2, <2>4 DEF Bears
    <3>2. Bears(h, b)'
      BY <1>2, <1>9, <2>2, <2>3, <2>4 DEF Bears, TimedOut
    <3>3. ASSUME NEW u \in Thread \ {t, h} PROVE Bears(u, b)' <=> Bears(u, b)
      <4>1. Lingers(u) /\ k'.state[u] = k.state[u]
        BY <2>2, <2>5
      <4> QED BY <4>1, RestBears
    <3> QED BY <1>12, <2>2, <3>1, <3>2, <3>3 DEF Hands
  <2>8. Stamps(b)' = Stamps(b)
    BY <1>2, <1>6, <1>17, <2>7, StampsMove
  <2>9. LettersEven(b) /\ Lets(t, b)
    BY <1>8, <1>14, <2>8 DEF LettersEven, Lets
  <2>10. Worked(t, b)
    BY <1>5, <1>6, <1>7, <1>8, <1>12, <2>6, <2>9, WorkerDecides
  <2> QED BY <1>6, <2>10
<1>18. CASE Count(s) /\ UNCHANGED k
  BY <1>16, <1>18
<1> QED BY <1>5, <1>17, <1>18 DEF PostBy

-----------------------------------------------------------------------------
(* Mailboxes: Receive *)

\* A Receive that finds a token takes it; any other one waits.
LEMMA CallReceiveWorks ==
  ASSUME KernelAssumption, MailboxAssumption, SemaphoresAssumption, SleepAssumption,
         ObjectsAssumption, ObjInv, ObjInv', FrameInv, BoxInv, NEW t \in Thread, Running(t),
         pc[t] = "run", NEW b \in Box, NEW end \in Ends, NEW n, n \in WaitTicks \cup {0},
         NEW g, g = Frame(b, end, n), MailIs(t, g), ring' = ring,
         NEW s, s = RecvSem[b],
         Pend(t, s, "take") \/ (n \in WaitTicks /\ TimedPend(t, s, n, "take"))
  PROVE  Worked(t, b)
<1>1. /\ Outside(t) /\ pendOn[t] = NoList /\ NoList \notin {RecvSem[b], SendSem[b]}
      /\ pc \in [Thread -> Where] /\ value \in [Sem -> Nat] /\ Belongs(t, b)
      /\ \A c \in Box : NoList # RecvSem[c]
  BY BoxCaller
<1>2. g \in Mail /\ g.box = b /\ g.letter = NoList
  <2>1. 0 \in Slot /\ end \in {"head", "tail"}
    BY SlotsAre DEF MailboxAssumption
  <2> QED BY <2>1 DEF Frame, Mail
<1>3. mail'[t] = g
  BY DEF MailIs, BoxInv
<1>4. s \in Sem /\ s \in BlockList
  BY OwnBoxSems DEF SemaphoresAssumption
<1>5. pc[t] \notin Copying /\ ~Bears(t, b)
  BY <1>1 DEF Copying, Bears
<1>6. CASE Takes(t, s, "take")
  <2>1. /\ OnlyMoves(t) /\ pc'[t] = "take" /\ pendOn'[t] = NoList
        /\ value' = [value EXCEPT ![s] = @ - 1]
    BY <1>6 DEF Takes
  <2>2. value'[RecvSem[b]] = value[RecvSem[b]] - 1
    BY <1>1, <1>4, <2>1
  <2>3. Counting({RecvSem[b], SendSem[b]})
    BY <1>1, <1>4, <2>1, OneCounts
  <2>4. Collects(t)' /\ Belongs(t, b)' /\ Bears(t, b)' /\ pc'[t] \notin Copying
    BY <1>1, <1>2, <1>3, <2>1, NoneCollects DEF Belongs, Bears, Copying
  <2> QED BY <1>1, <1>2, <1>5, <2>1, <2>2, <2>3, <2>4, PlainWork
<1>7. CASE Waits(t, s, "pend") \/ (Waits(t, s, "timed") /\ ~expired'[t])
  <2>1. /\ OnlyMoves(t) /\ pc'[t] \in {"pend", "timed"} /\ pendOn'[t] = s
        /\ k'.state[t] = "BLOCKED" /\ value' = value /\ (pc'[t] = "timed" => ~expired'[t])
    BY <1>7 DEF Waits
  <2>2. Counting({RecvSem[b], SendSem[b]}) /\ value'[RecvSem[b]] = value[RecvSem[b]]
    BY <2>1, SameCounts
  <2>3. Collects(t)' /\ Belongs(t, b)' /\ ~Bears(t, b)' /\ pc'[t] \notin Copying
    BY <2>1 DEF Collects, TimedOut, Belongs, Bears, Copying, Mailing
  <2> QED BY <1>1, <1>2, <1>5, <2>1, <2>2, <2>3, PlainWork
<1>8. Takes(t, s, "take") \/ Waits(t, s, "pend") \/ (Waits(t, s, "timed") /\ ~expired'[t])
  <2>1. CASE Pend(t, s, "take")
    BY <1>1, <1>4, <2>1, PendMoves
  <2>2. CASE n \in WaitTicks /\ TimedPend(t, s, n, "take")
    BY <1>1, <1>4, <2>2, TimedPendMoves
  <2> QED BY <2>1, <2>2
<1> QED BY <1>6, <1>7, <1>8

\* A Receive comes out of its wait with a token, or without one if it timed out.
LEMMA ReceiveWakesWorks ==
  ASSUME KernelAssumption, MailboxAssumption, SemaphoresAssumption, SleepAssumption,
         ObjectsAssumption, ObjInv, ObjInv', FrameInv, BoxInv, NEW t \in Thread, ReceiveWakes(t)
  PROVE  \E b \in Box : Worked(t, b)
<1>1. PICK f, b : f = mail[t] /\ b = f.box
  OBVIOUS
<1>2. PICK to : to = IF TimedOut(t) THEN "run" ELSE "take"
  OBVIOUS
<1>3. /\ b \in Box /\ pendOn[t] = RecvSem[b] /\ PendEnds(t, to) /\ ring' = ring
      /\ Running(t) /\ pc \in [Thread -> Where] /\ mail \in [Thread -> Mail] /\ f \in Mail
  BY <1>1, <1>2 DEF ReceiveWakes, PendEnds, ObjInv, BoxInv
<1>4. PICK g : g = IF TimedOut(t) THEN NoFrame ELSE f
  OBVIOUS
<1>5. MailIs(t, g)
  <2>1. CASE TimedOut(t)
    BY <1>4, <2>1 DEF ReceiveWakes, MailIs
  <2>2. CASE ~TimedOut(t)
    BY <1>1, <1>3, <1>4, <2>2 DEF ReceiveWakes, MailIs
  <2> QED BY <2>1, <2>2
<1>6. /\ Same /\ MovedAlone(t) /\ pendOn'[t] = NoList /\ pc[t] \in {"pend", "timed"}
      /\ k.state[t] = "READY"
  BY <1>3, PendEndsMoves
<1>7. pc'[t] = to /\ value' = value /\ OnlyMoves(t) /\ mail'[t] = g
  BY <1>3, <1>5, <1>6 DEF PendEnds, OnlyMoves, Same, MailIs
<1>8. g \in Mail /\ g.letter = NoList /\ (~TimedOut(t) => g.box = b)
  BY <1>1, <1>3, <1>4, <1>6, NoFrameIs DEF BoxInv
<1>9. /\ RecvSem[b] # NoList /\ \A c \in Box : NoList # RecvSem[c]
  BY <1>3, OwnBoxSems, KernelAssumption DEF SemaphoresAssumption, KernelAssumption
<1>10. /\ Counting({RecvSem[b], SendSem[b]}) /\ value'[RecvSem[b]] = value[RecvSem[b]]
       /\ Collects(t)'
  BY <1>6, <1>7, <1>9, SameCounts, NoneCollects
<1>11. Belongs(t, b) /\ pc[t] \notin Copying /\ pc'[t] \notin Copying
  BY <1>2, <1>3, <1>6, <1>7 DEF Belongs, Mailing, Copying
<1>12. Belongs(t, b)' /\ (Bears(t, b)' <=> Bears(t, b))
  <2>1. CASE TimedOut(t)
    BY <1>2, <1>6, <1>7, <1>9, <2>1 DEF Belongs, Bears, Mailing
  <2>2. CASE ~TimedOut(t)
    BY <1>2, <1>3, <1>6, <1>7, <1>8, <2>2 DEF Belongs, Bears
  <2> QED BY <2>1, <2>2
<1>13. Worked(t, b)
  BY <1>3, <1>5, <1>7, <1>8, <1>10, <1>11, <1>12, PlainWork
<1> QED BY <1>3, <1>13

WithSched(f, x, y) == [f EXCEPT !.slot = x, !.sched = y]

LEMMA SchedSet ==
  ASSUME NEW f \in Mail, NEW x, x \in Slot, NEW y, y \in BOOLEAN, NEW g, g = WithSched(f, x, y)
  PROVE  /\ g \in Mail /\ g.box = f.box /\ g.end = f.end /\ g.letter = f.letter /\ g.slot = x
BY DEF Mail, WithSched

\* A Receive with a token moves the end of the ring over a letter.
LEMMA ReceiveTakesWorks ==
  ASSUME KernelAssumption, MailboxAssumption, SemaphoresAssumption, SleepAssumption,
         ObjectsAssumption, ObjInv, ObjInv', FrameInv, BoxInv, StampInv, NEW t \in Thread,
         ReceiveTakes(t)
  PROVE  \E b \in Box : Worked(t, b)
<1>1. PICK f : f = mail[t]
  OBVIOUS
<1>2. PICK b, e : b = f.box /\ e = f.end
  OBVIOUS
<1>3. PICK r : r = ring[b]
  OBVIOUS
<1>4. PICK d, x, y : d = FreeSlot(r, e) /\ x = ReleasedSlot(r, e) /\ y = k.enabled
  OBVIOUS
<1>5. PICK g : g = WithSched(f, x, y)
  OBVIOUS
<1>6. /\ Running(t) /\ pc[t] = "take" /\ pc' = [pc EXCEPT ![t] = "copyOut"]
      /\ k' = SetScheduler(k, FALSE) /\ UNCHANGED semVars
  BY DEF ReceiveTakes
<1>7. /\ b \in Box /\ Belongs(t, b) /\ Outside(t) /\ f.letter = NoList /\ pendOn[t] = NoList
      /\ f \in Mail /\ OnlyCopier(t) /\ pc \in [Thread -> Where] /\ t = k.current /\ k \in KernelState
      /\ NoList \notin {RecvSem[b], SendSem[b]} /\ \A c \in Box : NoList # RecvSem[c]
  BY <1>1, <1>2, <1>6, BoxCaller DEF Mailing
<1>8. /\ e \in {"tail", "head"} /\ Fits(r) /\ y \in BOOLEAN
      /\ ring \in [Box -> Ring] /\ mail \in [Thread -> Mail]
  BY <1>2, <1>3, <1>4, <1>7 DEF Mail, BoxInv, KernelState
<1>9. RingIs(b, d) /\ ring'[b] = d
  BY <1>1, <1>2, <1>3, <1>4, <1>7, <1>8 DEF ReceiveTakes, RingIs
<1>10. MailIs(t, g) /\ mail'[t] = g
  BY <1>1, <1>2, <1>3, <1>4, <1>5, <1>8 DEF ReceiveTakes, MailIs, WithSched
<1>11. Bears(t, b) /\ Idles(t, b) /\ Leaves(r, "run")
  BY <1>1, <1>2, <1>6 DEF Bears, Idles, Copying, Leaves
<1>12. Letters(b) = Seen(r, "run", e)
  <2>1. Shows(b, "run", e)
    BY <1>7, <1>11, LettersIn
  <2> QED BY <1>3, <2>1 DEF Shows
<1>13. r.free < Capacity
  <2>1. value[RecvSem[b]] + 1 <= Len(Letters(b)) /\ value[RecvSem[b]] \in Nat
    BY <1>7, <1>11, BearerCounts, StampsAre
  <2>2. Len(Seen(r, "run", e)) = Capacity - r.free + (IF "run" = "copyIn" THEN -1 ELSE IF "run" = "copyOut" THEN 1 ELSE 0)
    BY <1>8, <1>11, SeenIs
  <2>3. r.free \in 0 .. Capacity /\ Capacity \in Nat
    BY <1>8, RingFields, SlotsAre
  <2> QED BY <1>12, <2>1, <2>2, <2>3
<1>14. /\ Fits(d) /\ d.free > 0 /\ x = LastFreed(d, e) /\ x \in Slot
       /\ Seen(d, "copyOut", e) = Seen(r, "run", e)
  BY <1>4, <1>8, <1>13, FreeIs
<1>15. g \in Mail /\ g.box = b /\ g.end = e /\ g.letter = NoList /\ g.slot = x
  BY <1>2, <1>5, <1>7, <1>8, <1>14, SchedSet
<1>16. /\ pc'[t] = "copyOut" /\ \A w \in Thread \ {t} : pc'[w] = pc[w]
       /\ value' = value /\ pendOn' = pendOn /\ expired' = expired
  BY <1>6, <1>7 DEF semVars
<1>17. k'.state = k.state /\ k'.current = k.current /\ ~k'.enabled
  BY <1>6, <1>7, SwitchMoves
<1>18. OnlyMoves(t) /\ OnlyCopier(t)'
  BY <1>7, <1>16, <1>17 DEF OnlyMoves, MovedAlone, OnlyCopier
<1>19. /\ Belongs(t, b)' /\ Bears(t, b)' /\ Collects(t)'
       /\ Counting({RecvSem[b], SendSem[b]}) /\ value'[RecvSem[b]] = value[RecvSem[b]]
  BY <1>7, <1>10, <1>15, <1>16, SameCounts, NoneCollects DEF Belongs, Bears
<1>20. CopyStands(t)'
  BY <1>7, <1>9, <1>10, <1>14, <1>15, <1>16, <1>17 DEF CopyStands
<1>21. Letters(b)' = Letters(b)
  <2>1. Shows(b, pc[t], mail[t].end)'
    BY <1>10, <1>15, <1>18, LettersIn
  <2> QED BY <1>9, <1>10, <1>12, <1>14, <1>15, <1>16, <2>1 DEF Shows
<1>22. Worked(t, b)
  BY <1>6, <1>7, <1>9, <1>10, <1>11, <1>14, <1>15, <1>18, <1>19, <1>20, <1>21, QuietWork
<1> QED BY <1>7, <1>22

LEMMA LetterSet ==
  ASSUME NEW f \in Mail, NEW l, l \in Thread \cup {NoList}, NEW g, g = [f EXCEPT !.letter = l]
  PROVE  /\ g \in Mail /\ g.box = f.box /\ g.end = f.end /\ g.letter = l
BY DEF Mail

\* A Receive copies the letter out of the slot that it has made free.
LEMMA ReceiveCopiesWorks ==
  ASSUME KernelAssumption, MailboxAssumption, SemaphoresAssumption, SleepAssumption,
         ObjectsAssumption, ObjInv, ObjInv', FrameInv, BoxInv, NEW t \in Thread, ReceiveCopies(t)
  PROVE  \E b \in Box : Worked(t, b)
<1>1. PICK f : f = mail[t]
  OBVIOUS
<1>2. PICK b : b = f.box
  OBVIOUS
<1>3. PICK r, x, e : r = ring[b] /\ x = f.slot /\ e = f.end
  OBVIOUS
<1>4. PICK l : l = r.slots[x]
  OBVIOUS
<1>5. PICK g : g = [f EXCEPT !.letter = l]
  OBVIOUS
<1>6. /\ Running(t) /\ pc[t] = "copyOut" /\ pc' = [pc EXCEPT ![t] = "taken"]
      /\ k' = SetScheduler(k, f.sched) /\ UNCHANGED <<semVars, ring>>
      /\ mail' = [mail EXCEPT ![t].letter = l]
  BY <1>1, <1>2, <1>3, <1>4 DEF ReceiveCopies
<1>7. /\ b \in Box /\ Belongs(t, b) /\ Outside(t) /\ f.letter = NoList /\ pendOn[t] = NoList
      /\ f \in Mail /\ OnlyCopier(t) /\ pc \in [Thread -> Where]
      /\ NoList \notin {RecvSem[b], SendSem[b]} /\ \A c \in Box : NoList # RecvSem[c]
  BY <1>1, <1>2, <1>6, BoxCaller DEF Mailing
<1>8. /\ f.sched \in BOOLEAN /\ e \in {"tail", "head"} /\ x \in Slot /\ Fits(r)
      /\ ring \in [Box -> Ring] /\ mail \in [Thread -> Mail]
  BY <1>3, <1>7 DEF Mail, BoxInv
<1>9. r.free > 0 /\ x = LastFreed(r, e)
  <2>1. CopyStands(t)
    BY DEF BoxInv
  <2> QED BY <1>1, <1>2, <1>3, <1>6, <2>1 DEF CopyStands
<1>10. l \in Thread \cup {NoList}
  <2>1. Fits(r) /\ x \in Slot
    BY <1>8
  <2>2. r.slots \in [Slot -> Thread \cup {NoList}]
    BY <2>1, RingFields
  <2> QED BY <1>4, <2>1, <2>2
<1>11. g \in Mail /\ g.box = b /\ g.end = e /\ g.letter = l
  <2>1. f \in Mail /\ l \in Thread \cup {NoList} /\ g = [f EXCEPT !.letter = l]
    BY <1>5, <1>7, <1>10
  <2>2. g \in Mail /\ g.box = f.box /\ g.end = f.end /\ g.letter = l
    BY <2>1, LetterSet
  <2> QED BY <1>2, <1>3, <2>2
<1>12. PICK u, s : u = Seen(r, "copyOut", e) /\ s = Seen(r, "taken", e)
  OBVIOUS
<1>13. /\ u # <<>> /\ Len(u) = Len(s) + 1 /\ Len(s) \in Nat
       /\ TakenOff(e, l, s, u)
  <2>1. /\ Fits(r) /\ r.free > 0 /\ e \in {"tail", "head"} /\ x = LastFreed(r, e)
        /\ u = Seen(r, "copyOut", e) /\ s = Seen(r, "taken", e)
    BY <1>8, <1>9, <1>12
  <2>2. /\ u # <<>> /\ Len(u) = Len(s) + 1 /\ Len(s) \in Nat /\ x \in Slot
        /\ TakenOff(e, r.slots[x], s, u)
    BY <2>1, EmptyIs
  <2> QED BY <1>4, <2>2
<1>14. /\ RingIs(b, r) /\ ring'[b] = r
  BY <1>3, <1>6, <1>7, <1>8 DEF RingIs
<1>15. MailIs(t, g) /\ mail'[t] = g
  BY <1>1, <1>5, <1>6, <1>8 DEF MailIs
<1>16. /\ pc'[t] = "taken" /\ \A w \in Thread \ {t} : pc'[w] = pc[w]
       /\ value' = value /\ pendOn' = pendOn /\ expired' = expired
  BY <1>6, <1>7 DEF semVars
<1>17. k'.state = k.state
  BY <1>6, <1>7, <1>8, SwitchMoves
<1>18. OnlyMoves(t) /\ OnlyCopier(t)'
  BY <1>7, <1>16, <1>17 DEF OnlyMoves, MovedAlone, OnlyCopier
<1>19. /\ Belongs(t, b)' /\ ~Bears(t, b)' /\ Bears(t, b) /\ Collects(t)' /\ CopyStands(t)'
       /\ Counting({RecvSem[b], SendSem[b]}) /\ value'[RecvSem[b]] = value[RecvSem[b]]
  BY <1>1, <1>2, <1>6, <1>7, <1>11, <1>15, <1>16, SameCounts, NoneCollects, NoCopyStands
     DEF Belongs, Bears, Copying
<1>20. Works(t, b) /\ RestAlike(t, b)
  BY <1>7, <1>15, <1>18, <1>19, OnlyWorks
<1>21. Letters(b) = u /\ Letters(b)' = s
  <2>1. Shows(b, pc[t], mail[t].end) /\ Shows(b, pc[t], mail[t].end)'
    BY <1>1, <1>2, <1>7, <1>11, <1>15, <1>18, LettersIn
  <2>2. s = Seen(ring'[b], pc'[t], mail'[t].end)
    BY <1>11, <1>12, <1>14, <1>15, <1>16
  <2> QED BY <1>1, <1>3, <1>6, <1>12, <2>1, <2>2 DEF Shows
<1>22. LettersEven(b)
  <2>1. Parts(t, b)
    BY <1>19, <1>20 DEF Parts, RestAlike
  <2>2. Stamps(b)' = Stamps(b) - 1 /\ Stamps(b) \in Nat
    BY <1>7, <1>19, <2>1, StampsMove, StampsAre
  <2> QED BY <1>13, <1>21, <2>2 DEF LettersEven
<1>23. Gets(t, b)
  BY <1>1, <1>3, <1>6, <1>7, <1>11, <1>13, <1>15, <1>21 DEF Gets
<1>24. Worked(t, b)
  BY <1>6, <1>7, <1>8, <1>11, <1>14, <1>15, <1>16, <1>19, <1>20, <1>22, <1>23, WorkerDecides
<1> QED BY <1>7, <1>24

\* A Receive says that a slot has become free, to a sender that waits or to none.
LEMMA ReceivePostsWorks ==
  ASSUME KernelAssumption, MailboxAssumption, SemaphoresAssumption, SleepAssumption,
         ObjectsAssumption, ObjInv, ObjInv', FrameInv, BoxInv, NEW t \in Thread, ReceivePosts(t)
  PROVE  \E b \in Box : Worked(t, b)
<1>1. PICK b : b = mail[t].box
  OBVIOUS
<1>2. PICK s : s = SendSem[b]
  OBVIOUS
<1>3. PICK r : r = ring[b]
  OBVIOUS
<1>4. PICK g : g = NoFrame
  OBVIOUS
<1>5. /\ Running(t) /\ pc[t] = "taken" /\ PostBy(t, s) /\ MailIs(t, g) /\ ring' = ring
  BY <1>1, <1>2, <1>4 DEF ReceivePosts, MailIs
<1>6. /\ b \in Box /\ Belongs(t, b) /\ Outside(t) /\ k.state[t] = "READY" /\ pendOn[t] = NoList
      /\ OnlyCopier(t) /\ pc \in [Thread -> Where] /\ value \in [Sem -> Nat]
      /\ NoList \notin {RecvSem[b], SendSem[b]} /\ \A c \in Box : NoList # RecvSem[c]
  BY <1>1, <1>5, BoxCaller DEF Mailing
<1>7. /\ Fits(r) /\ RingIs(b, r) /\ ring'[b] = r /\ mail \in [Thread -> Mail]
  BY <1>3, <1>5, <1>6 DEF BoxInv, RingIs
<1>8. /\ g \in Mail /\ g.letter = NoList /\ mail'[t] = g /\ \A u \in Thread \ {t} : mail'[u] = mail[u]
  BY <1>4, <1>5, <1>7, NoFrameIs DEF MailIs
<1>9. /\ pc'[t] \in {"run", "yield"} /\ \A u \in Thread \ {t} : pc'[u] = pc[u]
      /\ pendOn' = pendOn /\ expired' = expired
  BY <1>5, <1>6 DEF PostBy
<1>10. s \in Sem /\ s \in BlockList /\ RecvSem[b] \in Sem /\ \A c \in Box : s # RecvSem[c]
  BY <1>2, <1>6, OwnBoxSems DEF SemaphoresAssumption
<1>11. pc[t] \notin Copying /\ pc'[t] \notin Copying /\ OnlyCopier(t)'
  BY <1>5, <1>6, <1>9 DEF Copying, OnlyCopier
<1>12. /\ Belongs(t, b)' /\ ~Bears(t, b) /\ ~Bears(t, b)' /\ Collects(t)' /\ CopyStands(t)'
  BY <1>1, <1>5, <1>6, <1>9, <1>11, NoneCollects, NoCopyStands DEF Belongs, Bears, Mailing
<1>13. Counting({RecvSem[b], SendSem[b]}) /\ Counting({s})
  BY <1>2, <1>5, <1>6, <1>10, PostByCounts
<1>14. value'[RecvSem[b]] = value[RecvSem[b]]
  BY <1>6, <1>10, <1>13 DEF Counting
<1>15. Letters(b)' = Letters(b)
  <2>1. Idles(t, b) /\ Idles(t, b)'
    BY <1>11 DEF Idles
  <2>2. Shows(b, "run", "tail") /\ Shows(b, "run", "tail")'
    BY <1>6, <1>11, <2>1, LettersIn
  <2> QED BY <1>3, <1>7, <2>2 DEF Shows
<1>16. CASE Count(s) /\ UNCHANGED k
  <2>1. OnlyMoves(t)
    BY <1>9, <1>16 DEF OnlyMoves, MovedAlone
  <2> QED BY <1>5, <1>6, <1>8, <1>11, <1>12, <1>13, <1>14, <2>1, PlainWork
<1>17. CASE k.list[s] # <<>> /\ k' = UnBlock(k, Head(k.list[s])) /\ value' = value
  <2>1. PICK h : Grants(h, s)
    BY <1>5, <1>6, <1>10, <1>17, UnBlockGrants
  <2>2. /\ h \in Thread /\ k.state[h] = "BLOCKED" /\ k.where[h] = s /\ k'.state[h] = "READY"
        /\ \A u \in Thread \ {h} : k'.state[u] = k.state[u]
    BY <2>1 DEF Grants
  <2>3. pendOn[h] = s /\ h # t
    BY <1>6, <2>2 DEF ObjInv, Placed
  <2>4. \A u \in Thread \ {t} : Lingers(u)
    BY <1>8, <1>9 DEF Lingers
  <2>5. Works(t, b)
    BY <1>2, <1>6, <1>12, <1>13, <2>2, <2>3, <2>4 DEF Works
  <2>6. Alike(b)
    <3>1. ASSUME NEW u \in Thread \ {t} PROVE Bears(u, b)' <=> Bears(u, b)
      <4>1. Lingers(u) /\ (k'.state[u] = k.state[u] \/ pendOn[u] # RecvSem[b])
        BY <1>6, <1>10, <2>2, <2>3, <2>4
      <4> QED BY <4>1, RestBears
    <3> QED BY <1>12, <3>1 DEF Alike
  <2>7. Stamps(b)' = Stamps(b)
    BY <1>6, <1>14, <2>6, StampsMove
  <2>8. LettersEven(b) /\ Lets(t, b)
    BY <1>8, <1>15, <2>7 DEF LettersEven, Lets
  <2>9. Worked(t, b)
    BY <1>5, <1>6, <1>7, <1>8, <1>12, <2>5, <2>8, WorkerDecides
  <2> QED BY <1>6, <2>9
<1> QED BY <1>5, <1>6, <1>16, <1>17 DEF PostBy

-----------------------------------------------------------------------------
(* Mailboxes: every step *)

LEMMA SendTries ==
  ASSUME KernelAssumption, MailboxAssumption, SemaphoresAssumption, SleepAssumption,
         ObjectsAssumption, ObjInv, ObjInv', FrameInv, BoxInv, NEW t \in Thread,
         \/ \E c \in Box, end \in Ends : \/ CallSend(t, c, end)
                                         \/ \E ticks \in WaitTicks : CallTimedSend(t, c, end, ticks)
         \/ SendRetries(t)
  PROVE  \E b \in Box : Worked(t, b)
<1>1. ASSUME NEW c \in Box, NEW end \in Ends, NEW n, n \in WaitTicks \cup {0}, NEW y, y \in BOOLEAN,
             NEW f, f = [Frame(c, end, n) EXCEPT !.sched = y],
             Running(t), pc[t] = "run"
      PROVE  Tries(f, t)
  <2>1. 0 \in Slot /\ end \in {"head", "tail"}
    BY SlotsAre DEF MailboxAssumption
  <2>2. f \in Mail /\ f.box = c /\ f.letter = NoList
    BY <1>1, <2>1 DEF Frame, Mail
  <2>3. Belongs(t, c)
    BY <1>1, BoxCaller
  <2> QED BY <2>2, <2>3 DEF Tries
<1>2. ASSUME NEW f, Tries(f, t), NEW again, TrySend(t, f, again), Running(t), pc[t] \in {"run", "retry"}
      PROVE  \E b \in Box : Worked(t, b)
  <2>1. f.box \in Box /\ Worked(t, f.box)
    BY <1>2, TrySendWorks DEF Tries
  <2> QED BY <2>1
<1>3. ASSUME NEW c \in Box, NEW end \in Ends, CallSend(t, c, end)
      PROVE  \E b \in Box : Worked(t, b)
  <2>1. PICK y, n, f : y = k.enabled /\ n = 0 /\ f = [Frame(c, end, n) EXCEPT !.sched = y]
    OBVIOUS
  <2>2. y \in BOOLEAN /\ Running(t) /\ pc[t] = "run" /\ n \in WaitTicks \cup {0}
    BY <1>3, <2>1 DEF ObjInv, Good, KernelState, CallSend, Calling
  <2>3. TrySend(t, f, FALSE)
    BY <1>3, <2>1 DEF CallSend
  <2>4. Tries(f, t)
    BY <1>1, <2>1, <2>2
  <2> QED BY <1>2, <2>2, <2>3, <2>4
<1>4. ASSUME NEW c \in Box, NEW end \in Ends, NEW n \in WaitTicks, CallTimedSend(t, c, end, n)
      PROVE  \E b \in Box : Worked(t, b)
  <2>1. PICK y, f : y = TRUE /\ f = [Frame(c, end, n) EXCEPT !.sched = y]
    OBVIOUS
  <2>2. Running(t) /\ pc[t] = "run" /\ TrySend(t, f, FALSE)
    BY <1>4, <2>1 DEF CallTimedSend, Calling, Frame
  <2>3. Tries(f, t)
    BY <1>1, <2>1, <2>2
  <2> QED BY <1>2, <2>2, <2>3
<1>5. ASSUME SendRetries(t) PROVE \E b \in Box : Worked(t, b)
  <2>1. PICK f : f = mail[t]
    OBVIOUS
  <2>2. Running(t) /\ pc[t] = "retry" /\ TrySend(t, f, TRUE)
    BY <1>5, <2>1 DEF SendRetries
  <2>3. Tries(f, t)
    BY <2>1, <2>2, BoxCaller DEF Mailing, Tries
  <2> QED BY <1>2, <2>2, <2>3
<1> QED BY <1>3, <1>4, <1>5

LEMMA CallReceives ==
  ASSUME KernelAssumption, MailboxAssumption, SemaphoresAssumption, SleepAssumption,
         ObjectsAssumption, ObjInv, ObjInv', FrameInv, BoxInv, NEW t \in Thread,
         NEW b \in Box, NEW end \in Ends,
         \/ CallReceive(t, b, end)
         \/ \E ticks \in WaitTicks : CallTimedReceive(t, b, end, ticks)
  PROVE  Worked(t, b)
<1>1. ASSUME CallReceive(t, b, end) PROVE Worked(t, b)
  <2>1. PICK n, s, g : n = 0 /\ s = RecvSem[b] /\ g = Frame(b, end, n)
    OBVIOUS
  <2>2. /\ Running(t) /\ pc[t] = "run" /\ MailIs(t, g) /\ ring' = ring /\ n \in WaitTicks \cup {0}
        /\ Pend(t, s, "take")
    BY <1>1, <2>1 DEF CallReceive, Calling, MailIs
  <2> QED BY <2>1, <2>2, CallReceiveWorks
<1>2. ASSUME NEW n \in WaitTicks, CallTimedReceive(t, b, end, n) PROVE Worked(t, b)
  <2>1. PICK s, g : s = RecvSem[b] /\ g = Frame(b, end, n)
    OBVIOUS
  <2>2. /\ Running(t) /\ pc[t] = "run" /\ MailIs(t, g) /\ ring' = ring /\ n \in WaitTicks \cup {0}
        /\ TimedPend(t, s, n, "take")
    BY <1>2, <2>1 DEF CallTimedReceive, Calling, MailIs
  <2> QED BY <2>1, <2>2, CallReceiveWorks
<1> QED BY <1>1, <1>2

LEMMA BoxStepWorks ==
  ASSUME KernelAssumption, MailboxAssumption, SemaphoresAssumption, SleepAssumption,
         ObjectsAssumption, ObjInv, ObjInv', FrameInv, BoxInv, StampInv, NEW t \in Thread, BoxStep(t)
  PROVE  \E b \in Box : Worked(t, b)
<1> DEFINE Goal == \E b \in Box : Worked(t, b)
<1>1. ASSUME \/ \E c \in Box, end \in Ends : \/ CallSend(t, c, end)
                                             \/ \E ticks \in WaitTicks : CallTimedSend(t, c, end, ticks)
             \/ SendRetries(t)
      PROVE  Goal
  BY <1>1, SendTries
<1>2. ASSUME NEW b \in Box, NEW end \in Ends,
             \/ CallReceive(t, b, end)
             \/ \E ticks \in WaitTicks : CallTimedReceive(t, b, end, ticks)
      PROVE  Goal
  <2>1. Worked(t, b)
    BY <1>2, CallReceives
  <2> QED BY <2>1
<1>3. ASSUME SendWaits(t) \/ SendWakes(t) PROVE Goal
  BY <1>3, SendWaitWorks
<1>4. ASSUME SendCopies(t) PROVE Goal
  BY <1>4, SendCopiesWorks
<1>5. ASSUME SendPosts(t) PROVE Goal
  BY <1>5, SendPostsWorks
<1>6. ASSUME ReceiveWakes(t) PROVE Goal
  BY <1>6, ReceiveWakesWorks
<1>7. ASSUME ReceiveTakes(t) PROVE Goal
  BY <1>7, ReceiveTakesWorks
<1>8. ASSUME ReceiveCopies(t) PROVE Goal
  BY <1>8, ReceiveCopiesWorks
<1>9. ASSUME ReceivePosts(t) PROVE Goal
  BY <1>9, ReceivePostsWorks
<1> HIDE DEF Goal
<1>10. Goal
  BY <1>1, <1>2, <1>3, <1>4, <1>5, <1>6, <1>7, <1>8, <1>9 DEF BoxStep
<1> QED BY <1>10 DEF Goal

\* A thread gets into a Receive with a timeout by asking for one.
LEMMA NoTimedReceive ==
  ASSUME KernelAssumption, MailboxAssumption, SemaphoresAssumption, SleepAssumption,
         ObjectsAssumption, ObjInv, FrameInv, BoxInv, NEW t \in Thread, BoxStep(t),
         "TimedReceive" \notin Calls, NEW u \in Thread, NEW b \in Box,
         pendOn'[u] = RecvSem[b], pc'[u] = "timed"
  PROVE  pendOn[u] = RecvSem[b] /\ pc[u] = "timed"
<1>1. /\ pc \in [Thread -> Where] /\ pendOn \in [Thread -> BlockList \cup {NoList}]
      /\ RecvSem[b] # NoList /\ mail \in [Thread -> Mail]
  BY OwnBoxSems, KernelAssumption DEF ObjInv, BoxInv, SemaphoresAssumption, KernelAssumption
<1> DEFINE Quiet == /\ \E at \in Where \ {"timed"} : pc' = [pc EXCEPT ![t] = at]
                    /\ pendOn' = pendOn \/ \E s : pendOn' = [pendOn EXCEPT ![t] = s]
           Sends == \E s : /\ s # RecvSem[b] /\ pendOn' = [pendOn EXCEPT ![t] = s]
                           /\ \E at : pc' = [pc EXCEPT ![t] = at]
<1>2. {"copyIn", "full", "run", "yield", "pend", "take", "retry", "sent", "copyOut", "taken"}
        \subseteq Where \ {"timed"}
  BY DEF Where
<1>3. ASSUME NEW f, NEW again, TrySend(t, f, again) PROVE Quiet
  <2>1. /\ pendOn' = pendOn
        /\ \E at \in {"copyIn", "full", "run"} : pc' = [pc EXCEPT ![t] = at]
    BY <1>3 DEF TrySend, semVars
  <2> QED BY <1>2, <2>1
<1>4. ASSUME NEW c \in Box, NEW end \in Ends, CallReceive(t, c, end) PROVE Quiet
  <2>1. Pend(t, RecvSem[c], "take")
    BY <1>4 DEF CallReceive
  <2> QED BY <1>2, <2>1 DEF Pend, Take, Wait
<1>5. ASSUME NEW c \in Box, NEW end \in Ends, NEW n, CallTimedReceive(t, c, end, n) PROVE FALSE
  BY <1>5 DEF CallTimedReceive, Calling
<1>6. ASSUME SendWaits(t) PROVE Quiet \/ Sends
  <2>1. TimedPend(t, SendSem[mail[t].box], mail[t].ticks, "retry") /\ mail[t].box \in Box
    BY <1>6 DEF SendWaits, FrameInv, MailInv, Suits, Mailing
  <2>2. SendSem[mail[t].box] # RecvSem[b]
    BY <2>1, OwnBoxSems
  <2> QED BY <1>2, <2>1, <2>2 DEF TimedPend, Take, Wait
<1>7. ASSUME SendWakes(t) \/ ReceiveWakes(t) PROVE Quiet
  <2>1. \E at \in {"run", "take", "retry"} : PendEnds(t, at)
    BY <1>7 DEF SendWakes, ReceiveWakes
  <2> QED BY <1>2, <2>1 DEF PendEnds
<1>8. ASSUME SendCopies(t) \/ ReceiveTakes(t) \/ ReceiveCopies(t) PROVE Quiet
  BY <1>2, <1>8 DEF SendCopies, ReceiveTakes, ReceiveCopies, semVars
<1>9. ASSUME NEW s, PostBy(t, s) PROVE Quiet
  BY <1>2, <1>9 DEF PostBy
<1>10. Quiet \/ Sends
  <2> HIDE DEF Quiet, Sends
  <2>1. ASSUME SendPosts(t) \/ ReceivePosts(t) PROVE Quiet
    BY <1>9, <2>1 DEF SendPosts, ReceivePosts
  <2>2. ASSUME \/ \E c \in Box, end \in Ends : \/ CallSend(t, c, end)
                                               \/ \E n \in WaitTicks : CallTimedSend(t, c, end, n)
               \/ SendRetries(t)
        PROVE  Quiet
    BY <1>3, <2>2 DEF CallSend, CallTimedSend, SendRetries
  <2> QED BY <1>4, <1>5, <1>6, <1>7, <1>8, <2>1, <2>2 DEF BoxStep
<1>11. CASE Quiet
  BY <1>1, <1>11
<1>12. CASE Sends
  BY <1>1, <1>12
<1> QED BY <1>10, <1>11, <1>12

-----------------------------------------------------------------------------
(* Mailboxes: the end a call is for *)

\* Where a step of t takes its Send or its Receive: it ends, begins, or goes on.
Leads(t) ==
  \/ mail'[t] = NoFrame
  \/ pc[t] = "run" /\ InBoxCall(t)'
  \/ /\ pc[t] \notin {"sent", "taken"} /\ InBoxCall(t)'
     /\ mail'[t].box = mail[t].box /\ mail'[t].end = mail[t].end

\* The thread that copies has the work of its call behind it.
Sided(t) ==
  /\ \A u \in Thread \ {t} : EndFor(u)' = EndFor(u)
  /\ EndFor(t)' \in {NoList, EndFor(t)} \/ EndFor(t) = NoList
  /\ pc[t] \in Copying => EndFor(t) = mail[t].end /\ EndFor(t)' = NoList

\* Nobody but t moves.
OthersWait(t) ==
  \A u \in Thread \ {t} : pc'[u] = pc[u] /\ pendOn'[u] = pendOn[u] /\ mail'[u] = mail[u]

LEMMA NotInBox ==
  ASSUME KernelAssumption, MailboxAssumption, SemaphoresAssumption, ObjInv, SpentInv,
         NEW t \in Thread, pc[t] = "run"
  PROVE  mail[t].box = NoList
<1>1. pendOn[t] = NoList
  BY DEF ObjInv, Placed, InWait, Waiting
<1>2. \A b \in Box : NoList \notin {RecvSem[b], SendSem[b]}
  BY KernelAssumption DEF MailboxAssumption, SemaphoresAssumption, KernelAssumption
<1>3. ~InBoxCall(t)
  BY <1>1, <1>2 DEF InBoxCall, Mailing
<1> QED BY <1>3 DEF SpentInv

LEMMA LeadsSided ==
  ASSUME KernelAssumption, MailboxAssumption, SemaphoresAssumption, ObjInv, SpentInv, MailInv,
         NEW t \in Thread, OthersWait(t), Leads(t),
         pc[t] \in Copying => pc'[t] \in {"sent", "taken"}
  PROVE  SpentInv' /\ Sided(t)
<1>1. NoFrame.box = NoList
  BY DEF NoFrame, Frame
<1>2. \A u \in Thread \ {t} : EndFor(u)' = EndFor(u)
  BY DEF OthersWait, EndFor
<1>3. SpentInv'
  <2> SUFFICES ASSUME NEW u \in Thread, mail'[u].box # NoList PROVE InBoxCall(u)'
    BY DEF SpentInv
  <2>1. CASE u = t
    BY <1>1, <2>1 DEF Leads
  <2>2. CASE u # t
    BY <2>2 DEF OthersWait, SpentInv, InBoxCall
  <2> QED BY <2>1, <2>2
<1>4. EndFor(t)' \in {NoList, EndFor(t)} \/ EndFor(t) = NoList
  <2>1. CASE mail'[t] = NoFrame
    BY <1>1, <2>1 DEF EndFor
  <2>2. CASE pc[t] = "run"
    BY <2>2, NotInBox DEF EndFor
  <2>3. CASE /\ pc[t] \notin {"sent", "taken"}
             /\ mail'[t].box = mail[t].box /\ mail'[t].end = mail[t].end
    BY <2>3 DEF EndFor
  <2> QED BY <2>1, <2>2, <2>3 DEF Leads
<1>5. ASSUME pc[t] \in Copying PROVE EndFor(t) = mail[t].end /\ EndFor(t)' = NoList
  <2>1. mail[t].box # NoList
    BY <1>5 DEF MailInv, Suits, Copying, Mailing, MailboxAssumption
  <2> QED BY <1>5, <2>1 DEF EndFor, Copying
<1> QED BY <1>2, <1>3, <1>4, <1>5 DEF Sided

\* A step of t that writes its frame and its place, and no other one's.
LEMMA OnlyWaits ==
  ASSUME ObjInv, BoxInv, NEW t \in Thread, NEW at, pc' = [pc EXCEPT ![t] = at],
         NEW g, MailIs(t, g),
         pendOn' = pendOn \/ \E s : pendOn' = [pendOn EXCEPT ![t] = s]
  PROVE  OthersWait(t) /\ pc'[t] = at /\ mail'[t] = g
BY DEF OthersWait, MailIs, ObjInv, BoxInv

LEMMA BoxStepSided ==
  ASSUME KernelAssumption, MailboxAssumption, SemaphoresAssumption, ObjInv, BoxInv, SpentInv, MailInv,
         NEW t \in Thread, BoxStep(t)
  PROVE  SpentInv' /\ Sided(t)
<1> DEFINE Goal == OthersWait(t) /\ Leads(t) /\ (pc[t] \in Copying => pc'[t] \in {"sent", "taken"})
<1>0. mail = [mail EXCEPT ![t] = mail[t]] /\ pendOn \in [Thread -> BlockList \cup {NoList}]
  BY DEF BoxInv, ObjInv
<1>1. ASSUME NEW f, NEW again, TrySend(t, f, again),
             pc[t] = "run" \/ (pc[t] = "retry" /\ f = mail[t])
      PROVE  Goal
  <2>1. pendOn' = pendOn
    BY <1>1 DEF TrySend, semVars
  <2>2. CASE /\ pc' = [pc EXCEPT ![t] = "copyIn"]
             /\ mail' = [mail EXCEPT ![t] = [f EXCEPT !.slot = ClaimedSlot(ring[f.box], f.end)]]
    <3>1. PICK g : g = [f EXCEPT !.slot = ClaimedSlot(ring[f.box], f.end)]
      OBVIOUS
    <3>2. MailIs(t, g)
      BY <2>2, <3>1 DEF MailIs
    <3>3. OthersWait(t) /\ pc'[t] = "copyIn" /\ mail'[t] = g
      BY <2>1, <2>2, <3>2, OnlyWaits
    <3>4. f = mail[t] => g.box = mail[t].box /\ g.end = mail[t].end
      BY <3>1 DEF BoxInv, Mail
    <3> QED BY <1>1, <3>3, <3>4 DEF Leads, InBoxCall, Mailing, Copying
  <2>3. CASE pc' = [pc EXCEPT ![t] = "full"] /\ MailIs(t, f)
    <3>1. OthersWait(t) /\ pc'[t] = "full" /\ mail'[t] = f
      BY <2>1, <2>3, OnlyWaits
    <3> QED BY <1>1, <3>1 DEF Leads, InBoxCall, Mailing, Copying
  <2>4. CASE pc' = [pc EXCEPT ![t] = "run"] /\ MailIs(t, NoFrame)
    <3>1. OthersWait(t) /\ mail'[t] = NoFrame
      BY <2>1, <2>4, OnlyWaits
    <3> QED BY <1>1, <3>1 DEF Leads, Copying
  <2> QED BY <1>1, <2>2, <2>3, <2>4 DEF TrySend, MailIs
<1>2. ASSUME NEW b \in Box, NEW g, MailIs(t, g), pc[t] = "run", NEW n,
             Pend(t, RecvSem[b], "take") \/ TimedPend(t, RecvSem[b], n, "take")
      PROVE  Goal
  <2>1. PICK at : /\ pc' = [pc EXCEPT ![t] = at]
                  /\ \/ at = "take" /\ pendOn' = pendOn
                     \/ pendOn' = [pendOn EXCEPT ![t] = RecvSem[b]]
    BY <1>2 DEF Pend, TimedPend, Take, Wait
  <2>2. OthersWait(t) /\ pc'[t] = at
    BY <1>2, <2>1, OnlyWaits
  <2>3. InBoxCall(t)'
    BY <1>0, <2>1, <2>2 DEF InBoxCall, Mailing
  <2> QED BY <1>2, <2>2, <2>3 DEF Leads, Copying
<1>3. ASSUME SendWaits(t) PROVE Goal
  <2>1. /\ MailIs(t, mail[t]) /\ pc[t] = "full" /\ mail[t].box \in Box
        /\ TimedPend(t, SendSem[mail[t].box], mail[t].ticks, "retry")
    BY <1>0, <1>3 DEF SendWaits, boxVars, MailIs, MailInv, Suits, Mailing
  <2>2. PICK at : /\ pc' = [pc EXCEPT ![t] = at]
                  /\ \/ at = "retry" /\ pendOn' = pendOn
                     \/ pendOn' = [pendOn EXCEPT ![t] = SendSem[mail[t].box]]
    BY <2>1 DEF TimedPend, Take, Wait
  <2>3. OthersWait(t) /\ pc'[t] = at /\ mail'[t] = mail[t]
    <3>1. PICK g : g = mail[t]
      OBVIOUS
    <3>2. MailIs(t, g)
      BY <2>1, <3>1
    <3>3. OthersWait(t) /\ pc'[t] = at /\ mail'[t] = g
      BY <2>2, <3>2, OnlyWaits
    <3> QED BY <3>1, <3>3
  <2>4. InBoxCall(t)'
    BY <1>0, <2>1, <2>2, <2>3 DEF InBoxCall, Mailing
  <2> QED BY <2>1, <2>3, <2>4 DEF Leads, Copying
<1>4. ASSUME NEW at, PendEnds(t, at), NEW g, MailIs(t, g),
             g = NoFrame \/ (g = mail[t] /\ at \in Mailing)
      PROVE  Goal
  <2>1. pc[t] \in {"pend", "timed"} /\ pc' = [pc EXCEPT ![t] = at] /\ pendOn' = [pendOn EXCEPT ![t] = NoList]
    BY <1>4 DEF PendEnds
  <2>2. OthersWait(t) /\ pc'[t] = at /\ mail'[t] = g
    BY <1>4, <2>1, OnlyWaits
  <2> QED BY <1>4, <2>1, <2>2 DEF Leads, Copying, InBoxCall
<1>5. ASSUME SendWakes(t) PROVE Goal
  <2>1. MailIs(t, mail[t]) /\ PendEnds(t, "retry") /\ "retry" \in Mailing
    BY <1>0, <1>5 DEF SendWakes, boxVars, MailIs, Mailing
  <2> QED BY <1>4, <2>1
<1>6. ASSUME ReceiveWakes(t) PROVE Goal
  <2>1. CASE TimedOut(t)
    <3>1. MailIs(t, NoFrame) /\ PendEnds(t, "run")
      BY <1>6, <2>1 DEF ReceiveWakes, MailIs
    <3> QED BY <1>4, <3>1
  <2>2. CASE ~TimedOut(t)
    <3>1. MailIs(t, mail[t]) /\ PendEnds(t, "take") /\ "take" \in Mailing
      BY <1>0, <1>6, <2>2 DEF ReceiveWakes, MailIs, Mailing
    <3> QED BY <1>4, <3>1
  <2> QED BY <2>1, <2>2
<1>7. ASSUME SendCopies(t) PROVE Goal
  <2>1. MailIs(t, mail[t]) /\ pc[t] = "copyIn" /\ pc' = [pc EXCEPT ![t] = "sent"] /\ pendOn' = pendOn
    BY <1>0, <1>7 DEF SendCopies, semVars, MailIs
  <2>2. OthersWait(t) /\ pc'[t] = "sent" /\ mail'[t] = mail[t]
    <3>1. PICK g : g = mail[t]
      OBVIOUS
    <3>2. MailIs(t, g)
      BY <2>1, <3>1
    <3>3. OthersWait(t) /\ pc'[t] = "sent" /\ mail'[t] = g
      BY <2>1, <3>2, OnlyWaits
    <3> QED BY <3>1, <3>3
  <2> QED BY <2>1, <2>2 DEF Leads, InBoxCall, Mailing
<1>8. ASSUME ReceiveTakes(t) PROVE Goal
  <2>1. PICK f, x, y : f = mail[t] /\ x = ReleasedSlot(ring[f.box], f.end) /\ y = k.enabled
    OBVIOUS
  <2>2. PICK g : g = WithSched(f, x, y)
    OBVIOUS
  <2>3. MailIs(t, g)
    BY <1>8, <2>1, <2>2 DEF ReceiveTakes, MailIs, WithSched, BoxInv
  <2>4. pc[t] = "take" /\ pc' = [pc EXCEPT ![t] = "copyOut"] /\ pendOn' = pendOn
    BY <1>8 DEF ReceiveTakes, semVars
  <2>5. OthersWait(t) /\ pc'[t] = "copyOut" /\ mail'[t] = g
    BY <2>3, <2>4, OnlyWaits
  <2>6. g.box = f.box /\ g.end = f.end
    BY <2>1, <2>2 DEF WithSched, BoxInv, Mail
  <2> QED BY <2>1, <2>4, <2>5, <2>6 DEF Leads, InBoxCall, Mailing, Copying
<1>9. ASSUME ReceiveCopies(t) PROVE Goal
  <2>1. PICK f, l : f = mail[t] /\ l = ring[f.box].slots[f.slot]
    OBVIOUS
  <2>2. PICK g : g = [f EXCEPT !.letter = l]
    OBVIOUS
  <2>3. MailIs(t, g)
    BY <1>9, <2>1, <2>2 DEF ReceiveCopies, MailIs, BoxInv
  <2>4. pc[t] = "copyOut" /\ pc' = [pc EXCEPT ![t] = "taken"] /\ pendOn' = pendOn
    BY <1>9 DEF ReceiveCopies, semVars
  <2>5. OthersWait(t) /\ pc'[t] = "taken" /\ mail'[t] = g
    BY <2>3, <2>4, OnlyWaits
  <2>6. g.box = f.box /\ g.end = f.end
    BY <2>1, <2>2 DEF BoxInv, Mail
  <2> QED BY <2>1, <2>4, <2>5, <2>6 DEF Leads, InBoxCall, Mailing
<1>10. ASSUME NEW s, PostBy(t, s), MailIs(t, NoFrame), pc[t] \notin Copying PROVE Goal
  <2>1. pendOn' = pendOn /\ \E at : pc' = [pc EXCEPT ![t] = at]
    BY <1>10 DEF PostBy
  <2>2. PICK at : pc' = [pc EXCEPT ![t] = at]
    BY <2>1
  <2>3. OthersWait(t) /\ mail'[t] = NoFrame
    BY <1>10, <2>1, <2>2, OnlyWaits
  <2> QED BY <1>10, <2>3 DEF Leads
<1> HIDE DEF Goal
<1>11. ASSUME NEW b \in Box, NEW end \in Ends, NEW n,
              \/ CallSend(t, b, end) \/ CallReceive(t, b, end)
              \/ CallTimedSend(t, b, end, n) \/ CallTimedReceive(t, b, end, n)
       PROVE  Goal
  <2>1. pc[t] = "run"
    BY <1>11 DEF CallSend, CallReceive, CallTimedSend, CallTimedReceive, Calling
  <2>2. CASE CallSend(t, b, end) \/ CallTimedSend(t, b, end, n)
    BY <1>1, <2>1, <2>2 DEF CallSend, CallTimedSend
  <2>3. CASE CallReceive(t, b, end)
    <3>1. MailIs(t, Frame(b, end, 0)) /\ Pend(t, RecvSem[b], "take")
      BY <2>3 DEF CallReceive, MailIs
    <3> QED BY <1>2, <2>1, <3>1
  <2>4. CASE CallTimedReceive(t, b, end, n)
    <3>1. MailIs(t, Frame(b, end, n)) /\ TimedPend(t, RecvSem[b], n, "take")
      BY <2>4 DEF CallTimedReceive, MailIs
    <3> QED BY <1>2, <2>1, <3>1
  <2> QED BY <1>11, <2>2, <2>3, <2>4
<1>12. ASSUME SendRetries(t) PROVE Goal
  <2>1. TrySend(t, mail[t], TRUE) /\ pc[t] = "retry"
    BY <1>12 DEF SendRetries
  <2> QED BY <1>1, <2>1
<1>13. ASSUME SendPosts(t) \/ ReceivePosts(t) PROVE Goal
  <2>1. /\ MailIs(t, NoFrame) /\ pc[t] \in {"sent", "taken"} /\ \E s : PostBy(t, s)
    BY <1>13 DEF SendPosts, ReceivePosts, MailIs
  <2>2. pc[t] \notin Copying
    BY <2>1 DEF Copying
  <2> QED BY <1>10, <2>1, <2>2
<1>14. Goal
  BY <1>3, <1>5, <1>6, <1>7, <1>8, <1>9, <1>11, <1>12, <1>13 DEF BoxStep
<1> QED BY <1>14, LeadsSided DEF Goal

\* A step that is not about mailboxes.
Elsewise ==
  /\ UNCHANGED boxVars /\ Minding(BoxSems) /\ Aside(Mailing)
  /\ ~k.enabled /\ pc[k.current] \in Copying => SameCpu(k', k)

\* It leaves every letter where it is, and a timeout may make the bearers fewer.
LEMMA PassingBears ==
  ASSUME KernelAssumption, SemaphoresAssumption, SleepAssumption, MailboxAssumption,
         ObjectsAssumption, ObjInv, ObjInv', BoxInv, Elsewise, NEW u \in Thread
  PROVE  /\ CopyStands(u)' /\ Collects(u)' /\ (pc'[u] # "taken" => mail[u].letter = NoList)
         /\ \A b \in Box : pendOn'[u] = RecvSem[b] => pendOn[u] = RecvSem[b] /\ pc'[u] = pc[u]
         /\ {"Stop", "Exit"} \cap Calls = {} =>
              \A b \in Box :
                /\ Bears(u, b)' => Bears(u, b)
                /\ (pendOn[u] = RecvSem[b] => pc[u] \notin InTimedWait) /\ Bears(u, b) => Bears(u, b)'
<1>1. mail' = mail /\ ring' = ring
  BY DEF Elsewise, boxVars
<1>2. CopyStands(u) /\ Collects(u) /\ (pc[u] # "taken" => mail[u].letter = NoList)
  BY DEF BoxInv
<1>3. pc[u] \in Mailing \/ pc'[u] \in Mailing => pc'[u] = pc[u]
  BY DEF Elsewise, Aside
<1>4. CopyStands(u)'
  <2>1. CASE pc'[u] \in Copying
    <3>1. pc'[u] = pc[u] /\ u = k.current /\ ~k.enabled
      BY <1>2, <1>3, <2>1 DEF CopyStands, Copying, Mailing
    <3>2. k'.current = k.current /\ ~k'.enabled
      BY <2>1, <3>1 DEF Elsewise, SameCpu
    <3> QED BY <1>1, <1>2, <3>1, <3>2 DEF CopyStands
  <2>2. CASE pc'[u] \notin Copying
    BY <2>2, NoCopyStands
  <2> QED BY <2>1, <2>2
<1>5. pc'[u] # "taken" => mail[u].letter = NoList
  BY <1>2, <1>3 DEF Mailing
<1>6. ASSUME NEW b \in Box, pendOn[u] = RecvSem[b] \/ pendOn'[u] = RecvSem[b]
      PROVE  /\ pc'[u] = pc[u] /\ pendOn'[u] = pendOn[u] /\ Passing(u)
             /\ pc[u] \in {"pend", "timed"}
  <2>1. Passing(u)
    BY <1>6, OwnBoxSems DEF Elsewise, Minding
  <2>2. pc'[u] = pc[u] /\ pendOn'[u] = pendOn[u]
    BY <2>1 DEF Passing
  <2> QED BY <1>2, <1>6, <2>1, <2>2 DEF Collects
<1>7. Collects(u)'
  <2> SUFFICES ASSUME NEW b \in Box, pendOn'[u] = RecvSem[b]
               PROVE  pc'[u] \in {"pend", "timed"} /\ (k'.state[u] = "BLOCKED" => ~TimedOut(u)')
    BY DEF Collects
  <2>1. Passing(u) /\ (k.state[u] = "BLOCKED" => ~TimedOut(u)) /\ pc'[u] \in {"pend", "timed"}
    BY <1>2, <1>6 DEF Collects
  <2> QED BY <2>1 DEF Passing, Departs, TimedOut
<1>8. ASSUME {"Stop", "Exit"} \cap Calls = {}, NEW b \in Box
      PROVE  /\ Bears(u, b)' => Bears(u, b)
             /\ (pendOn[u] = RecvSem[b] => pc[u] \notin InTimedWait) /\ Bears(u, b) => Bears(u, b)'
  <2>1. CASE pendOn[u] # RecvSem[b] /\ pendOn'[u] # RecvSem[b]
    BY <1>1, <1>3, <2>1 DEF Bears, Mailing
  <2>2. CASE pendOn[u] = RecvSem[b] \/ pendOn'[u] = RecvSem[b]
    <3>1. /\ pc'[u] = pc[u] /\ pendOn'[u] = pendOn[u] /\ Passing(u) /\ pc[u] \in {"pend", "timed"}
      BY <1>6, <2>2
    <3>2. CASE expired'[u] = expired[u] /\ Departs(k', k, u)
      <4>1. k'.state[u] # "BLOCKED" <=> k.state[u] # "BLOCKED"
        BY <1>8, <3>2 DEF Departs
      <4> QED BY <1>1, <3>1, <3>2, <4>1 DEF Bears, TimedOut
    <3>3. CASE expired'[u] /\ pc[u] \in InTimedWait
      <4>1. pc[u] = "timed" /\ pc'[u] = "timed"
        BY <3>1, <3>3 DEF InTimedWait
      <4> QED BY <1>1, <2>2, <3>1, <3>3, <4>1 DEF Bears, TimedOut
    <3> QED BY <3>1, <3>2, <3>3 DEF Passing
  <2> QED BY <2>1, <2>2
<1> QED BY <1>4, <1>5, <1>6, <1>7, <1>8

LEMMA PassingLetters ==
  ASSUME Elsewise, NEW b
  PROVE  Letters(b)' = Letters(b)
<1>1. mail' = mail /\ ring' = ring
  BY DEF Elsewise, boxVars
<1>2. \A u \in Thread : pc[u] \in Copying \/ pc'[u] \in Copying => pc'[u] = pc[u]
  BY DEF Elsewise, Aside, Copying, Mailing
<1>3. In(b, "copyIn")' = In(b, "copyIn") /\ In(b, "copyOut")' = In(b, "copyOut")
  BY <1>1, <1>2 DEF In, Copying
<1>4. \A e : (Writes(b, e)' <=> Writes(b, e)) /\ (Reads(b, e)' <=> Reads(b, e))
  BY <1>1, <1>3 DEF Writes, Reads
<1> QED BY <1>1, <1>4 DEF Letters, Between

LEMMA PassingStamps ==
  ASSUME KernelAssumption, SemaphoresAssumption, MailboxAssumption, ObjInv, ObjInv',
         NEW b \in Box, value'[RecvSem[b]] = value[RecvSem[b]],
         \A u \in Thread : Bears(u, b)' => Bears(u, b)
  PROVE  /\ Stamps(b)' <= Stamps(b) /\ Stamps(b) \in Nat /\ Stamps(b)' \in Nat
         /\ (\A u \in Thread : Bears(u, b) => Bears(u, b)') => Stamps(b)' = Stamps(b)
<1>1. value[RecvSem[b]] \in Nat
  BY DEF ObjInv, MailboxAssumption
<1>2. Bearers(b)' \subseteq Bearers(b)
  BY DEF Bearers
<1>3. Cardinality(Bearers(b)') <= Cardinality(Bearers(b))
  BY <1>2, BearersFinite, FS_Subset
<1>4. ASSUME \A u \in Thread : Bears(u, b) => Bears(u, b)' PROVE Bearers(b)' = Bearers(b)
  BY <1>2, <1>4 DEF Bearers
<1> QED BY <1>1, <1>3, <1>4, BearersFinite DEF Stamps

\* How many letters a box has.
LEMMA LettersMany ==
  ASSUME MailboxAssumption, BoxInv, NEW b \in Box
  PROVE  Len(Letters(b)) \in Nat /\ Letters(b) \in Seq(Thread \cup {NoList})
<1>1. PICK r : r = ring[b]
  OBVIOUS
<1>2. Fits(r)
  BY <1>1 DEF BoxInv
<1>3. \E at, end : /\ Letters(b) = Seen(r, at, end) /\ Leaves(r, at) /\ end \in {"tail", "head"}
  <2>1. CASE \E t \in Thread : pc[t] \in Copying /\ mail[t].box = b
    <3>1. PICK t \in Thread : pc[t] \in Copying /\ mail[t].box = b
      BY <2>1
    <3>2. CopyStands(t) /\ mail[t] \in Mail
      BY DEF BoxInv
    <3>3. OnlyCopier(t)
      <4>1. ASSUME NEW u \in Thread, pc[u] \in Copying PROVE u = k.current
        <5>1. CopyStands(u)
          BY DEF BoxInv
        <5> QED BY <4>1, <5>1 DEF CopyStands, Copying
      <4> QED BY <3>1, <4>1 DEF OnlyCopier
    <3>4. Letters(b) = Seen(r, pc[t], mail[t].end)
      BY <1>1, <3>1, <3>3, LettersAre DEF SeenBy
    <3>5. Leaves(r, pc[t]) /\ mail[t].end \in {"tail", "head"}
      BY <1>1, <3>1, <3>2 DEF CopyStands, Leaves, Mail
    <3> QED BY <3>4, <3>5
  <2>2. CASE \A t \in Thread : pc[t] \in Copying => mail[t].box # b
    <3>1. \A e : ~Writes(b, e) /\ ~Reads(b, e)
      BY <2>2 DEF Writes, Reads, In, Copying
    <3>2. Letters(b) = Seen(r, "run", "tail")
      BY <1>1, <3>1 DEF Letters, Seen
    <3>3. Leaves(r, "run")
      BY DEF Leaves
    <3> QED BY <3>2, <3>3
  <2> QED BY <2>1, <2>2
<1>4. Letters(b) \in Seq(Thread \cup {NoList})
  <2>1. PICK at, end : Letters(b) = Seen(r, at, end) /\ Leaves(r, at) /\ end \in {"tail", "head"}
    BY <1>3
  <2> QED BY <1>2, <2>1, SeenIs
<1> QED BY <1>4

\* What a step leaves of the invariants of mailboxes.
BoxesKept ==
  /\ BoxInv' /\ SpentInv'
  /\ {"Stop", "Exit"} \cap Calls = {} => StampInv'
  /\ {"Stop", "Exit", "TimedReceive"} \cap Calls = {} /\ LetterInv => LetterInv'

LEMMA WorkedMany ==
  ASSUME MailboxAssumption, BoxInv, NEW t \in Thread, NEW b \in Box, Worked(t, b), NEW c \in Box
  PROVE  Len(Letters(c)) \in Nat /\ Len(Letters(c))' \in Nat
<1>1. PICK s : s = Letters(c)
  OBVIOUS
<1>2. PICK u : u = Letters(c)'
  OBVIOUS
<1>3. s \in Seq(Thread \cup {NoList}) /\ Len(s) \in Nat
  BY <1>1, LettersMany
<1>4. u = s \/ u = Append(s, t) \/ u = <<t>> \o s \/ (s # <<>> /\ u = Tail(s))
      \/ (s # <<>> /\ u = SubSeq(s, 1, Len(s) - 1))
  <2>1. c # b => u = s
    BY <1>1, <1>2 DEF Worked
  <2>2. c = b => Lets(t, c) \/ Puts(t, c) \/ Gets(t, c)
    BY DEF Worked
  <2> QED BY <1>1, <1>2, <2>1, <2>2 DEF Lets, Puts, Gets, PutOn, InFront, TakenOff
<1>5. Len(u) \in Nat
  BY <1>3, <1>4
<1> QED BY <1>1, <1>2, <1>3, <1>5

LEMMA BoxStepKeepsBoxes ==
  ASSUME KernelAssumption, MailboxAssumption, SemaphoresAssumption, SleepAssumption,
         ObjectsAssumption, ObjInv, ObjInv', FrameInv, BoxInv, SpentInv, StampInv,
         NEW t \in Thread, BoxStep(t)
  PROVE  BoxesKept
<1>1. PICK b \in Box : Worked(t, b)
  BY BoxStepWorks
<1>2. ASSUME NEW c \in Box
      PROVE  /\ Stamps(c)' <= Len(Letters(c))'
             /\ Len(Letters(c)) <= Stamps(c) => Len(Letters(c))' <= Stamps(c)'
  <2>1. PICK n1, s1 : n1 = Len(Letters(c)) /\ s1 = Stamps(c)
    OBVIOUS
  <2>2. PICK n2, s2 : n2 = Len(Letters(c))' /\ s2 = Stamps(c)'
    OBVIOUS
  <2>3. n1 \in Nat /\ n2 \in Nat /\ s1 \in Nat
    BY <1>1, <2>1, <2>2, WorkedMany, StampsAre
  <2>4. s2 \in Nat
    <3>1. value'[RecvSem[c]] \in Nat
      BY DEF ObjInv, MailboxAssumption
    <3> QED BY <2>2, <3>1, BearersFinite DEF Stamps
  <2>5. n2 - s2 = n1 - s1 /\ s1 <= n1
    BY <1>1, <2>1, <2>2 DEF Worked, LettersEven, StampInv
  <2>6. s2 <= n2 /\ (n1 <= s1 => n2 <= s2)
    BY <2>3, <2>4, <2>5
  <2> QED BY <2>1, <2>2, <2>6
<1>3. BoxInv' /\ StampInv'
  BY <1>1, <1>2 DEF Worked, StampInv
<1>4. ASSUME "TimedReceive" \notin Calls, LetterInv PROVE LetterInv'
  <2>1. \A c \in Box : Len(Letters(c))' <= Stamps(c)'
    BY <1>2, <1>4 DEF LetterInv
  <2>2. ASSUME NEW u \in Thread, NEW c \in Box, pendOn'[u] = RecvSem[c] PROVE pc'[u] \notin InTimedWait
    <3>1. pc'[u] \in {"pend", "timed"}
      BY <1>3, <2>2 DEF BoxInv, Collects
    <3>2. pc'[u] # "timed"
      BY <1>4, <2>2, NoTimedReceive DEF LetterInv, InTimedWait
    <3> QED BY <3>1, <3>2 DEF InTimedWait
  <2> QED BY <2>1, <2>2 DEF LetterInv
<1>5. SpentInv'
  <2>1. MailInv
    BY DEF FrameInv
  <2> QED BY <2>1, BoxStepSided
<1> QED BY <1>3, <1>4, <1>5 DEF BoxesKept

LEMMA OthersKeepBoxes ==
  ASSUME KernelAssumption, SemaphoresAssumption, SleepAssumption, MailboxAssumption,
         ObjectsAssumption, ObjInv, ObjInv', BoxInv, SpentInv, StampInv, Elsewise,
         \A b \in Box : value'[RecvSem[b]] = value[RecvSem[b]]
  PROVE  /\ BoxesKept /\ (\A b \in Box : Letters(b)' = Letters(b)) /\ mail' = mail
         /\ \A t \in Thread : EndFor(t)' = EndFor(t)
<1>1. mail' = mail /\ ring' = ring
  BY DEF Elsewise, boxVars
<1>2. \A b \in Box : Letters(b)' = Letters(b)
  BY PassingLetters
<1>3. BoxInv'
  <2>1. \A u \in Thread : CopyStands(u)' /\ Collects(u)'
    BY PassingBears
  <2>2. \A u \in Thread : pc'[u] # "taken" => mail'[u].letter = NoList
    BY <1>1, PassingBears
  <2> QED BY <1>1, <2>1, <2>2 DEF BoxInv
<1>4. ASSUME {"Stop", "Exit"} \cap Calls = {}, NEW b \in Box
      PROVE  /\ Stamps(b)' <= Stamps(b) /\ Stamps(b) \in Nat /\ Stamps(b)' \in Nat
             /\ (\A u \in Thread : pendOn[u] = RecvSem[b] => pc[u] \notin InTimedWait)
                  => Stamps(b)' = Stamps(b)
  <2>1. \A u \in Thread : Bears(u, b)' => Bears(u, b)
    BY <1>4, PassingBears
  <2>2. ASSUME \A u \in Thread : pendOn[u] = RecvSem[b] => pc[u] \notin InTimedWait
        PROVE  \A u \in Thread : Bears(u, b) => Bears(u, b)'
    BY <1>4, <2>2, PassingBears
  <2> QED BY <2>1, <2>2, PassingStamps
<1>5. ASSUME {"Stop", "Exit"} \cap Calls = {} PROVE StampInv'
  <2> SUFFICES ASSUME NEW b \in Box PROVE Stamps(b)' <= Len(Letters(b))'
    BY DEF StampInv
  <2>1. /\ Stamps(b) <= Len(Letters(b)) /\ Stamps(b)' <= Stamps(b)
        /\ Stamps(b) \in Nat /\ Stamps(b)' \in Nat /\ Len(Letters(b)) \in Nat
    BY <1>4, <1>5, LettersMany DEF StampInv
  <2>2. Len(Letters(b))' = Len(Letters(b))
    BY <1>2
  <2> QED BY <2>1, <2>2
<1>6. ASSUME {"Stop", "Exit", "TimedReceive"} \cap Calls = {}, LetterInv PROVE LetterInv'
  <2>1. ASSUME NEW b \in Box PROVE Len(Letters(b))' <= Stamps(b)'
    <3>1. Len(Letters(b)) <= Stamps(b) /\ Stamps(b)' = Stamps(b)
      BY <1>4, <1>6 DEF LetterInv
    <3>2. Len(Letters(b))' = Len(Letters(b))
      BY <1>2
    <3> QED BY <3>1, <3>2
  <2>2. ASSUME NEW u \in Thread, NEW b \in Box, pendOn'[u] = RecvSem[b] PROVE pc'[u] \notin InTimedWait
    <3>1. pendOn[u] = RecvSem[b] /\ pc'[u] = pc[u]
      BY <2>2, PassingBears
    <3> QED BY <1>6, <3>1 DEF LetterInv
  <2> QED BY <2>1, <2>2 DEF LetterInv
<1>7. \A t \in Thread : EndFor(t)' = EndFor(t)
  BY <1>1 DEF Elsewise, Aside, Mailing, EndFor
<1>8. SpentInv'
  <2>1. ASSUME NEW t \in Thread, InBoxCall(t) PROVE InBoxCall(t)'
    <3>1. CASE pc[t] \in Mailing
      BY <3>1 DEF Elsewise, Aside, InBoxCall
    <3>2. CASE \E b \in Box : pendOn[t] \in {RecvSem[b], SendSem[b]}
      <4>1. PICK b \in Box : pendOn[t] \in {RecvSem[b], SendSem[b]}
        BY <3>2
      <4>2. pendOn[t] \in BoxSems
        BY <4>1, OwnBoxSems
      <4>3. pendOn'[t] = pendOn[t]
        BY <4>2 DEF Elsewise, Minding, Passing
      <4> QED BY <4>1, <4>3 DEF InBoxCall
    <3> QED BY <2>1, <3>1, <3>2 DEF InBoxCall
  <2> QED BY <1>1, <2>1 DEF SpentInv
<1> QED BY <1>1, <1>2, <1>3, <1>5, <1>6, <1>7, <1>8 DEF BoxesKept

\* A step of one box, or of none.
BoxEffect ==
  \/ \E t \in Thread, b \in Box : Worked(t, b) /\ Sided(t)
  \/ /\ \A b \in Box : Letters(b)' = Letters(b)
     /\ mail' = mail /\ \A t \in Thread : EndFor(t)' = EndFor(t)

LEMMA EveryStepKeepsBoxes ==
  ASSUME KernelAssumption, SemaphoresAssumption, SleepAssumption, NotifyAssumption,
         EventFlagAssumption, MutexAssumption, MailboxAssumption, MessageAssumption,
         ObjectsAssumption, "Init" \notin Calls, ObjInv, FrameInv, BoxInv, SpentInv, StampInv, ObjectsNext
  PROVE  BoxesKept /\ BoxEffect
<1>1. ObjInv' /\ BoxSide
  BY EveryStep DEF Steps, Sides
<1>2. ASSUME NEW t \in Thread, BoxStep(t) PROVE BoxesKept /\ BoxEffect
  <2>1. BoxesKept
    BY <1>1, <1>2, BoxStepKeepsBoxes
  <2>2. \E b \in Box : Worked(t, b)
    BY <1>1, <1>2, BoxStepWorks
  <2>3. Sided(t)
    <3>1. MailInv
      BY DEF FrameInv
    <3> QED BY <1>2, <3>1, BoxStepSided
  <2> QED BY <2>1, <2>2, <2>3 DEF BoxEffect
<1>3. ASSUME UNCHANGED boxVars, Minding(BoxSems), Aside(Mailing), \A t \in Thread : ~BoxStep(t)
      PROVE  BoxesKept /\ BoxEffect
  <2>1. \E S : Counting(S) /\ S \cap BoxSems = {}
    <3>1. CASE \E t \in Thread : MessageStep(t)
      <4>1. value \in [Sem -> Nat]
        BY DEF ObjInv
      <4>2. Counting(QueueSems)
        BY <3>1, <4>1, MessageCounts
      <4>3. QueueSems \cap BoxSems = {}
        BY Kinds
      <4> QED BY <4>2, <4>3
    <3>2. CASE Counting(Shared \cup Naps)
      <4>1. (Shared \cup Naps) \cap BoxSems = {}
        BY Kinds
      <4> QED BY <3>2, <4>1
    <3> QED BY <1>3, <3>1, <3>2, EveryStepCounts
  <2>2. \A b \in Box : value'[RecvSem[b]] = value[RecvSem[b]]
    BY <2>1, OwnBoxSems DEF Counting
  <2>3. ~k.enabled /\ pc[k.current] \in Copying => SameCpu(k', k)
    <3>1. k.current \in Thread
      BY DEF ObjInv, Good, KernelState
    <3> QED BY <1>3, <3>1, CopierStays
  <2>4. Elsewise
    BY <1>3, <2>3 DEF Elsewise
  <2> QED BY <1>1, <2>2, <2>4, OthersKeepBoxes DEF BoxEffect
<1> QED BY <1>1, <1>2, <1>3 DEF BoxSide

-----------------------------------------------------------------------------
(* Mailboxes: what holds in every reachable state *)

LEMMA BoxesStart ==
  ASSUME KernelAssumption, SemaphoresAssumption, SleepAssumption, MailboxAssumption,
         ObjectsAssumption, ObjectsInit
  PROVE  /\ BoxInv /\ SpentInv /\ StampInv /\ LetterInv
         /\ \A b \in Box : Letters(b) = <<>>
<1>1. /\ BoxInit /\ pc = [t \in Thread |-> "run"] /\ pendOn = [t \in Thread |-> NoList]
      /\ value = [s \in Sem |-> IF s \in Shared THEN InitValue ELSE 0]
  BY DEF ObjectsInit, SleepInit, SemInit, Init
<1>2. PICK r : r = [head |-> 0, tail |-> 0, free |-> Capacity, slots |-> [i \in Slot |-> NoList]]
  OBVIOUS
<1>3. /\ r.head = 0 /\ r.tail = 0 /\ r.free = Capacity /\ r \in Ring
      /\ Capacity \in Nat \ {0} /\ 0 \in Slot
  BY <1>2, SlotsAre DEF Ring
<1>4. Fits(r)
  <2>1. r.head = Spot(r.tail, Capacity - r.free)
    BY <1>3 DEF Spot
  <2> QED BY <1>3, <2>1, RingFits
<1>5. ring = [b \in Box |-> r] /\ mail = [t \in Thread |-> NoFrame]
  BY <1>1, <1>2 DEF BoxInit
<1>6. ASSUME NEW t \in Thread
      PROVE  /\ pc[t] = "run" /\ mail[t] \in Mail /\ mail[t].letter = NoList
             /\ \A b \in Box : pendOn[t] # RecvSem[b] /\ ~Bears(t, b)
  <2>1. mail[t] \in Mail /\ mail[t].letter = NoList /\ pc[t] = "run" /\ pendOn[t] = NoList
    BY <1>1, <1>5, NoFrameIs
  <2>2. \A b \in Box : RecvSem[b] # NoList
    BY OwnBoxSems, KernelAssumption DEF SemaphoresAssumption, KernelAssumption
  <2> QED BY <2>1, <2>2 DEF Bears
<1>7. BoxInv
  <2>1. \A t \in Thread : CopyStands(t) /\ Collects(t)
    BY <1>6 DEF CopyStands, Collects
  <2> QED BY <1>3, <1>4, <1>5, <1>6, <2>1 DEF BoxInv
<1>8. ASSUME NEW b \in Box PROVE Letters(b) = <<>> /\ Len(Letters(b)) = 0
  <2>1. \A e : ~Writes(b, e) /\ ~Reads(b, e)
    BY <1>6 DEF Writes, Reads, In
  <2>2. PICK n : n = Capacity - r.free
    OBVIOUS
  <2>3. n = 0 /\ ring[b] = r
    BY <1>3, <1>5, <2>2
  <2>4. Letters(b) = Between(r, 1, n)
    BY <2>1, <2>2, <2>3 DEF Letters
  <2>5. PICK s : s = Between(r, 1, n)
    OBVIOUS
  <2>6. n \in Int /\ n <= Capacity /\ n >= 0
    BY <1>3, <2>3
  <2>7. s \in Seq(Thread \cup {NoList}) /\ Len(s) = n
    BY <1>4, <2>5, <2>6, FromOne
  <2> QED BY <2>3, <2>4, <2>5, <2>7
<1>9. ASSUME NEW b \in Box PROVE Stamps(b) = 0
  <2>1. value[RecvSem[b]] = 0
    BY <1>1 DEF MailboxAssumption
  <2>2. Bearers(b) = {}
    BY <1>6 DEF Bearers
  <2> QED BY <2>1, <2>2, FS_EmptySet DEF Stamps
<1>10. StampInv /\ LetterInv
  BY <1>6, <1>8, <1>9 DEF StampInv, LetterInv
<1>11. SpentInv
  <2>1. \A t \in Thread : mail[t].box = NoList
    BY <1>5 DEF NoFrame, Frame
  <2> QED BY <2>1 DEF SpentInv
<1> QED BY <1>7, <1>8, <1>10, <1>11

LEMMA BoxesStutter ==
  ASSUME BoxInv, SpentInv, StampInv, UNCHANGED all
  PROVE  BoxInv' /\ SpentInv' /\ StampInv' /\ (LetterInv => LetterInv') /\ BoxEffect
<1>1. /\ k' = k /\ pc' = pc /\ pendOn' = pendOn /\ value' = value /\ expired' = expired
      /\ ring' = ring /\ mail' = mail
  BY DEF all, everyVar, allVars, semVars, objectVars, boxVars
<1>2. \A u \in Thread : CopyStands(u)' /\ Collects(u)'
  BY <1>1 DEF BoxInv, CopyStands, Collects, TimedOut
<1>3. BoxInv'
  BY <1>1, <1>2 DEF BoxInv
<1>4. ASSUME NEW b PROVE Letters(b)' = Letters(b) /\ Stamps(b)' = Stamps(b)
  <2>1. Bearers(b)' = Bearers(b)
    BY <1>1 DEF Bearers, Bears, TimedOut
  <2>2. \A e : (Writes(b, e)' <=> Writes(b, e)) /\ (Reads(b, e)' <=> Reads(b, e))
    BY <1>1 DEF Writes, Reads, In
  <2> QED BY <1>1, <2>1, <2>2 DEF Stamps, Letters, Between
<1>5. StampInv' /\ (LetterInv => LetterInv')
  BY <1>1, <1>4 DEF StampInv, LetterInv
<1>6. SpentInv' /\ \A t \in Thread : EndFor(t)' = EndFor(t)
  BY <1>1 DEF SpentInv, InBoxCall, EndFor
<1> QED BY <1>1, <1>3, <1>4, <1>5, <1>6 DEF BoxEffect

\* Where a thread has a token, it bears a letter.
LEMMA ComingBears ==
  ASSUME KernelAssumption, SemaphoresAssumption, SleepAssumption, MailboxAssumption,
         ObjectsAssumption, ObjInv, BoxInv, NEW b \in Box
  PROVE  /\ Coming(b) <= Cardinality(Bearers(b))
         /\ Cardinality(Bearers(b)) <= Coming(b) + Cardinality(In(b, "sent"))
         /\ Coming(b) \in Nat /\ Cardinality(In(b, "sent")) \in Nat
<1> DEFINE A == In(b, "take") \cup In(b, "copyOut")
           G == {t \in Thread : pendOn[t] = RecvSem[b] /\ Phase(t) = "granted"}
           S == In(b, "sent")
<1>1. IsFiniteSet(A) /\ IsFiniteSet(G) /\ IsFiniteSet(S) /\ IsFiniteSet(A \cup G)
  <2>1. IsFiniteSet(Thread) /\ A \subseteq Thread /\ G \subseteq Thread /\ S \subseteq Thread
        /\ A \cup G \subseteq Thread
    BY DEF KernelAssumption, In
  <2> HIDE DEF A, G, S
  <2> QED BY <2>1, FS_Subset
<1>2. ASSUME NEW t \in Thread, pendOn[t] = RecvSem[b]
      PROVE  /\ Phase(t) = "granted" <=> k.state[t] # "BLOCKED" /\ ~TimedOut(t)
             /\ pc[t] \in {"pend", "timed"}
  <2>1. Placed(t) /\ Collects(t) /\ Good(k)
    BY DEF ObjInv, BoxInv
  <2>2. pc[t] \in {"pend", "timed"} /\ pendOn[t] \in BlockList
    BY <1>2, <2>1, OwnBoxSems DEF Collects, SemaphoresAssumption
  <2>3. t \in ToSet(k.list[pendOn[t]]) <=> k.state[t] = "BLOCKED" /\ k.where[t] = pendOn[t]
    BY <2>1, <2>2, BlockedLists
  <2>4. t \in ToSet(k.list[pendOn[t]]) <=> k.state[t] = "BLOCKED"
    BY <2>1, <2>3 DEF Placed
  <2> QED BY <1>2, <2>1, <2>2, <2>4 DEF Phase, TimedOut, Collects
<1>3. A \cap G = {} /\ Bearers(b) = A \cup G \cup S
  <2>1. A \cap G = {}
    BY <1>2 DEF In
  <2>2. ASSUME NEW t \in Thread PROVE Bears(t, b) <=> t \in A \cup G \cup S
    BY <1>2 DEF Bears, In
  <2> QED BY <2>1, <2>2 DEF Bearers, In
<1>4. Coming(b) = Cardinality(A) + Cardinality(G)
  BY DEF Coming
<1> HIDE DEF A, G, S
<1>5. Cardinality(A) + Cardinality(G) = Cardinality(A \cup G)
  <2>1. Cardinality(A \cup G) = Cardinality(A) + Cardinality(G) - Cardinality(A \cap G)
    BY <1>1, FS_Union
  <2>2. Cardinality(A) \in Nat /\ Cardinality(G) \in Nat /\ Cardinality(A \cap G) = 0
    BY <1>1, <1>3, FS_EmptySet, FS_CardinalityType
  <2> QED BY <2>1, <2>2
<1>6. Cardinality(A \cup G) <= Cardinality(Bearers(b))
  <2>1. IsFiniteSet(Bearers(b)) /\ A \cup G \subseteq Bearers(b)
    BY <1>3, BearersFinite
  <2> QED BY <2>1, FS_Subset
<1>7. Cardinality(Bearers(b)) <= Cardinality(A \cup G) + Cardinality(S)
  <2> DEFINE B == A \cup G
  <2>1. IsFiniteSet(B) /\ IsFiniteSet(S) /\ Bearers(b) = B \cup S
    BY <1>1, <1>3
  <2> HIDE DEF B
  <2>2. Cardinality(B \cup S) = Cardinality(B) + Cardinality(S) - Cardinality(B \cap S)
    BY <2>1, FS_Union
  <2>3. Cardinality(B) \in Nat /\ Cardinality(S) \in Nat
    BY <2>1, FS_CardinalityType
  <2>4. Cardinality(B \cap S) \in Nat
    <3>1. B \cap S \subseteq B
      OBVIOUS
    <3> QED BY <2>1, <3>1, FS_Subset, FS_CardinalityType
  <2>5. Cardinality(Bearers(b)) <= Cardinality(B) + Cardinality(S)
    BY <2>1, <2>2, <2>3, <2>4
  <2> QED BY <2>5 DEF B
<1>8. Cardinality(A \cup G) \in Nat /\ Cardinality(S) \in Nat
  BY <1>1, FS_CardinalityType
<1> QED BY <1>4, <1>5, <1>6, <1>7, <1>8 DEF S

\* Every semaphore token of a box, and every Receive that has one, stands for a
\* letter in it.
LEMMA StampsSuffice ==
  ASSUME KernelAssumption, SemaphoresAssumption, SleepAssumption, MailboxAssumption,
         ObjectsAssumption, ObjInv, BoxInv
  PROVE  /\ StampInv => LetterForToken
         /\ LetterInv => NoLetterForgotten
<1>1. ASSUME NEW b \in Box
      PROVE  /\ Stamps(b) <= Len(Letters(b)) => value[RecvSem[b]] + Coming(b) <= Len(Letters(b))
             /\ Len(Letters(b)) <= Stamps(b)
                  => Len(Letters(b)) <= value[RecvSem[b]] + Coming(b) + Cardinality(In(b, "sent"))
  <2>1. PICK v, c, n, l, s :
          v = value[RecvSem[b]] /\ c = Coming(b) /\ n = Cardinality(Bearers(b))
          /\ l = Len(Letters(b)) /\ s = Cardinality(In(b, "sent"))
    OBVIOUS
  <2>2. v \in Nat /\ c \in Nat /\ n \in Nat /\ l \in Nat /\ s \in Nat
    BY <2>1, StampsAre, ComingBears, BearersFinite, LettersMany
  <2>3. c <= n /\ n <= c + s /\ Stamps(b) = v + n
    BY <2>1, ComingBears DEF Stamps
  <2>4. (v + n <= l => v + c <= l) /\ (l <= v + n => l <= v + c + s)
    BY <2>2, <2>3
  <2> QED BY <2>1, <2>3, <2>4
<1>2. StampInv => LetterForToken
  BY <1>1 DEF StampInv, LetterForToken
<1>3. LetterInv => NoLetterForgotten
  BY <1>1 DEF LetterInv, NoLetterForgotten
<1> QED BY <1>2, <1>3

\* The ring of every box fits its free count, a slot is copied to or from by the
\* thread that has the CPU and the disabled scheduler, and a token of a box, in its
\* semaphore or with a thread that bears it, stands for a letter: for threads that
\* are neither stopped nor exit inside a Send or a Receive.
THEOREM BoxInvariance ==
  ASSUME {"Init", "Stop", "Exit"} \cap Calls = {}
  PROVE  ObjectsSpec => [](BoxInv /\ SpentInv /\ StampInv)
<1> USE KernelAssumption, SemaphoresAssumption, SleepAssumption, NotifyAssumption,
        EventFlagAssumption, MutexAssumption, MailboxAssumption, MessageAssumption,
        ObjectsAssumption
<1>1. ObjectsInit => BoxInv /\ SpentInv /\ StampInv
  BY BoxesStart
<1>2. ObjInv /\ FrameInv /\ BoxInv /\ SpentInv /\ StampInv /\ [ObjectsNext]_all
        => BoxInv' /\ SpentInv' /\ StampInv'
  BY EveryStepKeepsBoxes, BoxesStutter DEF BoxesKept
<1>3. ObjectsSpec => [](ObjInv /\ FrameInv)
  BY ObjectsInvariance
<1> QED BY <1>1, <1>2, <1>3, PTL DEF ObjectsSpec

\* Receive moves the head or the tail over a letter that is there, whichever
\* senders, receivers and timeouts come between its Pend and that step: the tokens
\* of a box and the receivers that have one are no more than its letters.
THEOREM LetterThere ==
  ASSUME {"Init", "Stop", "Exit"} \cap Calls = {}
  PROVE  ObjectsSpec => []LetterForToken
<1> USE KernelAssumption, SemaphoresAssumption, SleepAssumption, MailboxAssumption,
        ObjectsAssumption
<1>1. ObjInv /\ BoxInv /\ StampInv => LetterForToken
  BY StampsSuffice
<1>2. ObjectsSpec => [](ObjInv /\ FrameInv)
  BY ObjectsInvariance
<1> QED BY <1>1, <1>2, BoxInvariance, PTL

\* While no Receive has a timeout, no letter is left in a box without a token, a
\* receiver that has one or a sender that is about to post one.
THEOREM LettersRemembered ==
  ASSUME {"Init", "Stop", "Exit", "TimedReceive"} \cap Calls = {}
  PROVE  ObjectsSpec => []NoLetterForgotten
<1> USE KernelAssumption, SemaphoresAssumption, SleepAssumption, NotifyAssumption,
        EventFlagAssumption, MutexAssumption, MailboxAssumption, MessageAssumption,
        ObjectsAssumption
<1>1. ObjectsInit => LetterInv
  BY BoxesStart
<1>2. ObjInv /\ FrameInv /\ BoxInv /\ SpentInv /\ StampInv /\ LetterInv /\ [ObjectsNext]_all
        => LetterInv'
  BY EveryStepKeepsBoxes, BoxesStutter DEF BoxesKept
<1>3. ObjInv /\ BoxInv /\ LetterInv => NoLetterForgotten
  BY StampsSuffice
<1>4. ObjectsSpec => [](ObjInv /\ FrameInv /\ BoxInv /\ SpentInv /\ StampInv)
  <2>1. "Init" \notin Calls /\ {"Init", "Stop", "Exit"} \cap Calls = {}
    OBVIOUS
  <2> QED BY <2>1, ObjectsInvariance, BoxInvariance, PTL
<1> QED BY <1>1, <1>2, <1>3, <1>4, PTL DEF ObjectsSpec

-----------------------------------------------------------------------------
(* Mailboxes: a sequence of letters *)

\* What a step inside a call does to letters is a step of the sequence.
LEMMA WorkedDeque ==
  ASSUME BoxInv, NEW t \in Thread, NEW b \in Box, Worked(t, b), Sided(t)
  PROVE  [Deque!Next]_(Deque!vars)
<1> DEFINE L == [c \in Box |-> Letters(c)]
           G == [u \in Thread |-> mail[u].letter]
           E == [u \in Thread |-> EndFor(u)]
<1>1. PICK l, m, g, h : l = L /\ m = L' /\ g = G /\ h = G'
  OBVIOUS
<1>2. PICK x, y : x = E /\ y = E'
  OBVIOUS
<1>3. /\ \A c \in Box : l[c] = Letters(c) /\ m[c] = Letters(c)'
      /\ \A u \in Thread : g[u] = mail[u].letter /\ h[u] = mail'[u].letter
      /\ \A u \in Thread : x[u] = EndFor(u) /\ y[u] = EndFor(u)'
  BY <1>1, <1>2
<1>4. /\ DOMAIN l = Box /\ DOMAIN m = Box /\ DOMAIN g = Thread /\ DOMAIN h = Thread
      /\ DOMAIN x = Thread /\ DOMAIN y = Thread
      /\ l = [c \in Box |-> l[c]] /\ m = [c \in Box |-> m[c]]
      /\ g = [u \in Thread |-> g[u]] /\ h = [u \in Thread |-> h[u]]
      /\ x = [u \in Thread |-> x[u]] /\ y = [u \in Thread |-> y[u]]
  BY <1>1, <1>2
<1>5. /\ \A c \in Box \ {b} : m[c] = l[c]
      /\ \A u \in Thread \ {t} : h[u] = g[u] /\ y[u] = x[u]
  BY <1>3 DEF Worked, Sided
<1>6. CASE Lets(t, b)
  <2>1. m = l
    BY <1>3, <1>4, <1>5, <1>6 DEF Lets
  <2>2. h[t] = NoList
    BY <1>3, <1>6 DEF Lets
  <2>3. h = [g EXCEPT ![t] = NoList]
    BY <1>4, <1>5, <2>2
  <2>4. CASE y[t] = NoList
    <3>1. y = [x EXCEPT ![t] = NoList]
      BY <1>4, <1>5, <2>4
    <3>2. Deque!Finish(t)
      BY <1>1, <1>2, <2>1, <2>3, <3>1 DEF Deque!Finish
    <3> QED BY <3>2 DEF Deque!Next
  <2>5. CASE y[t] # NoList /\ x[t] = NoList
    <3>1. y[t] \in {"head", "tail"}
      <4>1. mail'[t] \in Mail
        BY DEF Worked, BoxInv
      <4> QED BY <1>3, <2>5, <4>1 DEF EndFor, Mail
    <3>2. PICK end \in {"head", "tail"} : end = y[t]
      BY <3>1
    <3>3. y = [x EXCEPT ![t] = end]
      BY <1>4, <1>5, <3>2
    <3>4. Deque!Ask(t, end)
      BY <1>1, <1>2, <2>1, <2>3, <2>5, <3>3 DEF Deque!Ask
    <3> QED BY <3>2, <3>4 DEF Deque!Next
  <2>6. CASE y[t] = x[t] /\ x[t] # NoList
    <3>1. y = x
      BY <1>4, <1>5, <2>6
    <3>2. pc[t] # "taken"
      BY <1>3, <2>6 DEF EndFor
    <3>3. g[t] = NoList
      BY <1>3, <3>2 DEF BoxInv
    <3>4. h = g
      BY <1>4, <1>5, <2>2, <3>3
    <3> QED BY <1>1, <1>2, <2>1, <3>1, <3>4 DEF Deque!vars
  <2> QED BY <1>3, <2>4, <2>5, <2>6 DEF Sided
<1>7. CASE Puts(t, b)
  <2>1. h = g /\ Len(l[b]) < Capacity
    BY <1>3, <1>4, <1>5, <1>7 DEF Puts
  <2>2. x[t] = mail[t].end /\ y[t] = NoList
    BY <1>3, <1>7 DEF Puts, Sided, Copying
  <2>3. y = [x EXCEPT ![t] = NoList]
    BY <1>4, <1>5, <2>2
  <2>4. \/ x[t] = "head" /\ m = [l EXCEPT ![b] = Append(l[b], t)]
        \/ x[t] = "tail" /\ m = [l EXCEPT ![b] = <<t>> \o l[b]]
    <3>1. (x[t] = "head" /\ m[b] = Append(l[b], t)) \/ (x[t] = "tail" /\ m[b] = <<t>> \o l[b])
      BY <1>3, <1>7, <2>2 DEF Puts, PutOn, InFront
    <3> QED BY <1>4, <1>5, <3>1
  <2>5. Deque!Put(t, b)
    BY <1>1, <1>2, <2>1, <2>3, <2>4 DEF Deque!Put
  <2> QED BY <2>5 DEF Deque!Next
<1>8. CASE Gets(t, b)
  <2>1. l[b] # <<>> /\ g[t] = NoList /\ TakenOff(mail[t].end, h[t], m[b], l[b])
    BY <1>3, <1>8 DEF Gets
  <2>2. x[t] = mail[t].end /\ y[t] = NoList
    BY <1>3, <1>8 DEF Gets, Sided, Copying
  <2>3. y = [x EXCEPT ![t] = NoList]
    BY <1>4, <1>5, <2>2
  <2>4. CASE x[t] = "head" /\ h[t] = l[b][Len(l[b])] /\ m[b] = SubSeq(l[b], 1, Len(l[b]) - 1)
    <3>1. /\ h = [g EXCEPT ![t] = l[b][Len(l[b])]]
          /\ m = [l EXCEPT ![b] = SubSeq(l[b], 1, Len(l[b]) - 1)]
      BY <1>4, <1>5, <2>4
    <3>2. Deque!Take(t, b)
      BY <1>1, <1>2, <2>1, <2>3, <2>4, <3>1 DEF Deque!Take
    <3> QED BY <3>2 DEF Deque!Next
  <2>5. CASE x[t] = "tail" /\ h[t] = Head(l[b]) /\ m[b] = Tail(l[b])
    <3>1. h = [g EXCEPT ![t] = Head(l[b])] /\ m = [l EXCEPT ![b] = Tail(l[b])]
      BY <1>4, <1>5, <2>5
    <3>2. Deque!Take(t, b)
      BY <1>1, <1>2, <2>1, <2>3, <2>5, <3>1 DEF Deque!Take
    <3> QED BY <3>2 DEF Deque!Next
  <2> QED BY <2>1, <2>2, <2>4, <2>5 DEF TakenOff
<1> QED BY <1>6, <1>7, <1>8 DEF Worked

\* Every mailbox does what its interface promises, among all the other objects and
\* with or without timeouts, for threads that are neither stopped nor exit inside
\* a Send or a Receive: it is a bounded sequence of letters, put in and taken out
\* at either end, and a Receive is given the letter that was taken out.
THEOREM LettersKept ==
  ASSUME {"Init", "Stop", "Exit"} \cap Calls = {}
  PROVE  ObjectsSpec => KeepsLetters
<1> USE KernelAssumption, SemaphoresAssumption, SleepAssumption, NotifyAssumption,
        EventFlagAssumption, MutexAssumption, MailboxAssumption, MessageAssumption,
        ObjectsAssumption
<1> DEFINE I == ObjInv /\ FrameInv /\ BoxInv /\ SpentInv /\ StampInv
<1>1. ObjectsInit => Deque!Init
  <2> SUFFICES ASSUME ObjectsInit PROVE Deque!Init
    OBVIOUS
  <2>1. \A b \in Box : Letters(b) = <<>>
    BY BoxesStart
  <2>2. \A t \in Thread : mail[t].letter = NoList /\ EndFor(t) = NoList
    BY NoFrameIs DEF ObjectsInit, BoxInit, EndFor, NoFrame, Frame
  <2> QED BY <2>1, <2>2 DEF Deque!Init
<1>2. I /\ [ObjectsNext]_all => [Deque!Next]_(Deque!vars)
  <2> SUFFICES ASSUME I, [ObjectsNext]_all PROVE [Deque!Next]_(Deque!vars)
    OBVIOUS
  <2>1. BoxEffect
    BY EveryStepKeepsBoxes, BoxesStutter
  <2>2. ASSUME NEW t \in Thread, NEW b \in Box, Worked(t, b), Sided(t)
        PROVE  [Deque!Next]_(Deque!vars)
    BY <2>2, WorkedDeque
  <2>3. ASSUME \A b \in Box : Letters(b)' = Letters(b), mail' = mail,
               \A t \in Thread : EndFor(t)' = EndFor(t)
        PROVE  UNCHANGED Deque!vars
    BY <2>3 DEF Deque!vars
  <2> QED BY <2>1, <2>2, <2>3 DEF BoxEffect
<1>3. ObjectsSpec => []I
  <2>1. "Init" \notin Calls /\ {"Init", "Stop", "Exit"} \cap Calls = {}
    OBVIOUS
  <2> QED BY <2>1, ObjectsInvariance, BoxInvariance, PTL
<1> QED BY <1>1, <1>2, <1>3, PTL DEF ObjectsSpec, Deque!Spec, KeepsLetters
=============================================================================
