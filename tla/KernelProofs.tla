------------------------------ MODULE KernelProofs ------------------------------
(***************************************************************************)
(* Proofs about the scheduler, and about semaphores on top of it, for any  *)
(* number of threads, priorities and semaphores, any quantum and timeouts. *)
(***************************************************************************)
EXTENDS KernelInvariant, Semaphore, FiniteSetTheorems, ThreadListProofs, WellFoundedInduction

\* Nothing that decides who may run has changed from s to d.
SameThreads(d, s) ==
  /\ d.state = s.state /\ d.where = s.where /\ d.prio = s.prio /\ d.curPrio = s.curPrio
  /\ d.current = s.current /\ d.enabled = s.enabled

\* ... nor anything but ready lists and the priority map.
SameButLists(d, s) ==
  /\ SameThreads(d, s)
  /\ d.owner = s.owner
  /\ d.next = s.next /\ d.queued = s.queued /\ d.pendsv = s.pendsv
  /\ d.timers = s.timers /\ d.qActive = s.qActive

-----------------------------------------------------------------------------
\* A non-empty set of priorities has a greatest one: the CLZ of
\* PriorityMap::HighestPriority finds a level.
LEMMA MaxExists ==
  ASSUME NEW N \in Nat, NEW M, M \subseteq 0 .. N - 1, M # {}
  PROVE  \E p \in M : \A q \in M : q <= p
<1> DEFINE R == OpToRel(<, Nat)
           T == {N - p : p \in M}
<1>1. IsWellFoundedOn(R, Nat)
  BY NatLessThanWellFounded
<1>2. T \subseteq Nat /\ T # {}
  OBVIOUS
<1>3. PICK x \in T : \A y \in T : ~(<<y, x>> \in R)
  <2> HIDE DEF R, T
  <2> QED BY <1>1, <1>2, WFMin
<1>4. \A x1, y1 \in Nat : y1 < x1 => <<y1, x1>> \in R
  BY DEF OpToRel
<1> HIDE DEF R
<1>5. \A y \in T : x <= y
  <2> TAKE y \in T
  <2> HIDE DEF T
  <2>1. x \in Nat /\ y \in Nat
    BY <1>2
  <2>2. ~(y < x)
    BY <2>1, <1>3, <1>4, Zenon
  <2> QED BY <2>1, <2>2
<1>6. PICK p \in M : x = N - p
  OBVIOUS
<1>7. ASSUME NEW q \in M PROVE q <= p
  BY <1>5, <1>6
<1> QED BY <1>7

\* LinkList::GetHead is null exactly when nothing is on the list.
LEMMA EmptyList == ASSUME NEW S, NEW s \in Seq(S) PROVE s = <<>> <=> ToSet(s) = {}
  BY DEF ToSet

\* Scheduler::Add and ThreadList::Add keep the kernel's data well typed.
LEMMA LinkType ==
  ASSUME NEW s \in KernelState, NEW t \in Thread, NEW l \in ListId,
         ListAdd(s.list[l], t) \in Seq(Thread)
  PROVE  LinkThread(s, l, t) \in KernelState
BY DEF LinkThread, KernelState

\* Scheduler::Remove and ThreadList::Remove keep the kernel's data well typed.
LEMMA UnlinkType ==
  ASSUME NEW s \in KernelState, NEW t \in Thread, NEW l \in ListId,
         ListRemove(s.list[l], t) \in Seq(Thread)
  PROVE  UnlinkThread(s, l, t) \in KernelState
BY DEF UnlinkThread, KernelState

\* ThreadList::Add of a thread that is on no list.
LEMMA LinkFacts ==
  ASSUME NEW s \in KernelState, NEW loc, ListsAt(s, loc), MapAt(s),
         NEW t \in Thread, NEW l \in ListId, loc[t] \notin ListId,
         DOMAIN loc = Thread,
         NEW d, d = LinkThread(s, l, t)
  PROVE  /\ d \in KernelState
         /\ ListsAt(d, [loc EXCEPT ![t] = l])
         /\ MapAt(d)
         /\ SameButLists(d, s)
<1> DEFINE new == ListAdd(s.list[l], t)
<1>1. s.list[l] \in Seq(Thread) /\ s.list \in [ListId -> Seq(Thread)]
  BY DEF KernelState
<1>2. IsInjective(s.list[l]) /\ t \notin ToSet(s.list[l])
  BY DEF ListsAt
<1>3. /\ new \in Seq(Thread) /\ new # <<>>
      /\ ToSet(new) = ToSet(s.list[l]) \cup {t}
      /\ IsInjective(new)
  BY <1>1, <1>2, ListAddFacts
<1>4. /\ d.list = [s.list EXCEPT ![l] = new]
      /\ d.map = IF l \in Prio THEN s.map \cup {l} ELSE s.map
  BY DEF LinkThread, KernelState
<1>5. SameButLists(d, s)
  BY DEF LinkThread, KernelState, SameButLists, SameThreads
<1>6. d \in KernelState
  BY <1>3, LinkType
<1> HIDE DEF new
<1>7. ListsAt(d, [loc EXCEPT ![t] = l])
  BY <1>1, <1>3, <1>4 DEF ListsAt
<1>8. MapAt(d)
  BY <1>1, <1>3, <1>4 DEF MapAt, ListId
<1> QED BY <1>5, <1>6, <1>7, <1>8

\* ThreadList::Remove of a thread from the list it is on.
LEMMA UnlinkFacts ==
  ASSUME NEW s \in KernelState, NEW loc, ListsAt(s, loc), MapAt(s),
         NEW t \in Thread, NEW l \in ListId, loc[t] = l, NoList \notin ListId,
         DOMAIN loc = Thread,
         NEW d, d = UnlinkThread(s, l, t)
  PROVE  /\ d \in KernelState
         /\ ListsAt(d, [loc EXCEPT ![t] = NoList])
         /\ MapAt(d)
         /\ SameButLists(d, s)
<1> DEFINE rest == ListRemove(s.list[l], t)
<1>1. s.list[l] \in Seq(Thread) /\ s.list \in [ListId -> Seq(Thread)]
  BY DEF KernelState
<1>2. IsInjective(s.list[l]) /\ t \in ToSet(s.list[l])
  BY DEF ListsAt
<1>3. /\ rest \in Seq(Thread)
      /\ ToSet(rest) = ToSet(s.list[l]) \ {t}
      /\ IsInjective(rest)
  BY <1>1, <1>2, ListRemoveFacts
<1>4. /\ d.list = [s.list EXCEPT ![l] = rest]
      /\ d.map = IF l \in Prio /\ rest = <<>> THEN s.map \ {l} ELSE s.map
  BY DEF UnlinkThread, KernelState
<1>5. SameButLists(d, s)
  BY DEF UnlinkThread, KernelState, SameButLists, SameThreads
<1>6. d \in KernelState
  BY <1>3, UnlinkType
<1>7. s.list[l] # <<>>
  BY <1>1, <1>2, EmptyList
<1> HIDE DEF rest
<1>8. ListsAt(d, [loc EXCEPT ![t] = NoList])
  BY <1>1, <1>3, <1>4 DEF ListsAt
<1>9. MapAt(d)
  BY <1>1, <1>3, <1>4, <1>7 DEF MapAt, ListId
<1> QED BY <1>5, <1>6, <1>8, <1>9

-----------------------------------------------------------------------------
(* The quantum timer does not touch the threads. *)

SameButTimers(d, s) ==
  /\ SameThreads(d, s)
  /\ d.list = s.list /\ d.map = s.map
  /\ d.next = s.next /\ d.queued = s.queued /\ d.pendsv = s.pendsv

\* No timer but that of the quantum is linked that was not.
NoNewTimer(d, s) == ToSet(d.timers) \subseteq ToSet(s.timers) \cup {QuantumTimer}

\* Where a thread is follows from its state, priority and current list.
LEMMA SameThreadsSameLoc ==
  ASSUME NEW d, NEW s, d.state = s.state, d.prio = s.prio, d.where = s.where
  PROVE  Loc(d) = Loc(s)
BY DEF Loc

\* A step that touches only the timer list keeps the data good if it keeps
\* the timer list good.
LEMMA GoodButTimers ==
  ASSUME NEW s, Good(s), NEW d \in KernelState, SameButTimers(d, s), TimersAt(d)
  PROVE  Good(d)
<1>1. Loc(d) = Loc(s)
  BY SameThreadsSameLoc DEF SameButTimers, SameThreads
<1>2. ListsAt(d, Loc(d))
  BY <1>1 DEF Good, ListsAt, SameButTimers
<1>3. MapAt(d)
  BY DEF Good, MapAt, SameButTimers
<1> QED BY <1>2, <1>3 DEF Good, SameButTimers, SameThreads

\* TimerList::Remove keeps the kernel's data well typed.
LEMMA TimerRemoveType ==
  ASSUME NEW s \in KernelState, NEW x \in Timer, NEW rest \in Seq(Timer),
         NEW d, d = [s EXCEPT !.timers = rest, !.left[x] = 0, !.callback = @ \ {x}]
  PROVE  d \in KernelState
BY DEF KernelState

\* TimerList::Add appends one timer and touches no thread.
LEMMA TimerAddType ==
  ASSUME NEW s \in KernelState, NEW x \in Timer, NEW n \in Nat,
         NEW d, d = TimerAdd(s, x, n)
  PROVE  d \in KernelState /\ SameButTimers(d, s) /\ d.timers = Append(s.timers, x)
<1>1. Append(s.timers, x) \in Seq(Timer)
  BY DEF KernelState
<1>2. d \in KernelState
  BY <1>1 DEF TimerAdd, KernelState
<1>3. SameButTimers(d, s) /\ d.timers = Append(s.timers, x)
  BY DEF TimerAdd, KernelState, SameButTimers, SameThreads
<1> QED BY <1>2, <1>3

\* Marking the quantum active for a thread touches no thread and no list.
LEMMA QuantumSetType ==
  ASSUME NEW s \in KernelState, NEW t \in Thread,
         NEW d, d = [s EXCEPT !.qActive = TRUE, !.qOwner = t]
  PROVE  d \in KernelState /\ SameButTimers(d, s) /\ d.timers = s.timers /\ d.qActive
<1>1. d \in KernelState
  BY DEF KernelState
<1>2. SameButTimers(d, s) /\ d.timers = s.timers /\ d.qActive
  BY DEF KernelState, SameButTimers, SameThreads
<1> QED BY <1>1, <1>2

\* TimerList::Remove leaves the data good and the timer on no list.
LEMMA TimerRemoveFacts ==
  ASSUME NEW s, Good(s), NEW x \in Timer, NEW d, d = TimerRemove(s, x)
  PROVE  Good(d) /\ SameButTimers(d, s) /\ x \notin ToSet(d.timers)
                 /\ d.qActive = s.qActive /\ ToSet(d.timers) \subseteq ToSet(s.timers)
<1>1. CASE x \notin ToSet(s.timers)
  BY <1>1 DEF TimerRemove, SameButTimers, SameThreads
<1>2. CASE x \in ToSet(s.timers)
  <2> DEFINE rest == ListRemove(s.timers, x)
  <2>1. s \in KernelState /\ s.timers \in Seq(Timer) /\ IsInjective(s.timers)
    BY DEF Good, KernelState, TimersAt
  <2>2. rest \in Seq(Timer) /\ ToSet(rest) = ToSet(s.timers) \ {x} /\ IsInjective(rest)
    BY <1>2, <2>1, ListRemoveFacts
  <2> HIDE DEF rest
  <2>3. d = [s EXCEPT !.timers = rest, !.left[x] = 0, !.callback = @ \ {x}]
    BY <1>2 DEF TimerRemove, rest
  <2>4. d \in KernelState
    BY <2>1, <2>2, <2>3, TimerRemoveType
  <2>5. SameButTimers(d, s) /\ d.timers = rest /\ d.qActive = s.qActive
    BY <2>1, <2>3 DEF KernelState, SameButTimers, SameThreads
  <2>6. TimersAt(d)
    BY <2>2, <2>5 DEF Good, TimersAt
  <2> QED BY <2>2, <2>4, <2>5, <2>6, GoodButTimers
<1> QED BY <1>1, <1>2

\* Quantum::RemoveThread leaves no quantum running, whatever its timer did.
LEMMA QuantumRemoveFacts ==
  ASSUME NEW s, Good(s), NEW d, d = QuantumRemove(s)
  PROVE  Good(d) /\ SameButTimers(d, s) /\ NoNewTimer(d, s) /\ ~d.qActive
<1>1. CASE ~s.qActive
  BY <1>1 DEF QuantumRemove, SameButTimers, SameThreads, NoNewTimer
<1>2. CASE s.qActive
  <2> DEFINE r == TimerRemove(s, QuantumTimer)
  <2>1. QuantumTimer \in Timer
    BY DEF Timer
  <2>2. Good(r) /\ SameButTimers(r, s) /\ QuantumTimer \notin ToSet(r.timers)
        /\ ToSet(r.timers) \subseteq ToSet(s.timers)
    BY <2>1, TimerRemoveFacts
  <2> HIDE DEF r
  <2>3. d = [r EXCEPT !.qActive = FALSE]
    BY <1>2 DEF QuantumRemove, r
  <2>4. r \in KernelState
    BY <2>2 DEF Good
  <2>5. d \in KernelState /\ SameButTimers(d, r) /\ d.timers = r.timers /\ ~d.qActive
    BY <2>3, <2>4 DEF KernelState, SameButTimers, SameThreads
  <2>6. TimersAt(d)
    BY <2>2, <2>5 DEF Good, TimersAt
  <2>7. SameButTimers(d, s)
    BY <2>2, <2>5 DEF SameButTimers, SameThreads
  <2>8. Good(d)
    BY <2>2, <2>5, <2>6, GoodButTimers
  <2> QED BY <2>2, <2>5, <2>7, <2>8 DEF NoNewTimer
<1> QED BY <1>1, <1>2

\* Quantum::AddThread links the quantum timer at most once: it asks m_bActive,
\* and an inactive timer is not linked.
LEMMA QuantumAddFacts ==
  ASSUME KernelAssumption, NEW s, Good(s), NEW t \in Thread, NEW d, d = QuantumAdd(s, t)
  PROVE  Good(d) /\ SameButTimers(d, s) /\ NoNewTimer(d, s)
<1>0. s \in KernelState /\ TimersAt(s)
  BY DEF Good
<1>1. CASE d = s
  BY <1>1 DEF SameButTimers, SameThreads, NoNewTimer
<1>2. CASE ~s.qActive /\ d = [s EXCEPT !.qAdd = TRUE]
  <2>0. d \in KernelState
    BY <1>0, <1>2 DEF KernelState
  <2>1. d \in KernelState /\ SameButTimers(d, s) /\ d.timers = s.timers /\ d.qActive = s.qActive
    BY <1>2, <2>0 DEF SameButTimers, SameThreads
  <2>2. Good(d)
    BY <1>0, <2>1, GoodButTimers DEF TimersAt
  <2> QED BY <2>1, <2>2 DEF NoNewTimer
<1>3. CASE /\ ~s.qActive
           /\ d = [TimerAdd(s, QuantumTimer, QuantumTicks) EXCEPT !.qActive = TRUE, !.qOwner = t]
  <2> DEFINE a == TimerAdd(s, QuantumTimer, QuantumTicks)
  <2>1. s \in KernelState /\ s.timers \in Seq(Timer) /\ QuantumTimer \in Timer
    BY <1>0 DEF KernelState, Timer
  <2>2. QuantumTicks \in Nat
    BY DEF KernelAssumption
  <2>3. a \in KernelState /\ SameButTimers(a, s) /\ a.timers = Append(s.timers, QuantumTimer)
    BY <2>1, <2>2, TimerAddType
  <2>4. IsInjective(a.timers)
    BY <1>0, <1>3, <2>1, <2>3, AppendOnce DEF TimersAt
  <2>5. d = [a EXCEPT !.qActive = TRUE, !.qOwner = t]
    BY <1>3
  <2>8. ToSet(a.timers) = ToSet(s.timers) \cup {QuantumTimer}
    BY <2>1, <2>3, AppendMembers
  <2> HIDE DEF a
  <2>6. d \in KernelState /\ SameButTimers(d, a) /\ d.timers = a.timers /\ d.qActive
    BY <2>3, <2>5, QuantumSetType
  <2>7. SameButTimers(d, s)
    BY <2>3, <2>6 DEF SameButTimers, SameThreads
  <2>9. Good(d)
    BY <2>4, <2>6, <2>7, GoodButTimers DEF TimersAt
  <2> QED BY <2>6, <2>7, <2>8, <2>9 DEF NoNewTimer
<1> QED BY <1>1, <1>2, <1>3 DEF QuantumAdd

-----------------------------------------------------------------------------
(* Who may run. *)

\* Who is at the top does not change while no thread changes.
LEMMA TopKept ==
  ASSUME NEW d, NEW s, SameThreads(d, s), NEW t \in Thread, Top(s, t)
  PROVE  Top(d, t)
BY DEF Top, SameThreads

\* Only READY threads are on ready lists, and every READY thread is.
LEMMA ReadyLists ==
  ASSUME KernelAssumption, NEW s, Good(s), NEW t \in Thread, NEW p \in Prio
  PROVE  t \in ToSet(s.list[p]) <=> s.state[t] = "READY" /\ s.prio[t] = p
<1>1. p \in ListId
  BY DEF ListId
<1>2. t \in ToSet(s.list[p]) <=> Loc(s)[t] = p
  BY <1>1 DEF Good, ListsAt
<1>3. s.state[t] \in {"READY", "BLOCKED", "STOP", "EXIT"}
  BY DEF Good, KernelState
<1>4. s.state[t] = "BLOCKED" => s.where[t] # p
  BY DEF Good, KernelAssumption
<1>5. StopList # p /\ NoList # p
  BY DEF KernelAssumption
<1> QED BY <1>2, <1>3, <1>4, <1>5 DEF Loc

\* Scheduler::Schedule always finds a thread, and it is one that may run.
LEMMA ScheduleFacts ==
  ASSUME KernelAssumption, NEW s, Good(s), NEW d, d = Schedule(s)
  PROVE  /\ Good(d) /\ SameThreads(d, s)
         /\ d.queued = s.queued /\ d.pendsv = s.pendsv /\ d.timers = s.timers
         /\ d.next \in Thread /\ Top(d, d.next)
<1> DEFINE p == HighestPriority(s)
           h == Head(s.list[p])
<1>1. /\ s \in KernelState /\ s.map \subseteq Prio
      /\ s.list \in [ListId -> Seq(Thread)] /\ s.prio \in [Thread -> Prio]
  BY DEF Good, KernelState
<1>2. Idle \in Thread /\ NumPriorities \in Nat /\ Prio \subseteq Int /\ Prio \subseteq ListId
  BY DEF KernelAssumption, Prio, ListId
<1>3. \A t \in Thread : s.state[t] = "READY" => s.prio[t] \in s.map
  <2> SUFFICES ASSUME NEW t \in Thread, s.state[t] = "READY" PROVE s.prio[t] \in s.map
    OBVIOUS
  <2>1. s.prio[t] \in Prio /\ s.list[s.prio[t]] \in Seq(Thread)
    BY <1>1, <1>2
  <2>2. t \in ToSet(s.list[s.prio[t]])
    BY <2>1, ReadyLists
  <2>3. s.list[s.prio[t]] # <<>>
    BY <2>1, <2>2, EmptyList
  <2> QED BY <2>1, <2>3 DEF Good, MapAt
<1>4. p \in s.map /\ \A q \in s.map : q <= p
  <2>1. s.map # {}
    BY <1>2, <1>3 DEF Good
  <2>2. s.map \subseteq 0 .. NumPriorities - 1
    BY <1>1 DEF Prio
  <2>3. \E m \in s.map : \A q \in s.map : q <= m
    BY <1>2, <2>1, <2>2, MaxExists
  <2> QED BY <2>3 DEF HighestPriority
<1> HIDE DEF p
<1>5. p \in Prio /\ s.list[p] \in Seq(Thread) /\ s.list[p] # <<>>
  BY <1>1, <1>2, <1>4 DEF Good, MapAt
<1>6. h \in Thread /\ h \in ToSet(s.list[p])
  <2>1. s.list[p][1] \in Thread /\ 1 \in DOMAIN s.list[p]
    BY <1>5
  <2> QED BY <2>1, <1>5 DEF ToSet
<1>7. s.state[h] = "READY" /\ s.prio[h] = p
  BY <1>5, <1>6, ReadyLists
<1>8. Top(s, h)
  BY <1>3, <1>4, <1>7 DEF Top
<1>9. d = [s EXCEPT !.next = h]
  BY DEF Schedule, p
<1> HIDE DEF h
<1>10. d \in KernelState /\ SameThreads(d, s) /\ d.next = h
  BY <1>1, <1>6, <1>9 DEF KernelState, SameThreads
<1>11. /\ d.queued = s.queued /\ d.pendsv = s.pendsv /\ d.list = s.list /\ d.map = s.map
       /\ d.where = s.where /\ d.timers = s.timers /\ d.qActive = s.qActive
  BY <1>1, <1>9 DEF KernelState
<1>12. Good(d)
  <2>1. Loc(d) = Loc(s)
    BY <1>10, <1>11, SameThreadsSameLoc DEF SameThreads
  <2>2. ListsAt(d, Loc(d)) /\ MapAt(d) /\ TimersAt(d)
    BY <1>11, <2>1 DEF Good, ListsAt, MapAt, TimersAt
  <2> QED BY <1>10, <1>11, <2>2 DEF Good, SameThreads
<1>13. Top(d, d.next)
  BY <1>6, <1>8, <1>10, TopKept
<1> QED BY <1>6, <1>10, <1>11, <1>12, <1>13

\* Pending a switch renews the quantum and keeps g_pclNext.
LEMMA SwitchFacts ==
  ASSUME KernelAssumption, NEW s, Good(s), NEW d, d = SwitchToNext(s)
  PROVE  /\ Good(d) /\ SameThreads(d, s) /\ d.next = s.next
         /\ d.queued = s.queued /\ d.pendsv /\ NoNewTimer(d, s)
<1> DEFINE a == QuantumRemove(s)
           b == QuantumAdd(a, s.next)
<1>1. s.next \in Thread
  BY DEF Good, KernelState
<1>2. Good(a) /\ SameButTimers(a, s) /\ NoNewTimer(a, s)
  BY QuantumRemoveFacts
<1> HIDE DEF a
<1>3. Good(b) /\ SameButTimers(b, a) /\ NoNewTimer(b, a)
  BY <1>1, <1>2, QuantumAddFacts
<1>4. d = [b EXCEPT !.pendsv = TRUE]
  BY DEF SwitchToNext, a
<1> HIDE DEF b
<1>5. b \in KernelState
  BY <1>3 DEF Good
<1>6. d \in KernelState /\ d.pendsv
  BY <1>4, <1>5 DEF KernelState
<1>7. /\ SameThreads(d, b) /\ d.where = b.where /\ d.list = b.list /\ d.map = b.map
      /\ d.next = b.next /\ d.queued = b.queued /\ d.timers = b.timers
      /\ d.qActive = b.qActive
  BY <1>4, <1>5 DEF KernelState, SameThreads
<1>8. Good(d)
  <2>1. Loc(d) = Loc(b)
    BY <1>7, SameThreadsSameLoc DEF SameThreads
  <2>2. ListsAt(d, Loc(d)) /\ MapAt(d) /\ TimersAt(d)
    BY <1>3, <1>7, <2>1 DEF Good, ListsAt, MapAt, TimersAt
  <2> QED BY <1>3, <1>6, <1>7, <2>2 DEF Good, SameThreads
<1>9. NoNewTimer(d, s)
  BY <1>2, <1>3, <1>7 DEF NoNewTimer
<1> QED BY <1>2, <1>3, <1>6, <1>7, <1>8, <1>9 DEF SameButTimers, SameThreads

\* Thread::Yield reschedules, or notes that a reschedule is owed.
LEMMA YieldFacts ==
  ASSUME KernelAssumption, NEW s, Good(s), NEW d, d = Yield(s)
  PROVE  /\ Good(d) /\ SameThreads(d, s) /\ d.next \in Thread /\ NoNewTimer(d, s)
         /\ s.enabled => /\ d.queued = s.queued /\ Top(d, d.next)
                         /\ d.pendsv \/ d.next = d.current
         /\ ~s.enabled => d.queued /\ d.pendsv = s.pendsv
<1>0. s \in KernelState
  BY DEF Good
<1>1. CASE ~s.enabled
  <2>1. d = [s EXCEPT !.queued = TRUE]
    BY <1>1 DEF Yield
  <2>2. d \in KernelState /\ SameThreads(d, s) /\ d.queued /\ d.pendsv = s.pendsv
    BY <1>0, <2>1 DEF KernelState, SameThreads
  <2>3. /\ d.where = s.where /\ d.list = s.list /\ d.map = s.map
        /\ d.timers = s.timers /\ d.qActive = s.qActive
    BY <1>0, <2>1 DEF KernelState
  <2>4. Loc(d) = Loc(s)
    BY <2>2, <2>3, SameThreadsSameLoc DEF SameThreads
  <2>5. Good(d)
    BY <2>2, <2>3, <2>4 DEF Good, ListsAt, MapAt, TimersAt, SameThreads
  <2>6. d.next \in Thread
    BY <2>2 DEF KernelState
  <2> QED BY <1>1, <2>2, <2>3, <2>5, <2>6 DEF NoNewTimer
<1>2. CASE s.enabled
  <2> DEFINE a == Schedule(s)
  <2>1. /\ Good(a) /\ SameThreads(a, s) /\ a.queued = s.queued
        /\ a.next \in Thread /\ Top(a, a.next) /\ a.timers = s.timers
    BY ScheduleFacts
  <2>2. d = IF a.next = a.current THEN a ELSE SwitchToNext(a)
    BY <1>2 DEF Yield
  <2> HIDE DEF a
  <2>3. CASE a.next = a.current
    BY <1>2, <2>1, <2>2, <2>3 DEF NoNewTimer
  <2>4. CASE a.next # a.current
    <3>1. d = SwitchToNext(a)
      BY <2>2, <2>4
    <3>2. Good(d) /\ SameThreads(d, a) /\ d.next = a.next /\ d.queued = a.queued /\ d.pendsv
          /\ NoNewTimer(d, a)
      BY <2>1, <3>1, SwitchFacts
    <3>3. Top(d, d.next)
      BY <2>1, <3>2, TopKept
    <3> QED BY <1>2, <2>1, <3>2, <3>3 DEF SameThreads, NoNewTimer
  <2> QED BY <2>3, <2>4
<1>3. s.enabled \in BOOLEAN
  BY <1>0 DEF KernelState
<1> QED BY <1>1, <1>2, <1>3

-----------------------------------------------------------------------------
(* The calls.  What a call does to the threads: *)

\* Everything the scheduling decision depends on but thread u is as it was.
OnlyThread(d, s, u) ==
  /\ \A t \in Thread \ {u} : /\ d.state[t] = s.state[t] /\ d.prio[t] = s.prio[t]
                             /\ d.where[t] = s.where[t]
  /\ d.current = s.current /\ d.enabled = s.enabled
  /\ d.queued = s.queued /\ d.pendsv = s.pendsv

\* When u is not ready afterwards, or is no match for t, t keeps its claim.
LEMMA TopUnlessRaised ==
  ASSUME NEW d, NEW s, NEW u \in Thread, OnlyThread(d, s, u),
         NEW t \in Thread, Top(s, t), t # u,
         d.state[u] = "READY" => d.prio[u] <= d.prio[t]
  PROVE  Top(d, t)
BY DEF Top, OnlyThread

\* The stop list is a list of its own, and a null pointer is no list.
LEMMA ListIds ==
  ASSUME KernelAssumption
  PROVE  /\ NoList \notin ListId /\ StopList \in ListId /\ StopList \notin Prio
         /\ Prio \subseteq ListId /\ BlockList \subseteq ListId
         /\ Prio \subseteq Int /\ 0 \in Prio
BY DEF KernelAssumption, ListId, Prio

\* A thread taken off its list: Loc of that thread becomes NoList.
LEMMA DetachFacts ==
  ASSUME KernelAssumption, NEW s, Good(s), NEW u \in Thread,
         s.state[u] \in {"READY", "BLOCKED"}, NEW d, d = Detach(s, u)
  PROVE  /\ d \in KernelState /\ ListsAt(d, [Loc(s) EXCEPT ![u] = NoList])
         /\ MapAt(d) /\ SameButLists(d, s)
<1>1. /\ s \in KernelState /\ ListsAt(s, Loc(s)) /\ MapAt(s) /\ NoList \notin ListId
      /\ DOMAIN Loc(s) = Thread
  BY ListIds DEF Good, Loc
<1>2. CASE s.state[u] = "READY"
  <2>1. Loc(s)[u] = s.prio[u]
    BY <1>2 DEF Loc
  <2>2. s.prio[u] \in ListId
    BY <1>1, ListIds DEF KernelState
  <2>3. d = UnlinkThread(s, s.prio[u], u)
    BY <1>2 DEF Detach, SchedulerRemove
  <2> QED BY <1>1, <2>1, <2>2, <2>3, UnlinkFacts
<1>3. CASE s.state[u] = "BLOCKED"
  <2>1. Loc(s)[u] = s.where[u]
    BY <1>3 DEF Loc
  <2>2. s.where[u] \in ListId
    BY <1>3, ListIds DEF Good
  <2>3. d = UnlinkThread(s, s.where[u], u)
    BY <1>3 DEF Detach
  <2> QED BY <1>1, <2>1, <2>2, <2>3, UnlinkFacts
<1> QED BY <1>2, <1>3

\* Two functions that differ at one point at most.
LEMMA ExceptOne ==
  ASSUME NEW S, NEW f, NEW g, f = [x \in S |-> f[x]], g = [x \in S |-> g[x]],
         NEW u \in S, \A x \in S : x # u => f[x] = g[x]
  PROVE  f = [g EXCEPT ![u] = f[u]]
OBVIOUS

\* Thread u moved to another list, its fields to match: the kernel's data is
\* consistent again.
LEMMA Rehomed ==
  ASSUME NEW s, Good(s), NEW u \in Thread, NEW c, c \in KernelState, OnlyThread(c, s, u),
         ListsAt(c, [Loc(s) EXCEPT ![u] = Loc(c)[u]]), MapAt(c), TimersAt(c),
         u = Idle => c.state[u] = "READY", Idle \in Thread,
         c.state[u] = "BLOCKED" => c.where[u] \in BlockList
  PROVE  Good(c)
<1>1. ASSUME NEW t \in Thread, t # u PROVE Loc(c)[t] = Loc(s)[t]
  BY <1>1 DEF OnlyThread, Loc
<1>2. Loc(c) = [Loc(s) EXCEPT ![u] = Loc(c)[u]]
  <2>1. DOMAIN Loc(c) = Thread /\ Loc(c) = [t \in Thread |-> Loc(c)[t]]
    BY DEF Loc
  <2>2. DOMAIN Loc(s) = Thread /\ Loc(s) = [t \in Thread |-> Loc(s)[t]]
    BY DEF Loc
  <2> QED BY <1>1, <2>1, <2>2, ExceptOne
<1>3. ListsAt(c, Loc(c))
  BY <1>2
<1>4. c.state[Idle] = "READY"
  BY DEF Good, OnlyThread
<1>5. \A t \in Thread : c.state[t] = "BLOCKED" => c.where[t] \in BlockList
  BY DEF Good, OnlyThread
<1> QED BY <1>3, <1>4, <1>5 DEF Good

\* Thread::Stop moves a READY or BLOCKED thread to the stop list and leaves
\* every other thread where it was.
LEMMA StopFacts ==
  ASSUME KernelAssumption, NEW s, Good(s), NEW u \in Thread, u # Idle,
         s.state[u] \in {"READY", "BLOCKED"}, NEW d, d = Stop(s, u)
  PROVE  /\ Good(d) /\ OnlyThread(d, s, u) /\ d.state[u] = "STOP" /\ NoNewTimer(d, s)
         /\ SleepTimer(u) \notin ToSet(d.timers)
         /\ Uninherited(s) => Uninherited(d)
<1> DEFINE a == Detach(s, u)
           b == LinkThread(a, StopList, u)
           c == [b EXCEPT !.owner[u] = StopList, !.where[u] = StopList, !.state[u] = "STOP"]
           aloc == [Loc(s) EXCEPT ![u] = NoList]
           bloc == [aloc EXCEPT ![u] = StopList]
<1>0. s \in KernelState /\ DOMAIN Loc(s) = Thread
  BY DEF Good, Loc
<1>1. a \in KernelState /\ ListsAt(a, aloc) /\ MapAt(a) /\ SameButLists(a, s)
  BY DetachFacts
<1>2. DOMAIN aloc = Thread /\ aloc[u] = NoList
  BY <1>0
<1>3. bloc = [Loc(s) EXCEPT ![u] = StopList]
  BY <1>0
<1> HIDE DEF a, aloc
<1>4. b \in KernelState /\ ListsAt(b, bloc) /\ MapAt(b) /\ SameButLists(b, a)
  BY <1>1, <1>2, ListIds, LinkFacts
<1> HIDE DEF b
<1>5. /\ b.state = s.state /\ b.where = s.where /\ b.prio = s.prio /\ b.curPrio = s.curPrio
      /\ b.current = s.current /\ b.enabled = s.enabled /\ b.queued = s.queued
      /\ b.pendsv = s.pendsv /\ b.timers = s.timers /\ b.qActive = s.qActive
  BY <1>1, <1>4 DEF SameButLists, SameThreads
<1>6. /\ c \in KernelState
      /\ c.state = [b.state EXCEPT ![u] = "STOP"]
      /\ c.where = [b.where EXCEPT ![u] = StopList]
  <2>1. StopList \in ListId
    BY ListIds
  <2> QED BY <1>4, <2>1 DEF KernelState
<1>7. /\ c.prio = b.prio /\ c.curPrio = b.curPrio /\ c.current = b.current
      /\ c.enabled = b.enabled /\ c.queued = b.queued /\ c.pendsv = b.pendsv
      /\ c.list = b.list /\ c.map = b.map /\ c.timers = b.timers /\ c.qActive = b.qActive
  BY <1>4 DEF KernelState
<1>8. d = TimerRemove(c, SleepTimer(u))
  BY DEF Stop, a, b
<1> HIDE DEF c, bloc
<1>9. OnlyThread(c, s, u) /\ c.state[u] = "STOP"
  BY <1>0, <1>5, <1>6, <1>7 DEF OnlyThread, KernelState
<1>10. Loc(c)[u] = StopList
  BY <1>9 DEF Loc
<1>11. Good(c)
  <2>1. ListsAt(c, [Loc(s) EXCEPT ![u] = Loc(c)[u]]) /\ MapAt(c) /\ TimersAt(c)
    BY <1>3, <1>4, <1>5, <1>7, <1>10 DEF Good, ListsAt, MapAt, TimersAt
  <2> QED BY <1>6, <1>9, <2>1, Rehomed DEF KernelAssumption
<1>12. SleepTimer(u) \in Timer
  BY DEF Timer
<1>13. /\ Good(d) /\ SameButTimers(d, c) /\ ToSet(d.timers) \subseteq ToSet(c.timers)
       /\ SleepTimer(u) \notin ToSet(d.timers)
  BY <1>8, <1>11, <1>12, TimerRemoveFacts
<1>14. NoNewTimer(d, s)
  BY <1>5, <1>7, <1>13 DEF NoNewTimer
<1>15. Uninherited(s) => Uninherited(d)
  BY <1>5, <1>7, <1>13 DEF Uninherited, SameButTimers, SameThreads
<1> QED BY <1>9, <1>13, <1>14, <1>15 DEF OnlyThread, SameButTimers, SameThreads

\* Thread::Exit takes a READY or BLOCKED thread off every list and leaves every
\* other thread where it was.
LEMMA ExitFacts ==
  ASSUME KernelAssumption, NEW s, Good(s), NEW u \in Thread, u # Idle,
         s.state[u] \in {"READY", "BLOCKED"}, NEW d, d = Exit(s, u)
  PROVE  /\ Good(d) /\ OnlyThread(d, s, u) /\ d.state[u] = "EXIT" /\ NoNewTimer(d, s)
         /\ SleepTimer(u) \notin ToSet(d.timers)
         /\ Uninherited(s) => Uninherited(d)
<1> DEFINE b == Detach(s, u)
           c == [b EXCEPT !.owner[u] = NoList, !.where[u] = NoList, !.state[u] = "EXIT",
                          !.prio[u]  = 0,      !.curPrio[u] = 0]
           bloc == [Loc(s) EXCEPT ![u] = NoList]
<1>0. s \in KernelState
  BY DEF Good
<1>1. b \in KernelState /\ ListsAt(b, bloc) /\ MapAt(b) /\ SameButLists(b, s)
  BY DetachFacts
<1> HIDE DEF b
<1>2. /\ b.state = s.state /\ b.where = s.where /\ b.prio = s.prio /\ b.curPrio = s.curPrio
      /\ b.current = s.current /\ b.enabled = s.enabled /\ b.queued = s.queued
      /\ b.pendsv = s.pendsv /\ b.timers = s.timers /\ b.qActive = s.qActive
  BY <1>1 DEF SameButLists, SameThreads
<1>3. /\ c \in KernelState
      /\ c.state = [b.state EXCEPT ![u] = "EXIT"] /\ c.where = [b.where EXCEPT ![u] = NoList]
      /\ c.prio = [b.prio EXCEPT ![u] = 0]        /\ c.curPrio = [b.curPrio EXCEPT ![u] = 0]
  <2>1. 0 \in Prio
    BY ListIds
  <2> QED BY <1>1, <2>1 DEF KernelState
<1>4. /\ c.current = b.current /\ c.enabled = b.enabled /\ c.queued = b.queued
      /\ c.pendsv = b.pendsv /\ c.list = b.list /\ c.map = b.map
      /\ c.timers = b.timers /\ c.qActive = b.qActive
  BY <1>1 DEF KernelState
<1>5. d = TimerRemove(c, SleepTimer(u))
  BY DEF Exit, b
<1> HIDE DEF c, bloc
<1>6. OnlyThread(c, s, u) /\ c.state[u] = "EXIT"
  BY <1>0, <1>2, <1>3, <1>4 DEF OnlyThread, KernelState
<1>7. Loc(c)[u] = NoList
  BY <1>6 DEF Loc
<1>8. Good(c)
  <2>1. ListsAt(c, [Loc(s) EXCEPT ![u] = Loc(c)[u]]) /\ MapAt(c) /\ TimersAt(c)
    BY <1>1, <1>2, <1>4, <1>7 DEF Good, ListsAt, MapAt, TimersAt, bloc
  <2> QED BY <1>3, <1>6, <2>1, Rehomed DEF KernelAssumption
<1>9. SleepTimer(u) \in Timer
  BY DEF Timer
<1>10. /\ Good(d) /\ SameButTimers(d, c) /\ ToSet(d.timers) \subseteq ToSet(c.timers)
       /\ SleepTimer(u) \notin ToSet(d.timers)
  BY <1>5, <1>8, <1>9, TimerRemoveFacts
<1>11. NoNewTimer(d, s)
  BY <1>2, <1>4, <1>10 DEF NoNewTimer
<1>12. Uninherited(s) => Uninherited(d)
  BY <1>2, <1>3, <1>10 DEF Uninherited, SameButTimers, SameThreads
<1> QED BY <1>6, <1>10, <1>11, <1>12 DEF OnlyThread, SameButTimers, SameThreads

\* Thread::Init puts an exited thread on the stop list.
LEMMA ThreadInitFacts ==
  ASSUME KernelAssumption, NEW s, Good(s), NEW u \in Thread, s.state[u] = "EXIT",
         NEW d, d = ThreadInit(s, u)
  PROVE  /\ Good(d) /\ OnlyThread(d, s, u) /\ d.state[u] = "STOP"
         /\ Uninherited(s) => Uninherited(d)
<1> DEFINE b == [s EXCEPT !.prio[u]  = InitPriority[u], !.curPrio[u] = InitPriority[u],
                   !.owner[u] = InitPriority[u], !.where[u] = StopList, !.state[u] = "STOP"]
           dloc == [Loc(s) EXCEPT ![u] = StopList]
<1>0. /\ s \in KernelState /\ DOMAIN Loc(s) = Thread /\ Loc(s)[u] = NoList
      /\ ListsAt(s, Loc(s)) /\ MapAt(s)
  BY DEF Good, Loc
<1>1. /\ b \in KernelState
      /\ b.state = [s.state EXCEPT ![u] = "STOP"] /\ b.where = [s.where EXCEPT ![u] = StopList]
      /\ b.prio = [s.prio EXCEPT ![u] = InitPriority[u]]
      /\ b.curPrio = [s.curPrio EXCEPT ![u] = InitPriority[u]]
  <2>1. InitPriority[u] \in Prio /\ InitPriority[u] \in ListId /\ StopList \in ListId
    BY ListIds DEF KernelAssumption
  <2>2. b \in KernelState
    BY <1>0, <2>1 DEF KernelState
  <2>3. /\ b.state = [s.state EXCEPT ![u] = "STOP"]
        /\ b.where = [s.where EXCEPT ![u] = StopList]
        /\ b.prio = [s.prio EXCEPT ![u] = InitPriority[u]]
        /\ b.curPrio = [s.curPrio EXCEPT ![u] = InitPriority[u]]
    BY <1>0 DEF KernelState
  <2> QED BY <2>2, <2>3
<1>2. /\ b.current = s.current /\ b.enabled = s.enabled /\ b.queued = s.queued
      /\ b.pendsv = s.pendsv /\ b.list = s.list /\ b.map = s.map
      /\ b.timers = s.timers /\ b.qActive = s.qActive
  BY <1>0 DEF KernelState
<1>3. d = LinkThread(b, StopList, u)
  BY DEF ThreadInit
<1> HIDE DEF b
<1>4. ListsAt(b, Loc(s)) /\ MapAt(b)
  BY <1>0, <1>2 DEF ListsAt, MapAt
<1>5. d \in KernelState /\ ListsAt(d, dloc) /\ MapAt(d) /\ SameButLists(d, b)
  <2>1. StopList \in ListId /\ Loc(s)[u] \notin ListId
    BY <1>0, ListIds
  <2>2. b \in KernelState /\ DOMAIN Loc(s) = Thread
    BY <1>0, <1>1
  <2> QED BY <1>3, <1>4, <2>1, <2>2, LinkFacts
<1> HIDE DEF dloc
<1>6. OnlyThread(d, s, u) /\ d.state[u] = "STOP" /\ TimersAt(d)
  BY <1>0, <1>1, <1>2, <1>5
     DEF OnlyThread, KernelState, SameButLists, SameThreads, Good, TimersAt
<1>7. Loc(d)[u] = StopList
  BY <1>6 DEF Loc
<1>8. Uninherited(s) => Uninherited(d)
  BY <1>1, <1>5 DEF Uninherited, SameButLists, SameThreads
<1> QED BY <1>5, <1>6, <1>7, <1>8, Rehomed DEF dloc, KernelAssumption, Good

-----------------------------------------------------------------------------
(* What every call establishes about who runs. *)

\* The flags of the scheduler are no part of the data that must agree.
LEMMA GoodButFlags ==
  ASSUME NEW s, Good(s), NEW d \in KernelState,
         d.list = s.list, d.map = s.map, d.where = s.where, d.state = s.state,
         d.prio = s.prio, d.timers = s.timers, d.qActive = s.qActive
  PROVE  Good(d)
<1>1. Loc(d) = Loc(s)
  BY SameThreadsSameLoc
<1> QED BY <1>1 DEF Good, ListsAt, MapAt, TimersAt

\* Scheduler::QueueScheduler.
LEMMA QueuedFacts ==
  ASSUME NEW s, Good(s), NEW q \in BOOLEAN, NEW d, d = [s EXCEPT !.queued = q]
  PROVE  /\ Good(d) /\ d.queued = q /\ SameThreads(d, s)
         /\ d.pendsv = s.pendsv /\ d.next = s.next /\ d.timers = s.timers
<1>1. s \in KernelState
  BY DEF Good
<1>2. /\ d \in KernelState /\ d.queued = q
      /\ d.list = s.list /\ d.map = s.map /\ d.where = s.where /\ d.state = s.state
      /\ d.prio = s.prio /\ d.curPrio = s.curPrio /\ d.timers = s.timers
      /\ d.qActive = s.qActive /\ d.pendsv = s.pendsv /\ d.next = s.next
      /\ d.current = s.current /\ d.enabled = s.enabled
  BY <1>1 DEF KernelState
<1>3. Good(d)
  BY <1>2, GoodButFlags
<1> QED BY <1>2, <1>3 DEF SameThreads

\* Scheduler::SetScheduler, before it performs what was queued.
LEMMA EnabledFacts ==
  ASSUME NEW s, Good(s), NEW e \in BOOLEAN, NEW d, d = [s EXCEPT !.enabled = e]
  PROVE  /\ Good(d) /\ d.enabled = e /\ d.queued = s.queued
         /\ d.state = s.state /\ d.prio = s.prio /\ d.curPrio = s.curPrio
         /\ d.current = s.current /\ d.where = s.where
         /\ d.pendsv = s.pendsv /\ d.next = s.next /\ d.timers = s.timers
<1>1. s \in KernelState
  BY DEF Good
<1>2. /\ d \in KernelState /\ d.enabled = e
      /\ d.list = s.list /\ d.map = s.map /\ d.where = s.where /\ d.state = s.state
      /\ d.prio = s.prio /\ d.curPrio = s.curPrio /\ d.timers = s.timers
      /\ d.qActive = s.qActive /\ d.pendsv = s.pendsv /\ d.next = s.next
      /\ d.current = s.current /\ d.queued = s.queued
  BY <1>1 DEF KernelState
<1>3. Good(d)
  BY <1>2, GoodButFlags
<1> QED BY <1>2, <1>3

\* Thread::Yield makes the scheduling decision right, whoever was at the top
\* before: at once, or by queueing it when the scheduler is disabled.
LEMMA YieldScheduled ==
  ASSUME KernelAssumption, NEW s, Good(s), Uninherited(s), s.enabled => ~s.queued,
         ~s.enabled => ~s.pendsv /\ s.state[s.current] = "READY",
         NEW d, d = Yield(s)
  PROVE  Scheduled(d, TRUE) /\ SameThreads(d, s)
<1>1. /\ Good(d) /\ SameThreads(d, s)
      /\ s.enabled => d.queued = s.queued /\ Top(d, d.next) /\ (d.pendsv \/ d.next = d.current)
      /\ ~s.enabled => d.queued /\ d.pendsv = s.pendsv
  BY YieldFacts
<1>2. /\ d.enabled = s.enabled /\ d.state = s.state /\ d.current = s.current
      /\ Uninherited(d)
  BY <1>1 DEF SameThreads, Uninherited
<1> QED BY <1>1, <1>2 DEF Scheduled

\* Scheduler::SetScheduler keeps the scheduling decision right: enabling
\* performs what was queued.
LEMMA SetSchedulerScheduled ==
  ASSUME KernelAssumption, NEW s, Scheduled(s, TRUE), ~s.pendsv,
         s.state[s.current] = "READY", NEW enable \in BOOLEAN,
         NEW d, d = SetScheduler(s, enable)
  PROVE  Scheduled(d, TRUE) /\ d.current = s.current
<1> DEFINE a == [s EXCEPT !.enabled = enable]
           b == [a EXCEPT !.queued = FALSE]
<1>0. Good(s) /\ Uninherited(s)
  BY DEF Scheduled
<1>1. d = IF enable /\ s.queued THEN Yield(b) ELSE a
  BY DEF SetScheduler
<1>2. /\ Good(a) /\ a.enabled = enable /\ a.queued = s.queued /\ Uninherited(a)
      /\ a.state = s.state /\ a.prio = s.prio /\ a.current = s.current /\ a.pendsv = s.pendsv
  BY <1>0, EnabledFacts DEF Uninherited
<1> HIDE DEF a
<1>3. Good(b) /\ ~b.queued /\ SameThreads(b, a) /\ b.pendsv = a.pendsv
  BY <1>2, QueuedFacts
<1> HIDE DEF b
<1>4. CASE enable /\ s.queued
  <2>1. d = Yield(b) /\ b.enabled /\ Uninherited(b)
    BY <1>1, <1>2, <1>3, <1>4 DEF SameThreads, Uninherited
  <2>2. Scheduled(d, TRUE) /\ SameThreads(d, b)
    BY <1>3, <2>1, YieldScheduled
  <2> QED BY <1>2, <1>3, <2>2 DEF SameThreads
<1>5. CASE ~(enable /\ s.queued)
  <2>1. d = a
    BY <1>1, <1>5
  <2>2. Top(s, s.current) => Top(a, a.current)
    BY <1>2 DEF Top
  <2> QED BY <1>2, <1>5, <2>1, <2>2 DEF Scheduled
<1> QED BY <1>4, <1>5

\* The first pass of TimerList::Process.
LEMMA TickBeginType ==
  ASSUME KernelAssumption, k \in KernelState, TickBegin
  PROVE  k' \in KernelState /\ SameButTimers(k', k)
         /\ k'.timers = k.timers /\ k'.qActive = k.qActive
<1> DEFINE n == [x \in Timer |-> IF x \notin ToSet(k.timers) THEN k.left[x]
                                 ELSE IF k.left[x] = 0 THEN MaxTimeLeft ELSE k.left[x] - 1]
           c == k.callback \cup {x \in ToSet(k.timers) : n[x] = 0}
<1>1. k' = [k EXCEPT !.inTimer = TRUE, !.left = n, !.callback = c]
  BY DEF TickBegin
<1>2. n \in [Timer -> Nat]
  <2>1. k.left \in [Timer -> Nat] /\ MaxTimeLeft \in Nat
    BY DEF KernelState, KernelAssumption
  <2> QED BY <2>1
<1>3. c \in SUBSET Timer
  BY DEF KernelState, ToSet
<1> HIDE DEF n, c
<1>4. k' \in KernelState
  BY <1>1, <1>2, <1>3 DEF KernelState
<1>5. SameButTimers(k', k) /\ k'.timers = k.timers /\ k'.qActive = k.qActive
  BY <1>1 DEF KernelState, SameButTimers, SameThreads
<1> QED BY <1>4, <1>5

\* A call that changes thread u only, and leaves it no rival of the current one.
LEMMA OtherScheduled ==
  ASSUME NEW s, Scheduled(s, TRUE), ~s.pendsv, NEW u \in Thread, u # s.current,
         NEW d, Good(d), Uninherited(d), OnlyThread(d, s, u),
         d.state[u] = "READY" => d.prio[u] <= d.prio[s.current]
  PROVE  Scheduled(d, TRUE)
<1>1. s.current \in Thread /\ d.current = s.current /\ d.enabled = s.enabled
  BY DEF Scheduled, Good, KernelState, OnlyThread
<1>2. d.queued = s.queued /\ d.pendsv = s.pendsv /\ d.state[d.current] = s.state[s.current]
  BY <1>1 DEF OnlyThread
<1>3. Top(s, s.current) => Top(d, d.current)
  <2> SUFFICES ASSUME Top(s, s.current) PROVE Top(d, s.current)
    BY <1>1
  <2> QED BY <1>1, TopUnlessRaised
<1> QED BY <1>1, <1>2, <1>3 DEF Scheduled

\* What Thread::Start has done when it decides whether to yield.
Started(s, u) ==
  [SchedulerAdd(UnlinkThread(s, StopList, u), u) EXCEPT
     !.owner[u] = s.prio[u], !.where[u] = s.prio[u], !.state[u] = "READY"]

\* Thread::Start moves one thread from the stop list to its ready list.
LEMMA StartedFacts ==
  ASSUME KernelAssumption, NEW s, Good(s), NEW u \in Thread, s.state[u] = "STOP",
         NEW a, a = Started(s, u)
  PROVE  /\ Good(a) /\ OnlyThread(a, s, u) /\ a.timers = s.timers
         /\ a.state[u] = "READY" /\ a.prio[u] = s.prio[u]
         /\ Uninherited(s) => Uninherited(a)
<1> DEFINE m == UnlinkThread(s, StopList, u)
           b == LinkThread(m, s.prio[u], u)
           c == [b EXCEPT !.owner[u] = s.prio[u], !.where[u] = s.prio[u], !.state[u] = "READY"]
           mloc == [Loc(s) EXCEPT ![u] = NoList]
           bloc == [mloc EXCEPT ![u] = s.prio[u]]
<1>0. /\ s \in KernelState /\ DOMAIN Loc(s) = Thread /\ Loc(s)[u] = StopList
      /\ ListsAt(s, Loc(s)) /\ MapAt(s)
  BY DEF Good, Loc
<1>1. s.prio[u] \in Prio /\ s.prio[u] \in ListId
  BY <1>0, ListIds DEF KernelState
<1>2. m \in KernelState /\ ListsAt(m, mloc) /\ MapAt(m) /\ SameButLists(m, s)
  BY <1>0, ListIds, UnlinkFacts
<1>3. DOMAIN mloc = Thread /\ mloc[u] = NoList /\ bloc = [Loc(s) EXCEPT ![u] = s.prio[u]]
  BY <1>0
<1>4. m.prio = s.prio
  BY <1>2 DEF SameButLists, SameThreads
<1>5. a = c
  BY <1>4 DEF Started, SchedulerAdd
<1> HIDE DEF m, mloc
<1>6. b \in KernelState /\ ListsAt(b, bloc) /\ MapAt(b) /\ SameButLists(b, m)
  BY <1>1, <1>2, <1>3, ListIds, LinkFacts
<1> HIDE DEF b
<1>7. /\ b.state = s.state /\ b.where = s.where /\ b.prio = s.prio /\ b.curPrio = s.curPrio
      /\ b.current = s.current /\ b.enabled = s.enabled /\ b.queued = s.queued
      /\ b.pendsv = s.pendsv /\ b.timers = s.timers /\ b.qActive = s.qActive
  BY <1>2, <1>6 DEF SameButLists, SameThreads
<1>8. /\ c \in KernelState
      /\ c.state = [b.state EXCEPT ![u] = "READY"]
      /\ c.where = [b.where EXCEPT ![u] = s.prio[u]]
  BY <1>1, <1>6 DEF KernelState
<1>9. /\ c.prio = b.prio /\ c.curPrio = b.curPrio /\ c.current = b.current
      /\ c.enabled = b.enabled /\ c.queued = b.queued /\ c.pendsv = b.pendsv
      /\ c.list = b.list /\ c.map = b.map /\ c.timers = b.timers /\ c.qActive = b.qActive
  BY <1>6 DEF KernelState
<1> HIDE DEF c, bloc
<1>10. OnlyThread(c, s, u) /\ c.state[u] = "READY" /\ c.prio[u] = s.prio[u]
  BY <1>0, <1>7, <1>8, <1>9 DEF OnlyThread, KernelState
<1>11. Loc(c)[u] = s.prio[u]
  BY <1>10 DEF Loc
<1>12. Uninherited(s) => Uninherited(c)
  BY <1>7, <1>9 DEF Uninherited
<1>13. Good(c)
  <2>1. ListsAt(c, [Loc(s) EXCEPT ![u] = Loc(c)[u]]) /\ MapAt(c) /\ TimersAt(c)
    BY <1>3, <1>6, <1>7, <1>9, <1>11 DEF Good, ListsAt, MapAt, TimersAt
  <2> QED BY <1>8, <1>10, <2>1, Rehomed DEF KernelAssumption
<1> QED BY <1>5, <1>7, <1>9, <1>10, <1>12, <1>13

\* Thread::Start keeps the scheduling decision right: it yields unless the
\* started thread is below the running one.
LEMMA StartScheduled ==
  ASSUME KernelAssumption, NEW s, Scheduled(s, TRUE), ~s.pendsv,
         NEW u \in Thread, s.state[u] = "STOP", NEW d, d = Start(s, u)
  PROVE  Scheduled(d, TRUE) /\ d.current = s.current /\ d.enabled = s.enabled
<1> DEFINE a == Started(s, u)
<1>1. Good(s) /\ Uninherited(s) /\ s.current \in Thread
  BY DEF Scheduled, Good, KernelState
<1>2. /\ Good(a) /\ OnlyThread(a, s, u) /\ a.state[u] = "READY" /\ a.prio[u] = s.prio[u]
      /\ Uninherited(a)
  BY <1>1, StartedFacts
<1>3. d = IF a.curPrio[u] < a.curPrio[a.current] THEN a
          ELSE Yield(QuantumAdd(QuantumRemove(a), u))
  BY DEF Start, Started
<1> HIDE DEF a
<1>4. /\ a.current = s.current /\ a.enabled = s.enabled
      /\ a.queued = s.queued /\ a.pendsv = s.pendsv
  BY <1>2 DEF OnlyThread
<1>5. CASE a.curPrio[u] < a.curPrio[a.current]
  <2>1. d = a
    BY <1>3, <1>5
  <2>2. a.prio[u] < a.prio[s.current] /\ a.prio[u] \in Int /\ a.prio[s.current] \in Int
    BY <1>1, <1>2, <1>4, <1>5, ListIds DEF Good, KernelState, Uninherited
  <2>3. u # s.current /\ a.prio[u] <= a.prio[s.current]
    BY <2>2
  <2> QED BY <1>2, <1>4, <2>1, <2>3, OtherScheduled
<1>6. CASE ~(a.curPrio[u] < a.curPrio[a.current])
  <2> DEFINE r == QuantumRemove(a)
             q == QuantumAdd(r, u)
  <2>1. Good(r) /\ SameButTimers(r, a)
    BY <1>2, QuantumRemoveFacts
  <2> HIDE DEF r
  <2>2. Good(q) /\ SameButTimers(q, r)
    BY <2>1, QuantumAddFacts
  <2>3. d = Yield(q)
    BY <1>3, <1>6 DEF r
  <2> HIDE DEF q
  <2>4. /\ q.state = a.state /\ q.current = s.current /\ q.enabled = s.enabled
        /\ q.queued = s.queued /\ q.pendsv = s.pendsv /\ Uninherited(q)
    BY <1>2, <1>4, <2>1, <2>2 DEF SameButTimers, SameThreads, Uninherited
  <2>5. ~s.enabled => a.state[s.current] = "READY"
    BY <1>1, <1>2 DEF Scheduled, OnlyThread
  <2>6. Scheduled(d, TRUE) /\ SameThreads(d, q)
    BY <2>2, <2>3, <2>4, <2>5, YieldScheduled DEF Scheduled
  <2> QED BY <2>4, <2>6 DEF SameThreads
<1> QED BY <1>5, <1>6

SameCPU(d, s) == d.current = s.current

\* What Thread::SetPriority has done when it decides whether to reschedule.
Moved(s, u, p) ==
  LinkThread([SchedulerRemove(s, u) EXCEPT !.prio[u] = p, !.curPrio[u] = p], p, u)

\* Thread::SetPriority moves a READY thread to the ready list of its new priority.
LEMMA MovedFacts ==
  ASSUME KernelAssumption, NEW s, Good(s), NEW u \in Thread, s.state[u] = "READY",
         NEW p \in Prio, NEW d, d = Moved(s, u, p)
  PROVE  /\ Good(d) /\ OnlyThread(d, s, u) /\ d.timers = s.timers
         /\ d.state[u] = "READY" /\ d.prio[u] = p
         /\ Uninherited(s) => Uninherited(d)
<1> DEFINE a == UnlinkThread(s, s.prio[u], u)
           b == [a EXCEPT !.prio[u] = p, !.curPrio[u] = p]
           e == LinkThread(b, p, u)
           aloc == [Loc(s) EXCEPT ![u] = NoList]
           dloc == [aloc EXCEPT ![u] = p]
<1>0. /\ s \in KernelState /\ DOMAIN Loc(s) = Thread /\ Loc(s)[u] = s.prio[u]
      /\ ListsAt(s, Loc(s)) /\ MapAt(s)
  BY DEF Good, Loc
<1>1. s.prio[u] \in ListId /\ p \in ListId
  BY <1>0, ListIds DEF KernelState
<1>2. a \in KernelState /\ ListsAt(a, aloc) /\ MapAt(a) /\ SameButLists(a, s)
  BY <1>0, <1>1, ListIds, UnlinkFacts
<1>3. DOMAIN aloc = Thread /\ aloc[u] = NoList /\ dloc = [Loc(s) EXCEPT ![u] = p]
  BY <1>0
<1>4. d = e
  BY DEF Moved, SchedulerRemove
<1> HIDE DEF a, aloc
<1>5. /\ b \in KernelState
      /\ b.prio = [a.prio EXCEPT ![u] = p] /\ b.curPrio = [a.curPrio EXCEPT ![u] = p]
  BY <1>2 DEF KernelState
<1>6. /\ b.state = a.state /\ b.where = a.where /\ b.current = a.current
      /\ b.enabled = a.enabled /\ b.queued = a.queued /\ b.pendsv = a.pendsv
      /\ b.list = a.list /\ b.map = a.map /\ b.timers = a.timers /\ b.qActive = a.qActive
  BY <1>2 DEF KernelState
<1> HIDE DEF b
<1>7. ListsAt(b, aloc) /\ MapAt(b)
  BY <1>2, <1>6 DEF ListsAt, MapAt
<1>8. e \in KernelState /\ ListsAt(e, dloc) /\ MapAt(e) /\ SameButLists(e, b)
  BY <1>1, <1>3, <1>5, <1>7, ListIds, LinkFacts
<1> HIDE DEF e, dloc
<1>9. /\ d.state = s.state /\ d.where = s.where
      /\ d.prio = [s.prio EXCEPT ![u] = p] /\ d.curPrio = [s.curPrio EXCEPT ![u] = p]
      /\ d.current = s.current /\ d.enabled = s.enabled /\ d.queued = s.queued
      /\ d.pendsv = s.pendsv /\ d.timers = s.timers /\ d.qActive = s.qActive
  BY <1>2, <1>4, <1>5, <1>6, <1>8 DEF SameButLists, SameThreads
<1>10. OnlyThread(d, s, u) /\ d.state[u] = "READY" /\ d.prio[u] = p
  BY <1>0, <1>9 DEF OnlyThread, KernelState
<1>11. Loc(d)[u] = p
  BY <1>10 DEF Loc
<1>12. Good(d)
  <2>1. ListsAt(d, [Loc(s) EXCEPT ![u] = Loc(d)[u]]) /\ MapAt(d) /\ TimersAt(d)
    BY <1>3, <1>4, <1>8, <1>9, <1>11 DEF Good, TimersAt
  <2> QED BY <1>4, <1>8, <1>10, <2>1, Rehomed DEF KernelAssumption
<1>13. Uninherited(s) => Uninherited(d)
  BY <1>9 DEF Uninherited
<1> QED BY <1>9, <1>10, <1>12, <1>13

\* Thread::SetPriority keeps the scheduling decision right when the thread is
\* READY: it reschedules if it moves the running thread or raises another above it.
LEMMA SetPriorityScheduled ==
  ASSUME KernelAssumption, NEW s, Scheduled(s, TRUE), ~s.pendsv,
         NEW u \in Thread, s.state[u] = "READY", NEW p \in Prio,
         NEW d, d = SetPriority(s, u, p)
  PROVE  Scheduled(d, TRUE) /\ SameCPU(d, s)
<1> DEFINE moved == Moved(s, u, p)
           reschedule == s.current = u \/ p > s.prio[s.current]
<1>1. /\ Good(s) /\ s.current \in Thread /\ s.prio[s.current] \in Prio
      /\ s.enabled \in BOOLEAN /\ Uninherited(s)
  BY DEF Scheduled, Good, KernelState
<1>2. /\ Good(moved) /\ OnlyThread(moved, s, u) /\ moved.state[u] = "READY"
      /\ moved.prio[u] = p /\ Uninherited(moved)
  BY <1>1, MovedFacts
<1>3. d = IF ~reschedule THEN moved
          ELSE IF s.enabled THEN SwitchToNext(Schedule(moved))
          ELSE [moved EXCEPT !.queued = TRUE]
  BY DEF SetPriority, Moved
<1> HIDE DEF moved, reschedule
<1>4. /\ moved.current = s.current /\ moved.enabled = s.enabled
      /\ moved.queued = s.queued /\ moved.pendsv = s.pendsv
  BY <1>2 DEF OnlyThread
<1>5. CASE ~reschedule
  <2>1. d = moved /\ u # s.current /\ ~(p > s.prio[s.current])
    BY <1>3, <1>5 DEF reschedule
  <2>2. moved.prio[u] <= moved.prio[s.current]
    <3>1. moved.prio[u] = p /\ moved.prio[s.current] = s.prio[s.current]
      BY <1>1, <1>2, <2>1 DEF OnlyThread
    <3>2. p \in Int /\ s.prio[s.current] \in Int
      BY <1>1, ListIds
    <3> QED BY <2>1, <3>1, <3>2
  <2>3. Scheduled(moved, TRUE)
    BY <1>2, <2>1, <2>2, OtherScheduled
  <2> QED BY <1>4, <2>1, <2>3 DEF SameCPU
<1>6. CASE reschedule /\ s.enabled
  <2> DEFINE c == Schedule(moved)
  <2>1. /\ Good(c) /\ SameThreads(c, moved) /\ c.queued = moved.queued
        /\ c.next \in Thread /\ Top(c, c.next)
    BY <1>2, ScheduleFacts
  <2>2. d = SwitchToNext(c)
    BY <1>3, <1>6
  <2> HIDE DEF c
  <2>3. /\ Good(d) /\ SameThreads(d, c) /\ d.next = c.next
        /\ d.queued = c.queued /\ d.pendsv
    BY <2>1, <2>2, SwitchFacts
  <2>4. Top(d, d.next)
    BY <2>1, <2>3, TopKept
  <2>5. d.current = s.current /\ d.enabled = s.enabled /\ d.queued = s.queued /\ Uninherited(d)
    BY <1>2, <1>4, <2>1, <2>3 DEF SameThreads, Uninherited
  <2> QED BY <1>6, <2>3, <2>4, <2>5 DEF Scheduled, SameCPU
<1>7. CASE reschedule /\ ~s.enabled
  <2>1. d = [moved EXCEPT !.queued = TRUE]
    BY <1>3, <1>7
  <2>2. Good(d) /\ d.queued /\ d.state = moved.state /\ d.current = moved.current
        /\ d.enabled = moved.enabled /\ d.pendsv = moved.pendsv /\ Uninherited(d)
    <3>1. Good(d) /\ d.queued = TRUE /\ SameThreads(d, moved) /\ d.pendsv = moved.pendsv
      BY <1>2, <2>1, QueuedFacts
    <3> QED BY <1>2, <3>1 DEF SameThreads, Uninherited
  <2>3. moved.state[s.current] = "READY"
    BY <1>1, <1>2, <1>7 DEF Scheduled, OnlyThread
  <2> QED BY <1>4, <1>7, <2>2, <2>3 DEF Scheduled, SameCPU
<1> QED BY <1>1, <1>5, <1>6, <1>7

\* The pivot of the quantum callback keeps the kernel's data well typed.
LEMMA RotateType ==
  ASSUME NEW s \in KernelState, NEW l \in ListId, PivotForward(s.list[l]) \in Seq(Thread),
         NEW d, d = Rotate(s, l)
  PROVE  /\ d \in KernelState /\ d.list = [s.list EXCEPT ![l] = PivotForward(s.list[l])]
         /\ SameThreads(d, s) /\ d.where = s.where /\ d.map = s.map
         /\ d.next = s.next /\ d.queued = s.queued /\ d.pendsv = s.pendsv
         /\ d.timers = s.timers /\ d.qActive = s.qActive
<1>1. d \in KernelState
  BY DEF Rotate, KernelState
<1>2. /\ d.list = [s.list EXCEPT ![l] = PivotForward(s.list[l])]
      /\ SameThreads(d, s) /\ d.where = s.where /\ d.map = s.map
      /\ d.next = s.next /\ d.queued = s.queued /\ d.pendsv = s.pendsv
      /\ d.timers = s.timers /\ d.qActive = s.qActive
  BY DEF Rotate, KernelState, SameThreads
<1> QED BY <1>1, <1>2

\* The pivot of the quantum callback changes the order of one ready list and
\* nothing that decides who may run.
LEMMA RotateFacts ==
  ASSUME NEW s, Good(s), NEW l \in ListId, NEW d, d = Rotate(s, l)
  PROVE  /\ Good(d) /\ SameThreads(d, s) /\ d.timers = s.timers
         /\ d.next = s.next /\ d.queued = s.queued /\ d.pendsv = s.pendsv
<1> DEFINE new == PivotForward(s.list[l])
<1>1. /\ s \in KernelState /\ s.list[l] \in Seq(Thread) /\ IsInjective(s.list[l])
      /\ s.list \in [ListId -> Seq(Thread)]
  BY DEF Good, ListsAt, KernelState
<1>2. /\ new \in Seq(Thread) /\ ToSet(new) = ToSet(s.list[l]) /\ IsInjective(new)
  BY <1>1, PivotFacts
<1>3. new = <<>> <=> s.list[l] = <<>>
  BY <1>1, <1>2, EmptyList
<1>4. d \in KernelState
  BY <1>1, <1>2, RotateType
<1>5. /\ d.list = [s.list EXCEPT ![l] = new]
      /\ SameThreads(d, s) /\ d.where = s.where /\ d.map = s.map
      /\ d.next = s.next /\ d.queued = s.queued /\ d.pendsv = s.pendsv
      /\ d.timers = s.timers /\ d.qActive = s.qActive
  BY <1>1, <1>2, RotateType
<1> HIDE DEF new
<1>6. Loc(d) = Loc(s)
  BY <1>5, SameThreadsSameLoc DEF SameThreads
<1>7. ListsAt(d, Loc(d))
  BY <1>1, <1>2, <1>5, <1>6 DEF Good, ListsAt
<1>8. MapAt(d)
  BY <1>1, <1>3, <1>5 DEF Good, MapAt, ListId
<1> QED BY <1>4, <1>5, <1>7, <1>8 DEF Good, TimersAt, SameThreads

\* The only thing the quantum callback does to the threads is to rotate a list.
LEMMA QuantumCallbackFacts ==
  ASSUME NEW s, Good(s), NEW d, d = QuantumCallback(s)
  PROVE  /\ Good(d) /\ SameThreads(d, s) /\ d.timers = s.timers
         /\ d.next = s.next /\ d.queued = s.queued /\ d.pendsv = s.pendsv
<1> DEFINE l == s.where[s.qOwner]
<1>0. s \in KernelState
  BY DEF Good
<1>1. CASE d = s
  BY <1>1 DEF SameThreads
<1>2. CASE d = [s EXCEPT !.fault = TRUE]
  <2>1. d \in KernelState /\ SameButTimers(d, s) /\ d.timers = s.timers /\ d.qActive = s.qActive
    BY <1>0, <1>2 DEF KernelState, SameButTimers, SameThreads
  <2> QED BY <2>1, GoodButTimers DEF SameButTimers, Good, TimersAt
<1>3. CASE l # NoList /\ d = Rotate(s, l)
  <2>1. l \in ListId
    BY <1>0, <1>3 DEF KernelState
  <2> QED BY <1>3, <2>1, RotateFacts
<1> QED BY <1>1, <1>2, <1>3 DEF QuantumCallback

-----------------------------------------------------------------------------
(* The theorems *)

\* A sequence in SetToSeqs(S) enumerates S: every thread that is not started
\* is on the stop list.
LEMMA SeqsEnumerate ==
  ASSUME NEW S, IsFiniteSet(S), NEW q \in SetToSeqs(S)
  PROVE  q \in Seq(S) /\ IsInjective(q) /\ ToSet(q) = S
<1> DEFINE n == Cardinality(S)
<1>1. n \in Nat
  BY FS_CardinalityType
<1> HIDE DEF n
<1>2. q \in [1 .. n -> S] /\ \A i, j \in 1 .. n : i # j => q[i] # q[j]
  BY DEF SetToSeqs, n
<1>3. IsInjective(q)
  BY <1>2 DEF IsInjective
<1>4. q \in Seq(S) /\ DOMAIN q = 1 .. n
  BY <1>1, <1>2
<1>5. q \in Injection(1 .. n, S)
  BY <1>2, <1>3 DEF Injection
<1>6. Cardinality(1 .. n) = n
  BY <1>1, FS_Interval
<1>7. q \in Surjection(1 .. n, S)
  BY <1>5, <1>6, FS_Injection DEF n
<1>8. ToSet(q) = S
  BY <1>2, <1>4, <1>7 DEF ToSet, Surjection
<1> QED BY <1>3, <1>4, <1>8

\* The fields of the initial state are well typed if these are.
LEMMA InitRecord ==
  ASSUME NEW q, NEW s, s = InitState(q), Main \in Thread,
         s.list \in [ListId -> Seq(Thread)], s.map \in SUBSET Prio,
         s.where \in [Thread -> ListId \cup {NoList}],
         s.owner \in [Thread -> ListId \cup {NoList}],
         s.prio \in [Thread -> Prio], s.curPrio \in [Thread -> Prio],
         s.state \in [Thread -> {"READY", "BLOCKED", "STOP", "EXIT"}],
         s.timers \in Seq(Timer), s.left \in [Timer -> Nat]
  PROVE  s \in KernelState
<1>1. /\ s.current = Main /\ s.next = Main /\ s.enabled = TRUE /\ s.queued = FALSE
      /\ s.pendsv = FALSE /\ s.due = FALSE /\ s.inTimer = FALSE /\ s.callback = {}
      /\ s.qActive = FALSE /\ s.qOwner = Main /\ s.qAdd = FALSE /\ s.fault = FALSE
  BY DEF InitState
<1>2. s = [list |-> s.list, map |-> s.map, where |-> s.where, owner |-> s.owner,
           prio |-> s.prio, curPrio |-> s.curPrio, state |-> s.state,
           current |-> s.current, next |-> s.next, enabled |-> s.enabled,
           queued |-> s.queued, pendsv |-> s.pendsv, due |-> s.due, inTimer |-> s.inTimer,
           timers |-> s.timers, left |-> s.left, callback |-> s.callback,
           qActive |-> s.qActive, qOwner |-> s.qOwner, qAdd |-> s.qAdd, fault |-> s.fault]
  BY DEF InitState
<1> QED BY <1>1, <1>2 DEF KernelState

\* Kernel::Start leaves good data and the right thread running.
LEMMA InitGood ==
  ASSUME KernelAssumption, NEW q \in SetToSeqs(Thread \ {Idle, Main}),
         NEW s, s = InitState(q)
  PROVE  Scheduled(s, TRUE)
<1> DEFINE m == InitPriority[Main]
           others == Thread \ {Idle, Main}
<1>1. q \in Seq(others) /\ IsInjective(q) /\ ToSet(q) = others
  <2>1. IsFiniteSet(others)
    BY FS_Subset DEF KernelAssumption
  <2> QED BY <2>1, SeqsEnumerate
<1>2. q \in Seq(Thread)
  BY <1>1
<1>3. m \in Prio /\ m > 0 /\ InitPriority[Idle] = 0 /\ InitPriority \in [Thread -> Prio]
  BY DEF KernelAssumption
<1>4. Idle \in Thread /\ Main \in Thread /\ Idle # Main
  BY DEF KernelAssumption
<1> HIDE DEF m, others
<1>5. s.list = [l \in ListId |-> IF l = StopList THEN q ELSE IF l = m THEN <<Main>>
                                 ELSE IF l = 0 THEN <<Idle>> ELSE <<>>]
  BY DEF InitState, m
<1>6. s.list \in [ListId -> Seq(Thread)]
  BY <1>2, <1>4, <1>5
<1>7. /\ s.map = {0, m} /\ s.owner = InitPriority
      /\ s.prio = InitPriority /\ s.curPrio = InitPriority
      /\ s.current = Main /\ s.next = Main /\ s.enabled = TRUE /\ s.queued = FALSE
      /\ s.pendsv = FALSE /\ s.timers = <<>> /\ s.qActive = FALSE
  BY DEF InitState, m
<1>8. /\ s.where = [t \in Thread |-> IF t \in {Idle, Main} THEN InitPriority[t] ELSE StopList]
      /\ s.state = [t \in Thread |-> IF t \in {Idle, Main} THEN "READY" ELSE "STOP"]
  BY DEF InitState
<1>9. s \in KernelState
  <2>1. /\ s.where \in [Thread -> ListId \cup {NoList}] /\ s.owner \in [Thread -> ListId \cup {NoList}]
        /\ s.state \in [Thread -> {"READY", "BLOCKED", "STOP", "EXIT"}]
    BY <1>3, <1>7, <1>8, ListIds
  <2>2. /\ s.map \in SUBSET Prio /\ s.prio \in [Thread -> Prio] /\ s.curPrio \in [Thread -> Prio]
    BY <1>3, <1>7, ListIds
  <2>3. s.timers \in Seq(Timer) /\ s.left = [x \in Timer |-> 0]
    BY <1>7 DEF InitState
  <2>4. s.left \in [Timer -> Nat]
    BY <2>3
  <2> QED BY <1>4, <1>6, <1>7, <2>1, <2>2, <2>3, <2>4, InitRecord
<1>10. Loc(s) = [t \in Thread |-> IF t = Idle THEN 0 ELSE IF t = Main THEN m ELSE StopList]
  BY <1>3, <1>4, <1>7, <1>8 DEF Loc, m
<1>11. ListsAt(s, Loc(s))
  <2> SUFFICES ASSUME NEW l \in ListId
               PROVE  /\ IsInjective(s.list[l])
                      /\ ToSet(s.list[l]) = {t \in Thread : Loc(s)[t] = l}
    BY DEF ListsAt
  <2>1. StopList \notin Prio /\ m # 0 /\ 0 \in Prio
    BY <1>3, ListIds
  <2>2. CASE l = StopList
    BY <1>1, <1>3, <1>4, <1>5, <1>10, <2>1, <2>2 DEF others
  <2>3. CASE l = m
    <3>1. s.list[l] = <<Main>>
      BY <1>3, <1>5, <2>1, <2>3
    <3>2. IsInjective(<<Main>>) /\ ToSet(<<Main>>) = {Main}
      BY DEF IsInjective, ToSet
    <3> QED BY <1>3, <1>4, <1>10, <2>1, <2>3, <3>1, <3>2
  <2>4. CASE l = 0
    <3>1. s.list[l] = <<Idle>>
      BY <1>3, <1>5, <2>1, <2>4
    <3>2. IsInjective(<<Idle>>) /\ ToSet(<<Idle>>) = {Idle}
      BY DEF IsInjective, ToSet
    <3> QED BY <1>3, <1>4, <1>10, <2>1, <2>4, <3>1, <3>2
  <2>5. CASE l \notin {StopList, m, 0}
    <3>1. s.list[l] = <<>>
      BY <1>5, <2>5
    <3>2. IsInjective(<<>>) /\ ToSet(<<>>) = {}
      BY DEF IsInjective, ToSet
    <3> QED BY <1>10, <2>5, <3>1, <3>2
  <2> QED BY <2>2, <2>3, <2>4, <2>5
<1>12. MapAt(s)
  <2>1. \A p \in Prio : s.list[p] # <<>> <=> p \in {0, m}
    BY <1>3, <1>5, ListIds
  <2> QED BY <1>3, <1>7, <2>1, ListIds DEF MapAt
<1>13. TimersAt(s)
  BY <1>7 DEF TimersAt, IsInjective, ToSet
<1>14. Good(s)
  BY <1>4, <1>7, <1>8, <1>9, <1>11, <1>12, <1>13 DEF Good
<1>15. Top(s, s.current)
  <2>1. s.state[Main] = "READY" /\ \A t \in Thread : s.state[t] = "READY" => t \in {Idle, Main}
    BY <1>4, <1>8
  <2>2. s.prio[Main] = m /\ s.prio[Idle] = 0 /\ m \in Int
    BY <1>3, <1>7, ListIds DEF m
  <2> QED BY <1>3, <1>7, <2>1, <2>2 DEF Top
<1> QED BY <1>7, <1>14, <1>15 DEF Scheduled, Uninherited

\* A running thread is at the start of a call: the state every call meets.
LEMMA CallMeets ==
  ASSUME IInv, NEW t \in Thread, NEW call, Calling(t, call)
  PROVE  /\ Scheduled(k, TRUE) /\ ~k.pendsv /\ t = k.current /\ pc[t] = "run"
         /\ k \in KernelState /\ Good(k) /\ k.state[t] = "READY"
<1>1. ~k.pendsv /\ t = k.current /\ pc[t] = "run"
  BY DEF Calling, Running
<1>2. Scheduled(k, TRUE)
  BY <1>1 DEF IInv
<1>3. k.state[t] = "READY"
  BY <1>1, <1>2 DEF Scheduled, Top
<1> QED BY <1>1, <1>2, <1>3 DEF Scheduled, Good

\* A thread that disabled the scheduler keeps the CPU in this step.
KeepsCPU == ~k.enabled => k'.current = k.current

\* A call that leaves the same thread running only has to keep the decision
\* right.
LEMMA RunningKeepsIInv ==
  ASSUME IInv, Scheduled(k, TRUE)', pc[k.current] = "run", k'.current = k.current,
         pc' = pc
  PROVE  IInv' /\ KeepsCPU
BY DEF IInv, KeepsCPU

\* After Stop or Exit the decision is right or the caller still owes a Yield.
LEMMA StopOrExitScheduled ==
  ASSUME IInv, NEW t \in Thread, NEW u \in Thread, NEW call, Calling(t, call),
         MayLeave(t, u), Good(k'), OnlyThread(k', k, u), k'.state[u] \in {"STOP", "EXIT"},
         Uninherited(k) => Uninherited(k'), YieldIfSelf(t, u)
  PROVE  IInv' /\ KeepsCPU
<1>1. /\ Scheduled(k, TRUE) /\ ~k.pendsv /\ t = k.current /\ pc[t] = "run"
      /\ k \in KernelState
  BY CallMeets
<1>2. /\ k'.current = t /\ k'.enabled = k.enabled /\ k'.queued = k.queued
      /\ k'.pendsv = k.pendsv /\ Uninherited(k')
  BY <1>1 DEF OnlyThread, Scheduled
<1>3. CASE t # u
  <2>1. Scheduled(k', TRUE)
    BY <1>1, <1>2, <1>3, OtherScheduled
  <2> QED BY <1>1, <1>2, <1>3, <2>1, RunningKeepsIInv DEF YieldIfSelf
<1>4. CASE t = u
  <2>1. pc' = [pc EXCEPT ![t] = "yield"] /\ pc \in [Thread -> {"run", "yield"}] /\ k.enabled
    BY <1>4 DEF YieldIfSelf, IInv, MayLeave
  <2>2. pc'[t] # "run"
    BY <2>1
  <2>3. Scheduled(k', pc'[k'.current] = "run")
    BY <1>1, <1>2, <2>1, <2>2 DEF Scheduled
  <2> QED BY <1>1, <1>2, <2>1, <2>3 DEF IInv, KeepsCPU
<1> QED BY <1>3, <1>4

\* The fields an interrupt handler counts and flags with decide nothing.
LEMMA SameDecision ==
  ASSUME IInv, Good(k'), SameThreads(k', k), k'.next = k.next, k'.queued = k.queued,
         k'.pendsv = k.pendsv, pc' = pc
  PROVE  IInv' /\ KeepsCPU
<1>1. k.next \in Thread /\ k.current \in Thread
  BY DEF IInv, Scheduled, Good, KernelState
<1>2. Top(k, k.next) => Top(k', k'.next)
  BY <1>1, TopKept
<1>3. Top(k, k.current) => Top(k', k'.current)
  BY <1>1, TopKept DEF SameThreads
<1> QED BY <1>2, <1>3 DEF IInv, Scheduled, SameThreads, KeepsCPU, Uninherited

\* Quantum::UpdateTimer, at the end of SysTick, keeps the invariant.
LEMMA TickEndIInv ==
  ASSUME KernelAssumption, IInv, TickEnd
  PROVE  IInv' /\ KeepsCPU
<1> DEFINE a == [k EXCEPT !.inTimer = FALSE]
           y == Yield(a)
           e == IF a.qAdd THEN [y EXCEPT !.qAdd = FALSE] ELSE a
<1>0. Good(k) /\ k \in KernelState /\ pc' = pc
  BY DEF IInv, Scheduled, Good, TickEnd
<1>1. k' = [e EXCEPT !.due = e.pendsv]
  BY DEF TickEnd
<1>2. /\ a \in KernelState /\ SameButTimers(a, k) /\ a.timers = k.timers
      /\ a.qActive = k.qActive
  BY <1>0 DEF KernelState, SameButTimers, SameThreads
<1>3. Good(a)
  BY <1>0, <1>2, GoodButTimers DEF Good, TimersAt
<1> HIDE DEF a
<1>4. CASE ~a.qAdd
  <2>1. e = a
    BY <1>4
  <2> HIDE DEF e
  <2>2. /\ k' \in KernelState /\ SameButTimers(k', a) /\ k'.timers = a.timers
        /\ k'.qActive = a.qActive
    BY <1>1, <1>2, <2>1 DEF KernelState, SameButTimers, SameThreads
  <2>3. Good(k')
    BY <1>3, <2>2, GoodButTimers DEF Good, TimersAt
  <2> QED BY <1>0, <1>2, <2>2, <2>3, SameDecision DEF SameButTimers, SameThreads
<1>5. CASE a.qAdd
  <2>1. /\ a.enabled => ~a.queued
        /\ ~a.enabled => /\ ~a.pendsv /\ a.state[a.current] = "READY"
                         /\ pc[a.current] = "run"
        /\ Uninherited(a)
    BY <1>2 DEF IInv, Scheduled, SameButTimers, SameThreads, Uninherited
  <2>2. Scheduled(y, TRUE) /\ SameThreads(y, a)
    BY <1>3, <2>1, YieldScheduled
  <2>3. e = [y EXCEPT !.qAdd = FALSE]
    BY <1>5
  <2> HIDE DEF y, e
  <2>4. y \in KernelState /\ Good(y)
    BY <2>2 DEF Scheduled, Good
  <2>5. /\ e \in KernelState /\ SameButTimers(e, y) /\ e.timers = y.timers
        /\ e.qActive = y.qActive
    BY <2>3, <2>4 DEF KernelState, SameButTimers, SameThreads
  <2>6. /\ k' \in KernelState /\ SameButTimers(k', e) /\ k'.timers = e.timers
        /\ k'.qActive = e.qActive
    BY <1>1, <2>5 DEF KernelState, SameButTimers, SameThreads
  <2>7. SameButTimers(k', y) /\ k'.timers = y.timers /\ k'.qActive = y.qActive
    BY <2>5, <2>6 DEF SameButTimers, SameThreads
  <2>8. Good(k')
    BY <2>4, <2>6, <2>7, GoodButTimers DEF Good, TimersAt
  <2>9. y.next \in Thread /\ y.current \in Thread
    BY <2>4 DEF KernelState
  <2>10. SameThreads(k', y) /\ k'.next = y.next /\ k'.current = y.current
         /\ k'.queued = y.queued /\ k'.pendsv = y.pendsv
    BY <2>7 DEF SameButTimers, SameThreads
  <2>11. /\ Top(y, y.next) => Top(k', k'.next)
         /\ Top(y, y.current) => Top(k', k'.current)
    BY <2>9, <2>10, TopKept
  <2>12. Scheduled(k', TRUE)
    BY <2>2, <2>8, <2>10, <2>11 DEF Scheduled, SameThreads, Uninherited
  <2>13. ~k'.enabled => pc'[k'.current] = "run"
    BY <1>0, <2>1, <2>2, <2>10 DEF SameThreads
  <2>14. Scheduled(k', pc'[k'.current] = "run")
    BY <2>12, <2>13 DEF Scheduled
  <2> QED BY <1>0, <1>2, <2>2, <2>10, <2>14 DEF IInv, KeepsCPU, SameButTimers, SameThreads
<1>6. a.qAdd \in BOOLEAN
  BY <1>2 DEF KernelState
<1> QED BY <1>4, <1>5, <1>6

\* Every step of every call and of every handler keeps the decision right.
LEMMA NextIInv ==
  ASSUME KernelAssumption, IInv, Next
  PROVE  IInv' /\ KeepsCPU
<1>0. /\ k \in KernelState /\ Good(k) /\ k.current \in Thread /\ k.next \in Thread
      /\ pc \in [Thread -> {"run", "yield"}] /\ Uninherited(k)
  BY DEF IInv, Scheduled, Good, KernelState
<1>1. ASSUME NEW t \in Thread, NEW u \in Thread, CallStart(t, u) PROVE IInv' /\ KeepsCPU
  <2>1. Scheduled(k, TRUE) /\ ~k.pendsv /\ t = k.current /\ pc[t] = "run"
    BY <1>1, CallMeets DEF CallStart
  <2>2. Scheduled(k', TRUE) /\ k'.current = k.current
    BY <1>1, <2>1, StartScheduled DEF CallStart
  <2> QED BY <1>1, <2>1, <2>2, RunningKeepsIInv DEF CallStart
<1>2. ASSUME NEW t \in Thread, NEW u \in Thread, CallStop(t, u) PROVE IInv' /\ KeepsCPU
  <2>1. Good(k') /\ OnlyThread(k', k, u) /\ k'.state[u] = "STOP" /\ Uninherited(k')
    BY <1>0, <1>2, StopFacts DEF CallStop, MayLeave
  <2> QED BY <1>2, <2>1, StopOrExitScheduled DEF CallStop
<1>3. ASSUME NEW t \in Thread, NEW u \in Thread, CallExit(t, u) PROVE IInv' /\ KeepsCPU
  <2>1. Good(k') /\ OnlyThread(k', k, u) /\ k'.state[u] = "EXIT" /\ Uninherited(k')
    BY <1>0, <1>3, ExitFacts DEF CallExit, MayLeave
  <2> QED BY <1>3, <2>1, StopOrExitScheduled DEF CallExit
<1>4. ASSUME NEW t \in Thread, NEW u \in Thread, CallInit(t, u) PROVE IInv' /\ KeepsCPU
  <2>1. /\ Scheduled(k, TRUE) /\ ~k.pendsv /\ t = k.current /\ pc[t] = "run"
        /\ k.state[t] = "READY"
    BY <1>4, CallMeets DEF CallInit
  <2>2. Good(k') /\ OnlyThread(k', k, u) /\ k'.state[u] = "STOP" /\ Uninherited(k')
    BY <1>0, <1>4, ThreadInitFacts DEF CallInit
  <2>3. u # t
    BY <1>4, <2>1 DEF CallInit
  <2>4. Scheduled(k', TRUE)
    BY <2>1, <2>2, <2>3, OtherScheduled
  <2>5. k'.current = t
    BY <2>1, <2>2 DEF OnlyThread
  <2>6. pc' \in [Thread -> {"run", "yield"}] /\ pc'[t] = "run"
    BY <1>0, <1>4, <2>1, <2>3 DEF CallInit
  <2> QED BY <2>1, <2>4, <2>5, <2>6 DEF IInv, KeepsCPU
<1>5. ASSUME NEW t \in Thread, NEW u \in Thread, NEW p \in Prio, CallSetPriority(t, u, p)
      PROVE  IInv' /\ KeepsCPU
  <2>1. Scheduled(k, TRUE) /\ ~k.pendsv /\ t = k.current /\ pc[t] = "run"
    BY <1>5, CallMeets DEF CallSetPriority
  <2>2. k.state[u] = "READY" /\ k' = SetPriority(k, u, p)
    BY <1>5 DEF CallSetPriority
  <2>3. Scheduled(k', TRUE)
    BY <2>1, <2>2, SetPriorityScheduled
  <2>4. SameCPU(k', k)
    BY <2>1, <2>2, SetPriorityScheduled
  <2> QED BY <1>5, <2>1, <2>3, <2>4, RunningKeepsIInv DEF CallSetPriority, SameCPU
<1>6. ASSUME NEW t \in Thread, NEW enable \in BOOLEAN, CallSetScheduler(t, enable)
      PROVE  IInv' /\ KeepsCPU
  <2>1. Scheduled(k, TRUE) /\ ~k.pendsv /\ t = k.current /\ pc[t] = "run"
        /\ k.state[t] = "READY"
    BY <1>6, CallMeets DEF CallSetScheduler
  <2>2. Scheduled(k', TRUE) /\ k'.current = k.current
    BY <1>0, <1>6, <2>1, SetSchedulerScheduled DEF CallSetScheduler
  <2> QED BY <1>6, <2>1, <2>2, RunningKeepsIInv DEF CallSetScheduler
<1>7. ASSUME NEW t \in Thread, CallYield(t) PROVE IInv' /\ KeepsCPU
  <2>1. /\ Scheduled(k, TRUE) /\ ~k.pendsv /\ t = k.current /\ pc[t] = "run"
        /\ k.state[t] = "READY"
    BY <1>7, CallMeets DEF CallYield
  <2>2. Scheduled(k', TRUE) /\ SameThreads(k', k)
    BY <1>0, <1>7, <2>1, YieldScheduled DEF CallYield, Scheduled
  <2> QED BY <1>7, <2>1, <2>2, RunningKeepsIInv DEF CallYield, SameThreads
<1>8. ASSUME NEW t \in Thread, FinishCall(t) PROVE IInv' /\ KeepsCPU
  <2>1. ~k.pendsv /\ t = k.current /\ pc[t] = "yield"
    BY <1>8 DEF FinishCall, Running
  <2>2. k.enabled /\ ~k.queued
    BY <2>1 DEF IInv, Scheduled
  <2>3. Scheduled(k', TRUE) /\ SameThreads(k', k)
    BY <1>0, <1>8, <2>2, YieldScheduled DEF FinishCall
  <2>4. pc' \in [Thread -> {"run", "yield"}] /\ pc'[k'.current] = "run"
    BY <1>0, <1>8, <2>1, <2>3 DEF FinishCall, SameThreads
  <2> QED BY <2>2, <2>3, <2>4 DEF IInv, KeepsCPU
<1>9. CASE TickBegin
  <2>1. k' \in KernelState /\ SameButTimers(k', k) /\ k'.timers = k.timers
        /\ k'.qActive = k.qActive
    BY <1>0, <1>9, TickBeginType
  <2>2. Good(k')
    BY <1>0, <2>1, GoodButTimers DEF Good, TimersAt
  <2> QED BY <1>9, <2>1, <2>2, SameDecision DEF TickBegin, SameButTimers
<1>10. CASE QuantumExpires
  <2> DEFINE c == QuantumCallback(k)
  <2>1. Good(c) /\ SameThreads(c, k) /\ c.next = k.next /\ c.queued = k.queued
        /\ c.pendsv = k.pendsv
    BY <1>0, QuantumCallbackFacts
  <2>2. k' = TimerRemove(c, QuantumTimer) /\ pc' = pc
    BY <1>10 DEF QuantumExpires
  <2> HIDE DEF c
  <2>3. QuantumTimer \in Timer
    BY DEF Timer
  <2>4. Good(k') /\ SameButTimers(k', c)
    BY <2>1, <2>2, <2>3, TimerRemoveFacts
  <2> QED BY <2>1, <2>2, <2>4, SameDecision DEF SameButTimers, SameThreads
<1>11. CASE TickEnd
  BY <1>11, TickEndIInv
<1>12. CASE PendSV
  <2>1. k.pendsv /\ k' = [k EXCEPT !.current = k.next, !.pendsv = FALSE, !.due = FALSE]
        /\ pc' = pc
    BY <1>12 DEF PendSV
  <2>2. /\ k' \in KernelState /\ k'.current = k.next /\ ~k'.pendsv
        /\ k'.state = k.state /\ k'.prio = k.prio /\ k'.curPrio = k.curPrio
        /\ k'.where = k.where /\ k'.list = k.list /\ k'.map = k.map
        /\ k'.timers = k.timers /\ k'.qActive = k.qActive
        /\ k'.enabled = k.enabled /\ k'.queued = k.queued
    BY <1>0, <2>1 DEF KernelState
  <2>3. Loc(k') = Loc(k)
    BY <2>2, SameThreadsSameLoc
  <2>4. Good(k')
    BY <1>0, <2>2, <2>3 DEF Good, ListsAt, MapAt, TimersAt
  <2>5. k.enabled /\ ~k.queued /\ Top(k, k.next)
    BY <2>1 DEF IInv, Scheduled
  <2>6. Top(k', k'.current) /\ Uninherited(k')
    BY <1>0, <2>2, <2>5 DEF Top, Uninherited
  <2> QED BY <1>0, <2>1, <2>2, <2>4, <2>5, <2>6 DEF IInv, Scheduled, KeepsCPU
<1> QED
  BY <1>1, <1>2, <1>3, <1>4, <1>5, <1>6, <1>7, <1>8, <1>9, <1>10, <1>11, <1>12
     DEF Next, ThreadStep, Interrupt

\* The inductive invariant holds in every reachable state.
THEOREM Invariance == Spec => []IInv
<1>1. Init => IInv
  <2> SUFFICES ASSUME Init PROVE IInv
    OBVIOUS
  <2>1. PICK q \in SetToSeqs(Thread \ {Idle, Main}) : k = InitState(q)
    BY DEF Init
  <2>2. Scheduled(k, TRUE)
    BY <2>1, KernelAssumption, InitGood
  <2>3. pc = [t \in Thread |-> "run"] /\ k.current \in Thread
    BY <2>2 DEF Init, Scheduled, Good, KernelState
  <2> QED BY <2>2, <2>3 DEF IInv
<1>2. IInv /\ [Next]_vars => IInv'
  <2> SUFFICES ASSUME IInv, [Next]_vars PROVE IInv'
    OBVIOUS
  <2>1. CASE Next
    BY <2>1, KernelAssumption, NextIInv
  <2>2. CASE UNCHANGED vars
    BY <2>2 DEF vars, IInv
  <2> QED BY <2>1, <2>2
<1> QED BY <1>1, <1>2, PTL DEF Spec

\* The data keep their types: no link, map bit or timer count leaves its range
\* whatever the calls and the ticks.
THEOREM TypeCorrect == Spec => []TypeOK
<1>1. IInv => TypeOK
  BY DEF IInv, Scheduled, Good, TypeOK
<1> QED BY <1>1, Invariance, PTL

\* Consistent data have every thread on the list its state calls for.
LEMMA GoodOnOneList ==
  ASSUME KernelAssumption, Good(k)
  PROVE  OnOneList
<1> SUFFICES ASSUME NEW l \in ListId
             PROVE  /\ \A t \in Thread : t \in ToSet(k.list[l]) <=> OnItsList(t, l)
                    /\ IsInjective(k.list[l])
  BY DEF OnOneList
<1>1. k \in KernelState
  BY DEF Good
<1>2. /\ IsInjective(k.list[l])
      /\ \A t \in Thread : t \in ToSet(k.list[l]) <=> Loc(k)[t] = l
  BY DEF Good, ListsAt
<1>3. ASSUME NEW t \in Thread PROVE OnItsList(t, l) <=> Loc(k)[t] = l
  <2>1. k.state[t] \in {"READY", "BLOCKED", "STOP", "EXIT"} /\ l # NoList
    BY <1>1, ListIds DEF KernelState
  <2>2. k.state[t] = "BLOCKED" => k.where[t] \in BlockList
    BY DEF Good
  <2> QED BY <2>1, <2>2 DEF OnItsList, Loc
<1> QED BY <1>2, <1>3

\* The intrusive list nodes never link a thread twice, and the list a thread is
\* linked on is the one its state calls for (ThreadList::Add, ::Remove).
THEOREM ListsConsistent == Spec => []OnOneList
<1>1. IInv => OnOneList
  BY KernelAssumption, GoodOnOneList DEF IInv, Scheduled
<1> QED BY <1>1, Invariance, PTL

\* Schedule never dispatches the head of an empty list nor overlooks a level.
THEOREM MapConsistent == Spec => []MapMatchesLists
<1>1. IInv => MapMatchesLists
  BY DEF IInv, Scheduled, Good, MapAt, MapMatchesLists
<1> QED BY <1>1, Invariance, PTL

\* Whenever application code runs with the scheduler enabled, it is the code of
\* a READY thread of the highest priority (Scheduler::Schedule).
THEOREM StrictPriorityHolds == Spec => []StrictPriority
<1>1. IInv => StrictPriority
  BY DEF IInv, Scheduled, StrictPriority, Settled, Top
<1> QED BY <1>1, Invariance, PTL

\* The quantum timer is never linked twice (Quantum::AddThread).
THEOREM QuantumTimerLinkedOnce == Spec => []QuantumTimerOnce
<1>1. IInv => QuantumTimerOnce
  BY DEF IInv, Scheduled, Good, TimersAt, QuantumTimerOnce, IsInjective
<1> QED BY <1>1, Invariance, PTL

\* A thread that disabled the scheduler is never switched out.
THEOREM DisabledKeeps == Spec => DisabledKeepsCPU
<1>1. IInv /\ [Next]_vars => [~k.enabled => k'.current = k.current]_vars
  BY KernelAssumption, NextIInv DEF KeepsCPU, vars
<1> QED BY <1>1, Invariance, PTL DEF Spec, DisabledKeepsCPU

-----------------------------------------------------------------------------
(* A reschedule that is queued while the scheduler is disabled *)

Owed(s)      == s.queued /\ ~s.enabled
Performed(d) == IF d.enabled THEN ~d.queued /\ SchedulesTop(d) ELSE d.queued

\* What is still owed has not got lost.
LEMMA OwedIsKept ==
  ASSUME NEW d, Owed(d)
  PROVE  Performed(d)
BY DEF Owed, Performed

\* Nothing that moves a thread or a timer touches what is owed.
LEMMA OwedByThread ==
  ASSUME NEW s, Owed(s), NEW u, NEW d, OnlyThread(d, s, u)
  PROVE  Owed(d)
BY DEF Owed, OnlyThread

LEMMA OwedByTimer ==
  ASSUME NEW s, Owed(s), NEW d, SameButTimers(d, s)
  PROVE  Owed(d)
BY DEF Owed, SameButTimers, SameThreads

\* A Yield with the scheduler disabled only queues the schedule.
LEMMA YieldOwed ==
  ASSUME NEW s, Good(s), Owed(s), NEW d, d = Yield(s)
  PROVE  Owed(d)
<1>1. s \in KernelState /\ ~s.enabled
  BY DEF Good, Owed
<1>2. d = [s EXCEPT !.queued = TRUE]
  BY <1>1 DEF Yield
<1> QED BY <1>1, <1>2 DEF Owed, KernelState

\* SetScheduler performs what is owed, or leaves the scheduler disabled.
LEMMA EnablePerforms ==
  ASSUME KernelAssumption, NEW s, Good(s), Owed(s), NEW e \in BOOLEAN,
         NEW d, d = SetScheduler(s, e)
  PROVE  Performed(d)
<1>1. s \in KernelState
  BY DEF Good
<1>2. CASE ~e
  <2>1. d = [s EXCEPT !.enabled = FALSE]
    BY <1>2 DEF SetScheduler
  <2> QED BY <1>1, <2>1 DEF Owed, Performed, KernelState
<1>3. CASE e
  <2> DEFINE a == [s EXCEPT !.enabled = e]
             b == [a EXCEPT !.queued = FALSE]
  <2>1. d = Yield(b)
    BY <1>3 DEF SetScheduler, Owed
  <2>2. Good(a) /\ a.enabled = e
    BY EnabledFacts
  <2> HIDE DEF a
  <2>3. Good(b) /\ ~b.queued /\ SameThreads(b, a)
    BY <2>2, QueuedFacts
  <2> HIDE DEF b
  <2>7. b.enabled
    BY <1>3, <2>2, <2>3 DEF SameThreads
  <2>4. /\ SameThreads(d, b) /\ d.queued = b.queued /\ Top(d, d.next)
        /\ d.pendsv \/ d.next = d.current
    BY <2>1, <2>3, <2>7, YieldFacts
  <2>5. d.enabled /\ ~d.queued
    BY <2>3, <2>4, <2>7 DEF SameThreads
  <2>6. SchedulesTop(d)
    BY <2>4 DEF SchedulesTop, Top
  <2> QED BY <2>5, <2>6 DEF Performed
<1> QED BY <1>2, <1>3

LEMMA StartOwed ==
  ASSUME KernelAssumption, NEW s, Good(s), Owed(s), NEW u \in Thread, s.state[u] = "STOP",
         NEW d, d = Start(s, u)
  PROVE  Owed(d)
<1> DEFINE a == Started(s, u)
           b == QuantumRemove(a)
           c == QuantumAdd(b, u)
<1>1. a = Started(s, u) /\ b = QuantumRemove(a) /\ c = QuantumAdd(b, u)
  OBVIOUS
<1>2. d = a \/ d = Yield(c)
  BY DEF Start, Started
<1> HIDE DEF a, b, c
<1>3. Good(a) /\ Owed(a)
  BY <1>1, StartedFacts, OwedByThread
<1>4. Good(b) /\ Owed(b)
  BY <1>1, <1>3, QuantumRemoveFacts, OwedByTimer
<1>5. Good(c) /\ Owed(c)
  BY <1>1, <1>4, QuantumAddFacts, OwedByTimer
<1> QED BY <1>2, <1>3, <1>5, YieldOwed

LEMMA SetPriorityOwed ==
  ASSUME KernelAssumption, NEW s, Good(s), Owed(s), NEW u \in Thread, s.state[u] = "READY",
         NEW p \in Prio, NEW d, d = SetPriority(s, u, p)
  PROVE  Owed(d)
<1> DEFINE a == Moved(s, u, p)
<1>1. Good(a) /\ Owed(a) /\ a \in KernelState
  BY MovedFacts, OwedByThread DEF Good
<1>2. ~s.enabled /\ s.enabled \in BOOLEAN /\ a.enabled \in BOOLEAN
  BY <1>1 DEF Owed, Good, KernelState
<1>3. ASSUME NEW c, c = Moved(s, u, p), c.enabled = s.enabled
      PROVE  d = c \/ d = [c EXCEPT !.queued = TRUE]
  BY <1>2, <1>3 DEF SetPriority, Moved
<1>4. a.enabled = s.enabled
  BY <1>1, <1>2 DEF Owed
<1>5. a = Moved(s, u, p)
  OBVIOUS
<1> HIDE DEF a
<1>6. d = a \/ d = [a EXCEPT !.queued = TRUE]
  BY <1>3, <1>4, <1>5
<1>7. a.queued /\ ~a.enabled
  BY <1>1 DEF Owed
<1>8. d.queued /\ ~d.enabled
  BY <1>1, <1>6, <1>7 DEF KernelState
<1> QED BY <1>8 DEF Owed

\* No call of the scheduler loses what is owed.
LEMMA ThreadStepPerforms ==
  ASSUME KernelAssumption, Good(k), Owed(k), NEW t \in Thread, ThreadStep(t)
  PROVE  Performed(k')
<1>1. ASSUME NEW u \in Thread, CallStart(t, u) PROVE Performed(k')
  BY <1>1, StartOwed, OwedIsKept DEF CallStart
<1>2. ASSUME NEW u \in Thread, CallStop(t, u) PROVE Performed(k')
  <2>1. u # Idle /\ k.state[u] \in {"READY", "BLOCKED"} /\ k' = Stop(k, u)
    BY <1>2 DEF CallStop, MayLeave
  <2> QED BY <2>1, StopFacts, OwedByThread, OwedIsKept
<1>3. ASSUME NEW u \in Thread, CallExit(t, u) PROVE Performed(k')
  <2>1. u # Idle /\ k.state[u] \in {"READY", "BLOCKED"} /\ k' = Exit(k, u)
    BY <1>3 DEF CallExit, MayLeave
  <2> QED BY <2>1, ExitFacts, OwedByThread, OwedIsKept
<1>4. ASSUME NEW u \in Thread, CallInit(t, u) PROVE Performed(k')
  <2>1. k.state[u] = "EXIT" /\ k' = ThreadInit(k, u)
    BY <1>4 DEF CallInit
  <2> QED BY <2>1, ThreadInitFacts, OwedByThread, OwedIsKept
<1>5. ASSUME NEW u \in Thread, NEW p \in Prio, CallSetPriority(t, u, p) PROVE Performed(k')
  BY <1>5, SetPriorityOwed, OwedIsKept DEF CallSetPriority
<1>6. ASSUME NEW e \in BOOLEAN, CallSetScheduler(t, e) PROVE Performed(k')
  BY <1>6, EnablePerforms DEF CallSetScheduler
<1>7. CASE CallYield(t) \/ FinishCall(t)
  BY <1>7, YieldOwed, OwedIsKept DEF CallYield, FinishCall
<1> QED BY <1>1, <1>2, <1>3, <1>4, <1>5, <1>6, <1>7 DEF ThreadStep

\* Neither does SysTick; a switch cannot be pending.
LEMMA InterruptPerforms ==
  ASSUME KernelAssumption, Good(k), Owed(k), k.pendsv => k.enabled, Interrupt
  PROVE  Performed(k')
<1>0. k \in KernelState
  BY DEF Good
<1>1. CASE TickBegin
  BY <1>0, <1>1, TickBeginType, OwedByTimer, OwedIsKept
<1>2. CASE QuantumExpires
  <2> DEFINE c == QuantumCallback(k)
  <2>1. Good(c) /\ Owed(c)
    BY QuantumCallbackFacts DEF Owed, SameThreads
  <2>2. k' = TimerRemove(c, QuantumTimer)
    BY <1>2 DEF QuantumExpires
  <2> HIDE DEF c
  <2>3. QuantumTimer \in Timer
    BY DEF Timer
  <2>4. SameButTimers(k', c)
    BY <2>1, <2>2, <2>3, TimerRemoveFacts
  <2> QED BY <2>1, <2>4, OwedByTimer, OwedIsKept
<1>3. CASE TickEnd
  <2> DEFINE a == [k EXCEPT !.inTimer = FALSE]
             e == IF a.qAdd THEN [Yield(a) EXCEPT !.qAdd = FALSE] ELSE a
  <2>1. k' = [e EXCEPT !.due = e.pendsv]
    BY <1>3 DEF TickEnd
  <2>2. a \in KernelState /\ ~a.enabled /\ a.queued
    BY <1>0 DEF KernelState, Owed
  <2> HIDE DEF a
  <2>3. e \in KernelState /\ ~e.enabled /\ e.queued
    BY <2>2 DEF Yield, KernelState
  <2> HIDE DEF e
  <2>4. ~k'.enabled /\ k'.queued
    BY <2>1, <2>3 DEF KernelState
  <2> QED BY <2>4, OwedIsKept DEF Owed
<1>4. CASE PendSV
  BY <1>4 DEF PendSV, Owed
<1> QED BY <1>1, <1>2, <1>3, <1>4 DEF Interrupt

\* A reschedule owed since the scheduler was disabled survives everything until
\* the scheduler is enabled, and the step that enables it performs it
\* (Scheduler::SetScheduler).
THEOREM ReschedulePerformed == Spec => PerformsReschedule
<1>1. IInv /\ [Next]_vars => [k.queued => Performed(k')]_vars
  <2> SUFFICES ASSUME IInv, Next, k.queued PROVE Performed(k')
    BY DEF vars
  <2>1. Good(k) /\ Owed(k) /\ (k.pendsv => k.enabled)
    BY DEF IInv, Scheduled, Owed
  <2>2. CASE Interrupt
    BY <2>1, <2>2, KernelAssumption, InterruptPerforms
  <2>3. CASE \E t \in Thread : ThreadStep(t)
    BY <2>1, <2>3, KernelAssumption, ThreadStepPerforms
  <2> QED BY <2>2, <2>3 DEF Next
<1>2. ASSUME [k.queued => Performed(k')]_vars
      PROVE  [k.queued => IF k'.enabled THEN ~k'.queued /\ SchedulesTop(k') ELSE k'.queued]_vars
  BY <1>2 DEF Performed
<1> QED BY <1>1, <1>2, Invariance, PTL DEF Spec, PerformsReschedule

-----------------------------------------------------------------------------
(***************************************************************************)
(* Semaphores, with Post from threads and interrupts: lists, priority map  *)
(* and timer list stay consistent, and the Timer in the frame of a timed   *)
(* Pend is unlinked before the frame is gone.                              *)
(*                                                                         *)
(* Strict priority does not hold here (an interrupt may wake a thread and  *)
(* not yield), so the invariant of the scheduler is not kept.  What        *)
(* remains of it is that the CPU is always given to a READY thread.        *)
(***************************************************************************)

\* The threads other than u are where they were.
OthersStay(d, s, u) ==
  \A t \in Thread \ {u} : d.state[t] = s.state[t] /\ d.where[t] = s.where[t]

\* The inductive invariant of the kernel with semaphores.
SemInv ==
  /\ Good(k)
  /\ Dispatches(k, pc[k.current] = "yield", FALSE)
  /\ pc \in [Thread -> {"run", "yield", "pend", "timed"}]
  /\ NoDanglingTimer

-----------------------------------------------------------------------------
(* The ordered list of waiters *)

\* The walk of AddPriority stops at a node of the list, or behind its only one.
LEMMA InsertPositionRange ==
  ASSUME NEW S, NEW s \in Seq(S), s # <<>>, NEW n, NEW pri
  PROVE  InsertPosition(s, n, pri) \in 1 .. Len(s) + 1
<1> DEFINE lower == {i \in Compared(s) : n > pri[s[i]]}
           M == {Len(s) - i : i \in lower}
<1>1. Len(s) \in Nat /\ Len(s) > 0
  OBVIOUS
<1>2. lower \subseteq 1 .. Len(s)
  BY <1>1 DEF Compared
<1>3. CASE lower # {}
  <2> HIDE DEF lower
  <2>1. M \subseteq 0 .. Len(s) - 1 /\ M # {}
    <3>1. \A i \in 1 .. Len(s) : Len(s) - i \in 0 .. Len(s) - 1
      BY <1>1
    <3>2. \A i \in lower : Len(s) - i \in 0 .. Len(s) - 1
      BY <1>2, <3>1
    <3> QED BY <1>3, <3>2
  <2>2. PICK m \in M : \A q \in M : q <= m
    BY <1>1, <2>1, MaxExists
  <2>3. PICK i \in lower : m = Len(s) - i
    BY <2>2
  <2>4. \A j \in lower : i <= j
    <3> TAKE j \in lower
    <3>1. Len(s) - j <= Len(s) - i
      BY <2>2, <2>3
    <3> QED BY <1>1, <1>2, <3>1
  <2>5. (CHOOSE h \in lower : \A j \in lower : h <= j) \in lower
    BY <2>4
  <2> QED BY <1>1, <1>2, <1>3, <2>5 DEF InsertPosition, lower
<1>4. CASE lower = {}
  BY <1>1, <1>4 DEF InsertPosition
<1> QED BY <1>3, <1>4

\* ThreadList::AddPriority adds one thread, wherever its walk stops.
LEMMA ListAddPriorityFacts ==
  ASSUME NEW S, NEW s \in Seq(S), NEW t \in S, NEW pri
  PROVE  /\ ListAddPriority(s, t, pri) \in Seq(S)
         /\ ListAddPriority(s, t, pri) # <<>>
         /\ ToSet(ListAddPriority(s, t, pri)) = ToSet(s) \cup {t}
         /\ IsInjective(s) /\ t \notin ToSet(s) => IsInjective(ListAddPriority(s, t, pri))
<1> DEFINE r == ListAddPriority(s, t, pri)
<1>1. CASE s = <<>>
  <2>1. r = <<t>>
    BY <1>1 DEF ListAddPriority
  <2>2. ToSet(<<t>>) = {t} /\ ToSet(s) = {}
    BY <1>1 DEF ToSet
  <2>3. IsInjective(<<t>>)
    BY DEF IsInjective
  <2> QED BY <2>1, <2>2, <2>3
<1>2. CASE s # <<>>
  <2> DEFINE p == InsertPosition(s, pri[t], pri)
  <2>1. p \in 1 .. Len(s) + 1
    BY <1>2, InsertPositionRange
  <2>2. r = InsertAt(s, p, t)
    BY <1>2 DEF ListAddPriority
  <2> HIDE DEF p, r
  <2>3. r \in Seq(S) /\ ToSet(r) = ToSet(s) \cup {t}
        /\ (IsInjective(s) /\ t \notin ToSet(s) => IsInjective(r))
    BY <2>1, <2>2, InsertFacts
  <2>4. r # <<>>
    BY <2>3, EmptyList
  <2> QED BY <2>3, <2>4 DEF r
<1> QED BY <1>1, <1>2

-----------------------------------------------------------------------------
(* Blocking and waking *)

\* Thread t, off its ready list, is linked on block list b, which becomes new.
Blocked(a, t, b, new) ==
  [a EXCEPT !.list[b] = new, !.where[t] = b, !.state[t] = "BLOCKED"]

LEMMA BlockedType ==
  ASSUME NEW a \in KernelState, NEW b \in ListId, NEW t \in Thread, NEW new \in Seq(Thread),
         NEW d, d = Blocked(a, t, b, new)
  PROVE  d \in KernelState
BY DEF KernelState, Blocked

\* A READY thread moved from its ready list to a place on a block list.
LEMMA BlockedFacts ==
  ASSUME KernelAssumption, NEW s, Good(s), NEW t \in Thread, t # Idle,
         s.state[t] = "READY", NEW b \in BlockList, NEW a, a = UnlinkThread(s, s.prio[t], t),
         NEW new \in Seq(Thread), ToSet(new) = ToSet(a.list[b]) \cup {t},
         IsInjective(a.list[b]) /\ t \notin ToSet(a.list[b]) => IsInjective(new),
         NEW d, d = Blocked(a, t, b, new)
  PROVE  /\ Good(d) /\ OnlyThread(d, s, t) /\ d.timers = s.timers
         /\ d.state[t] = "BLOCKED" /\ d.where[t] = b
<1> DEFINE aloc == [Loc(s) EXCEPT ![t] = NoList]
           dloc == [aloc EXCEPT ![t] = b]
<1>0. /\ s \in KernelState /\ DOMAIN Loc(s) = Thread /\ Loc(s)[t] = s.prio[t]
      /\ ListsAt(s, Loc(s)) /\ MapAt(s)
  BY DEF Good, Loc
<1>1. s.prio[t] \in ListId /\ b \in ListId /\ b \notin Prio /\ NoList \notin ListId
  BY <1>0, ListIds DEF KernelState, KernelAssumption
<1>2. a \in KernelState /\ ListsAt(a, aloc) /\ MapAt(a) /\ SameButLists(a, s)
  BY <1>0, <1>1, UnlinkFacts
<1>3. DOMAIN aloc = Thread /\ aloc[t] = NoList /\ dloc = [Loc(s) EXCEPT ![t] = b]
  BY <1>0
<1> HIDE DEF aloc
<1>5. a.list[b] \in Seq(Thread) /\ a.list \in [ListId -> Seq(Thread)]
  BY <1>1, <1>2 DEF KernelState
<1>6. IsInjective(a.list[b]) /\ t \notin ToSet(a.list[b])
  BY <1>1, <1>2, <1>3 DEF ListsAt
<1>7. IsInjective(new)
  BY <1>6
<1>8. /\ d \in KernelState /\ d.list = [a.list EXCEPT ![b] = new]
      /\ d.state = [a.state EXCEPT ![t] = "BLOCKED"] /\ d.where = [a.where EXCEPT ![t] = b]
  <2>1. d = [a EXCEPT !.list[b] = new, !.where[t] = b, !.state[t] = "BLOCKED"]
    BY DEF Blocked
  <2>2. d \in KernelState
    BY <1>1, <1>2, BlockedType
  <2>3. /\ d.list = [a.list EXCEPT ![b] = new] /\ d.where = [a.where EXCEPT ![t] = b]
        /\ d.state = [a.state EXCEPT ![t] = "BLOCKED"]
    BY <1>2, <2>1 DEF KernelState
  <2> QED BY <2>2, <2>3
<1>9. /\ d.prio = a.prio /\ d.curPrio = a.curPrio /\ d.current = a.current
      /\ d.enabled = a.enabled /\ d.queued = a.queued /\ d.pendsv = a.pendsv
      /\ d.map = a.map /\ d.timers = a.timers /\ d.qActive = a.qActive
  BY <1>2 DEF KernelState, Blocked
<1>10. ListsAt(d, dloc)
  BY <1>1, <1>2, <1>3, <1>5, <1>7, <1>8 DEF ListsAt
<1>11. MapAt(d)
  <2>1. \A p \in Prio : d.list[p] = a.list[p]
    BY <1>1, <1>5, <1>8 DEF ListId
  <2> QED BY <1>2, <1>9, <2>1 DEF MapAt
<1> HIDE DEF dloc
<1>12. /\ d.state = [s.state EXCEPT ![t] = "BLOCKED"] /\ d.where = [s.where EXCEPT ![t] = b]
       /\ d.prio = s.prio /\ d.curPrio = s.curPrio /\ d.current = s.current
       /\ d.enabled = s.enabled /\ d.queued = s.queued /\ d.pendsv = s.pendsv
       /\ d.timers = s.timers /\ d.qActive = s.qActive
  BY <1>2, <1>8, <1>9 DEF SameButLists, SameThreads
<1>13. OnlyThread(d, s, t) /\ d.state[t] = "BLOCKED" /\ d.where[t] = b
  BY <1>0, <1>12 DEF OnlyThread, KernelState
<1>14. Loc(d)[t] = b
  BY <1>13 DEF Loc
<1>15. Good(d)
  <2>1. /\ ListsAt(d, [Loc(s) EXCEPT ![t] = Loc(d)[t]]) /\ TimersAt(d)
    BY <1>3, <1>10, <1>12, <1>14 DEF Good, TimersAt
  <2> QED BY <1>8, <1>11, <1>13, <2>1, Rehomed DEF KernelAssumption
<1> QED BY <1>12, <1>13, <1>15

\* BlockingObject::Block and BlockPriority block a READY thread on an object.
LEMMA BlockFacts ==
  ASSUME KernelAssumption, NEW s, Good(s), NEW t \in Thread, t # Idle,
         s.state[t] = "READY", NEW b \in BlockList,
         NEW d, d \in {Block(s, t, b), BlockPriority(s, t, b)}
  PROVE  /\ Good(d) /\ OnlyThread(d, s, t) /\ d.timers = s.timers
         /\ d.state[t] = "BLOCKED" /\ d.where[t] = b
<1> DEFINE a == UnlinkThread(s, s.prio[t], t)
           list == a.list[b]
           behind == ListAdd(list, t)
           placed == ListAddPriority(list, t, a.curPrio)
<1>1. s \in KernelState /\ DOMAIN Loc(s) = Thread /\ Loc(s)[t] = s.prio[t]
      /\ ListsAt(s, Loc(s)) /\ MapAt(s)
  BY DEF Good, Loc
<1>2. s.prio[t] \in ListId /\ b \in ListId /\ NoList \notin ListId
  BY <1>1, ListIds DEF KernelState
<1>3. a \in KernelState
  BY <1>1, <1>2, UnlinkFacts
<1>4. d = Blocked(a, t, b, behind) \/ d = Blocked(a, t, b, placed)
  BY DEF Block, BlockPriority, SchedulerRemove, Blocked
<1>5. list \in Seq(Thread)
  BY <1>2, <1>3 DEF KernelState
<1>6. a = UnlinkThread(s, s.prio[t], t) /\ list = a.list[b]
  OBVIOUS
<1> HIDE DEF a, list
<1>7. /\ behind \in Seq(Thread) /\ ToSet(behind) = ToSet(list) \cup {t}
      /\ IsInjective(list) /\ t \notin ToSet(list) => IsInjective(behind)
  BY <1>5, ListAddFacts
<1>8. /\ placed \in Seq(Thread) /\ ToSet(placed) = ToSet(list) \cup {t}
      /\ IsInjective(list) /\ t \notin ToSet(list) => IsInjective(placed)
  BY <1>5, ListAddPriorityFacts
<1> HIDE DEF behind, placed
<1>9. CASE d = Blocked(a, t, b, behind)
  BY <1>6, <1>7, <1>9, BlockedFacts
<1>10. CASE d = Blocked(a, t, b, placed)
  BY <1>6, <1>8, <1>10, BlockedFacts
<1> QED BY <1>4, <1>9, <1>10

\* Who waits on a blocking object: BLOCKED with m_pclCurrent set to it.
LEMMA BlockedLists ==
  ASSUME KernelAssumption, NEW s, Good(s), NEW t \in Thread, NEW b \in BlockList
  PROVE  t \in ToSet(s.list[b]) <=> s.state[t] = "BLOCKED" /\ s.where[t] = b
<1>1. b \in ListId /\ b \notin Prio /\ b # StopList /\ b # NoList
  BY DEF KernelAssumption, ListId
<1>2. s \in KernelState /\ s.prio[t] \in Prio
  BY DEF Good, KernelState
<1>3. t \in ToSet(s.list[b]) <=> Loc(s)[t] = b
  BY <1>1 DEF Good, ListsAt
<1> QED BY <1>1, <1>2, <1>3 DEF Loc

\* UnBlock makes a thread READY wherever it was, or follows a null pointer or
\* corrupts a list, in which case the model stops.
LEMMA UnBlockFacts ==
  ASSUME KernelAssumption, NEW s, Good(s), NEW t \in Thread, NEW d, d = UnBlock(s, t)
  PROVE  /\ Good(d) /\ OnlyThread(d, s, t) /\ d.timers = s.timers /\ d.next = s.next
         /\ d.state[t] \in {s.state[t], "READY"} /\ d.state[t] # "BLOCKED"
<1>0. /\ s \in KernelState /\ DOMAIN Loc(s) = Thread
      /\ ListsAt(s, Loc(s)) /\ MapAt(s)
  BY DEF Good, Loc
<1>1. CASE /\ s.where[t] = NoList \/ t \notin ToSet(s.list[s.where[t]])
           /\ d = [s EXCEPT !.fault = TRUE]
  <2>0. d \in KernelState
    BY <1>0, <1>1 DEF KernelState
  <2>1. d \in KernelState /\ SameButTimers(d, s) /\ d.timers = s.timers /\ d.qActive = s.qActive
    BY <1>1, <2>0 DEF SameButTimers, SameThreads
  <2>2. Good(d)
    BY <2>1, GoodButTimers DEF Good, TimersAt
  <2>3. s.where[t] = NoList \/ t \notin ToSet(s.list[s.where[t]])
    BY <1>1
  <2>4. s.state[t] # "BLOCKED"
    BY <2>3, BlockedLists DEF Good, KernelAssumption
  <2> QED BY <2>1, <2>2, <2>4 DEF SameButTimers, SameThreads, OnlyThread
<1>2. ASSUME NEW l, l \in ListId, t \in ToSet(s.list[l]),
             d = [SchedulerAdd(UnlinkThread(s, l, t), t) EXCEPT
                     !.where[t] = s.owner[t], !.state[t] = "READY"]
      PROVE  /\ Good(d) /\ OnlyThread(d, s, t) /\ d.timers = s.timers /\ d.next = s.next
             /\ d.state[t] = "READY"
  <2> DEFINE a == UnlinkThread(s, l, t)
             b == LinkThread(a, s.prio[t], t)
             c == [b EXCEPT !.where[t] = s.owner[t], !.state[t] = "READY"]
             aloc == [Loc(s) EXCEPT ![t] = NoList]
             bloc == [aloc EXCEPT ![t] = s.prio[t]]
  <2>1. l \in ListId /\ s.prio[t] \in ListId /\ NoList \notin ListId
        /\ s.owner[t] \in ListId \cup {NoList}
    BY <1>0, <1>2, ListIds DEF KernelState
  <2>2. Loc(s)[t] = l
    BY <1>0, <1>2, <2>1 DEF ListsAt
  <2>3. a \in KernelState /\ ListsAt(a, aloc) /\ MapAt(a) /\ SameButLists(a, s)
    BY <1>0, <2>1, <2>2, UnlinkFacts
  <2>4. DOMAIN aloc = Thread /\ aloc[t] = NoList /\ bloc = [Loc(s) EXCEPT ![t] = s.prio[t]]
    BY <1>0
  <2>5. a.prio = s.prio
    BY <2>3 DEF SameButLists, SameThreads
  <2>6. d = c
    BY <1>2, <2>5 DEF SchedulerAdd
  <2> HIDE DEF a, aloc
  <2>7. b \in KernelState /\ ListsAt(b, bloc) /\ MapAt(b) /\ SameButLists(b, a)
    BY <2>1, <2>3, <2>4, LinkFacts
  <2> HIDE DEF b, bloc
  <2>8. /\ b.state = s.state /\ b.where = s.where /\ b.prio = s.prio /\ b.curPrio = s.curPrio
        /\ b.current = s.current /\ b.enabled = s.enabled /\ b.queued = s.queued
        /\ b.pendsv = s.pendsv /\ b.timers = s.timers /\ b.qActive = s.qActive
        /\ b.next = s.next
    BY <2>3, <2>7 DEF SameButLists, SameThreads
  <2>9. /\ c \in KernelState
        /\ c.state = [b.state EXCEPT ![t] = "READY"]
        /\ c.where = [b.where EXCEPT ![t] = s.owner[t]]
    BY <2>1, <2>7 DEF KernelState
  <2>10. /\ c.prio = b.prio /\ c.curPrio = b.curPrio /\ c.current = b.current
         /\ c.enabled = b.enabled /\ c.queued = b.queued /\ c.pendsv = b.pendsv
         /\ c.next = b.next /\ c.list = b.list /\ c.map = b.map
         /\ c.timers = b.timers /\ c.qActive = b.qActive
    BY <2>7 DEF KernelState
  <2> HIDE DEF c
  <2>11. OnlyThread(c, s, t) /\ c.state[t] = "READY" /\ c.prio[t] = s.prio[t]
    BY <1>0, <2>8, <2>9, <2>10 DEF OnlyThread, KernelState
  <2>12. Loc(c)[t] = s.prio[t]
    BY <2>11 DEF Loc
  <2>13. Good(c)
    <3>1. ListsAt(c, [Loc(s) EXCEPT ![t] = Loc(c)[t]]) /\ MapAt(c) /\ TimersAt(c)
      BY <2>4, <2>7, <2>8, <2>10, <2>12 DEF Good, ListsAt, MapAt, TimersAt
    <3> QED BY <2>9, <2>11, <3>1, Rehomed DEF KernelAssumption
  <2> QED BY <2>6, <2>8, <2>10, <2>11, <2>13
<1>3. CASE /\ s.where[t] # NoList
           /\ t \in ToSet(s.list[s.where[t]]) \/ Survives(s.list[s.prio[t]], t)
           /\ d = [SchedulerAdd(UnlinkThread(s, UnlinkedFrom(s, t), t), t) EXCEPT
                     !.where[t] = s.owner[t], !.state[t] = "READY"]
  <2>1. s.where[t] \in ListId /\ s.prio[t] \in ListId
    BY <1>0, <1>3, ListIds DEF KernelState
  <2>2. Survives(s.list[s.prio[t]], t) => t \in ToSet(s.list[s.prio[t]])
    BY DEF Survives, ToSet
  <2>3. UnlinkedFrom(s, t) \in ListId /\ t \in ToSet(s.list[UnlinkedFrom(s, t)])
    BY <1>3, <2>1, <2>2 DEF UnlinkedFrom
  <2> QED BY <1>2, <1>3, <2>3
<1> QED BY <1>1, <1>3 DEF UnBlock

\* TimerList::Add of a timer that is not linked yet.
LEMMA TimerAdded ==
  ASSUME NEW s, NEW x, NEW n, NEW d, d = TimerAdd(s, x, n), Good(s), x \in Timer,
         x \notin ToSet(s.timers), x # QuantumTimer, n \in Nat
  PROVE  Good(d) /\ SameButTimers(d, s) /\ ToSet(d.timers) = ToSet(s.timers) \cup {x}
<1>1. s \in KernelState /\ s.timers \in Seq(Timer) /\ TimersAt(s)
  BY DEF Good, KernelState
<1>2. d \in KernelState /\ SameButTimers(d, s) /\ d.timers = Append(s.timers, x)
  BY <1>1, TimerAddType
<1>3. d.qActive = s.qActive
  BY <1>1 DEF TimerAdd, KernelState
<1>4. ToSet(d.timers) = ToSet(s.timers) \cup {x} /\ IsInjective(d.timers)
  BY <1>1, <1>2, AppendMembers, AppendOnce DEF TimersAt
<1>5. TimersAt(d)
  BY <1>1, <1>3, <1>4 DEF TimersAt
<1> QED BY <1>2, <1>4, <1>5, GoodButTimers

-----------------------------------------------------------------------------
(* What gives the CPU to a READY thread.  y and h say what the thread that   *)
(* runs owes: a Yield, and the end of a critical section of the scheduler.   *)

\* Yield gives the CPU to a READY thread, or queues the schedule.
LEMMA YieldDispatches ==
  ASSUME KernelAssumption, NEW s, Good(s), NEW y \in BOOLEAN, NEW h \in BOOLEAN,
         Dispatches(s, y, h), NEW d, d = Yield(s)
  PROVE  /\ Good(d) /\ Dispatches(d, y, h) /\ (s.enabled => Dispatches(d, FALSE, FALSE))
         /\ SameThreads(d, s) /\ NoNewTimer(d, s)
<1>1. /\ Good(d) /\ SameThreads(d, s) /\ NoNewTimer(d, s)
      /\ s.enabled => /\ d.queued = s.queued /\ d.state[d.next] = "READY"
                      /\ d.pendsv \/ d.next = d.current
      /\ ~s.enabled => d.queued /\ d.pendsv = s.pendsv
  BY YieldFacts DEF Top
<1> QED BY <1>1 DEF Dispatches, SameThreads

\* UnBlock makes a thread READY and changes nothing else that matters.
LEMMA UnBlockDispatches ==
  ASSUME KernelAssumption, NEW s, Good(s), NEW y \in BOOLEAN, NEW h \in BOOLEAN,
         Dispatches(s, y, h), NEW t \in Thread, NEW d, d = UnBlock(s, t)
  PROVE  /\ Good(d) /\ Dispatches(d, y, h) /\ d.timers = s.timers
         /\ d.current = s.current /\ d.enabled = s.enabled /\ OthersStay(d, s, t)
         /\ d.state[t] \in {s.state[t], "READY"} /\ d.state[t] # "BLOCKED"
<1>1. /\ Good(d) /\ OnlyThread(d, s, t) /\ d.timers = s.timers /\ d.next = s.next
      /\ d.state[t] \in {s.state[t], "READY"} /\ d.state[t] # "BLOCKED"
  BY UnBlockFacts
<1>2. s.next \in Thread /\ s.current \in Thread
  BY DEF Good, KernelState
<1>3. \A u \in Thread : s.state[u] = "READY" => d.state[u] = "READY"
  BY <1>1 DEF OnlyThread
<1>4. OthersStay(d, s, t)
  BY <1>1 DEF OnlyThread, OthersStay
<1> QED BY <1>1, <1>2, <1>3, <1>4 DEF OnlyThread, Dispatches

\* What a handler or a timer callback does to wake a thread.
LEMMA WakeDispatches ==
  ASSUME KernelAssumption, NEW s, Good(s), NEW y \in BOOLEAN, NEW h \in BOOLEAN,
         Dispatches(s, y, h), NEW t \in Thread, NEW u, u = UnBlock(s, t),
         NEW d, d = IF Preempts(u, t) THEN Yield(u) ELSE u
  PROVE  /\ Good(d) /\ Dispatches(d, y, h) /\ d.current = s.current /\ NoNewTimer(d, s)
         /\ OthersStay(d, s, t)
         /\ d.state[t] \in {s.state[t], "READY"} /\ d.state[t] # "BLOCKED"
<1>1. /\ Good(u) /\ Dispatches(u, y, h) /\ u.timers = s.timers /\ u.current = s.current
      /\ OthersStay(u, s, t)
      /\ u.state[t] \in {s.state[t], "READY"} /\ u.state[t] # "BLOCKED"
  BY UnBlockDispatches
<1>2. CASE Preempts(u, t)
  <2>1. d = Yield(u)
    BY <1>2
  <2>2. Good(d) /\ Dispatches(d, y, h) /\ SameThreads(d, u) /\ NoNewTimer(d, u)
    BY <1>1, <2>1, YieldDispatches
  <2> QED BY <1>1, <2>2 DEF SameThreads, NoNewTimer, OthersStay
<1>3. CASE ~Preempts(u, t)
  BY <1>1, <1>3 DEF NoNewTimer
<1> QED BY <1>2, <1>3

\* A step that moves one thread, and leaves the running one READY.
LEMMA OtherDispatches ==
  ASSUME NEW s, Good(s), Dispatches(s, FALSE, FALSE), ~s.pendsv, NEW u \in Thread,
         NEW d, OnlyThread(d, s, u), u # s.current \/ d.state[u] = "READY"
  PROVE  /\ Dispatches(d, FALSE, FALSE) /\ d.state[d.current] = "READY"
         /\ d.current = s.current /\ OthersStay(d, s, u)
<1>1. s.current \in Thread
  BY DEF Good, KernelState
<1> QED BY <1>1 DEF Dispatches, OnlyThread, OthersStay

\* The scheduler is switched, and no thread has moved.
Toggled(d, s, e) ==
  /\ Good(d) /\ NoNewTimer(d, s)
  /\ d.state = s.state /\ d.where = s.where /\ d.prio = s.prio
  /\ d.current = s.current /\ d.enabled = e

\* Enabling the scheduler performs what was queued; a READY thread may disable it.
LEMMA SetSchedulerDispatches ==
  ASSUME KernelAssumption, NEW s, NEW e, NEW d, d = SetScheduler(s, e), e \in BOOLEAN,
         NEW y, NEW h, y \in BOOLEAN, h \in BOOLEAN, Good(s), Dispatches(s, y, h),
         e \/ (~s.pendsv /\ s.state[s.current] = "READY")
  PROVE  Dispatches(d, y, FALSE) /\ Toggled(d, s, e)
<1> DEFINE a == [s EXCEPT !.enabled = e]
           b == [a EXCEPT !.queued = FALSE]
<1>0. s.enabled \in BOOLEAN /\ s.pendsv \in BOOLEAN
  BY DEF Good, KernelState
<1>1. d = IF e /\ s.queued THEN Yield(b) ELSE a
  BY DEF SetScheduler
<1>2. /\ Good(a) /\ a.enabled = e /\ a.queued = s.queued /\ a.state = s.state
      /\ a.where = s.where /\ a.prio = s.prio /\ a.current = s.current
      /\ a.pendsv = s.pendsv /\ a.next = s.next /\ a.timers = s.timers
  BY EnabledFacts
<1> HIDE DEF a
<1>3. CASE e /\ s.queued
  <2>1. /\ Good(b) /\ ~b.queued /\ SameThreads(b, a) /\ b.timers = a.timers
        /\ b.pendsv = a.pendsv /\ b.next = a.next
    BY <1>2, QueuedFacts
  <2>2. d = Yield(b)
    BY <1>1, <1>3
  <2> HIDE DEF b
  <2>3. ~b.pendsv /\ b.enabled
    <3>1. ~s.pendsv
      BY <1>0, <1>3 DEF Dispatches
    <3>2. b.enabled = a.enabled
      BY <2>1 DEF SameThreads
    <3> QED BY <1>2, <1>3, <2>1, <3>1, <3>2
  <2>4. Dispatches(b, TRUE, FALSE)
    BY <2>1, <2>3 DEF Dispatches
  <2>5. Good(d) /\ Dispatches(d, FALSE, FALSE) /\ SameThreads(d, b) /\ NoNewTimer(d, b)
    BY <2>1, <2>2, <2>3, <2>4, YieldDispatches
  <2>6. Dispatches(d, y, FALSE)
    BY <2>5 DEF Dispatches
  <2> QED BY <1>2, <1>3, <2>1, <2>3, <2>5, <2>6 DEF SameThreads, NoNewTimer, Toggled
<1>4. CASE ~(e /\ s.queued)
  <2>1. d = a
    BY <1>1, <1>4
  <2>2. Dispatches(a, y, FALSE)
    BY <1>0, <1>2, <1>4 DEF Dispatches
  <2> QED BY <1>2, <2>1, <2>2 DEF NoNewTimer, Toggled
<1> QED BY <1>3, <1>4

\* A call that makes u READY, or leaves it so, and touches no other thread.
Readies(d, s, u) ==
  /\ Good(d) /\ Dispatches(d, FALSE, FALSE) /\ NoNewTimer(d, s)
  /\ d.current = s.current /\ d.enabled = s.enabled /\ OthersStay(d, s, u)
  /\ d.state[u] = "READY"

\* Thread::Start.
LEMMA StartDispatches ==
  ASSUME KernelAssumption, NEW s, Good(s), Dispatches(s, FALSE, FALSE), ~s.pendsv,
         NEW u \in Thread, s.state[u] = "STOP", NEW d, d = Start(s, u)
  PROVE  Readies(d, s, u)
<1> DEFINE a == Started(s, u)
           r == QuantumRemove(a)
           q == QuantumAdd(r, u)
<1>1. Good(a) /\ OnlyThread(a, s, u) /\ a.timers = s.timers /\ a.state[u] = "READY"
  BY StartedFacts
<1>2. d = IF a.curPrio[u] < a.curPrio[a.current] THEN a ELSE Yield(q)
  BY DEF Start, Started
<1> HIDE DEF a
<1>3. /\ Dispatches(a, FALSE, FALSE) /\ OthersStay(a, s, u)
      /\ a.current = s.current /\ a.enabled = s.enabled
  BY <1>1, OtherDispatches DEF OnlyThread
<1>4. CASE a.curPrio[u] < a.curPrio[a.current]
  BY <1>1, <1>2, <1>3, <1>4 DEF NoNewTimer, Readies
<1>5. CASE ~(a.curPrio[u] < a.curPrio[a.current])
  <2>1. Good(r) /\ SameButTimers(r, a) /\ NoNewTimer(r, a)
    BY <1>1, QuantumRemoveFacts
  <2> HIDE DEF r
  <2>2. Good(q) /\ SameButTimers(q, r) /\ NoNewTimer(q, r)
    BY <2>1, QuantumAddFacts
  <2>3. d = Yield(q)
    BY <1>2, <1>5
  <2> HIDE DEF q
  <2>4. /\ q.state = a.state /\ q.where = a.where /\ q.current = a.current
        /\ q.enabled = a.enabled /\ Dispatches(q, FALSE, FALSE)
    BY <1>3, <2>1, <2>2 DEF SameButTimers, SameThreads, Dispatches
  <2>5. Good(d) /\ Dispatches(d, FALSE, FALSE) /\ SameThreads(d, q) /\ NoNewTimer(d, q)
    BY <2>2, <2>3, <2>4, YieldDispatches
  <2>6. NoNewTimer(d, s)
    BY <1>1, <2>1, <2>2, <2>5 DEF NoNewTimer
  <2>7. /\ d.state = a.state /\ d.where = a.where /\ d.current = s.current
        /\ d.enabled = s.enabled
    BY <1>3, <2>4, <2>5 DEF SameThreads
  <2>8. OthersStay(d, s, u)
    BY <1>3, <2>7 DEF OthersStay
  <2> QED BY <1>1, <2>5, <2>6, <2>7, <2>8 DEF Readies
<1> QED BY <1>4, <1>5

\* What takes a thread away takes the CPU from it only if the scheduler is on.
LEMMA LeaveDispatches ==
  ASSUME NEW s, Good(s), Dispatches(s, FALSE, FALSE), ~s.pendsv, NEW u \in Thread,
         NEW d, OnlyThread(d, s, u), u = s.current => s.enabled
  PROVE  /\ d.current = s.current /\ OthersStay(d, s, u)
         /\ u # s.current => Dispatches(d, FALSE, FALSE)
         /\ u = s.current => Dispatches(d, TRUE, FALSE)
<1>1. CASE u # s.current
  <2>1. Dispatches(d, FALSE, FALSE)
    BY <1>1, OtherDispatches
  <2> QED BY <1>1, <2>1 DEF OnlyThread, OthersStay
<1>2. CASE u = s.current
  BY <1>2 DEF OnlyThread, OthersStay, Dispatches
<1> QED BY <1>1, <1>2

\* Thread::SetPriority of a READY thread.
LEMMA SetPriorityDispatches ==
  ASSUME KernelAssumption, NEW s, NEW u, NEW p, NEW d, d = SetPriority(s, u, p),
         u \in Thread, p \in Prio, Good(s), Dispatches(s, FALSE, FALSE), ~s.pendsv,
         s.state[u] = "READY"
  PROVE  Readies(d, s, u)
<1> DEFINE a == Moved(s, u, p)
           c == Schedule(a)
           reschedule == s.current = u \/ p > s.prio[s.current]
<1>0. s.enabled \in BOOLEAN
  BY DEF Good, KernelState
<1>1. Good(a) /\ OnlyThread(a, s, u) /\ a.timers = s.timers /\ a.state[u] = "READY"
  BY MovedFacts
<1>2. d = IF ~reschedule THEN a
          ELSE IF s.enabled THEN SwitchToNext(c) ELSE [a EXCEPT !.queued = TRUE]
  BY DEF SetPriority, Moved
<1> HIDE DEF a, reschedule
<1>3. /\ Dispatches(a, FALSE, FALSE) /\ a.state[a.current] = "READY"
      /\ a.current = s.current /\ OthersStay(a, s, u)
  BY <1>1, OtherDispatches
<1>4. a.enabled = s.enabled /\ a.queued = s.queued /\ a.pendsv = s.pendsv
  BY <1>1 DEF OnlyThread
<1>5. CASE ~reschedule
  BY <1>1, <1>2, <1>3, <1>4, <1>5 DEF NoNewTimer, Readies
<1>6. CASE reschedule /\ s.enabled
  <2>1. /\ Good(c) /\ SameThreads(c, a) /\ c.queued = a.queued /\ c.timers = a.timers
        /\ Top(c, c.next)
    BY <1>1, ScheduleFacts
  <2>2. d = SwitchToNext(c)
    BY <1>2, <1>6
  <2> HIDE DEF c
  <2>3. /\ Good(d) /\ SameThreads(d, c) /\ d.next = c.next
        /\ d.queued = c.queued /\ d.pendsv /\ NoNewTimer(d, c)
    BY <2>1, <2>2, SwitchFacts
  <2>4. Dispatches(d, FALSE, FALSE)
    BY <1>3, <1>4, <1>6, <2>1, <2>3 DEF Dispatches, Top, SameThreads
  <2>5. /\ d.state = a.state /\ d.where = a.where /\ d.current = s.current
        /\ d.enabled = s.enabled
    BY <1>3, <1>4, <2>1, <2>3 DEF SameThreads
  <2>6. NoNewTimer(d, s)
    BY <1>1, <2>1, <2>3 DEF NoNewTimer
  <2>7. OthersStay(d, s, u)
    BY <1>3, <2>5 DEF OthersStay
  <2> QED BY <1>1, <2>3, <2>4, <2>5, <2>6, <2>7 DEF Readies
<1>7. CASE reschedule /\ ~s.enabled
  <2>1. d = [a EXCEPT !.queued = TRUE]
    BY <1>2, <1>7
  <2>2. /\ Good(d) /\ SameThreads(d, a) /\ d.pendsv = a.pendsv /\ d.timers = a.timers
    BY <1>1, <2>1, QueuedFacts
  <2>3. Dispatches(d, FALSE, FALSE)
    BY <1>3, <1>4, <1>7, <2>2 DEF Dispatches, SameThreads
  <2> QED BY <1>1, <1>3, <1>4, <2>2, <2>3 DEF NoNewTimer, SameThreads, OthersStay, Readies
<1> QED BY <1>0, <1>5, <1>6, <1>7

\* The running thread t has blocked on b.
Blocks(d, s, t, b) ==
  /\ Good(d) /\ NoNewTimer(d, s) /\ d.current = t /\ OthersStay(d, s, t)
  /\ d.state[t] = "BLOCKED" /\ d.where[t] = b

\* Pend and the Wait of an event flag block and yield in one critical section.
LEMMA WaitDispatches ==
  ASSUME KernelAssumption, NEW s, NEW t, NEW b, NEW d, d = Yield(BlockPriority(s, t, b)),
         Good(s), Dispatches(s, FALSE, FALSE), ~s.pendsv, s.enabled,
         t \in Thread, t = s.current, t # Idle, b \in BlockList
  PROVE  Blocks(d, s, t, b) /\ Dispatches(d, FALSE, FALSE)
<1> DEFINE a == BlockPriority(s, t, b)
<1>1. /\ Good(a) /\ Dispatches(a, TRUE, FALSE) /\ OnlyThread(a, s, t) /\ OthersStay(a, s, t)
      /\ a.timers = s.timers /\ a.state[t] = "BLOCKED" /\ a.where[t] = b
  <2>1. a \in {Block(s, t, b), BlockPriority(s, t, b)}
    OBVIOUS
  <2> HIDE DEF a
  <2>2. s.state[t] = "READY"
    BY DEF Dispatches
  <2>3. /\ Good(a) /\ OnlyThread(a, s, t) /\ a.timers = s.timers
        /\ a.state[t] = "BLOCKED" /\ a.where[t] = b
    BY <2>1, <2>2, BlockFacts
  <2> QED BY <2>3 DEF OnlyThread, OthersStay, Dispatches
<1> HIDE DEF a
<1>2. a.enabled /\ a.current = t
  BY <1>1 DEF OnlyThread
<1>3. d = Yield(a)
  BY DEF a
<1>4. Good(d) /\ Dispatches(d, FALSE, FALSE) /\ SameThreads(d, a) /\ NoNewTimer(d, a)
  BY <1>1, <1>2, <1>3, YieldDispatches
<1>5. d.state = a.state /\ d.where = a.where /\ d.current = t
  BY <1>2, <1>4 DEF SameThreads
<1>6. OthersStay(d, s, t)
  BY <1>1, <1>5 DEF OthersStay
<1>7. NoNewTimer(d, s)
  BY <1>1, <1>4 DEF NoNewTimer
<1> QED BY <1>1, <1>4, <1>5, <1>6, <1>7 DEF Blocks

-----------------------------------------------------------------------------
(* The actions of the scheduler *)

\* What a call of the scheduler may do to a thread: nothing, make it READY
\* unless it is BLOCKED, or take it away for good, with its m_clTimer.
Departs(d, s, u) ==
  \/ d.state[u] = s.state[u] /\ d.where[u] = s.where[u]
  \/ d.state[u] = "READY" /\ s.state[u] \in {"READY", "STOP"}
  \/ /\ \/ d.state[u] = "STOP" /\ "Stop" \in Calls
        \/ d.state[u] = "EXIT" /\ "Exit" \in Calls
     /\ SleepTimer(u) \notin ToSet(d.timers)

\* Thread t goes on at the place `at`, owing a Yield only there.
GoesOn(t, at) == pc' = [pc EXCEPT ![t] = at] /\ Dispatches(k', at = "yield", FALSE)

\* Whatever concerns thread u alone, the others have not moved.
LEMMA OthersDepart ==
  ASSUME NEW d, NEW s, NEW u \in Thread, OthersStay(d, s, u), Departs(d, s, u)
  PROVE  \A v \in Thread : Departs(d, s, v)
BY DEF OthersStay, Departs

\* SysTick from its entry to its end, and PendSV, leave every thread where it is.
LEMMA InterruptDispatches ==
  ASSUME KernelAssumption, Good(k), NEW y \in BOOLEAN, NEW h \in BOOLEAN,
         Dispatches(k, y, h), Interrupt
  PROVE  /\ Good(k') /\ k'.state = k.state /\ k'.where = k.where /\ NoNewTimer(k', k)
         /\ pc' = pc
         /\ \/ k'.current = k.current /\ Dispatches(k', y, h)
            \/ Dispatches(k', FALSE, FALSE)
<1>0. k \in KernelState
  BY DEF Good
<1>1. CASE TickBegin
  <2>1. k' \in KernelState /\ SameButTimers(k', k) /\ k'.timers = k.timers
        /\ k'.qActive = k.qActive
    BY <1>0, <1>1, TickBeginType
  <2>2. Good(k')
    BY <2>1, GoodButTimers DEF Good, TimersAt
  <2>3. Dispatches(k', y, h)
    BY <2>1 DEF SameButTimers, SameThreads, Dispatches
  <2> QED BY <1>1, <2>1, <2>2, <2>3 DEF TickBegin, SameButTimers, SameThreads, NoNewTimer
<1>2. CASE QuantumExpires
  <2> DEFINE c == QuantumCallback(k)
  <2>1. Good(c) /\ SameThreads(c, k) /\ c.timers = k.timers /\ c.next = k.next
        /\ c.queued = k.queued /\ c.pendsv = k.pendsv
    BY QuantumCallbackFacts
  <2>2. k' = TimerRemove(c, QuantumTimer) /\ pc' = pc
    BY <1>2 DEF QuantumExpires
  <2> HIDE DEF c
  <2>3. Good(k') /\ SameButTimers(k', c) /\ ToSet(k'.timers) \subseteq ToSet(c.timers)
    BY <2>1, <2>2, TimerRemoveFacts DEF Timer
  <2>4. Dispatches(k', y, h)
    BY <2>1, <2>3 DEF SameButTimers, SameThreads, Dispatches
  <2> QED BY <2>1, <2>2, <2>3, <2>4 DEF SameButTimers, SameThreads, NoNewTimer
<1>3. CASE TickEnd
  <2> DEFINE a == [k EXCEPT !.inTimer = FALSE]
             b == Yield(a)
             e == IF a.qAdd THEN [b EXCEPT !.qAdd = FALSE] ELSE a
             same(d, s) == /\ d \in KernelState /\ SameButTimers(d, s)
                           /\ d.timers = s.timers /\ d.qActive = s.qActive
  <2>1. k' = [e EXCEPT !.due = e.pendsv] /\ pc' = pc
    BY <1>3 DEF TickEnd
  <2>2. same(a, k)
    BY <1>0 DEF KernelState, SameButTimers, SameThreads
  <2>3. Good(a)
    BY <2>2, GoodButTimers DEF Good, TimersAt
  <2>4. Dispatches(a, y, h)
    BY <2>2 DEF SameButTimers, SameThreads, Dispatches
  <2>5. b = Yield(a)
    OBVIOUS
  <2> HIDE DEF a, b
  <2>6. Good(b) /\ Dispatches(b, y, h) /\ SameThreads(b, a) /\ NoNewTimer(b, a)
    BY <2>3, <2>4, <2>5, YieldDispatches
  <2>7. PICK c \in {a, b} : same(k', c)
    <3>1. CASE ~a.qAdd
      <4>1. e = a
        BY <3>1
      <4> HIDE DEF e
      <4> QED BY <2>1, <2>2, <4>1 DEF KernelState, SameButTimers, SameThreads
    <3>2. CASE a.qAdd
      <4>1. e = [b EXCEPT !.qAdd = FALSE]
        BY <3>2
      <4> HIDE DEF e
      <4>2. same(e, b)
        BY <2>6, <4>1 DEF Good, KernelState, SameButTimers, SameThreads
      <4>3. same(k', e)
        BY <2>1, <4>2 DEF KernelState, SameButTimers, SameThreads
      <4> QED BY <4>2, <4>3 DEF SameButTimers, SameThreads
    <3> QED BY <3>1, <3>2
  <2>8. /\ Good(c) /\ Dispatches(c, y, h) /\ NoNewTimer(c, a)
        /\ c.state = a.state /\ c.where = a.where /\ c.current = a.current
    BY <2>3, <2>4, <2>6 DEF SameThreads, NoNewTimer
  <2>9. Good(k')
    BY <2>7, <2>8, GoodButTimers DEF Good, TimersAt
  <2>10. Dispatches(k', y, h)
    BY <2>7, <2>8 DEF Dispatches, SameButTimers, SameThreads
  <2>11. NoNewTimer(k', k)
    BY <2>2, <2>7, <2>8 DEF NoNewTimer
  <2> QED BY <2>1, <2>2, <2>7, <2>8, <2>9, <2>10, <2>11 DEF SameButTimers, SameThreads
<1>4. CASE PendSV
  <2>1. k.pendsv /\ k' = [k EXCEPT !.current = k.next, !.pendsv = FALSE, !.due = FALSE]
        /\ pc' = pc
    BY <1>4 DEF PendSV
  <2>2. /\ k' \in KernelState /\ k'.current = k.next /\ ~k'.pendsv
        /\ k'.state = k.state /\ k'.prio = k.prio
        /\ k'.where = k.where /\ k'.list = k.list /\ k'.map = k.map
        /\ k'.timers = k.timers /\ k'.qActive = k.qActive
        /\ k'.enabled = k.enabled /\ k'.queued = k.queued
    BY <1>0, <2>1 DEF KernelState
  <2>3. Good(k')
    BY <2>2, GoodButFlags
  <2>4. Dispatches(k', FALSE, FALSE)
    BY <2>1, <2>2 DEF Dispatches
  <2> QED BY <2>1, <2>2, <2>3, <2>4 DEF NoNewTimer
<1> QED BY <1>1, <1>2, <1>3, <1>4 DEF Interrupt

\* Every call of the scheduler keeps the CPU with a READY thread.  A thread that
\* exited is not initialised again.
LEMMA ThreadStepDispatches ==
  ASSUME KernelAssumption, "Init" \notin Calls, NEW S, pc \in [Thread -> S], Good(k),
         NEW t \in Thread, Dispatches(k, pc[t] = "yield", FALSE), ThreadStep(t)
  PROVE  /\ Good(k') /\ NoNewTimer(k', k) /\ k.current = t /\ k'.current = t
         /\ pc[t] \in {"run", "yield"} /\ (\E at \in {"run", "yield"} : GoesOn(t, at))
         /\ \A u \in Thread : Departs(k', k, u)
<1> DEFINE Goal == /\ Good(k') /\ NoNewTimer(k', k) /\ k'.current = t
                   /\ \E at \in {"run", "yield"} : GoesOn(t, at)
                   /\ \A u \in Thread : Departs(k', k, u)
<1>1. /\ Running(t) /\ t = k.current /\ ~k.pendsv /\ k.enabled \in BOOLEAN
      /\ pc[t] \in {"run", "yield"}
  BY DEF ThreadStep, CallStart, CallStop, CallExit, CallInit, CallSetPriority,
         CallSetScheduler, CallYield, FinishCall, Calling, Running, Good, KernelState
<1>2. ASSUME pc[t] = "run" PROVE Dispatches(k, FALSE, FALSE) /\ k.state[t] = "READY"
  BY <1>1, <1>2 DEF Dispatches
<1>3. ASSUME pc[t] = "run", pc' = pc, Dispatches(k', FALSE, FALSE) PROVE GoesOn(t, "run")
  BY <1>3 DEF GoesOn, Dispatches
<1>4. ASSUME NEW call, NEW u \in Thread, Calling(t, call), MayLeave(t, u), YieldIfSelf(t, u),
             \/ call = "Stop" /\ k' = Stop(k, u)
             \/ call = "Exit" /\ k' = Exit(k, u)
      PROVE  Goal
  <2>1. /\ pc[t] = "run" /\ call \in Calls /\ u # Idle /\ k.state[u] \in {"READY", "BLOCKED"}
        /\ u = k.current => k.enabled
    BY <1>1, <1>4 DEF Calling, MayLeave
  <2>2. /\ Good(k') /\ OnlyThread(k', k, u) /\ NoNewTimer(k', k)
        /\ SleepTimer(u) \notin ToSet(k'.timers)
        /\ \/ k'.state[u] = "STOP" /\ "Stop" \in Calls
           \/ k'.state[u] = "EXIT" /\ "Exit" \in Calls
    <3>1. CASE call = "Stop" /\ k' = Stop(k, u)
      BY <1>1, <2>1, <3>1, StopFacts
    <3>2. CASE call = "Exit" /\ k' = Exit(k, u)
      BY <1>1, <2>1, <3>2, ExitFacts
    <3> QED BY <1>4, <3>1, <3>2
  <2>3. /\ k'.current = k.current /\ OthersStay(k', k, u)
        /\ u # k.current => Dispatches(k', FALSE, FALSE)
        /\ u = k.current => Dispatches(k', TRUE, FALSE)
    BY <1>1, <1>2, <2>1, <2>2, LeaveDispatches
  <2>4. \A v \in Thread : Departs(k', k, v)
    BY <2>2, <2>3, OthersDepart DEF Departs
  <2>5. \E at \in {"run", "yield"} : GoesOn(t, at)
    <3>1. CASE u = t
      <4>1. pc' = [pc EXCEPT ![t] = "yield"] /\ Dispatches(k', TRUE, FALSE)
        BY <1>1, <1>4, <2>3, <3>1 DEF YieldIfSelf
      <4> QED BY <4>1 DEF GoesOn, Dispatches
    <3>2. CASE u # t
      <4>1. pc' = pc /\ Dispatches(k', FALSE, FALSE)
        BY <1>1, <1>4, <2>3, <3>2 DEF YieldIfSelf
      <4> QED BY <1>3, <2>1, <4>1
    <3> QED BY <3>1, <3>2
  <2> QED BY <1>1, <2>2, <2>3, <2>4, <2>5
<1>5. ASSUME NEW u \in Thread, CallStart(t, u) PROVE Goal
  <2>1. k' = Start(k, u) /\ k.state[u] = "STOP" /\ pc' = pc /\ pc[t] = "run"
    BY <1>5 DEF CallStart, Calling
  <2>0. Dispatches(k, FALSE, FALSE) /\ ~k.pendsv /\ k.state[k.current] = "READY"
    BY <1>1, <1>2, <2>1
  <2>2. Readies(k', k, u)
    BY <2>0, <2>1, StartDispatches
  <2>3. \A v \in Thread : Departs(k', k, v)
    BY <2>1, <2>2, OthersDepart DEF Departs, Readies
  <2> QED BY <1>1, <1>3, <2>1, <2>2, <2>3 DEF Readies
<1>6. ASSUME NEW u \in Thread, NEW p \in Prio, CallSetPriority(t, u, p) PROVE Goal
  <2>1. k' = SetPriority(k, u, p) /\ k.state[u] = "READY" /\ pc' = pc /\ pc[t] = "run"
    BY <1>6 DEF CallSetPriority, Calling
  <2>0. Dispatches(k, FALSE, FALSE) /\ ~k.pendsv /\ k.state[k.current] = "READY"
    BY <1>1, <1>2, <2>1
  <2>2. Readies(k', k, u)
    BY <2>0, <2>1, SetPriorityDispatches
  <2>3. \A v \in Thread : Departs(k', k, v)
    BY <2>1, <2>2, OthersDepart DEF Departs, Readies
  <2> QED BY <1>1, <1>3, <2>1, <2>2, <2>3 DEF Readies
<1>7. ASSUME NEW e \in BOOLEAN, CallSetScheduler(t, e) PROVE Goal
  <2>1. k' = SetScheduler(k, e) /\ pc' = pc /\ pc[t] = "run"
    BY <1>7 DEF CallSetScheduler, Calling
  <2>0. Dispatches(k, FALSE, FALSE) /\ ~k.pendsv /\ k.state[k.current] = "READY"
    BY <1>1, <1>2, <2>1
  <2>2. Dispatches(k', FALSE, FALSE) /\ Toggled(k', k, e)
    BY <2>0, <2>1, SetSchedulerDispatches
  <2> QED BY <1>1, <1>3, <2>1, <2>2 DEF Departs, Toggled
<1>8. ASSUME k' = Yield(k), pc' = [pc EXCEPT ![t] = "run"] PROVE Goal
  <2>0. PICK owes \in BOOLEAN : owes <=> pc[t] = "yield"
    OBVIOUS
  <2>1. Dispatches(k, owes, FALSE)
    BY <2>0 DEF Dispatches
  <2>2. /\ Good(k') /\ Dispatches(k', owes, FALSE) /\ SameThreads(k', k) /\ NoNewTimer(k', k)
        /\ k.enabled => Dispatches(k', FALSE, FALSE)
    BY <1>8, <2>1, YieldDispatches
  <2>3. Dispatches(k', FALSE, FALSE)
    BY <2>2 DEF Dispatches, SameThreads
  <2>4. GoesOn(t, "run")
    BY <1>8, <2>3 DEF GoesOn, Dispatches
  <2> QED BY <1>1, <2>2, <2>4 DEF SameThreads, Departs
<1>9. ASSUME NEW u \in Thread, CallInit(t, u) PROVE FALSE
  BY <1>9 DEF CallInit, Calling
<1>10. ASSUME CallYield(t) \/ FinishCall(t) PROVE Goal
  <2>1. k' = Yield(k) /\ pc' = [pc EXCEPT ![t] = "run"]
    BY <1>10 DEF CallYield, FinishCall, Calling
  <2> QED BY <1>1, <1>8, <2>1
<1>11. ASSUME NEW u \in Thread, CallStop(t, u) \/ CallExit(t, u) PROVE Goal
  <2>1. CASE CallStop(t, u)
    BY <1>4, <2>1 DEF CallStop
  <2>2. CASE CallExit(t, u)
    BY <1>4, <2>2 DEF CallExit
  <2> QED BY <1>11, <2>1, <2>2
<1> HIDE DEF Goal
<1>12. Goal
  <2>1. CASE \E u \in Thread : CallStart(t, u) \/ CallStop(t, u) \/ CallExit(t, u) \/ CallInit(t, u)
    BY <1>5, <1>9, <1>11, <2>1
  <2>2. CASE \E u \in Thread, p \in Prio : CallSetPriority(t, u, p)
    BY <1>6, <2>2
  <2>3. CASE \E e \in BOOLEAN : CallSetScheduler(t, e)
    BY <1>7, <2>3
  <2> QED BY <1>10, <2>1, <2>2, <2>3 DEF ThreadStep
<1> QED BY <1>1, <1>12 DEF Goal

-----------------------------------------------------------------------------
(* Waking the threads of a list one after the other.  FoldLeft is defined    *)
(* by a function on sets of positions, chosen by what it satisfies: that     *)
(* there is one is shown by a least length for which there is none.          *)

UnBlockList(s, list, who) ==
  FoldLeft(LAMBDA d, t : IF t \in who THEN UnBlock(d, t) ELSE d, s, list)
UnBlockOne(d, t, who) == IF t \in who THEN UnBlock(d, t) ELSE d

\* The value of such a function at s: the last position of s is undone.
Undone(g, done, s, list, who) ==
  IF s = {} THEN done ELSE UnBlockOne(g[s \ {Max(s)}], list[Max(s)], who)

\* g is the function of the walk over the first n elements of list.
IsFold(g, done, n, list, who) ==
  g = [s \in SUBSET (1 .. n) |-> Undone(g, done, s, list, who)]

\* The definition of FoldLeft.
LEMMA FoldIs ==
  ASSUME NEW S, NEW list \in Seq(S), NEW done, NEW who, NEW f, f = UnBlockList(done, list, who)
  PROVE  f = (CHOOSE g : IsFold(g, done, Len(list), list, who))[1 .. Len(list)]
<1>1. DOMAIN list = 1 .. Len(list)
  OBVIOUS
<1> QED BY <1>1 DEF UnBlockList, FoldLeft, MapThenFoldSet, IsFold, Undone, UnBlockOne

\* The largest of numbers up to n + 1.
LEMMA MaxTop ==
  ASSUME NEW n \in Nat, NEW s, s \subseteq 1 .. n + 1, n + 1 \in s
  PROVE  Max(s) = n + 1
<1>1. n + 1 \in s /\ \A y \in s : n + 1 >= y
  OBVIOUS
<1>2. \A x \in s : (\A y \in s : x >= y) => x = n + 1
  <2> TAKE x \in s
  <2> HAVE \A y \in s : x >= y
  <2>1. x >= n + 1 /\ x \in 1 .. n + 1
    OBVIOUS
  <2> QED BY <2>1
<1> QED BY <1>1, <1>2 DEF Max

\* From a function for n positions to one for n + 1.
LEMMA FoldGrows ==
  ASSUME NEW n \in Nat, NEW done, NEW list, NEW who, NEW g, IsFold(g, done, n, list, who)
  PROVE  \E h : IsFold(h, done, n + 1, list, who)
<1> DEFINE h == [s \in SUBSET (1 .. n + 1) |->
                  IF n + 1 \in s THEN UnBlockOne(g[s \ {n + 1}], list[n + 1], who) ELSE g[s]]
<1>1. ASSUME NEW s \in SUBSET (1 .. n + 1) PROVE h[s] = Undone(h, done, s, list, who)
  <2>1. CASE n + 1 \in s
    <3>1. Max(s) = n + 1 /\ s # {}
      BY <2>1, MaxTop
    <3>2. s \ {n + 1} \in SUBSET (1 .. n + 1) /\ n + 1 \notin s \ {n + 1}
      OBVIOUS
    <3>3. h[s \ {n + 1}] = g[s \ {n + 1}]
      BY <3>2
    <3> QED BY <2>1, <3>1, <3>3 DEF Undone
  <2>2. CASE n + 1 \notin s
    <3>1. s \in SUBSET (1 .. n)
      BY <2>2
    <3>2. h[s] = g[s] /\ g[s] = Undone(g, done, s, list, who)
      BY <2>2, <3>1 DEF IsFold
    <3>3. CASE s = {}
      BY <3>2, <3>3 DEF Undone
    <3>4. CASE s # {}
      <4>1. s \ {Max(s)} \in SUBSET (1 .. n + 1) /\ n + 1 \notin s \ {Max(s)}
        BY <2>2
      <4>2. h[s \ {Max(s)}] = g[s \ {Max(s)}]
        BY <4>1
      <4> QED BY <3>2, <3>4, <4>2 DEF Undone
    <3> QED BY <3>3, <3>4
  <2> QED BY <2>1, <2>2
<1>2. h = [s \in SUBSET (1 .. n + 1) |-> Undone(h, done, s, list, who)]
  BY <1>1
<1> QED BY <1>2 DEF IsFold

\* There is such a function for every number of positions.
LEMMA FoldExists ==
  ASSUME NEW n \in Nat, NEW done, NEW list, NEW who
  PROVE  \E g : IsFold(g, done, n, list, who)
<1> DEFINE Bad == {i \in Nat : ~\E g : IsFold(g, done, i, list, who)}
           R == OpToRel(<, Nat)
<1>1. IsWellFoundedOn(R, Nat)
  BY NatLessThanWellFounded
<1>2. ASSUME Bad # {} PROVE FALSE
  <2>1. PICK i \in Bad : \A j \in Bad : ~(<<j, i>> \in R)
    <3> HIDE DEF R
    <3>1. Bad \subseteq Nat
      OBVIOUS
    <3> HIDE DEF Bad
    <3> QED BY <1>1, <1>2, <3>1, WFMin
  <2>2. i # 0
    <3> DEFINE g == [s \in SUBSET (1 .. 0) |-> done]
    <3>1. g = [s \in SUBSET (1 .. 0) |-> Undone(g, done, s, list, who)]
      <4>1. \A s \in SUBSET (1 .. 0) : s = {}
        OBVIOUS
      <4> QED BY <4>1 DEF Undone
    <3>2. IsFold(g, done, 0, list, who)
      BY <3>1 DEF IsFold
    <3> QED BY <3>2
  <2>3. i \in Nat /\ i - 1 \in Nat /\ i - 1 < i
    BY <2>2
  <2>4. i - 1 \notin Bad
    BY <2>1, <2>3 DEF OpToRel
  <2>5. PICK g : IsFold(g, done, i - 1, list, who)
    BY <2>3, <2>4
  <2>6. \E h : IsFold(h, done, (i - 1) + 1, list, who)
    BY <2>3, <2>5, FoldGrows
  <2>7. (i - 1) + 1 = i
    BY <2>3
  <2> QED BY <2>1, <2>6, <2>7
<1> QED BY <1>2

\* The walk is a chain of steps.
LEMMA FoldSteps ==
  ASSUME NEW S, NEW list \in Seq(S), NEW done, NEW who, NEW f, f = UnBlockList(done, list, who)
  PROVE  \E g : /\ g[0] = done /\ g[Len(list)] = f
                /\ \A i \in 1 .. Len(list) : g[i] = UnBlockOne(g[i - 1], list[i], who)
<1> DEFINE n == Len(list)
           h == CHOOSE x : IsFold(x, done, n, list, who)
           g == [i \in 0 .. n |-> h[1 .. i]]
<1>1. n \in Nat /\ f = h[1 .. n]
  BY FoldIs
<1>2. IsFold(h, done, n, list, who)
  BY <1>1, FoldExists
<1> HIDE DEF h
<1>3. g[0] = done
  <2>1. h[{}] = done
    BY <1>2 DEF IsFold, Undone
  <2> QED BY <1>1, <2>1
<1>4. g[n] = f
  BY <1>1
<1>5. ASSUME NEW i \in 1 .. n PROVE g[i] = UnBlockOne(g[i - 1], list[i], who)
  <2> HIDE DEF n
  <2>0. i \in 1 .. n /\ n \in Nat
    BY <1>1
  <2>1. /\ i - 1 \in Nat /\ i = (i - 1) + 1 /\ i \in 1 .. i
        /\ i \in 0 .. n /\ i - 1 \in 0 .. n
    BY <2>0
  <2>6. 1 .. i \in SUBSET (1 .. n)
    BY <2>0
  <2>5. (1 .. i) \ {i} = 1 .. i - 1
    BY <2>0
  <2>2. Max(1 .. i) = i
    <3> DEFINE m == i - 1
    <3>1. m \in Nat /\ m + 1 = i
      BY <2>1
    <3> HIDE DEF m
    <3>2. Max(1 .. m + 1) = m + 1
      BY <3>1, MaxTop
    <3> QED BY <3>1, <3>2
  <2>3. h[1 .. i] = Undone(h, done, 1 .. i, list, who)
    BY <1>2, <2>6 DEF IsFold
  <2>4. h[1 .. i] = UnBlockOne(h[1 .. i - 1], list[i], who)
    BY <2>1, <2>2, <2>3, <2>5 DEF Undone
  <2> QED BY <2>1, <2>4
<1> HIDE DEF g
<1> QED BY <1>3, <1>4, <1>5

\* Threads that wait on b may have been made READY; the others have not moved.
Wakes(d, s, b) ==
  /\ Good(d) /\ NoNewTimer(d, s) /\ d.current = s.current /\ d.enabled = s.enabled
  /\ \A u \in Thread :
       \/ d.state[u] = s.state[u] /\ d.where[u] = s.where[u]
       \/ s.state[u] = "BLOCKED" /\ s.where[u] = b /\ d.state[u] = "READY"

\* The first thread of a block list is BLOCKED there.
LEMMA HeadWaits ==
  ASSUME KernelAssumption, NEW s, NEW b, Good(s), b \in BlockList, s.list[b] # <<>>,
         NEW t, t = Head(s.list[b])
  PROVE  t \in Thread /\ t \in ToSet(s.list[b]) /\ s.state[t] = "BLOCKED" /\ s.where[t] = b
<1>1. s.list[b] \in Seq(Thread)
  BY DEF Good, KernelState, ListId
<1>2. t \in Thread /\ t \in ToSet(s.list[b])
  BY <1>1 DEF ToSet
<1> QED BY <1>2, BlockedLists

\* UnBlock of a thread that is BLOCKED.
LEMMA UnBlockWakes ==
  ASSUME KernelAssumption, NEW s, NEW t, NEW b, NEW d, d = UnBlock(s, t), Good(s),
         t \in Thread, s.state[t] = "BLOCKED", s.where[t] = b,
         NEW y, NEW h, y \in BOOLEAN, h \in BOOLEAN, Dispatches(s, y, h)
  PROVE  Wakes(d, s, b) /\ Dispatches(d, y, h) /\ d.timers = s.timers
<1>1. t \in Thread /\ s.state[t] = "BLOCKED" /\ s.where[t] = b
  OBVIOUS
<1>2. /\ Good(d) /\ Dispatches(d, y, h) /\ d.timers = s.timers
      /\ d.current = s.current /\ d.enabled = s.enabled /\ OthersStay(d, s, t)
      /\ d.state[t] \in {s.state[t], "READY"} /\ d.state[t] # "BLOCKED"
  BY <1>1, UnBlockDispatches
<1> QED BY <1>1, <1>2 DEF Wakes, OthersStay, NoNewTimer

\* Going on without moving a thread.
LEMMA WakesOn ==
  ASSUME NEW s, NEW b, NEW a, Wakes(a, s, b), NEW d, Good(d), SameThreads(d, a), NoNewTimer(d, a)
  PROVE  Wakes(d, s, b)
BY DEF Wakes, SameThreads, NoNewTimer

\* What a handler does with it.
LEMMA PostWakes ==
  ASSUME KernelAssumption, NEW s, NEW b, Good(s), b \in BlockList, s.list[b] # <<>>,
         NEW d, d = PostAndYield(s, b),
         NEW y, NEW h, y \in BOOLEAN, h \in BOOLEAN, Dispatches(s, y, h)
  PROVE  Wakes(d, s, b) /\ Dispatches(d, y, h)
<1> DEFINE t == Head(s.list[b])
           a == UnBlock(s, t)
<1>1. d = IF Preempts(a, t) THEN Yield(a) ELSE a
  BY DEF PostAndYield
<1>2. t \in Thread /\ s.state[t] = "BLOCKED" /\ s.where[t] = b /\ a = UnBlock(s, t)
  BY HeadWaits
<1> HIDE DEF t, a
<1>3. Wakes(a, s, b) /\ Dispatches(a, y, h) /\ a.timers = s.timers
  BY <1>2, UnBlockWakes
<1>4. CASE ~Preempts(a, t)
  BY <1>1, <1>3, <1>4
<1>5. CASE Preempts(a, t)
  <2>1. d = Yield(a) /\ Good(a)
    BY <1>1, <1>3, <1>5 DEF Wakes
  <2>2. Good(d) /\ Dispatches(d, y, h) /\ SameThreads(d, a) /\ NoNewTimer(d, a)
    BY <1>3, <2>1, YieldDispatches
  <2> QED BY <1>3, <2>2, WakesOn
<1> QED BY <1>4, <1>5

\* What is owed stays owed while a thread is made ready, with or without a Yield.
LEMMA UnBlockOwed ==
  ASSUME KernelAssumption, NEW s, Good(s), Owed(s), NEW t \in Thread, NEW u, u = UnBlock(s, t),
         NEW d, d = u \/ d = Yield(u)
  PROVE  Good(d) /\ Owed(d)
<1>1. Good(u) /\ Owed(u)
  BY UnBlockFacts, OwedByThread
<1> QED BY <1>1, YieldOwed, YieldFacts

\* After a walk over the list of b the threads of who in it are READY, those that
\* are not in who have not moved, and what was owed is owed still.
Woken(d, s, b, who) ==
  /\ \A t \in who : t \in ToSet(s.list[b]) => d.state[t] = "READY"
  /\ \A u \in Thread : u \notin who => d.state[u] = s.state[u] /\ d.where[u] = s.where[u]
  /\ Owed(s) => Owed(d)

\* UnBlock of threads of the list of b.
LEMMA FoldWakes ==
  ASSUME KernelAssumption, NEW s, NEW b, NEW who, NEW d, d = UnBlockEach(s, b, who),
         Good(s), b \in BlockList,
         NEW y, NEW h, y \in BOOLEAN, h \in BOOLEAN, Dispatches(s, y, h)
  PROVE  Wakes(d, s, b) /\ Dispatches(d, y, h) /\ Woken(d, s, b, who)
<1> DEFINE q == s.list[b]
<1>0. /\ q \in Seq(Thread) /\ ToSet(q) = ToSet(s.list[b]) /\ d = UnBlockList(s, q, who)
  BY DEF Good, KernelState, ListId, UnBlockEach, UnBlockList
<1> HIDE DEF q
<1> DEFINE n == Len(q)
<1>1. PICK g : /\ g[0] = s /\ g[n] = d
               /\ \A i \in 1 .. n : g[i] = UnBlockOne(g[i - 1], q[i], who)
  BY <1>0, FoldSteps
<1> DEFINE Before(i) ==
             /\ \A j \in 1 .. i : q[j] \in who => g[i].state[q[j]] = "READY"
             /\ \A u \in Thread : u \notin who => g[i].state[u] = s.state[u]
                                                  /\ g[i].where[u] = s.where[u]
             /\ Owed(s) => Owed(g[i])
           Reached(i) == Wakes(g[i], s, b) /\ Dispatches(g[i], y, h) /\ Before(i)
<1>2. n \in Nat /\ Reached(0)
  <2>1. n \in Nat /\ 1 .. 0 = {} /\ Wakes(g[0], s, b) /\ Dispatches(g[0], y, h)
    BY <1>0, <1>1 DEF Wakes, NoNewTimer
  <2>2. Before(0)
    BY <1>1, <2>1
  <2> QED BY <2>1, <2>2
<1>3. ASSUME NEW i \in 1 .. n, Reached(i - 1) PROVE Reached(i)
  <2> DEFINE a == g[i - 1]
             t == q[i]
             c == g[i]
  <2>1. t \in Thread /\ s.state[t] = "BLOCKED" /\ s.where[t] = b
    <3>1. t \in ToSet(q) /\ t \in Thread
      BY <1>0 DEF ToSet
    <3> QED BY <1>0, <3>1, BlockedLists
  <2>2. Wakes(a, s, b) /\ Dispatches(a, y, h) /\ c = UnBlockOne(a, t, who)
    BY <1>1, <1>3
  <2>6. /\ \A j \in 1 .. i - 1 : q[j] \in who => a.state[q[j]] = "READY"
        /\ \A u \in Thread : u \notin who => a.state[u] = s.state[u] /\ a.where[u] = s.where[u]
    BY <1>3
  <2>13. Owed(s) => Owed(a)
    BY <1>3
  <2>7. \A j \in 1 .. i : j \in 1 .. i - 1 \/ j = i
    BY <1>2
  <2>8. \A j \in 1 .. i : q[j] \in Thread
    BY <1>0, <1>2
  <2> HIDE DEF Before
  <2>9. t = q[i]
    OBVIOUS
  <2> HIDE DEF a, c, t
  <2>10. Wakes(c, s, b) /\ Dispatches(c, y, h)
         /\ (\A u \in Thread : u # t => c.state[u] = a.state[u] /\ c.where[u] = a.where[u])
         /\ (t \in who => c.state[t] = "READY") /\ (t \notin who => c = a)
    <3>1. CASE t \notin who
      BY <2>2, <3>1 DEF UnBlockOne
    <3>2. CASE t \in who
      <4>1. c = UnBlock(a, t) /\ Good(a)
        BY <2>2, <3>2 DEF UnBlockOne, Wakes
      <4>2. /\ Good(c) /\ Dispatches(c, y, h) /\ c.timers = a.timers
            /\ c.current = a.current /\ c.enabled = a.enabled /\ OthersStay(c, a, t)
            /\ c.state[t] \in {a.state[t], "READY"} /\ c.state[t] # "BLOCKED"
        BY <2>1, <2>2, <4>1, UnBlockDispatches
      <4>3. c.state[t] = "READY"
        BY <2>1, <2>2, <4>2 DEF Wakes
      <4>4. Wakes(c, s, b)
        BY <2>1, <2>2, <4>2, <4>3 DEF Wakes, OthersStay, NoNewTimer
      <4> QED BY <3>2, <4>2, <4>3, <4>4 DEF OthersStay
    <3> QED BY <3>1, <3>2
  <2>11. \A j \in 1 .. i : q[j] \in who => c.state[q[j]] = "READY"
    <3> TAKE j \in 1 .. i
    <3> HAVE q[j] \in who
    <3>1. CASE q[j] = t
      BY <2>10, <3>1
    <3>2. CASE q[j] # t
      BY <2>6, <2>7, <2>8, <2>9, <2>10, <3>2
    <3> QED BY <3>1, <3>2
  <2>12. \A u \in Thread : u \notin who => c.state[u] = s.state[u] /\ c.where[u] = s.where[u]
    BY <2>6, <2>10
  <2>14. Owed(s) => Owed(c)
    <3>1. CASE t \notin who
      BY <2>10, <2>13, <3>1
    <3>2. CASE t \in who
      <4>1. c = UnBlock(a, t) /\ Good(a)
        BY <2>2, <3>2 DEF UnBlockOne, Wakes
      <4> QED BY <2>1, <2>13, <4>1, UnBlockFacts, OwedByThread
    <3> QED BY <3>1, <3>2
  <2> QED BY <2>10, <2>11, <2>12, <2>14 DEF c, Before
<1>5. ASSUME Before(n) PROVE Woken(d, s, b, who)
  <2>1. \A t \in ToSet(q) : \E i \in 1 .. n : q[i] = t
    BY <1>0 DEF ToSet
  <2>2. \A i \in 1 .. n : q[i] \in who => d.state[q[i]] = "READY"
    BY <1>1, <1>5
  <2>3. \A u \in Thread : u \notin who => d.state[u] = s.state[u] /\ d.where[u] = s.where[u]
    BY <1>1, <1>5
  <2>4. ASSUME NEW t \in who, t \in ToSet(s.list[b]) PROVE d.state[t] = "READY"
    BY <1>0, <2>1, <2>2, <2>4
  <2>5. Owed(s) => Owed(d)
    BY <1>1, <1>5
  <2> QED BY <2>3, <2>4, <2>5 DEF Woken
<1> HIDE DEF Before
<1>6. Reached(n) => Wakes(d, s, b) /\ Dispatches(d, y, h) /\ Before(n)
  BY <1>1
<1> HIDE DEF Reached
<1>4. Reached(n)
  <2> DEFINE Missed == {i \in 0 .. n : ~Reached(i)}
             R == OpToRel(<, Nat)
  <2> SUFFICES ASSUME Missed # {} PROVE FALSE
    BY <1>2
  <2>1. IsWellFoundedOn(R, Nat)
    BY NatLessThanWellFounded
  <2>2. Missed \subseteq Nat
    BY <1>2
  <2>3. PICK i \in Missed : \A j \in Missed : ~(<<j, i>> \in R)
    <3> HIDE DEF R, Missed
    <3> QED BY <2>1, <2>2, WFMin
  <2>4. i \in 1 .. n /\ i - 1 \in 0 .. n /\ i - 1 \in Nat /\ i \in Nat /\ i - 1 < i
    <3>1. i \in 0 .. n /\ ~Reached(i)
      BY <2>3
    <3> HIDE DEF Missed
    <3>2. i # 0
      BY <1>2, <3>1
    <3> QED BY <1>2, <3>1, <3>2
  <2>5. <<i - 1, i>> \in R
    BY <2>4 DEF OpToRel
  <2>6. Reached(i - 1)
    BY <2>3, <2>4, <2>5
  <2>7. Reached(i)
    BY <1>3, <2>4, <2>6
  <2> QED BY <2>3, <2>7
<1> QED BY <1>0, <1>4, <1>5, <1>6

-----------------------------------------------------------------------------
(* Timers that go, and threads that block *)

\* Only thread t has moved, and it is not BLOCKED any more.
Unblocks(d, s, t) ==
  /\ Good(d) /\ NoNewTimer(d, s) /\ d.current = s.current /\ OthersStay(d, s, t)
  /\ d.state[t] \in {s.state[t], "READY"} /\ d.state[t] # "BLOCKED"

\* The timer list is all that a step has changed.
TimersOnly(d, s) == Good(d) /\ SameButTimers(d, s)

\* A timer is unlinked: no thread moves.
LEMMA TimerGone ==
  ASSUME NEW s, NEW x, Good(s), x \in Timer, NEW d, d = TimerRemove(s, x)
  PROVE  /\ TimersOnly(d, s) /\ x \notin ToSet(d.timers)
         /\ ToSet(d.timers) \subseteq ToSet(s.timers)
BY TimerRemoveFacts DEF TimersOnly

\* A step that changes the timer list only owes what was owed before.
LEMMA TimersDispatch ==
  ASSUME NEW s, NEW d, TimersOnly(d, s), NEW y, NEW h, Dispatches(s, y, h)
  PROVE  Dispatches(d, y, h)
BY DEF TimersOnly, SameButTimers, SameThreads, Dispatches

\* ... and so does one that unlinks a timer after threads were woken.
LEMMA WakesThenTimer ==
  ASSUME NEW s, NEW b, NEW a, Wakes(a, s, b), NEW d, TimersOnly(d, a),
         ToSet(d.timers) \subseteq ToSet(a.timers)
  PROVE  Wakes(d, s, b)
BY DEF Wakes, TimersOnly, SameButTimers, SameThreads, NoNewTimer

\* The timer of a thread's frame is linked.
LEMMA FrameTimer ==
  ASSUME SemaphoresAssumption, NEW s, NEW t, Good(s), t \in Thread,
         WaitTimer(t) \notin ToSet(s.timers), NEW n, n \in Nat,
         NEW d, d = TimerAdd(s, WaitTimer(t), n)
  PROVE  /\ TimersOnly(d, s)
         /\ \A x \in ToSet(d.timers) : x = WaitTimer(t) \/ x \in ToSet(s.timers)
<1>1. WaitTimer(t) \in Timer /\ WaitTimer(t) # QuantumTimer
  BY DEF Timer, SemaphoresAssumption
<1>2. Good(d) /\ SameButTimers(d, s) /\ ToSet(d.timers) = ToSet(s.timers) \cup {WaitTimer(t)}
  BY <1>1, TimerAdded
<1> QED BY <1>2 DEF TimersOnly

\* TimedSemaphore_Callback and the return of its timer.
LEMMA ExpiryUnblocks ==
  ASSUME KernelAssumption, NEW s, NEW t, Good(s), t \in Thread,
         NEW u, u = UnBlock(s, t), NEW a, a = (IF Preempts(u, t) THEN Yield(u) ELSE u),
         NEW d, d = TimerRemove(a, WaitTimer(t)),
         NEW y, NEW h, y \in BOOLEAN, h \in BOOLEAN, Dispatches(s, y, h)
  PROVE  Unblocks(d, s, t) /\ Dispatches(d, y, h) /\ WaitTimer(t) \notin ToSet(d.timers)
<1>1. /\ Good(a) /\ Dispatches(a, y, h) /\ a.current = s.current /\ NoNewTimer(a, s)
      /\ OthersStay(a, s, t)
      /\ a.state[t] \in {s.state[t], "READY"} /\ a.state[t] # "BLOCKED"
  BY WakeDispatches
<1>2. WaitTimer(t) \in Timer
  BY DEF Timer
<1>3. /\ TimersOnly(d, a) /\ WaitTimer(t) \notin ToSet(d.timers)
      /\ ToSet(d.timers) \subseteq ToSet(a.timers)
  BY <1>1, <1>2, TimerGone
<1>4. Dispatches(d, y, h)
  BY <1>1, <1>3, TimersDispatch
<1>5. Unblocks(d, s, t)
  BY <1>1, <1>3 DEF Unblocks, TimersOnly, SameButTimers, SameThreads, OthersStay, NoNewTimer
<1> QED BY <1>3, <1>4, <1>5

\* Pend and the Wait of an event flag: the running thread blocks and yields, its
\* timer running or not.
LEMMA WaitBlocks ==
  ASSUME KernelAssumption, NEW s, NEW a, NEW t, NEW b, NEW d,
         d = Yield(BlockPriority(a, t, b)), TimersOnly(a, s),
         Good(s), Dispatches(s, FALSE, FALSE), ~s.pendsv, s.enabled,
         t \in Thread, t = s.current, t # Idle, b \in BlockList
  PROVE  Blocks(d, a, t, b) /\ Dispatches(d, FALSE, FALSE) /\ OthersStay(d, s, t)
<1>1. /\ Good(a) /\ Dispatches(a, FALSE, FALSE) /\ ~a.pendsv /\ a.enabled
      /\ a.current = t /\ a.state = s.state /\ a.where = s.where
  BY DEF TimersOnly, SameButTimers, SameThreads, Dispatches
<1>2. Blocks(d, a, t, b) /\ Dispatches(d, FALSE, FALSE)
  BY <1>1, WaitDispatches
<1>3. OthersStay(d, s, t)
  BY <1>1, <1>2 DEF Blocks, OthersStay
<1> QED BY <1>2, <1>3

\* The Wait of a notification and Claim: the Yield is still to come.
BlockedBy(d, a, t, b) == d = Block(a, t, b) \/ d = BlockPriority(a, t, b)

LEMMA BlockBlocks ==
  ASSUME KernelAssumption, NEW s, NEW a, NEW t, NEW b, NEW d,
         BlockedBy(d, a, t, b), TimersOnly(a, s),
         Good(s), Dispatches(s, FALSE, FALSE), ~s.pendsv,
         t \in Thread, t = s.current, t # Idle, b \in BlockList
  PROVE  /\ Blocks(d, a, t, b) /\ Dispatches(d, TRUE, TRUE) /\ OthersStay(d, s, t)
         /\ s.enabled => Dispatches(d, TRUE, FALSE)
<1>1. /\ Good(a) /\ Dispatches(a, FALSE, FALSE) /\ ~a.pendsv /\ a.enabled = s.enabled
      /\ a.current = t /\ a.state = s.state /\ a.where = s.where
  BY DEF TimersOnly, SameButTimers, SameThreads, Dispatches
<1>2. d \in {Block(a, t, b), BlockPriority(a, t, b)} /\ a.state[t] = "READY"
  BY <1>1 DEF Dispatches, BlockedBy
<1>3. /\ Good(d) /\ OnlyThread(d, a, t) /\ d.timers = a.timers
      /\ d.state[t] = "BLOCKED" /\ d.where[t] = b
  BY <1>1, <1>2, BlockFacts
<1>4. Dispatches(d, TRUE, TRUE) /\ (s.enabled => Dispatches(d, TRUE, FALSE))
  BY <1>1, <1>3 DEF OnlyThread, Dispatches
<1>5. Blocks(d, a, t, b) /\ OthersStay(d, s, t)
  BY <1>1, <1>3 DEF Blocks, OthersStay, OnlyThread, NoNewTimer
<1> QED BY <1>4, <1>5

-----------------------------------------------------------------------------
(* The kernel with semaphores alone *)

\* A thread that has the CPU and owes no Yield is READY.
LEMMA CallerReady ==
  ASSUME SemInv, NEW t \in Thread, Running(t), pc[t] # "yield"
  PROVE  Good(k) /\ Dispatches(k, FALSE, FALSE) /\ ~k.pendsv /\ t = k.current
BY DEF SemInv, Running, Dispatches

\* A step that links no timer of a wait, and ends no timed wait, leaves no
\* timer dangling.
LEMMA NoDanglingKept ==
  ASSUME SemaphoresAssumption, NoDanglingTimer, NoNewTimer(k', k),
         \A t \in Thread : pc[t] = "timed" => pc'[t] = "timed",
         \A t \in Thread : pc[t] \in {"run", "yield", "pend", "timed"}
  PROVE  NoDanglingTimer'
<1> SUFFICES ASSUME NEW t \in Thread, WaitTimer(t) \in ToSet(k'.timers)
             PROVE  pc'[t] \in InTimedWait
  BY DEF NoDanglingTimer, WaitTimer, InTimedWait
<1>1. WaitTimer(t) \in ToSet(k.timers)
  BY DEF NoNewTimer, SemaphoresAssumption
<1>2. pc[t] = "timed"
  BY <1>1 DEF NoDanglingTimer, InTimedWait
<1> QED BY <1>2 DEF InTimedWait

\* A call of the running thread t that ends it where it may be.
LEMMA CallKeepsSemInv ==
  ASSUME SemaphoresAssumption, SemInv, NEW t \in Thread, pc[t] # "timed",
         NEW at \in {"run", "yield", "pend", "timed"}, pc' = [pc EXCEPT ![t] = at],
         Good(k'), k'.current = t, Dispatches(k', at = "yield", FALSE), NoNewTimer(k', k)
  PROVE  SemInv'
<1>1. pc \in [Thread -> {"run", "yield", "pend", "timed"}]
  BY DEF SemInv
<1>2. pc' \in [Thread -> {"run", "yield", "pend", "timed"}] /\ pc'[t] = at
  BY <1>1
<1>3. \A u \in Thread : pc[u] = "timed" => pc'[u] = "timed"
  BY <1>1
<1>4. NoDanglingTimer'
  BY <1>1, <1>3, NoDanglingKept DEF SemInv
<1> QED BY <1>2, <1>4 DEF SemInv

\* A handler, or a call after which the running thread is where it was.
LEMMA SamePlaceKeepsSemInv ==
  ASSUME SemaphoresAssumption, SemInv, pc' = pc, Good(k'),
         Dispatches(k', pc'[k'.current] = "yield", FALSE), NoNewTimer(k', k)
  PROVE  SemInv'
<1>1. \A t \in Thread : pc[t] \in {"run", "yield", "pend", "timed"}
  BY DEF SemInv
<1>2. NoDanglingTimer'
  BY <1>1, NoDanglingKept DEF SemInv
<1> QED BY <1>2 DEF SemInv

\* The calls of the scheduler.  A thread that exited is not initialised again
\* (see the README).
LEMMA CallsKeepSemInv ==
  ASSUME KernelAssumption, SemaphoresAssumption, "Init" \notin Calls, SemInv,
         NEW t \in Thread, ThreadStep(t)
  PROVE  SemInv'
<1>1. Good(k) /\ pc \in [Thread -> {"run", "yield", "pend", "timed"}]
  BY DEF SemInv
<1>2. t = k.current
  BY DEF ThreadStep, CallStart, CallStop, CallExit, CallInit, CallSetPriority,
         CallSetScheduler, CallYield, FinishCall, Calling, Running
<1>3. Dispatches(k, pc[t] = "yield", FALSE)
  BY <1>2 DEF SemInv
<1>4. /\ Good(k') /\ NoNewTimer(k', k) /\ k'.current = t
      /\ pc[t] \in {"run", "yield"} /\ (\E at \in {"run", "yield"} : GoesOn(t, at))
  BY <1>1, <1>3, ThreadStepDispatches
<1>5. PICK at \in {"run", "yield"} : GoesOn(t, at)
  BY <1>4
<1> QED BY <1>4, <1>5, CallKeepsSemInv DEF GoesOn

\* SysTick from its entry to its end, and PendSV.
LEMMA InterruptKeepsSemInv ==
  ASSUME KernelAssumption, SemaphoresAssumption, SemInv, Interrupt
  PROVE  SemInv'
<1> PICK owes \in BOOLEAN : owes <=> pc[k.current] = "yield"
  OBVIOUS
<1>1. Good(k) /\ Dispatches(k, owes, FALSE)
  BY DEF SemInv, Dispatches
<1>2. /\ Good(k') /\ NoNewTimer(k', k) /\ pc' = pc
      /\ \/ k'.current = k.current /\ Dispatches(k', owes, FALSE)
         \/ Dispatches(k', FALSE, FALSE)
  BY <1>1, InterruptDispatches
<1>3. Dispatches(k', pc'[k'.current] = "yield", FALSE)
  BY <1>2 DEF Dispatches
<1> QED BY <1>2, <1>3, SamePlaceKeepsSemInv

\* A handler that posts a semaphore, and the callback of a timed wait.
LEMMA WakeKeepsSemInv ==
  ASSUME KernelAssumption, SemaphoresAssumption, SemInv, SemInterrupt
  PROVE  SemInv'
<1> PICK owes \in BOOLEAN : owes <=> pc[k.current] = "yield"
  OBVIOUS
<1>0. Good(k) /\ Dispatches(k, owes, FALSE)
  BY DEF SemInv, Dispatches
<1>1. ASSUME NEW s \in Shared, InterruptPosts(s) PROVE SemInv'
  <2>1. pc' = pc /\ s \in BlockList
    BY <1>1 DEF InterruptPosts, PostInside, SemaphoresAssumption
  <2>2. CASE UNCHANGED k
    BY <1>0, <2>1, <2>2, SamePlaceKeepsSemInv DEF NoNewTimer, SemInv
  <2>3. CASE k.list[s] # <<>> /\ k' = PostAndYield(k, s)
    <3>1. Wakes(k', k, s) /\ Dispatches(k', owes, FALSE)
      BY <1>0, <2>1, <2>3, PostWakes
    <3>2. Dispatches(k', pc'[k'.current] = "yield", FALSE)
      BY <2>1, <3>1 DEF Dispatches, Wakes
    <3> QED BY <2>1, <3>1, <3>2, SamePlaceKeepsSemInv DEF Wakes
  <2> QED BY <1>1, <2>2, <2>3 DEF InterruptPosts, PostInside
<1>2. ASSUME NEW t \in Thread, WaitExpires(t) PROVE SemInv'
  <2> DEFINE u == UnBlock(k, t)
             y == IF Preempts(u, t) THEN Yield(u) ELSE u
  <2>1. k' = TimerRemove(y, WaitTimer(t)) /\ pc' = pc
    BY <1>2 DEF WaitExpires
  <2>4. u = UnBlock(k, t) /\ y = IF Preempts(u, t) THEN Yield(u) ELSE u
    OBVIOUS
  <2> HIDE DEF u, y
  <2>2. Unblocks(k', k, t) /\ Dispatches(k', owes, FALSE)
    BY <1>0, <2>1, <2>4, ExpiryUnblocks
  <2>3. Dispatches(k', pc'[k'.current] = "yield", FALSE)
    BY <2>1, <2>2 DEF Dispatches, Unblocks
  <2> QED BY <2>1, <2>2, <2>3, SamePlaceKeepsSemInv DEF Unblocks
<1> QED BY <1>1, <1>2 DEF SemInterrupt

\* Semaphore::Post from a thread: the Yield, if any, is still to come.
LEMMA PostKeepsSemInv ==
  ASSUME KernelAssumption, SemaphoresAssumption, SemInv, NEW t \in Thread,
         NEW s \in Shared, CallPost(t, s)
  PROVE  SemInv'
<1>1. /\ Good(k) /\ Dispatches(k, FALSE, FALSE) /\ t = k.current /\ pc[t] = "run"
      /\ s \in BlockList
  BY CallerReady DEF CallPost, Calling, SemaphoresAssumption
<1>2. CASE UNCHANGED k /\ pc' = [pc EXCEPT ![t] = "run"]
  BY <1>1, <1>2, CallKeepsSemInv DEF NoNewTimer
<1>3. CASE /\ k.list[s] # <<>> /\ k' = UnBlock(k, Head(k.list[s]))
           /\ pc' = [pc EXCEPT ![t] = IF Preempts(k', Head(k.list[s])) THEN "yield" ELSE "run"]
  <2>1. PICK at \in {"run", "yield"} : pc' = [pc EXCEPT ![t] = at]
    BY <1>3
  <2> DEFINE waiter == Head(k.list[s])
  <2>0. /\ waiter \in Thread /\ k.state[waiter] = "BLOCKED" /\ k.where[waiter] = s
        /\ k' = UnBlock(k, waiter)
    BY <1>1, <1>3, HeadWaits
  <2> HIDE DEF waiter
  <2>2. Wakes(k', k, s) /\ Dispatches(k', FALSE, FALSE)
    BY <1>1, <2>0, UnBlockWakes
  <2>3. Dispatches(k', at = "yield", FALSE)
    BY <2>2 DEF Dispatches
  <2> QED BY <1>1, <2>1, <2>2, <2>3, CallKeepsSemInv DEF Wakes
<1> QED BY <1>2, <1>3 DEF CallPost, PostBy

\* A Pend that finds a token.
LEMMA TakeKeepsSemInv ==
  ASSUME SemaphoresAssumption, SemInv, NEW t \in Thread, Running(t), pc[t] = "run",
         NEW s, Take(t, s), pc' = [pc EXCEPT ![t] = "run"]
  PROVE  SemInv'
<1>1. k' = k /\ Good(k) /\ Dispatches(k, FALSE, FALSE) /\ t = k.current
  BY CallerReady DEF Take
<1> QED BY <1>1, CallKeepsSemInv DEF NoNewTimer

\* Semaphore::Pend without a timeout.
LEMMA PendKeepsSemInv ==
  ASSUME KernelAssumption, SemaphoresAssumption, SemInv, NEW t \in Thread,
         NEW s \in Shared, CallPend(t, s)
  PROVE  SemInv'
<1>1. /\ Running(t) /\ pc[t] = "run" /\ s \in BlockList
      /\ Good(k) /\ Dispatches(k, FALSE, FALSE) /\ ~k.pendsv /\ t = k.current
  BY CallerReady DEF CallPend, Calling, SemaphoresAssumption
<1>2. CASE Take(t, s) /\ pc' = [pc EXCEPT ![t] = "run"]
  BY <1>1, <1>2, TakeKeepsSemInv
<1>3. CASE Wait(t, s, k, "pend")
  <2>1. /\ k' = Yield(BlockPriority(k, t, s)) /\ t # Idle /\ k.enabled
        /\ pc' = [pc EXCEPT ![t] = "pend"]
    BY <1>3 DEF Wait
  <2>2. TimersOnly(k, k)
    BY <1>1 DEF TimersOnly, SameButTimers, SameThreads
  <2>3. Blocks(k', k, t, s) /\ Dispatches(k', FALSE, FALSE)
    BY <1>1, <2>1, <2>2, WaitBlocks
  <2> QED BY <1>1, <2>1, <2>3, CallKeepsSemInv DEF Blocks
<1> QED BY <1>2, <1>3 DEF CallPend, Pend

\* Semaphore::Pend with a timeout: the timer it links belongs to its own frame.
LEMMA TimedPendKeepsSemInv ==
  ASSUME KernelAssumption, SemaphoresAssumption, SemInv, NEW t \in Thread,
         NEW s \in Shared, NEW ticks \in WaitTicks, CallTimedPend(t, s, ticks)
  PROVE  SemInv'
<1>1. /\ Running(t) /\ pc[t] = "run" /\ s \in BlockList /\ ticks \in Nat
      /\ Good(k) /\ Dispatches(k, FALSE, FALSE) /\ ~k.pendsv /\ t = k.current
  BY CallerReady DEF CallTimedPend, Calling, SemaphoresAssumption
<1>2. CASE Take(t, s) /\ pc' = [pc EXCEPT ![t] = "run"]
  BY <1>1, <1>2, TakeKeepsSemInv
<1>3. CASE Wait(t, s, TimerAdd(k, WaitTimer(t), ticks), "timed")
  <2> DEFINE data == TimerAdd(k, WaitTimer(t), ticks)
  <2>1. /\ k' = Yield(BlockPriority(data, t, s)) /\ t # Idle /\ k.enabled
        /\ pc' = [pc EXCEPT ![t] = "timed"]
    BY <1>3 DEF Wait
  <2>2. WaitTimer(t) \notin ToSet(k.timers)
    BY <1>1 DEF SemInv, NoDanglingTimer, InTimedWait
  <2>3. data = TimerAdd(k, WaitTimer(t), ticks)
    OBVIOUS
  <2> HIDE DEF data
  <2>4. /\ TimersOnly(data, k)
        /\ \A x \in ToSet(data.timers) : x = WaitTimer(t) \/ x \in ToSet(k.timers)
    BY <1>1, <2>2, <2>3, FrameTimer
  <2>5. Blocks(k', data, t, s) /\ Dispatches(k', FALSE, FALSE)
    BY <1>1, <2>1, <2>4, WaitBlocks
  <2>6. /\ pc \in [Thread -> {"run", "yield", "pend", "timed"}] /\ NoDanglingTimer
        /\ pc' \in [Thread -> {"run", "yield", "pend", "timed"}] /\ pc'[t] = "timed"
    BY <2>1 DEF SemInv
  <2>7. ASSUME NEW u \in Thread, WaitTimer(u) \in ToSet(k'.timers)
        PROVE  pc'[u] \in InTimedWait
    <3>1. CASE u = t
      BY <2>6, <3>1 DEF InTimedWait
    <3>2. CASE u # t
      <4>1. WaitTimer(u) # WaitTimer(t) /\ WaitTimer(u) # QuantumTimer
        BY <3>2 DEF WaitTimer, SemaphoresAssumption
      <4>2. WaitTimer(u) \in ToSet(k.timers)
        BY <2>4, <2>5, <2>7, <4>1 DEF NoNewTimer, Blocks
      <4>3. pc[u] \in InTimedWait
        BY <2>6, <4>2 DEF NoDanglingTimer
      <4> QED BY <2>1, <2>6, <3>2, <4>3
    <3> QED BY <3>1, <3>2
  <2> QED BY <2>5, <2>6, <2>7 DEF SemInv, NoDanglingTimer, Dispatches, Blocks
<1> QED BY <1>2, <1>3 DEF CallTimedPend, TimedPend

\* The end of a Pend that waited: the frame goes, its timer first.
LEMMA PendReturnsKeepsSemInv ==
  ASSUME SemaphoresAssumption, SemInv, NEW t \in Thread, PendReturns(t)
  PROVE  SemInv'
<1>1. /\ Running(t) /\ pc[t] \in {"pend", "timed"} /\ pc' = [pc EXCEPT ![t] = "run"]
      /\ k' = IF pc[t] = "timed" THEN TimerRemove(k, WaitTimer(t)) ELSE k
  BY DEF PendReturns, PendEnds
<1>2. /\ Good(k) /\ Dispatches(k, FALSE, FALSE) /\ t = k.current
      /\ NoDanglingTimer /\ pc \in [Thread -> {"run", "yield", "pend", "timed"}]
  BY <1>1, CallerReady DEF SemInv
<1>3. /\ TimersOnly(k', k) /\ WaitTimer(t) \notin ToSet(k'.timers)
      /\ ToSet(k'.timers) \subseteq ToSet(k.timers)
  <2>1. CASE pc[t] = "timed"
    BY <1>1, <1>2, <2>1, TimerGone DEF Timer
  <2>2. CASE pc[t] = "pend"
    <3>1. k' = k
      BY <1>1, <2>2
    <3>2. WaitTimer(t) \notin ToSet(k.timers)
      BY <1>2, <2>2 DEF NoDanglingTimer, InTimedWait
    <3> QED BY <1>2, <3>1, <3>2 DEF TimersOnly, SameButTimers, SameThreads
  <2> QED BY <1>1, <2>1, <2>2
<1>4. pc' \in [Thread -> {"run", "yield", "pend", "timed"}] /\ pc'[t] = "run"
  BY <1>1, <1>2
<1>5. ASSUME NEW u \in Thread, WaitTimer(u) \in ToSet(k'.timers) PROVE pc'[u] \in InTimedWait
  <2>1. u # t /\ WaitTimer(u) \in ToSet(k.timers)
    BY <1>3, <1>5
  <2>2. pc[u] \in InTimedWait
    BY <1>2, <2>1 DEF NoDanglingTimer
  <2> QED BY <1>1, <1>2, <2>1, <2>2
<1>6. Dispatches(k', FALSE, FALSE)
  BY <1>2, <1>3, TimersDispatch
<1>7. Dispatches(k', pc'[k'.current] = "yield", FALSE)
  BY <1>6 DEF Dispatches
<1> QED BY <1>3, <1>4, <1>5, <1>7 DEF SemInv, NoDanglingTimer, TimersOnly

-----------------------------------------------------------------------------
(* What holds in every reachable state *)

\* The invariant holds while no thread object is initialised again after Exit:
\* Exit leaves a timer of the thread's frame linked, and Init takes the thread
\* out of the call that frame belongs to.
THEOREM SemInvariance ==
  ASSUME "Init" \notin Calls
  PROVE  SemSpec => []SemInv
<1> USE KernelAssumption, SemaphoresAssumption
<1>1. SemInit => SemInv
  <2> SUFFICES ASSUME SemInit PROVE SemInv
    OBVIOUS
  <2>1. PICK q \in SetToSeqs(Thread \ {Idle, Main}) : k = InitState(q)
    BY DEF SemInit, Init
  <2>2. Scheduled(k, TRUE)
    BY <2>1, InitGood
  <2>3. Dispatches(k, pc[k.current] = "yield", FALSE)
    BY <2>2 DEF Scheduled, Dispatches, Top
  <2>4. k.timers = <<>>
    BY <2>1 DEF InitState
  <2>5. NoDanglingTimer
    BY <2>4 DEF NoDanglingTimer, ToSet
  <2>6. pc \in [Thread -> {"run", "yield", "pend", "timed"}]
    BY DEF SemInit, Init
  <2> QED BY <2>2, <2>3, <2>5, <2>6 DEF SemInv, Scheduled
<1>2. SemInv /\ [SemNext]_allVars => SemInv'
  <2> SUFFICES ASSUME SemInv, [SemNext]_allVars PROVE SemInv'
    OBVIOUS
  <2>1. CASE Next
    BY <2>1, CallsKeepSemInv, InterruptKeepsSemInv DEF Next
  <2>2. ASSUME NEW t \in Thread, SemThreadStep(t) PROVE SemInv'
    BY <2>2, PostKeepsSemInv, PendKeepsSemInv, TimedPendKeepsSemInv, PendReturnsKeepsSemInv
       DEF SemThreadStep
  <2>3. CASE SemInterrupt
    BY <2>3, WakeKeepsSemInv
  <2>4. CASE UNCHANGED allVars
    BY <2>4 DEF allVars, SemInv, NoDanglingTimer
  <2> QED BY <2>1, <2>2, <2>3, <2>4 DEF SemNext
<1> QED BY <1>1, <1>2, PTL DEF SemSpec

\* The Timer in the frame of a timed Pend is off the kernel's list before the
\* frame is gone, whatever Post, timeout, Stop and interrupt do in between.
THEOREM NoTimerDangles ==
  ASSUME "Init" \notin Calls
  PROVE  SemSpec => []NoDanglingTimer
<1>1. SemInv => NoDanglingTimer
  BY DEF SemInv
<1> QED BY <1>1, SemInvariance, PTL

\* Block, UnBlock and the calls of the scheduler keep every thread on the one
\* list its state calls for, also when a thread is woken from an interrupt.
THEOREM SemListsConsistent ==
  ASSUME "Init" \notin Calls
  PROVE  SemSpec => []OnOneList
<1>1. SemInv => OnOneList
  BY KernelAssumption, GoodOnOneList DEF SemInv
<1> QED BY <1>1, SemInvariance, PTL

\* Schedule never dispatches the head of an empty list, also when threads block.
THEOREM SemMapConsistent ==
  ASSUME "Init" \notin Calls
  PROVE  SemSpec => []MapMatchesLists
<1>1. SemInv => MapMatchesLists
  BY DEF SemInv, Good, MapAt, MapMatchesLists
<1> QED BY <1>1, SemInvariance, PTL

LEMMA PostOwed ==
  ASSUME KernelAssumption, NEW s, Good(s), Owed(s), NEW b \in BlockList, s.list[b] # <<>>,
         NEW d, d = PostAndYield(s, b)
  PROVE  Good(d) /\ Owed(d)
<1> DEFINE h == Head(s.list[b])
           u == UnBlock(s, h)
<1>1. h \in Thread
  BY HeadWaits
<1>2. u = UnBlock(s, h) /\ (d = u \/ d = Yield(u))
  BY DEF PostAndYield
<1> HIDE DEF h, u
<1> QED BY <1>1, <1>2, UnBlockOwed

\* A timeout, and a wait that is over.
LEMMA ExpiryOwed ==
  ASSUME KernelAssumption, Good(k), Owed(k), NEW t \in Thread, WaitExpires(t)
  PROVE  Owed(k')
<1> DEFINE u == UnBlock(k, t)
           a == IF Preempts(u, t) THEN Yield(u) ELSE u
<1>1. u = UnBlock(k, t) /\ (a = u \/ a = Yield(u)) /\ k' = TimerRemove(a, WaitTimer(t))
  BY DEF WaitExpires
<1> HIDE DEF u, a
<1>2. Good(a) /\ Owed(a)
  BY <1>1, UnBlockOwed
<1>3. WaitTimer(t) \in Timer
  BY DEF Timer
<1> QED BY <1>1, <1>2, <1>3, TimerRemoveFacts, OwedByTimer

LEMMA PendEndsOwed ==
  ASSUME KernelAssumption, Good(k), Owed(k), NEW t \in Thread, NEW to, PendEnds(t, to)
  PROVE  Owed(k')
<1>1. WaitTimer(t) \in Timer /\ (k' = k \/ k' = TimerRemove(k, WaitTimer(t)))
  BY DEF PendEnds, Timer
<1> QED BY <1>1, TimerRemoveFacts, OwedByTimer

\* Pend and Post; a Pend that would wait is not called with the scheduler disabled.
LEMMA PendOwed ==
  ASSUME Owed(k), NEW t, NEW s, NEW to, NEW ticks, Pend(t, s, to) \/ TimedPend(t, s, ticks, to)
  PROVE  Owed(k')
BY DEF Pend, TimedPend, Take, Wait, Owed

LEMMA PostByOwed ==
  ASSUME KernelAssumption, Good(k), Owed(k), NEW t, NEW s \in BlockList, PostBy(t, s)
  PROVE  Owed(k')
<1>1. CASE k' = k
  BY <1>1
<1>2. CASE k.list[s] # <<>> /\ k' = UnBlock(k, Head(k.list[s]))
  BY <1>2, HeadWaits, UnBlockOwed
<1> QED BY <1>1, <1>2 DEF PostBy

LEMMA PostInsideOwed ==
  ASSUME KernelAssumption, Good(k), Owed(k), NEW s \in BlockList, PostInside(s)
  PROVE  Owed(k')
BY PostOwed DEF PostInside

LEMMA SemStepOwed ==
  ASSUME KernelAssumption, SemaphoresAssumption, Good(k), Owed(k), NEW t \in Thread,
         SemThreadStep(t)
  PROVE  Owed(k')
<1>1. Shared \subseteq BlockList
  BY DEF SemaphoresAssumption
<1>2. ASSUME NEW s \in Shared, CallPost(t, s) PROVE Owed(k')
  BY <1>1, <1>2, PostByOwed DEF CallPost
<1>3. ASSUME NEW s \in Shared, NEW ticks, CallPend(t, s) \/ CallTimedPend(t, s, ticks)
      PROVE  Owed(k')
  BY <1>3, PendOwed DEF CallPend, CallTimedPend
<1>4. CASE PendReturns(t)
  BY <1>4, PendEndsOwed DEF PendReturns
<1> QED BY <1>2, <1>3, <1>4 DEF SemThreadStep

LEMMA WakeOwed ==
  ASSUME KernelAssumption, SemaphoresAssumption, Good(k), Owed(k), SemInterrupt
  PROVE  Owed(k')
<1>1. Shared \subseteq BlockList
  BY DEF SemaphoresAssumption
<1> QED BY <1>1, PostInsideOwed, ExpiryOwed DEF SemInterrupt, InterruptPosts

\* A Yield that a Post asks for while the scheduler is disabled is performed
\* when the scheduler is enabled.
THEOREM SemReschedulePerformed ==
  ASSUME "Init" \notin Calls
  PROVE  SemSpec => PerformsReschedule
<1>1. SemInv /\ [SemNext]_allVars => [k.queued => Performed(k')]_vars
  <2> SUFFICES ASSUME SemInv, SemNext, k.queued PROVE Performed(k')
    BY DEF vars, allVars
  <2>1. Good(k) /\ Owed(k) /\ (k.pendsv => k.enabled)
    BY DEF SemInv, Dispatches, Owed
  <2>2. CASE Next
    BY <2>1, <2>2, KernelAssumption, InterruptPerforms, ThreadStepPerforms DEF Next
  <2>3. ASSUME NEW t \in Thread, SemThreadStep(t) PROVE Performed(k')
    BY <2>1, <2>3, KernelAssumption, SemaphoresAssumption, SemStepOwed, OwedIsKept
  <2>4. CASE SemInterrupt
    BY <2>1, <2>4, KernelAssumption, SemaphoresAssumption, WakeOwed, OwedIsKept
  <2> QED BY <2>2, <2>3, <2>4 DEF SemNext
<1>2. ASSUME [k.queued => Performed(k')]_vars
      PROVE  [k.queued => IF k'.enabled THEN ~k'.queued /\ SchedulesTop(k') ELSE k'.queued]_vars
  BY <1>2 DEF Performed
<1> QED BY <1>1, <1>2, SemInvariance, PTL DEF SemSpec, PerformsReschedule

====
