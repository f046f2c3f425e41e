------------------------------- MODULE WaitProofs -------------------------------
(***************************************************************************)
(* Proofs about message queues, semaphores and notifications among all the *)
(* other objects a thread may wait for: the message a receiver was woken   *)
(* for is there when it runs and none is forgotten, and semaphores and     *)
(* notifications keep what SemaphoreSpec and NotifySpec promise.           *)
(***************************************************************************)
EXTENDS ObjectsProofs

-----------------------------------------------------------------------------
(* Which counts a step changes *)

\* The step changes no count but those of the semaphores in S.
Counting(S) == \A x \in Sem : x \notin S => value'[x] = value[x]

LEMMA SameCounts ==
  ASSUME value' = value, NEW S
  PROVE  Counting(S)
BY DEF Counting

LEMMA OneCounts ==
  ASSUME value \in [Sem -> Nat], NEW s \in Sem, NEW n, value' = [value EXCEPT ![s] = n],
         NEW S, s \in S
  PROVE  Counting(S)
BY DEF Counting

LEMMA CountCounts ==
  ASSUME value \in [Sem -> Nat], NEW s \in Sem, Count(s), NEW S, s \in S
  PROVE  Counting(S)
BY OneCounts, SameCounts DEF Count

LEMMA PostByCounts ==
  ASSUME value \in [Sem -> Nat], NEW t, NEW s \in Sem, PostBy(t, s), NEW S, s \in S
  PROVE  Counting(S)
BY CountCounts, SameCounts DEF PostBy

LEMMA PostInsideCounts ==
  ASSUME value \in [Sem -> Nat], NEW s \in Sem, PostInside(s), NEW S, s \in S
  PROVE  Counting(S)
BY CountCounts, SameCounts DEF PostInside

LEMMA PendCounts ==
  ASSUME value \in [Sem -> Nat], NEW t, NEW s \in Sem, NEW to, NEW S, s \in S,
         Pend(t, s, to)
  PROVE  Counting(S)
BY OneCounts, SameCounts DEF Pend, Take, Wait

LEMMA TimedPendCounts ==
  ASSUME value \in [Sem -> Nat], NEW t, NEW s \in Sem, NEW to, NEW ticks, NEW S, s \in S,
         TimedPend(t, s, ticks, to)
  PROVE  Counting(S)
BY OneCounts, SameCounts DEF TimedPend, Take, Wait

LEMMA SemCounts ==
  ASSUME SemaphoresAssumption, value \in [Sem -> Nat], NEW t, SemThreadStep(t)
  PROVE  Counting(Shared)
<1>1. Shared \subseteq Sem
  BY DEF SemaphoresAssumption
<1>2. ASSUME NEW s \in Shared, CallPost(t, s) \/ CallPend(t, s) PROVE Counting(Shared)
  BY <1>1, <1>2, PostByCounts, PendCounts DEF CallPost, CallPend
<1>3. ASSUME NEW s \in Shared, NEW ticks, CallTimedPend(t, s, ticks) PROVE Counting(Shared)
  BY <1>1, <1>3, TimedPendCounts DEF CallTimedPend
<1>4. ASSUME PendReturns(t) PROVE Counting(Shared)
  BY <1>4, SameCounts DEF PendReturns, PendEnds
<1> QED BY <1>2, <1>3, <1>4 DEF SemThreadStep

LEMMA SleepCounts ==
  ASSUME SemaphoresAssumption, SleepAssumption, value \in [Sem -> Nat], NEW t \in Thread,
         SleepStep(t) \/ SleepExpires(t)
  PROVE  Counting(Naps)
<1>1. Nap[t] \in Sem /\ Nap[t] \in Naps
  BY OwnNaps
<1>2. ASSUME NEW us, NEW ticks, BeginSleep(t, us, ticks) PROVE Counting(Naps)
  BY <1>1, <1>2, OneCounts DEF BeginSleep
<1>3. ASSUME SleepStep(t) PROVE Counting(Naps)
  <2>1. ASSUME SleepPends(t) \/ SleepReturns(t) PROVE Counting(Naps)
    BY <1>1, <2>1, PendCounts, SameCounts DEF SleepPends, SleepReturns, PendEnds
  <2> QED BY <1>2, <1>3, <2>1 DEF SleepStep, CallSleep, CallUSleep
<1>4. ASSUME SleepExpires(t) PROVE Counting(Naps)
  BY <1>1, <1>4, CountCounts, SameCounts DEF SleepExpires
<1> QED BY <1>3, <1>4

\* Notifications, event flags and mutexes count nothing.
LEMMA OthersCount ==
  ASSUME NEW t, NotifyStep(t) \/ FlagStep(t) \/ MutexStep(t)
  PROVE  Counting({})
<1>1. ASSUME NotifyStep(t) PROVE Counting({})
  BY <1>1, SameCounts
     DEF NotifyStep, CallSignal, CallWait, CallTimedWait, BlockOn, YieldBlocked, PendEnds, semVars
<1>2. ASSUME FlagStep(t) PROVE Counting({})
  <2>1. ASSUME NEW g, NEW m, CallSet(t, g, m) \/ CallClear(t, g, m) PROVE Counting({})
    BY <2>1, SameCounts DEF CallSet, Set, CallClear, allVars, semVars
  <2>2. ASSUME NEW g, NEW m, NEW how, NEW a, NEW at, WaitFlags(t, g, m, how, a, at)
        PROVE  Counting({})
    BY <2>2, SameCounts DEF WaitFlags, allVars
  <2>3. ASSUME FlagsReturn(t) PROVE Counting({})
    BY <2>3, SameCounts DEF FlagsReturn, PendEnds
  <2> QED BY <1>2, <2>1, <2>2, <2>3 DEF FlagStep, CallWaitFlags, CallTimedWaitFlags
<1>3. ASSUME MutexStep(t) PROVE Counting({})
  <2>1. CASE \E m \in Mutexes : CallClaim(t, m) \/ CallTimedClaim(t, m) \/ CallRelease(t, m)
    BY <2>1, SameCounts DEF CallClaim, CallTimedClaim, ClaimBegins, CallRelease
  <2>2. CASE ClaimSucceeds(t) \/ ReleaseCounts(t)
    BY <2>2, SameCounts DEF ClaimSucceeds, ReleaseCounts, Leave
  <2>3. CASE ClaimBlocks(t) \/ ClaimInherits(t)
    BY <2>3, SameCounts DEF ClaimBlocks, ClaimInherits, semVars
  <2>4. CASE ClaimReturns(t) \/ YieldBlocked(t)
    BY <2>4, SameCounts DEF ClaimReturns, PendEnds, YieldBlocked, semVars
  <2>5. CASE ReleaseChecks(t) \/ WakeNextChooses(t) \/ WakeNextUnBlocks(t)
    BY <2>5, SameCounts
       DEF ReleaseChecks, WakeNextChooses, WakeNextUnBlocks, ReleaseEnds, Leave, semVars
  <2> QED BY <1>3, <2>1, <2>2, <2>3, <2>4, <2>5 DEF MutexStep
<1> QED BY <1>1, <1>2, <1>3

\* A step about neither mailboxes nor message queues counts nothing for them.
LEMMA EveryStepCounts ==
  ASSUME KernelAssumption, SemaphoresAssumption, SleepAssumption, NotifyAssumption,
         EventFlagAssumption, MutexAssumption, MailboxAssumption, MessageAssumption,
         ObjectsAssumption, ObjInv, ObjectsNext
  PROVE  \/ \E t \in Thread : BoxStep(t) \/ MessageStep(t)
         \/ Counting(Shared \cup Naps)
<1> DEFINE S == Shared \cup Naps
<1>1. value \in [Sem -> Nat] /\ Shared \subseteq Sem
  BY DEF ObjInv, SemaphoresAssumption
<1>2. ASSUME NEW A, A \subseteq S, Counting(A) PROVE Counting(S)
  BY <1>2 DEF Counting
<1>3. ASSUME UNCHANGED semVars PROVE Counting(S)
  BY <1>3, SameCounts DEF semVars
<1>4. Shared \subseteq S /\ Naps \subseteq S /\ {} \subseteq S
  OBVIOUS
<1> HIDE DEF S
<1>5. ASSUME NEW t, WaitExpires(t) \/ FlagWaitExpires(t) PROVE Counting(S)
  BY <1>5, SameCounts DEF WaitExpires, FlagWaitExpires
<1>6. ASSUME PassGoesOn PROVE Counting(S)
  BY <1>2, <1>3, <1>4, <1>1, <1>5, <1>6, SleepCounts DEF PassGoesOn
<1>7. ASSUME OtherInterrupt PROVE Counting(S)
  <2>1. ASSUME NEW s \in Shared, InterruptPosts(s) PROVE Counting(S)
    BY <1>1, <1>4, <2>1, PostInsideCounts DEF InterruptPosts
  <2>2. ASSUME NotifyInterrupt \/ FlagInterrupt PROVE Counting(S)
    BY <1>3, <2>2 DEF NotifyInterrupt, InterruptSignals, FlagInterrupt, InterruptSets, Set
  <2> QED BY <1>7, <2>1, <2>2 DEF OtherInterrupt
<1>8. ASSUME NEW t \in Thread, ObjectsThreadStep(t), ~BoxStep(t), ~MessageStep(t) PROVE Counting(S)
  <2>1. CASE SemThreadStep(t) \/ SleepStep(t)
    BY <1>1, <1>2, <1>4, <2>1, SemCounts, SleepCounts
  <2>2. CASE NotifyStep(t) \/ FlagStep(t) \/ MutexStep(t)
    BY <1>2, <1>4, <2>2, OthersCount
  <2> QED BY <1>3, <1>8, <2>1, <2>2 DEF ObjectsThreadStep
<1>9. ASSUME BeginPass \/ SwitchContext PROVE Counting(S)
  BY <1>3, <1>9 DEF BeginPass, SwitchContext
<1>10. Counting(S) \/ \E t \in Thread : BoxStep(t) \/ MessageStep(t)
  BY <1>6, <1>7, <1>8, <1>9 DEF ObjectsNext
<1> QED BY <1>10 DEF S

LEMMA BoxCounts ==
  ASSUME MailboxAssumption, value \in [Sem -> Nat], FrameInv, NEW t \in Thread, BoxStep(t)
  PROVE  Counting(BoxSems)
<1>1. ASSUME NEW b \in Box
      PROVE  RecvSem[b] \in Sem /\ SendSem[b] \in Sem /\ RecvSem[b] \in BoxSems /\ SendSem[b] \in BoxSems
  BY DEF MailboxAssumption, BoxSems
<1>2. pc[t] \in Mailing => mail[t].box \in Box
  BY DEF FrameInv, MailInv, Suits
<1>3. ASSUME NEW f, NEW again, TrySend(t, f, again) PROVE Counting(BoxSems)
  BY <1>3, SameCounts DEF TrySend, semVars
<1>4. ASSUME NEW b \in Box, NEW end, CallSend(t, b, end) \/ CallReceive(t, b, end)
      PROVE  Counting(BoxSems)
  BY <1>1, <1>3, <1>4, PendCounts DEF CallSend, CallReceive
<1>5. ASSUME NEW b \in Box, NEW end, NEW ticks, CallTimedSend(t, b, end, ticks) \/ CallTimedReceive(t, b, end, ticks)
      PROVE  Counting(BoxSems)
  BY <1>1, <1>3, <1>5, TimedPendCounts DEF CallTimedSend, CallTimedReceive
<1>6. ASSUME SendWaits(t) PROVE Counting(BoxSems)
  <2>1. mail[t].box \in Box
    BY <1>2, <1>6 DEF SendWaits, Mailing
  <2> QED BY <1>1, <1>6, <2>1, TimedPendCounts DEF SendWaits
<1>7. ASSUME SendPosts(t) \/ ReceivePosts(t) PROVE Counting(BoxSems)
  <2>1. mail[t].box \in Box
    BY <1>2, <1>7 DEF SendPosts, ReceivePosts, Mailing
  <2> QED BY <1>1, <1>7, <2>1, PostByCounts DEF SendPosts, ReceivePosts
<1>8. ASSUME SendWakes(t) \/ SendCopies(t) \/ ReceiveWakes(t) \/ ReceiveTakes(t) \/ ReceiveCopies(t)
      PROVE  Counting(BoxSems)
  BY <1>8, SameCounts DEF SendWakes, SendCopies, ReceiveWakes, ReceiveTakes, ReceiveCopies, PendEnds, semVars
<1>9. ASSUME SendRetries(t) PROVE Counting(BoxSems)
  BY <1>3, <1>9 DEF SendRetries
<1> QED BY <1>4, <1>5, <1>6, <1>7, <1>8, <1>9 DEF BoxStep

LEMMA MessageCounts ==
  ASSUME SemaphoresAssumption, SleepAssumption, MessageAssumption, ObjectsAssumption,
         value \in [Sem -> Nat], NEW t \in Thread, MessageStep(t)
  PROVE  Counting(QueueSems)
<1>1. \A q \in Queue : QueueSem[q] \in Sem /\ QueueSem[q] \in QueueSems
  BY OwnQueueSems
<1>2. ASSUME CallPop(t) \/ (\E x \in Message : CallPush(t, x)) \/ MessagePops(t) PROVE value' = value
  BY <1>2 DEF CallPop, CallPush, MessagePops, allVars, semVars
<1>3. ASSUME NEW q \in Queue, NEW x, CallSendMessage(t, q, x) PROVE Counting(QueueSems)
  BY <1>1, <1>3, PostInsideCounts DEF CallSendMessage
<1>4. ASSUME NEW q \in Queue, NEW n,
             CallReceiveMessage(t, q) \/ CallTimedReceiveMessage(t, q, n)
      PROVE  Counting(QueueSems)
  <2>1. value' = value \/ value' = [value EXCEPT ![QueueSem[q]] = value[QueueSem[q]] - 1]
    BY <1>4 DEF CallReceiveMessage, CallTimedReceiveMessage, Pend, TimedPend, Take, Wait
  <2> QED BY <1>1, <2>1, SameCounts, OneCounts
<1>5. ASSUME MessageWakes(t) PROVE value' = value
  BY <1>5 DEF MessageWakes, PendEnds
<1> QED BY <1>2, <1>3, <1>4, <1>5, SameCounts DEF MessageStep

-----------------------------------------------------------------------------
(* Message queues: what each operation does to the threads *)

\* Nobody but t has moved in its call or from one state to another.
OnlyMoves(t) == MovedAlone(t) /\ \A u \in Thread \ {t} : k'.state[u] = k.state[u]

\* The caller takes a token and goes on.
Takes(t, s, to) ==
  /\ OnlyMoves(t) /\ pc'[t] = to /\ pendOn'[t] = NoList /\ k'.state[t] = "READY"
  /\ value[s] # 0 /\ value' = [value EXCEPT ![s] = @ - 1]

\* The caller waits for one.
Waits(t, s, at) ==
  /\ OnlyMoves(t) /\ pc'[t] = at /\ pendOn'[t] = s /\ k'.state[t] = "BLOCKED"
  /\ value[s] = 0 /\ value' = value

LEMMA WaitMoves ==
  ASSUME KernelAssumption, ObjInv, NEW t \in Thread, Running(t), Outside(t), NEW s, s \in BlockList,
         NEW a, NEW at, Frames(a, t, at), Wait(t, s, a, at),
         expired' = expired \/ expired' = [expired EXCEPT ![t] = FALSE]
  PROVE  Waits(t, s, at)
<1>1. Enters(t, s, at)
  BY WaitEnters DEF Wait
<1>2. /\ pc \in [Thread -> Where] /\ pendOn \in [Thread -> BlockList \cup {NoList}]
      /\ expired \in [Thread -> BOOLEAN]
  BY DEF ObjInv
<1>3. MovedAlone(t) /\ pc'[t] = at /\ pendOn'[t] = s
  BY <1>2 DEF Wait, MovedAlone
<1> QED BY <1>1, <1>3 DEF Waits, OnlyMoves, Enters, OthersStay, Wait

LEMMA TakeMoves ==
  ASSUME KernelAssumption, ObjInv, NEW t \in Thread, Running(t), Outside(t), NEW s, NEW to,
         Take(t, s), pc' = [pc EXCEPT ![t] = to]
  PROVE  Takes(t, s, to)
<1>1. pc \in [Thread -> Where] /\ pendOn[t] = NoList /\ k.state[t] = "READY"
  BY CallerHere
<1> QED BY <1>1 DEF Take, Takes, OnlyMoves, MovedAlone

LEMMA PendMoves ==
  ASSUME KernelAssumption, ObjInv, NEW t \in Thread, Running(t), Outside(t), NEW s, s \in BlockList,
         NEW to, Pend(t, s, to)
  PROVE  Takes(t, s, to) \/ Waits(t, s, "pend")
<1>1. Good(k)
  BY DEF ObjInv
<1> QED BY <1>1, NoFrameTimer, WaitMoves, TakeMoves DEF Pend

LEMMA TimedPendMoves ==
  ASSUME KernelAssumption, SemaphoresAssumption, ObjInv, NEW t \in Thread, Running(t), Outside(t),
         NEW s, s \in BlockList, NEW ticks \in WaitTicks, NEW to, TimedPend(t, s, ticks, to)
  PROVE  Takes(t, s, to) \/ (Waits(t, s, "timed") /\ ~expired'[t])
<1> DEFINE a == TimerAdd(k, WaitTimer(t), ticks)
<1>1. a = TimerAdd(k, WaitTimer(t), ticks)
  OBVIOUS
<1> HIDE DEF a
<1>2. Frames(a, t, "timed")
  BY <1>1, CallerHere, TimedFrame DEF InTimedWait
<1>3. CASE Take(t, s) /\ pc' = [pc EXCEPT ![t] = to]
  BY <1>3, TakeMoves
<1>4. CASE Wait(t, s, a, "timed") /\ expired' = [expired EXCEPT ![t] = FALSE]
  <2>1. Waits(t, s, "timed")
    BY <1>2, <1>4, WaitMoves
  <2>2. ~expired'[t]
    BY <1>4 DEF ObjInv
  <2> QED BY <2>1, <2>2
<1> QED BY <1>1, <1>3, <1>4 DEF TimedPend

\* A post makes one thread READY that waits for s, and no other one moves.
Grants(h, s) ==
  /\ h \in Thread /\ k.state[h] = "BLOCKED" /\ k.where[h] = s /\ k'.state[h] = "READY"
  /\ \A u \in Thread \ {h} : k'.state[u] = k.state[u]

LEMMA PostGrants ==
  ASSUME KernelAssumption, ObjInv, NEW s, s \in BlockList, k.list[s] # <<>>,
         k' = PostAndYield(k, s)
  PROVE  \E h : Grants(h, s)
<1> DEFINE h == Head(k.list[s])
           a == UnBlock(k, h)
<1>1. PICK y \in BOOLEAN : y <=> pc[k.current] \in Yielding
  OBVIOUS
<1>2. PICK o \in BOOLEAN : o <=> pc[k.current] \in Enabling
  OBVIOUS
<1>3. Good(k) /\ Dispatches(k, y, o)
  BY <1>1, <1>2 DEF ObjInv, Dispatches
<1>4. /\ h \in Thread /\ k.state[h] = "BLOCKED" /\ k.where[h] = s /\ a = UnBlock(k, h)
      /\ k' = (IF Preempts(a, h) THEN Yield(a) ELSE a)
  BY <1>3, HeadWaits DEF PostAndYield
<1> HIDE DEF h, a
<1>5. /\ Good(a) /\ Dispatches(a, y, o) /\ OthersStay(a, k, h)
      /\ a.state[h] \in {k.state[h], "READY"} /\ a.state[h] # "BLOCKED"
  BY <1>3, <1>4, UnBlockDispatches
<1>6. k'.state = a.state
  <2>1. CASE k' = Yield(a)
    <3>1. SameThreads(k', a)
      BY <1>5, <2>1, YieldDispatches
    <3> QED BY <3>1 DEF SameThreads
  <2> QED BY <1>4, <2>1
<1> QED BY <1>4, <1>5, <1>6 DEF Grants, OthersStay

-----------------------------------------------------------------------------
(* Message queues: tokens *)

\* One thread gets a token of q, one has it no more, or none of the two.
Gains(q, t) == /\ t \in Thread /\ Holds(t, q)' /\ ~Holds(t, q)
               /\ \A u \in Thread \ {t} : Holds(u, q)' <=> Holds(u, q)
Drops(q, t) == /\ t \in Thread /\ ~Holds(t, q)' /\ Holds(t, q)
               /\ \A u \in Thread \ {t} : Holds(u, q)' <=> Holds(u, q)
Stays(q)    == \A u \in Thread : Holds(u, q)' <=> Holds(u, q)

LEMMA HoldersFinite ==
  ASSUME KernelAssumption, NEW q
  PROVE  /\ IsFiniteSet(Holders(q)) /\ Cardinality(Holders(q)) \in Nat
         /\ IsFiniteSet(Holders(q)') /\ Cardinality(Holders(q)') \in Nat
<1>1. IsFiniteSet(Thread) /\ Holders(q) \in SUBSET Thread /\ Holders(q)' \in SUBSET Thread
  BY DEF KernelAssumption, Holders
<1>2. IsFiniteSet(Holders(q)) /\ IsFiniteSet(Holders(q)')
  BY <1>1, FS_Subset
<1> QED BY <1>2, FS_CardinalityType

LEMMA OneMore ==
  ASSUME NEW A, IsFiniteSet(A), NEW t, t \notin A, NEW B, B = A \cup {t}
  PROVE  Cardinality(B) = Cardinality(A) + 1
BY FS_AddElement

LEMMA OneLess ==
  ASSUME NEW A, IsFiniteSet(A), NEW t, t \in A, NEW B, B = A \ {t}
  PROVE  Cardinality(B) = Cardinality(A) - 1 /\ Cardinality(A) >= 1
<1>1. Cardinality(B) = Cardinality(A) - 1
  BY FS_RemoveElement
<1>2. IsFiniteSet(B) /\ Cardinality(B) \in Nat /\ Cardinality(A) \in Nat
  BY FS_RemoveElement, FS_CardinalityType
<1> QED BY <1>1, <1>2

LEMMA GainsOne ==
  ASSUME KernelAssumption, NEW q, NEW t, Gains(q, t)
  PROVE  Cardinality(Holders(q)') = Cardinality(Holders(q)) + 1
<1>1. t \notin Holders(q) /\ Holders(q)' = Holders(q) \cup {t}
  BY DEF Gains, Holders
<1>2. IsFiniteSet(Holders(q))
  BY HoldersFinite
<1> QED BY <1>1, <1>2, OneMore

LEMMA DropsOne ==
  ASSUME KernelAssumption, NEW q, NEW t, Drops(q, t)
  PROVE  /\ Cardinality(Holders(q)') = Cardinality(Holders(q)) - 1
         /\ Cardinality(Holders(q)) >= 1
<1>1. t \in Holders(q) /\ Holders(q)' = Holders(q) \ {t}
  BY DEF Drops, Holders
<1>2. IsFiniteSet(Holders(q))
  BY HoldersFinite
<1> QED BY <1>1, <1>2, OneLess

LEMMA StaysSame ==
  ASSUME NEW q, Stays(q)
  PROVE  Holders(q)' = Holders(q)
BY DEF Stays, Holders

LEMMA TokensAre ==
  ASSUME KernelAssumption, MessageAssumption, SemaphoresAssumption, ObjInv, NEW q \in Queue
  PROVE  value[QueueSem[q]] \in Nat /\ Tokens(q) \in Nat
<1>1. value[QueueSem[q]] \in Nat
  BY DEF ObjInv, MessageAssumption
<1> QED BY <1>1, HoldersFinite DEF Tokens

LEMMA TokensMove ==
  ASSUME KernelAssumption, MessageAssumption, SemaphoresAssumption, ObjInv, ObjInv', NEW q \in Queue
  PROVE  LET v == value[QueueSem[q]]
         IN  /\ Stays(q) /\ v' = v => Tokens(q)' = Tokens(q)
             /\ Stays(q) /\ v' = v + 1 => Tokens(q)' = Tokens(q) + 1
             /\ (\E t : Gains(q, t)) /\ v' = v => Tokens(q)' = Tokens(q) + 1
             /\ (\E t : Gains(q, t)) /\ v' = v - 1 => Tokens(q)' = Tokens(q)
             /\ (\E t : Drops(q, t)) /\ v' = v => Tokens(q)' = Tokens(q) - 1
             /\ (\E t : Drops(q, t)) => Tokens(q) >= 1
<1>1. value[QueueSem[q]] \in Nat /\ value'[QueueSem[q]] \in Nat
  BY DEF ObjInv, MessageAssumption
<1>2. /\ Tokens(q)  = value[QueueSem[q]] + Cardinality(Holders(q))
      /\ Tokens(q)' = value'[QueueSem[q]] + Cardinality(Holders(q)')
      /\ Cardinality(Holders(q)) \in Nat /\ Cardinality(Holders(q)') \in Nat
  BY HoldersFinite DEF Tokens
<1>3. Stays(q) => Cardinality(Holders(q)') = Cardinality(Holders(q))
  BY StaysSame
<1>4. (\E t : Gains(q, t)) => Cardinality(Holders(q)') = Cardinality(Holders(q)) + 1
  BY GainsOne
<1>5. (\E t : Drops(q, t)) => /\ Cardinality(Holders(q)') = Cardinality(Holders(q)) - 1
                              /\ Cardinality(Holders(q)) >= 1
  BY DropsOne
<1> QED BY <1>1, <1>2, <1>3, <1>4, <1>5

\* The messages of q and the tokens for them change alike.
Evens(q) == Len(queue'[q]) - Tokens(q)' = Len(queue[q]) - Tokens(q)

\* The threads but t are as far in a Receive as they were.
LEMMA RestHolds ==
  ASSUME NEW t, OnlyMoves(t), \A u \in Thread \ {t} : from'[u] = from[u],
         NEW u \in Thread, u # t
  PROVE  /\ \A q : Holds(u, q)' <=> Holds(u, q)
         /\ Receiving(u) => Receiving(u)'
<1>1. /\ pc'[u] = pc[u] /\ pendOn'[u] = pendOn[u] /\ expired'[u] = expired[u]
      /\ k'.state[u] = k.state[u] /\ from'[u] = from[u]
  BY DEF OnlyMoves, MovedAlone
<1> QED BY <1>1 DEF Holds, TimedOut, Receiving

\* What is left of a list without its head.
LEMMA TailFacts ==
  ASSUME NEW S, NEW s \in Seq(S), s # <<>>, IsInjective(s)
  PROVE  /\ Tail(s) \in Seq(S) /\ Head(s) \in S /\ Len(Tail(s)) = Len(s) - 1
         /\ ToSet(Tail(s)) = ToSet(s) \ {Head(s)} /\ Head(s) \in ToSet(s)
         /\ IsInjective(Tail(s))
<1> DEFINE r == Tail(s)
<1>1. /\ r \in Seq(S) /\ Len(s) \in Nat \ {0} /\ Len(r) = Len(s) - 1 /\ Head(s) = s[1]
      /\ Head(s) \in S
  OBVIOUS
<1>2. \A i \in 1 .. Len(s) - 1 : r[i] = s[i + 1]
  OBVIOUS
<1> HIDE DEF r
<1>3. DOMAIN r = 1 .. Len(s) - 1 /\ DOMAIN s = 1 .. Len(s)
  BY <1>1
<1>4. IsInjective(r)
  <2> SUFFICES ASSUME NEW i \in 1 .. Len(s) - 1, NEW j \in 1 .. Len(s) - 1, r[i] = r[j] PROVE i = j
    BY <1>3 DEF IsInjective
  <2>1. s[i + 1] = s[j + 1] /\ i + 1 \in 1 .. Len(s) /\ j + 1 \in 1 .. Len(s)
    BY <1>1, <1>2
  <2>2. i + 1 = j + 1
    BY <1>3, <2>1 DEF IsInjective
  <2> QED BY <2>2
<1>5. Head(s) \in ToSet(s)
  BY <1>1, <1>3 DEF ToSet
<1>6. ASSUME NEW x \in ToSet(r) PROVE x \in ToSet(s) /\ x # Head(s)
  <2>1. PICK i \in 1 .. Len(s) - 1 : r[i] = x
    BY <1>3 DEF ToSet
  <2>2. s[i + 1] = x /\ i + 1 \in 1 .. Len(s) /\ i + 1 # 1
    BY <1>1, <1>2, <2>1
  <2> QED BY <1>1, <1>3, <2>2 DEF ToSet, IsInjective
<1>7. ASSUME NEW x \in ToSet(s), x # Head(s) PROVE x \in ToSet(r)
  <2>1. PICK i \in 1 .. Len(s) : s[i] = x
    BY <1>3 DEF ToSet
  <2>2. i - 1 \in 1 .. Len(s) - 1 /\ r[i - 1] = s[i]
    BY <1>1, <1>2, <1>7, <2>1
  <2> QED BY <1>3, <2>1, <2>2 DEF ToSet
<1>8. ToSet(r) = ToSet(s) \ {Head(s)}
  BY <1>6, <1>7
<1> QED BY <1>1, <1>4, <1>5, <1>8 DEF r

\* A queue without one of the messages is not full.
LEMMA QueueFits ==
  ASSUME MessageAssumption, NEW s \in Seq(Message), IsInjective(s), NEW x \in Message, x \notin ToSet(s)
  PROVE  Len(s) < Cardinality(Message)
<1>1. Len(s) \in Nat /\ s \in [1 .. Len(s) -> Message] /\ DOMAIN s = 1 .. Len(s)
  OBVIOUS
<1>2. \A i \in 1 .. Len(s) : s[i] # x
  BY <1>1 DEF ToSet
<1>3. s \in [1 .. Len(s) -> Message \ {x}]
  BY <1>1, <1>2
<1>4. s \in Injection(1 .. Len(s), Message \ {x})
  BY <1>1, <1>3 DEF Injection, IsInjective
<1>5. /\ IsFiniteSet(Message \ {x}) /\ Cardinality(Message \ {x}) = Cardinality(Message) - 1
      /\ Cardinality(Message) \in Nat
  BY FS_RemoveElement, FS_CardinalityType DEF MessageAssumption
<1>6. Cardinality(1 .. Len(s)) <= Cardinality(Message \ {x})
  BY <1>4, <1>5, FS_Injection
<1>7. Cardinality(1 .. Len(s)) = Len(s)
  BY <1>1, FS_Interval
<1> QED BY <1>1, <1>5, <1>6, <1>7

-----------------------------------------------------------------------------
(* Message queues: where the messages are *)

\* Only message x goes from one place to another.
OnlyPlaces(x) ==
  \A y \in Message \ {x} :
    /\ y \in ToSet(pool') <=> y \in ToSet(pool)
    /\ \A q \in Queue : y \in ToSet(queue'[q]) <=> y \in ToSet(queue[q])
    /\ \A t \in Thread : y \in hand'[t] <=> y \in hand[t]

LEMMA OnceForOthers ==
  ASSUME MessagesApart, NEW x, OnlyPlaces(x), Once(x)'
  PROVE  \A y \in Message : Once(y)'
<1> SUFFICES ASSUME NEW y \in Message, y # x PROVE Once(y)'
  OBVIOUS
<1>1. Once(y)
  BY DEF MessagesApart
<1>2. /\ y \in ToSet(pool') <=> y \in ToSet(pool)
      /\ \A q \in Queue : y \in ToSet(queue'[q]) <=> y \in ToSet(queue[q])
      /\ \A t \in Thread : y \in hand'[t] <=> y \in hand[t]
  BY DEF OnlyPlaces
<1> QED BY <1>1, <1>2 DEF Once

LEMMA PopApart ==
  ASSUME MessagesApart, NEW t \in Thread, CallPop(t)
  PROVE  MessagesApart'
<1>1. /\ pool # <<>> /\ hand' = [hand EXCEPT ![t] = @ \cup {Head(pool)}] /\ pool' = Tail(pool)
      /\ queue' = queue
  BY DEF CallPop
<1>2. /\ pool \in Seq(Message) /\ IsInjective(pool) /\ hand \in [Thread -> SUBSET Message]
  BY DEF MessagesApart
<1>3. PICK x \in Message : x = Head(pool)
  BY <1>1, <1>2, TailFacts
<1>4. /\ pool' \in Seq(Message) /\ IsInjective(pool') /\ ToSet(pool') = ToSet(pool) \ {x}
      /\ x \in ToSet(pool)
  BY <1>1, <1>2, <1>3, TailFacts
<1>5. /\ hand' \in [Thread -> SUBSET Message] /\ hand'[t] = hand[t] \cup {x}
      /\ \A u \in Thread \ {t} : hand'[u] = hand[u]
  BY <1>1, <1>2, <1>3
<1>6. OnlyPlaces(x)
  BY <1>1, <1>4, <1>5 DEF OnlyPlaces
<1>7. Once(x)'
  <2>1. Once(x)
    BY DEF MessagesApart
  <2> QED BY <1>1, <1>4, <1>5, <2>1 DEF Once
<1> QED BY <1>1, <1>4, <1>5, <1>6, <1>7, OnceForOthers DEF MessagesApart

LEMMA PushApart ==
  ASSUME MessagesApart, NEW t \in Thread, NEW x \in Message, CallPush(t, x)
  PROVE  MessagesApart'
<1>1. /\ x \in hand[t] /\ hand' = [hand EXCEPT ![t] = @ \ {x}] /\ pool' = Append(pool, x)
      /\ queue' = queue
  BY DEF CallPush
<1>2. /\ pool \in Seq(Message) /\ IsInjective(pool) /\ hand \in [Thread -> SUBSET Message]
      /\ Once(x)
  BY DEF MessagesApart
<1>3. x \notin ToSet(pool)
  BY <1>1, <1>2 DEF Once
<1>4. /\ pool' \in Seq(Message) /\ IsInjective(pool') /\ ToSet(pool') = ToSet(pool) \cup {x}
  BY <1>1, <1>2, <1>3, AppendMembers, AppendOnce
<1>5. /\ hand' \in [Thread -> SUBSET Message] /\ hand'[t] = hand[t] \ {x}
      /\ \A u \in Thread \ {t} : hand'[u] = hand[u]
  BY <1>1, <1>2
<1>6. OnlyPlaces(x)
  BY <1>1, <1>4, <1>5 DEF OnlyPlaces
<1>7. Once(x)'
  BY <1>1, <1>2, <1>4, <1>5 DEF Once
<1> QED BY <1>1, <1>4, <1>5, <1>6, <1>7, OnceForOthers DEF MessagesApart

LEMMA SendApart ==
  ASSUME MessagesApart, NEW t \in Thread, NEW q \in Queue, NEW x \in Message,
         x \in hand[t], hand' = [hand EXCEPT ![t] = @ \ {x}],
         queue' = [queue EXCEPT ![q] = Append(@, x)], pool' = pool
  PROVE  MessagesApart' /\ Len(queue'[q]) = Len(queue[q]) + 1
<1>1. /\ queue \in [Queue -> Seq(Message)] /\ hand \in [Thread -> SUBSET Message]
      /\ IsInjective(queue[q]) /\ Once(x)
  BY DEF MessagesApart
<1>2. x \notin ToSet(queue[q])
  BY <1>1 DEF Once
<1>3. /\ queue' \in [Queue -> Seq(Message)] /\ queue'[q] = Append(queue[q], x)
      /\ \A r \in Queue \ {q} : queue'[r] = queue[r]
  BY <1>1
<1>4. IsInjective(queue'[q]) /\ ToSet(queue'[q]) = ToSet(queue[q]) \cup {x}
  <2>1. queue[q] \in Seq(Message)
    BY <1>1
  <2> QED BY <1>1, <1>2, <1>3, <2>1, AppendMembers, AppendOnce
<1>5. /\ hand' \in [Thread -> SUBSET Message] /\ hand'[t] = hand[t] \ {x}
      /\ \A u \in Thread \ {t} : hand'[u] = hand[u]
  BY <1>1
<1>6. OnlyPlaces(x)
  BY <1>3, <1>4, <1>5 DEF OnlyPlaces
<1>7. Once(x)'
  BY <1>1, <1>3, <1>4, <1>5 DEF Once
<1>8. \A r \in Queue : IsInjective(queue'[r])
  BY <1>3, <1>4 DEF MessagesApart
<1>9. Len(queue'[q]) = Len(queue[q]) + 1
  BY <1>1, <1>3
<1>10. pool' \in Seq(Message) /\ IsInjective(pool')
  BY DEF MessagesApart
<1> QED BY <1>3, <1>5, <1>6, <1>7, <1>8, <1>9, <1>10, OnceForOthers DEF MessagesApart

LEMMA TakeApart ==
  ASSUME MessagesApart, NEW t \in Thread, NEW q \in Queue, queue[q] # <<>>,
         hand' = [hand EXCEPT ![t] = @ \cup {Head(queue[q])}],
         queue' = [queue EXCEPT ![q] = Tail(@)], pool' = pool
  PROVE  MessagesApart' /\ Len(queue'[q]) = Len(queue[q]) - 1
<1>1. /\ queue \in [Queue -> Seq(Message)] /\ hand \in [Thread -> SUBSET Message]
      /\ IsInjective(queue[q]) /\ queue[q] \in Seq(Message)
  BY DEF MessagesApart
<1>2. PICK x \in Message : x = Head(queue[q])
  BY <1>1, TailFacts
<1>3. /\ Tail(queue[q]) \in Seq(Message) /\ Len(Tail(queue[q])) = Len(queue[q]) - 1
      /\ ToSet(Tail(queue[q])) = ToSet(queue[q]) \ {x} /\ x \in ToSet(queue[q])
      /\ IsInjective(Tail(queue[q]))
  BY <1>1, <1>2, TailFacts
<1>4. /\ queue' \in [Queue -> Seq(Message)] /\ queue'[q] = Tail(queue[q])
      /\ \A r \in Queue \ {q} : queue'[r] = queue[r]
  BY <1>1, <1>3
<1>5. /\ hand' \in [Thread -> SUBSET Message] /\ hand'[t] = hand[t] \cup {x}
      /\ \A u \in Thread \ {t} : hand'[u] = hand[u]
  BY <1>1, <1>2
<1>6. OnlyPlaces(x)
  BY <1>3, <1>4, <1>5 DEF OnlyPlaces
<1>7. Once(x)'
  <2>1. Once(x)
    BY DEF MessagesApart
  <2> QED BY <1>3, <1>4, <1>5, <2>1 DEF Once
<1>8. \A r \in Queue : IsInjective(queue'[r])
  BY <1>3, <1>4 DEF MessagesApart
<1>9. pool' \in Seq(Message) /\ IsInjective(pool')
  BY DEF MessagesApart
<1> QED BY <1>3, <1>4, <1>5, <1>6, <1>7, <1>8, <1>9, OnceForOthers DEF MessagesApart

-----------------------------------------------------------------------------
(* Message queues: what each operation does to tokens and messages *)

\* The tokens of a queue that a step leaves alone.
LEMMA StaysEven ==
  ASSUME KernelAssumption, MessageAssumption, SemaphoresAssumption, ObjInv, ObjInv', NEW q \in Queue,
         Stays(q), value'[QueueSem[q]] = value[QueueSem[q]], queue'[q] = queue[q]
  PROVE  Evens(q)
<1>1. Tokens(q)' = Tokens(q)
  BY TokensMove
<1> QED BY <1>1 DEF Evens

\* Only thread t may move in a Receive, and only in one of q.
MovesIn(t, q) ==
  /\ OnlyMoves(t) /\ \A u \in Thread \ {t} : from'[u] = from[u]
  /\ from[t] \in {q, NoList} /\ from'[t] \in {q, NoList}
  /\ Counting({QueueSem[q]}) /\ \A r \in Queue \ {q} : queue'[r] = queue[r]

LEMMA OtherQueuesEven ==
  ASSUME KernelAssumption, MessageAssumption, SemaphoresAssumption, SleepAssumption,
         ObjectsAssumption, ObjInv, ObjInv', NEW t, NEW q \in Queue, MovesIn(t, q),
         NEW r \in Queue, r # q
  PROVE  Evens(r)
<1>1. value'[QueueSem[r]] = value[QueueSem[r]]
  BY OwnQueueSems DEF MovesIn, Counting
<1>2. Stays(r)
  <2>1. ~Holds(t, r) /\ ~Holds(t, r)'
    BY MessageAssumption DEF MovesIn, Holds, MessageAssumption
  <2>2. ASSUME NEW u \in Thread, u # t PROVE Holds(u, r)' <=> Holds(u, r)
    BY <2>2, RestHolds DEF MovesIn
  <2> QED BY <2>1, <2>2 DEF Stays
<1> QED BY <1>1, <1>2, StaysEven DEF MovesIn

\* A step keeps what is known of queues and messages, and the tokens match.
Matched == QueueInv' /\ \A q \in Queue : Evens(q)

\* The thread that moves, and the queue it moves in, decide.
LEMMA MoverMatches ==
  ASSUME KernelAssumption, MessageAssumption, SemaphoresAssumption, SleepAssumption,
         ObjectsAssumption, ObjInv, ObjInv', QueueInv, NEW t \in Thread, NEW q \in Queue,
         MovesIn(t, q), MessagesApart', Receiving(t)', Evens(q),
         from' \in [Thread -> Queue \cup {NoList}]
  PROVE  Matched
<1>1. \A r \in Queue : Evens(r)
  BY OtherQueuesEven
<1>2. \A u \in Thread : Receiving(u)'
  <2>1. ASSUME NEW u \in Thread, u # t PROVE Receiving(u)'
    BY <2>1, RestHolds DEF MovesIn, QueueInv
  <2> QED BY <2>1
<1> QED BY <1>1, <1>2 DEF Matched, QueueInv

\* A message comes from the pool or goes back to it.
LEMMA PoolMatches ==
  ASSUME KernelAssumption, MessageAssumption, SemaphoresAssumption, ObjInv, ObjInv', QueueInv,
         MessagesApart', UNCHANGED <<allVars, queue, from>>
  PROVE  Matched
<1>1. /\ k' = k /\ pc' = pc /\ pendOn' = pendOn /\ expired' = expired /\ value' = value
      /\ queue' = queue /\ from' = from
  BY DEF allVars, semVars
<1>2. \A q \in Queue : Evens(q)
  <2>1. ASSUME NEW q \in Queue PROVE Stays(q)
    BY <1>1 DEF Stays, Holds, TimedOut
  <2> QED BY <1>1, <2>1, StaysEven
<1>3. \A u \in Thread : Receiving(u)'
  BY <1>1 DEF QueueInv, Receiving, TimedOut
<1> QED BY <1>1, <1>2, <1>3 DEF Matched, QueueInv

\* What a thread outside of waits knows about the Receive it is not in.
LEMMA NotReceiving ==
  ASSUME KernelAssumption, SemaphoresAssumption, SleepAssumption, MessageAssumption,
         ObjectsAssumption, ObjInv, QueueInv, NEW t \in Thread, Running(t), pc[t] = "run"
  PROVE  from[t] = NoList /\ Outside(t) /\ k.state[t] = "READY" /\ pendOn[t] = NoList
<1>1. Outside(t)
  BY DEF Outside, Plain, Where, InWait, Waiting, Yielding, Enabling
<1>2. k.state[t] = "READY" /\ pendOn[t] = NoList
  BY <1>1, CallerHere
<1>3. \A q \in Queue : pendOn[t] # QueueSem[q]
  BY <1>2, OwnQueueSems, KernelAssumption DEF KernelAssumption
<1>4. from[t] \notin Queue /\ from[t] \in Queue \cup {NoList}
  BY <1>3 DEF QueueInv, Receiving
<1> QED BY <1>1, <1>2, <1>4

\* A Send posts a token for its message.
LEMMA SendMatches ==
  ASSUME KernelAssumption, SemaphoresAssumption, SleepAssumption, MessageAssumption,
         ObjectsAssumption, ObjInv, ObjInv', QueueInv, TokenInv, NEW t \in Thread, NEW q \in Queue,
         NEW x \in Message, CallSendMessage(t, q, x)
  PROVE  Matched
<1> DEFINE s == QueueSem[q]
<1>1. /\ Running(t) /\ pc[t] = "run" /\ x \in hand[t] /\ hand' = [hand EXCEPT ![t] = @ \ {x}]
      /\ queue' = [queue EXCEPT ![q] = Append(@, x)] /\ pool' = pool /\ from' = from
      /\ PostInside(s) /\ pc' = pc /\ pendOn' = pendOn /\ expired' = expired
  BY DEF CallSendMessage, Calling, PostInside
<1>2. s \in Sem /\ s \in BlockList /\ value \in [Sem -> Nat] /\ k \in KernelState
  BY OwnQueueSems DEF ObjInv, Good
<1>3. /\ MessagesApart /\ queue \in [Queue -> Seq(Message)]
      /\ from \in [Thread -> Queue \cup {NoList}]
  BY DEF QueueInv, MessagesApart
<1>4. /\ MessagesApart' /\ Len(queue'[q]) = Len(queue[q]) + 1 /\ Len(queue[q]) \in Nat
      /\ \A r \in Queue \ {q} : queue'[r] = queue[r]
  <2>1. MessagesApart' /\ Len(queue'[q]) = Len(queue[q]) + 1
    BY <1>1, <1>3, SendApart
  <2>2. Len(queue[q]) \in Nat /\ \A r \in Queue \ {q} : queue'[r] = queue[r]
    BY <1>1, <1>3
  <2> QED BY <2>1, <2>2
<1>5. value[s] < MaxValue[s] /\ ~(value[s] >= MaxValue[s])
  <2>1. x \notin ToSet(queue[q]) /\ IsInjective(queue[q])
    BY <1>1, <1>3 DEF MessagesApart, Once
  <2>2. Len(queue[q]) < Cardinality(Message) /\ MaxValue[s] = Cardinality(Message)
    BY <1>3, <2>1, QueueFits DEF MessageAssumption
  <2>3. Tokens(q) <= Len(queue[q])
    BY DEF TokenInv
  <2>4. value[s] <= Tokens(q)
    BY <1>2, HoldersFinite DEF Tokens
  <2>5. value[s] \in Nat /\ Tokens(q) \in Nat /\ Cardinality(Message) \in Nat
    BY <1>2, TokensAre, FS_CardinalityType DEF MessageAssumption
  <2> HIDE DEF s
  <2> QED BY <1>4, <2>2, <2>3, <2>4, <2>5
<1> HIDE DEF s
<1>6. CASE k' = k /\ value' = [value EXCEPT ![s] = @ + 1]
  <2>1. \A r \in Queue : Stays(r)
    BY <1>1, <1>6 DEF Stays, Holds, TimedOut
  <2>2. Tokens(q)' = Tokens(q) + 1
    <3>1. value'[s] = value[s] + 1
      BY <1>2, <1>6
    <3> QED BY <2>1, <3>1, TokensMove DEF s
  <2>3. Evens(q)
    <3>1. Tokens(q) \in Nat
      BY TokensAre
    <3> QED BY <1>4, <2>2, <3>1 DEF Evens
  <2>4. \A u \in Thread : Receiving(u)'
    BY <1>1, <1>6 DEF QueueInv, Receiving, TimedOut
  <2>5. ASSUME NEW r \in Queue, r # q PROVE Evens(r)
    <3>1. value'[QueueSem[r]] = value[QueueSem[r]]
      BY <1>2, <1>6, <2>5, OwnQueueSems DEF s
    <3> QED BY <1>4, <2>1, <2>5, <3>1, StaysEven
  <2> QED BY <1>1, <1>3, <1>4, <2>3, <2>4, <2>5 DEF Matched, QueueInv
<1>7. CASE k.list[s] # <<>> /\ k' = PostAndYield(k, s) /\ value' = value
  <2>1. PICK h : Grants(h, s)
    BY <1>2, <1>7, PostGrants
  <2>2. /\ h \in Thread /\ k.state[h] = "BLOCKED" /\ k.where[h] = s /\ k'.state[h] = "READY"
        /\ OnlyMoves(h)
    BY <1>1, <2>1 DEF Grants, OnlyMoves, MovedAlone
  <2>3. pendOn[h] = s
    BY <2>2 DEF ObjInv, Placed
  <2>4. Receiving(h) /\ from[h] = q /\ pc[h] \in {"pend", "timed"} /\ ~TimedOut(h)
    BY <2>2, <2>3 DEF QueueInv, Receiving, s
  <2>5. Gains(q, h)
    <3>1. Holds(h, q)' /\ ~Holds(h, q)
      BY <1>1, <2>2, <2>4 DEF Holds, TimedOut
    <3>2. ASSUME NEW u \in Thread, u # h PROVE Holds(u, q)' <=> Holds(u, q)
      BY <1>1, <2>2, <3>2, RestHolds
    <3> QED BY <2>2, <3>1, <3>2 DEF Gains
  <2>6. Tokens(q)' = Tokens(q) + 1
    BY <1>7, <2>5, TokensMove
  <2>7. Evens(q)
    <3>1. Tokens(q) \in Nat
      BY TokensAre
    <3> QED BY <1>4, <2>6, <3>1 DEF Evens
  <2>8. MovesIn(h, q)
    <3>1. Counting({QueueSem[q]})
      BY <1>7, SameCounts
    <3> QED BY <1>1, <1>4, <2>2, <2>4, <3>1 DEF MovesIn
  <2>9. Receiving(h)'
    BY <1>1, <2>2, <2>4 DEF Receiving, TimedOut
  <2> QED BY <1>1, <1>3, <1>4, <2>2, <2>7, <2>8, <2>9, MoverMatches
<1> QED BY <1>1, <1>5, <1>6, <1>7 DEF PostInside, Count

\* A Receive begins: it takes a token or waits for one.
LEMMA ReceiveMatches ==
  ASSUME KernelAssumption, SemaphoresAssumption, SleepAssumption, MessageAssumption,
         ObjectsAssumption, ObjInv, ObjInv', QueueInv, NEW t \in Thread, NEW q \in Queue,
         Running(t), pc[t] = "run", NEW at, at \in {"pend", "timed"}, at = "timed" => ~expired'[t],
         Takes(t, QueueSem[q], "pop") \/ Waits(t, QueueSem[q], at),
         from' = [from EXCEPT ![t] = q], UNCHANGED <<pool, queue, hand>>
  PROVE  Matched
<1> DEFINE s == QueueSem[q]
<1>1. /\ from[t] = NoList /\ k.state[t] = "READY" /\ pendOn[t] = NoList
  BY NotReceiving
<1>2. s \in Sem /\ value \in [Sem -> Nat] /\ s \in BlockList
  BY OwnQueueSems DEF ObjInv
<1>3. /\ from' \in [Thread -> Queue \cup {NoList}] /\ from'[t] = q
      /\ \A u \in Thread \ {t} : from'[u] = from[u]
  BY DEF QueueInv
<1>4. MessagesApart'
  BY DEF QueueInv, MessagesApart, Once
<1>5. OnlyMoves(t)
  BY DEF Takes, Waits
<1>6. MovesIn(t, q)
  <2>1. Counting({QueueSem[q]})
    BY <1>2, SameCounts, OneCounts DEF Takes, Waits
  <2> QED BY <1>1, <1>3, <1>5, <2>1 DEF MovesIn
<1>7. \A u \in Thread \ {t} : Holds(u, q)' <=> Holds(u, q)
  BY <1>3, <1>5, RestHolds
<1>8. ~Holds(t, q)
  BY <1>1, MessageAssumption DEF Holds, MessageAssumption
<1>9. \A r \in Queue : s = QueueSem[r] => r = q
  BY OwnQueueSems
<1> HIDE DEF s
<1>10. CASE Takes(t, s, "pop")
  <2>1. /\ pc'[t] = "pop" /\ pendOn'[t] = NoList /\ k'.state[t] = "READY"
        /\ value[s] # 0 /\ value' = [value EXCEPT ![s] = @ - 1]
    BY <1>10 DEF Takes
  <2>2. Holds(t, q)'
    BY <1>3, <2>1 DEF Holds, TimedOut
  <2>3. Tokens(q)' = Tokens(q)
    <3>1. value'[s] = value[s] - 1
      BY <1>2, <2>1
    <3>2. Gains(q, t)
      BY <1>7, <1>8, <2>2 DEF Gains
    <3> QED BY <3>1, <3>2, TokensMove DEF s
  <2>4. Receiving(t)'
    <3>1. \A r \in Queue : pendOn'[t] # QueueSem[r]
      BY <2>1, OwnQueueSems, KernelAssumption DEF KernelAssumption
    <3> QED BY <1>3, <2>1, <3>1 DEF Receiving
  <2> QED BY <1>3, <1>4, <1>6, <2>3, <2>4, MoverMatches DEF Evens
<1>11. CASE Waits(t, s, at)
  <2>1. pc'[t] = at /\ pendOn'[t] = s /\ k'.state[t] = "BLOCKED" /\ value' = value
    BY <1>11 DEF Waits
  <2>2. Stays(q)
    <3>1. ~Holds(t, q)'
      BY <2>1 DEF Holds
    <3> QED BY <1>7, <1>8, <3>1 DEF Stays
  <2>3. Evens(q)
    BY <2>1, <2>2, StaysEven
  <2>4. Receiving(t)'
    <3>1. pendOn'[t] = QueueSem[q]
      BY <2>1 DEF s
    <3> QED BY <1>3, <1>9, <2>1, <3>1 DEF Receiving, TimedOut
  <2> QED BY <1>3, <1>4, <1>6, <2>3, <2>4, MoverMatches
<1> QED BY <1>10, <1>11 DEF s

\* A Receive has waited: it goes on to take a message, or has timed out.
LEMMA WakesMatches ==
  ASSUME KernelAssumption, SemaphoresAssumption, SleepAssumption, MessageAssumption,
         ObjectsAssumption, ObjInv, ObjInv', QueueInv, NEW t \in Thread, MessageWakes(t)
  PROVE  Matched
<1>1. PICK q \in Queue : from[t] = q /\ pendOn[t] = QueueSem[q]
  BY DEF MessageWakes
<1>2. /\ Same /\ MovedAlone(t) /\ pendOn'[t] = NoList /\ k.state[t] = "READY"
      /\ pc[t] \in {"pend", "timed"}
  BY PendEndsMoves DEF MessageWakes
<1>3. pc \in [Thread -> Where] /\ from \in [Thread -> Queue \cup {NoList}]
  BY DEF ObjInv, QueueInv
<1>4. /\ value' = value /\ queue' = queue /\ pool' = pool /\ hand' = hand /\ k'.state[t] = "READY"
      /\ OnlyMoves(t)
  BY <1>2 DEF MessageWakes, PendEnds, Same, OnlyMoves
<1>5. \/ TimedOut(t) /\ pc'[t] = "run" /\ from' = [from EXCEPT ![t] = NoList]
      \/ ~TimedOut(t) /\ pc'[t] = "pop" /\ from' = from
  BY <1>3 DEF MessageWakes, PendEnds
<1>6. /\ from' \in [Thread -> Queue \cup {NoList}] /\ from'[t] \in {q, NoList}
      /\ \A u \in Thread \ {t} : from'[u] = from[u]
  BY <1>1, <1>3, <1>5
<1>7. Stays(q)
  <2>1. Holds(t, q)' <=> Holds(t, q)
    BY <1>1, <1>2, <1>3, <1>4, <1>5, MessageAssumption DEF Holds, TimedOut, MessageAssumption
  <2>2. \A u \in Thread \ {t} : Holds(u, q)' <=> Holds(u, q)
    BY <1>4, <1>6, RestHolds
  <2> QED BY <2>1, <2>2 DEF Stays
<1>8. Evens(q)
  BY <1>4, <1>7, StaysEven
<1>9. MovesIn(t, q)
  BY <1>1, <1>4, <1>6, SameCounts DEF MovesIn
<1>10. Receiving(t)'
  <2>1. \A r \in Queue : pendOn'[t] # QueueSem[r]
    BY <1>2, OwnQueueSems, KernelAssumption DEF KernelAssumption
  <2> QED BY <1>1, <1>3, <1>5, <2>1, MessageAssumption DEF Receiving, MessageAssumption
<1>11. MessagesApart'
  BY <1>4 DEF QueueInv, MessagesApart, Once
<1> QED BY <1>6, <1>8, <1>9, <1>10, <1>11, MoverMatches

\* A Receive takes its message, which is there.
LEMMA PopsMatches ==
  ASSUME KernelAssumption, SemaphoresAssumption, SleepAssumption, MessageAssumption,
         ObjectsAssumption, ObjInv, ObjInv', QueueInv, TokenInv, NEW t \in Thread, MessagePops(t)
  PROVE  Matched
<1>1. /\ Running(t) /\ pc[t] = "pop" /\ pc' = [pc EXCEPT ![t] = "run"]
      /\ from' = [from EXCEPT ![t] = NoList] /\ UNCHANGED <<semVars, pool>>
  BY DEF MessagePops
<1>2. pc \in [Thread -> Where] /\ from \in [Thread -> Queue \cup {NoList}] /\ MessagesApart
  BY DEF ObjInv, QueueInv
<1>3. PICK q \in Queue : from[t] = q
  BY <1>1 DEF QueueInv, Receiving
<1>4. Outside(t)
  BY <1>1 DEF Outside, Plain, Where, InWait, Waiting, Yielding, Enabling
<1>5. k.state[t] = "READY" /\ pendOn[t] = NoList
  BY <1>1, <1>4, CallerHere
<1>6. Holds(t, q)
  BY <1>1, <1>3, <1>5 DEF Holds, TimedOut
<1>7. /\ from' \in [Thread -> Queue \cup {NoList}] /\ from'[t] = NoList
      /\ \A u \in Thread \ {t} : from'[u] = from[u] /\ pc'[u] = pc[u]
      /\ pc'[t] = "run" /\ value' = value /\ pendOn' = pendOn /\ expired' = expired
  BY <1>1, <1>2 DEF semVars
<1>8. k'.state = k.state
  <2>1. CASE k' = k
    BY <2>1
  <2>2. CASE k' = [k EXCEPT !.fault = TRUE]
    BY <2>2 DEF ObjInv, Good, KernelState
  <2> QED BY <2>1, <2>2 DEF MessagePops
<1>9. OnlyMoves(t)
  BY <1>7, <1>8 DEF OnlyMoves, MovedAlone
<1>10. Drops(q, t)
  <2>1. ~Holds(t, q)'
    BY <1>7, MessageAssumption DEF Holds, MessageAssumption
  <2>2. \A u \in Thread \ {t} : Holds(u, q)' <=> Holds(u, q)
    BY <1>7, <1>9, RestHolds
  <2> QED BY <1>6, <2>1, <2>2 DEF Drops
<1>11. Tokens(q)' = Tokens(q) - 1 /\ Tokens(q) >= 1
  BY <1>7, <1>10, TokensMove
<1>12. queue[q] # <<>>
  <2>1. Tokens(q) <= Len(queue[q]) /\ Tokens(q) \in Nat
    BY TokensAre DEF TokenInv
  <2> QED BY <1>11, <2>1
<1>13. /\ hand' = [hand EXCEPT ![t] = @ \cup {Head(queue[q])}]
       /\ queue' = [queue EXCEPT ![q] = Tail(@)] /\ pool' = pool
  BY <1>1, <1>3, <1>12 DEF MessagePops
<1>14. MessagesApart' /\ Len(queue'[q]) = Len(queue[q]) - 1
  BY <1>2, <1>12, <1>13, TakeApart
<1>15. Evens(q)
  <2>1. Tokens(q) \in Nat /\ Len(queue[q]) \in Nat
    <3>1. queue[q] \in Seq(Message)
      BY <1>2 DEF MessagesApart
    <3> QED BY <3>1, TokensAre
  <2> QED BY <1>11, <1>14, <2>1 DEF Evens
<1>16. MovesIn(t, q)
  <2>1. \A r \in Queue \ {q} : queue'[r] = queue[r]
    BY <1>2, <1>13 DEF MessagesApart
  <2> QED BY <1>3, <1>7, <1>9, <2>1, SameCounts DEF MovesIn
<1>17. Receiving(t)'
  <2>1. \A r \in Queue : pendOn'[t] # QueueSem[r]
    BY <1>5, <1>7, OwnQueueSems, KernelAssumption DEF KernelAssumption
  <2> QED BY <1>7, <2>1, MessageAssumption DEF Receiving, MessageAssumption
<1> QED BY <1>7, <1>14, <1>15, <1>16, <1>17, MoverMatches

\* What another step does to the holders of tokens: a timeout may make them fewer.
LEMMA PassingHolds ==
  ASSUME KernelAssumption, SemaphoresAssumption, SleepAssumption, MessageAssumption,
         ObjectsAssumption, ObjInv, ObjInv', QueueInv, UNCHANGED messageVars, Minding(QueueSems),
         Aside({"pop"}), NEW u \in Thread
  PROVE  /\ Receiving(u)'
         /\ from[u] \in Queue => pc'[u] = pc[u]
         /\ {"Stop", "Exit"} \cap Calls = {} =>
              \A q \in Queue : /\ Holds(u, q)' => Holds(u, q)
                               /\ pc[u] \notin InTimedWait /\ Holds(u, q) => Holds(u, q)'
<1>1. from' = from /\ queue' = queue
  BY DEF messageVars
<1>2. Receiving(u)
  BY DEF QueueInv
<1>3. pc[u] = "pop" \/ pc'[u] = "pop" => pc'[u] = pc[u]
  BY DEF Aside
<1>4. ASSUME NEW q \in Queue, pendOn[u] = QueueSem[q] \/ pendOn'[u] = QueueSem[q]
      PROVE  /\ pc'[u] = pc[u] /\ pendOn'[u] = pendOn[u] /\ from[u] = q
             /\ pc[u] \in {"pend", "timed"} /\ Passing(u)
  <2>1. Passing(u)
    BY <1>4, OwnQueueSems DEF Minding
  <2>2. pc'[u] = pc[u] /\ pendOn'[u] = pendOn[u]
    BY <2>1 DEF Passing
  <2> QED BY <1>2, <1>4, <2>1, <2>2 DEF Receiving
<1>5. ASSUME NEW q \in Queue, pendOn[u] = QueueSem[q]
      PROVE  k'.state[u] = "BLOCKED" => ~TimedOut(u)'
  <2>1. Passing(u) /\ (k.state[u] = "BLOCKED" => ~TimedOut(u))
    BY <1>2, <1>4, <1>5 DEF Receiving
  <2> QED BY <2>1 DEF Passing, Departs, TimedOut
<1>6. Receiving(u)'
  BY <1>1, <1>2, <1>3, <1>4, <1>5 DEF Receiving
<1>7. from[u] \in Queue => pc'[u] = pc[u]
  BY <1>2, <1>3, <1>4 DEF Receiving
<1>8. ASSUME {"Stop", "Exit"} \cap Calls = {}, NEW q \in Queue
      PROVE  /\ Holds(u, q)' => Holds(u, q)
             /\ pc[u] \notin InTimedWait /\ Holds(u, q) => Holds(u, q)'
  <2>1. CASE from[u] # q
    BY <1>1, <2>1 DEF Holds
  <2>2. CASE from[u] = q /\ pc[u] = "pop"
    <3>1. pc'[u] = "pop"
      BY <1>3, <2>2
    <3>2. k.state[u] # "BLOCKED" /\ k'.state[u] # "BLOCKED"
      BY <2>2, <3>1 DEF ObjInv, Placed, Waiting
    <3> QED BY <1>1, <2>2, <3>1, <3>2 DEF Holds, TimedOut
  <2>3. CASE from[u] = q /\ pc[u] # "pop"
    <3>1. Passing(u)
      <4>1. PICK r \in Queue : pendOn[u] = QueueSem[r]
        BY <1>2, <2>3 DEF Receiving
      <4> QED BY <1>4, <4>1
    <3>2. CASE expired'[u] = expired[u] /\ Departs(k', k, u)
      <4>1. k'.state[u] # "BLOCKED" <=> k.state[u] # "BLOCKED"
        BY <1>8, <3>2 DEF Departs
      <4> QED BY <1>1, <3>1, <3>2, <4>1 DEF Holds, TimedOut, Passing
    <3>3. CASE expired'[u] /\ pc[u] \in InTimedWait
      <4>1. pc[u] = "timed" /\ pc'[u] = "timed"
        <5>1. pc[u] \in {"pend", "timed"} /\ pc'[u] = pc[u]
          <6>1. PICK r \in Queue : pendOn[u] = QueueSem[r]
            BY <1>2, <2>3 DEF Receiving
          <6> QED BY <1>4, <6>1
        <5> QED BY <3>3, <5>1 DEF InTimedWait
      <4> QED BY <3>3, <4>1 DEF Holds, TimedOut
    <3> QED BY <3>1, <3>2, <3>3 DEF Passing
  <2> QED BY <2>1, <2>2, <2>3
<1> QED BY <1>6, <1>7, <1>8

\* The tokens of a queue, after a step that is not about message queues.
LEMMA PassingTokens ==
  ASSUME KernelAssumption, SemaphoresAssumption, MessageAssumption, ObjInv, ObjInv',
         NEW q \in Queue, value'[QueueSem[q]] = value[QueueSem[q]],
         \A u \in Thread : Holds(u, q)' => Holds(u, q)
  PROVE  /\ Tokens(q)' <= Tokens(q)
         /\ (\A u \in Thread : Holds(u, q) => Holds(u, q)') => Tokens(q)' = Tokens(q)
<1>1. value[QueueSem[q]] \in Nat
  BY DEF ObjInv, MessageAssumption
<1>2. Holders(q)' \subseteq Holders(q)
  BY DEF Holders
<1>3. Cardinality(Holders(q)') <= Cardinality(Holders(q))
  BY <1>2, HoldersFinite, FS_Subset
<1>4. ASSUME \A u \in Thread : Holds(u, q) => Holds(u, q)' PROVE Holders(q)' = Holders(q)
  BY <1>2, <1>4 DEF Holders
<1> QED BY <1>1, <1>3, <1>4, HoldersFinite DEF Tokens

\* What a step leaves of the invariants of message queues.
QueuesKept ==
  /\ QueueInv'
  /\ {"Stop", "Exit"} \cap Calls = {} => TokenInv'
  /\ {"Stop", "Exit", "TimedReceiveMessage"} \cap Calls = {} /\ MessageInv => MessageInv'

LEMMA MatchedKeeps ==
  ASSUME KernelAssumption, SemaphoresAssumption, MessageAssumption, ObjInv, ObjInv', QueueInv,
         Matched, TokenInv
  PROVE  /\ QueueInv' /\ TokenInv'
         /\ (\A q \in Queue : Len(queue[q]) <= Tokens(q))
              => \A q \in Queue : Len(queue'[q]) <= Tokens(q)'
<1>1. ASSUME NEW q \in Queue
      PROVE  /\ Tokens(q)' <= Len(queue'[q])
             /\ Len(queue[q]) <= Tokens(q) => Len(queue'[q]) <= Tokens(q)'
  <2>1. Tokens(q) \in Nat /\ Tokens(q)' \in Nat
    <3>1. Tokens(q) \in Nat
      BY TokensAre
    <3>2. value'[QueueSem[q]] \in Nat
      BY DEF ObjInv, MessageAssumption
    <3> QED BY <3>1, <3>2, HoldersFinite DEF Tokens
  <2>2. Len(queue[q]) \in Nat /\ Len(queue'[q]) \in Nat
    <3>1. queue[q] \in Seq(Message) /\ queue'[q] \in Seq(Message)
      BY DEF QueueInv, MessagesApart, Matched
    <3> QED BY <3>1
  <2>3. Len(queue'[q]) - Tokens(q)' = Len(queue[q]) - Tokens(q)
    BY DEF Matched, Evens
  <2>4. Tokens(q) <= Len(queue[q])
    BY DEF TokenInv
  <2> QED BY <2>1, <2>2, <2>3, <2>4
<1> QED BY <1>1 DEF Matched, TokenInv

\* A thread gets into a wait with a timeout by asking for one.
LEMMA NotTimed ==
  ASSUME KernelAssumption, ObjInv, QueueInv, NEW t \in Thread, MessageStep(t),
         "TimedReceiveMessage" \notin Calls, NEW u \in Thread, pc'[u] = "timed"
  PROVE  pc[u] = "timed" /\ from'[u] = from[u]
<1>1. pc \in [Thread -> Where] /\ from \in [Thread -> Queue \cup {NoList}]
  BY DEF ObjInv, QueueInv
<1>2. \/ pc' = pc /\ from' = from
      \/ \E at \in {"pop", "pend", "run"} : pc' = [pc EXCEPT ![t] = at] /\ \E q : from' = [from EXCEPT ![t] = q]
      \/ \E at \in {"pop", "pend", "run"} : pc' = [pc EXCEPT ![t] = at] /\ from' = from
  <2>1. ASSUME CallPop(t) \/ \E x \in Message : CallPush(t, x) PROVE pc' = pc /\ from' = from
    BY <2>1 DEF CallPop, CallPush, allVars
  <2>2. ASSUME NEW q \in Queue, NEW x \in Message, CallSendMessage(t, q, x) PROVE pc' = pc /\ from' = from
    BY <2>2 DEF CallSendMessage, PostInside
  <2>3. ASSUME NEW q \in Queue, CallReceiveMessage(t, q)
        PROVE  \E at \in {"pop", "pend", "run"} : pc' = [pc EXCEPT ![t] = at] /\ \E r : from' = [from EXCEPT ![t] = r]
    BY <2>3 DEF CallReceiveMessage, Pend, Wait
  <2>4. ASSUME NEW q \in Queue, NEW ticks, CallTimedReceiveMessage(t, q, ticks) PROVE FALSE
    BY <2>4 DEF CallTimedReceiveMessage, Calling
  <2>5. ASSUME MessageWakes(t)
        PROVE  \E at \in {"pop", "pend", "run"} : /\ pc' = [pc EXCEPT ![t] = at]
                                                  /\ \/ from' = from
                                                     \/ \E r : from' = [from EXCEPT ![t] = r]
    BY <2>5 DEF MessageWakes, PendEnds
  <2>6. ASSUME MessagePops(t)
        PROVE  \E at \in {"pop", "pend", "run"} : pc' = [pc EXCEPT ![t] = at] /\ \E r : from' = [from EXCEPT ![t] = r]
    BY <2>6 DEF MessagePops
  <2> QED BY <2>1, <2>2, <2>3, <2>4, <2>5, <2>6 DEF MessageStep
<1> QED BY <1>1, <1>2

\* The steps of message queues.
LEMMA MessageStepKeepsQueues ==
  ASSUME KernelAssumption, SemaphoresAssumption, SleepAssumption, MessageAssumption,
         ObjectsAssumption, ObjInv, ObjInv', QueueInv, TokenInv, NEW t \in Thread, MessageStep(t)
  PROVE  QueuesKept
<1>1. ASSUME CallPop(t) \/ \E x \in Message : CallPush(t, x) PROVE Matched
  <2>1. MessagesApart' /\ UNCHANGED <<allVars, queue, from>>
    BY <1>1, PopApart, PushApart DEF QueueInv, CallPop, CallPush
  <2> QED BY <2>1, PoolMatches
<1>2. ASSUME NEW q \in Queue, CallReceiveMessage(t, q) PROVE Matched
  <2>1. /\ Running(t) /\ pc[t] = "run" /\ Pend(t, QueueSem[q], "pop")
        /\ from' = [from EXCEPT ![t] = q] /\ UNCHANGED <<pool, queue, hand>>
    BY <1>2 DEF CallReceiveMessage, Calling
  <2>2. Takes(t, QueueSem[q], "pop") \/ Waits(t, QueueSem[q], "pend")
    BY <2>1, NotReceiving, OwnQueueSems, PendMoves
  <2> QED BY <2>1, <2>2, ReceiveMatches
<1>3. ASSUME NEW q \in Queue, NEW ticks \in WaitTicks, CallTimedReceiveMessage(t, q, ticks)
      PROVE  Matched
  <2>1. /\ Running(t) /\ pc[t] = "run" /\ TimedPend(t, QueueSem[q], ticks, "pop")
        /\ from' = [from EXCEPT ![t] = q] /\ UNCHANGED <<pool, queue, hand>>
    BY <1>3 DEF CallTimedReceiveMessage, Calling
  <2>2. Takes(t, QueueSem[q], "pop") \/ (Waits(t, QueueSem[q], "timed") /\ ~expired'[t])
    BY <2>1, NotReceiving, OwnQueueSems, TimedPendMoves
  <2>3. CASE Takes(t, QueueSem[q], "pop")
    BY <2>1, <2>3, ReceiveMatches
  <2>4. CASE Waits(t, QueueSem[q], "timed") /\ ~expired'[t]
    BY <2>1, <2>4, ReceiveMatches
  <2> QED BY <2>2, <2>3, <2>4
<1>4. ASSUME MessageWakes(t) \/ MessagePops(t) PROVE Matched
  BY <1>4, WakesMatches, PopsMatches
<1>5. Matched
  BY <1>1, <1>2, <1>3, <1>4, SendMatches DEF MessageStep
<1>6. QueueInv' /\ TokenInv'
  BY <1>5, MatchedKeeps
<1>7. ASSUME "TimedReceiveMessage" \notin Calls, MessageInv PROVE MessageInv'
  <2>1. \A q \in Queue : Len(queue'[q]) <= Tokens(q)'
    BY <1>5, <1>7, MatchedKeeps DEF MessageInv
  <2>2. ASSUME NEW u \in Thread, from'[u] \in Queue PROVE pc'[u] \notin InTimedWait
    <3>1. pc'[u] \in {"pop", "pend", "timed"}
      BY <1>6, <2>2 DEF QueueInv, Receiving
    <3>2. pc'[u] # "timed"
      BY <1>7, <2>2, NotTimed DEF MessageInv, InTimedWait
    <3> QED BY <3>1, <3>2 DEF InTimedWait
  <2> QED BY <2>1, <2>2 DEF MessageInv
<1> QED BY <1>6, <1>7 DEF QueuesKept

LEMMA OthersKeepQueues ==
  ASSUME KernelAssumption, SemaphoresAssumption, SleepAssumption, MessageAssumption,
         ObjectsAssumption, ObjInv, ObjInv', QueueInv, TokenInv, UNCHANGED messageVars,
         Minding(QueueSems), Aside({"pop"}),
         \A q \in Queue : value'[QueueSem[q]] = value[QueueSem[q]]
  PROVE  QueuesKept
<1>1. pool' = pool /\ queue' = queue /\ hand' = hand /\ from' = from
  BY DEF messageVars
<1>2. QueueInv'
  <2>1. \A u \in Thread : Receiving(u)'
    BY PassingHolds
  <2> QED BY <1>1, <2>1 DEF QueueInv, MessagesApart, Once
<1>3. ASSUME {"Stop", "Exit"} \cap Calls = {}, NEW q \in Queue
      PROVE  /\ Tokens(q)' <= Tokens(q)
             /\ (\A u \in Thread : from[u] \in Queue => pc[u] \notin InTimedWait)
                  => Tokens(q)' = Tokens(q)
  <2>1. \A u \in Thread : Holds(u, q)' => Holds(u, q)
    BY <1>3, PassingHolds
  <2>2. ASSUME \A u \in Thread : from[u] \in Queue => pc[u] \notin InTimedWait
        PROVE  \A u \in Thread : Holds(u, q) => Holds(u, q)'
    <3> SUFFICES ASSUME NEW u \in Thread, Holds(u, q) PROVE Holds(u, q)'
      OBVIOUS
    <3>1. pc[u] \notin InTimedWait
      BY <2>2 DEF Holds
    <3> QED BY <1>3, <3>1, PassingHolds
  <2> QED BY <2>1, <2>2, PassingTokens
<1>4. ASSUME {"Stop", "Exit"} \cap Calls = {} PROVE TokenInv'
  <2> SUFFICES ASSUME NEW q \in Queue PROVE Tokens(q)' <= Len(queue'[q])
    BY DEF TokenInv
  <2>1. Tokens(q) <= Len(queue[q]) /\ Tokens(q)' <= Tokens(q)
    BY <1>3, <1>4 DEF TokenInv
  <2>2. Tokens(q) \in Nat /\ Tokens(q)' \in Nat /\ Len(queue[q]) \in Nat
    <3>1. value'[QueueSem[q]] \in Nat /\ queue[q] \in Seq(Message)
      BY DEF ObjInv, MessageAssumption, QueueInv, MessagesApart
    <3> QED BY <3>1, HoldersFinite, TokensAre DEF Tokens
  <2> QED BY <1>1, <2>1, <2>2
<1>5. ASSUME {"Stop", "Exit", "TimedReceiveMessage"} \cap Calls = {}, MessageInv PROVE MessageInv'
  <2>1. ASSUME NEW q \in Queue PROVE Len(queue'[q]) <= Tokens(q)'
    BY <1>1, <1>3, <1>5, <2>1 DEF MessageInv
  <2>2. ASSUME NEW u \in Thread, from'[u] \in Queue PROVE pc'[u] \notin InTimedWait
    BY <1>1, <1>5, <2>2, PassingHolds DEF MessageInv
  <2> QED BY <2>1, <2>2 DEF MessageInv
<1> QED BY <1>2, <1>4, <1>5 DEF QueuesKept

LEMMA EveryStepKeepsQueues ==
  ASSUME KernelAssumption, SemaphoresAssumption, SleepAssumption, NotifyAssumption,
         EventFlagAssumption, MutexAssumption, MailboxAssumption, MessageAssumption,
         ObjectsAssumption, "Init" \notin Calls, ObjInv, FrameInv, QueueInv, TokenInv, ObjectsNext
  PROVE  QueuesKept
<1>1. ObjInv' /\ QueueSide
  BY EveryStep DEF Steps, Sides
<1>2. ASSUME NEW t \in Thread, MessageStep(t) PROVE QueuesKept
  BY <1>1, <1>2, MessageStepKeepsQueues
<1>3. ASSUME UNCHANGED messageVars, Minding(QueueSems), Aside({"pop"}),
             \A t \in Thread : ~MessageStep(t)
      PROVE  QueuesKept
  <2>1. \E S : Counting(S) /\ S \cap QueueSems = {}
    <3>1. CASE \E t \in Thread : BoxStep(t)
      <4>1. value \in [Sem -> Nat]
        BY DEF ObjInv
      <4>2. Counting(BoxSems)
        BY <3>1, <4>1, BoxCounts
      <4> QED BY <4>2, Kinds
    <3>2. CASE Counting(Shared \cup Naps)
      <4>1. (Shared \cup Naps) \cap QueueSems = {}
        BY Kinds
      <4> QED BY <3>2, <4>1
    <3> QED BY <1>3, <3>1, <3>2, EveryStepCounts
  <2>2. \A q \in Queue : value'[QueueSem[q]] = value[QueueSem[q]]
    BY <2>1, OwnQueueSems DEF Counting
  <2> QED BY <1>1, <1>3, <2>2, OthersKeepQueues
<1> QED BY <1>1, <1>2, <1>3 DEF QueueSide

-----------------------------------------------------------------------------
(* Message queues: what holds in every reachable state *)

LEMMA SeqOfSet ==
  ASSUME NEW S, IsFiniteSet(S)
  PROVE  SetToSeq(S) \in Seq(S) /\ IsInjective(SetToSeq(S))
<1> DEFINE n == Cardinality(S)
<1>1. n \in Nat /\ ExistsBijection(1 .. n, S)
  BY FS_CardinalityType
<1>2. PICK f : f \in Bijection(1 .. n, S)
  BY <1>1 DEF ExistsBijection
<1>3. f \in [1 .. n -> S] /\ IsInjective(f)
  BY <1>2 DEF Bijection, Injection, IsInjective
<1>4. SetToSeq(S) \in [1 .. n -> S] /\ IsInjective(SetToSeq(S))
  BY <1>3 DEF SetToSeq
<1> QED BY <1>1, <1>4

LEMMA QueuesStart ==
  ASSUME KernelAssumption, SemaphoresAssumption, SleepAssumption, MessageAssumption,
         ObjectsAssumption, ObjectsInit
  PROVE  QueueInv /\ TokenInv /\ MessageInv
<1>1. /\ pool = SetToSeq(Message) /\ queue = [q \in Queue |-> <<>>]
      /\ hand = [t \in Thread |-> {}] /\ from = [t \in Thread |-> NoList]
      /\ pc = [t \in Thread |-> "run"] /\ pendOn = [t \in Thread |-> NoList]
      /\ value = [s \in Sem |-> IF s \in Shared THEN InitValue ELSE 0]
  BY DEF ObjectsInit, MessageInit, SleepInit, SemInit, Init
<1>2. pool \in Seq(Message) /\ IsInjective(pool)
  BY <1>1, SeqOfSet DEF MessageAssumption
<1>3. \A q \in Queue : /\ queue[q] = <<>> /\ Len(queue[q]) = 0 /\ ToSet(queue[q]) = {}
                       /\ queue[q] \in Seq(Message) /\ IsInjective(queue[q])
  BY <1>1 DEF ToSet, IsInjective
<1>4. MessagesApart
  <2>1. queue \in [Queue -> Seq(Message)] /\ hand \in [Thread -> SUBSET Message]
    BY <1>1
  <2>2. \A x \in Message : Once(x)
    BY <1>1, <1>3 DEF Once
  <2> QED BY <1>2, <1>3, <2>1, <2>2 DEF MessagesApart
<1>5. ASSUME NEW t \in Thread PROVE Receiving(t)
  <2>1. \A q \in Queue : pendOn[t] # QueueSem[q]
    BY <1>1, OwnQueueSems DEF KernelAssumption
  <2> QED BY <1>1, <2>1 DEF Receiving, MessageAssumption
<1>6. ASSUME NEW q \in Queue PROVE Tokens(q) = 0
  <2>1. value[QueueSem[q]] = 0
    BY <1>1, OwnQueueSems
  <2>2. Holders(q) = {}
    BY <1>1 DEF Holders, Holds, MessageAssumption
  <2> QED BY <2>1, <2>2, FS_EmptySet DEF Tokens
<1>7. TokenInv /\ \A q \in Queue : Len(queue[q]) <= Tokens(q)
  BY <1>3, <1>6 DEF TokenInv
<1> QED BY <1>1, <1>4, <1>5, <1>7 DEF QueueInv, MessageInv, MessageAssumption

LEMMA QueuesStutter ==
  ASSUME QueueInv, TokenInv, UNCHANGED all
  PROVE  QueueInv' /\ TokenInv' /\ (MessageInv => MessageInv')
<1>1. /\ k' = k /\ pc' = pc /\ pendOn' = pendOn /\ value' = value /\ expired' = expired
      /\ pool' = pool /\ queue' = queue /\ hand' = hand /\ from' = from
  BY DEF all, everyVar, allVars, semVars, objectVars, messageVars
<1>2. \A u \in Thread : Receiving(u)'
  BY <1>1 DEF QueueInv, Receiving, TimedOut
<1>3. MessagesApart'
  BY <1>1 DEF QueueInv, MessagesApart, Once
<1>4. ASSUME NEW q \in Queue PROVE Tokens(q)' = Tokens(q)
  <2>1. Holders(q)' = Holders(q)
    BY <1>1 DEF Holders, Holds, TimedOut
  <2> QED BY <1>1, <2>1 DEF Tokens
<1> QED BY <1>1, <1>2, <1>3, <1>4 DEF QueueInv, TokenInv, MessageInv

\* A thread holds a token of q where Receive is about to take a message, or has
\* been granted one.
LEMMA ClaimsAreTokens ==
  ASSUME KernelAssumption, SemaphoresAssumption, SleepAssumption, MessageAssumption,
         ObjectsAssumption, ObjInv, QueueInv, NEW q \in Queue
  PROVE  Claims(q) = Tokens(q)
<1>1. ASSUME NEW t \in Thread, from[t] = q
      PROVE  Holds(t, q) <=> pc[t] = "pop" \/ Phase(t) = "granted"
  <2>1. Placed(t) /\ Receiving(t) /\ Good(k)
    BY DEF ObjInv, QueueInv
  <2>2. CASE pc[t] = "pop"
    BY <1>1, <2>1, <2>2 DEF Placed, Waiting, Holds, TimedOut
  <2>3. CASE pc[t] # "pop"
    <3>1. PICK r \in Queue : pendOn[t] = QueueSem[r]
      BY <1>1, <2>1, <2>3 DEF Receiving
    <3>2. pc[t] \in {"pend", "timed"} /\ pendOn[t] \in BlockList
      BY <2>1, <3>1, OwnQueueSems DEF Receiving
    <3>3. t \in ToSet(k.list[pendOn[t]]) <=> k.state[t] = "BLOCKED" /\ k.where[t] = pendOn[t]
      BY <2>1, <3>2, BlockedLists
    <3>4. t \in ToSet(k.list[pendOn[t]]) <=> k.state[t] = "BLOCKED"
      BY <2>1, <3>3 DEF Placed
    <3> QED BY <1>1, <2>3, <3>2, <3>4 DEF Phase, Holds, TimedOut
  <2> QED BY <2>2, <2>3
<1>2. Holders(q) = {t \in Thread : from[t] = q /\ (pc[t] = "pop" \/ Phase(t) = "granted")}
  BY <1>1 DEF Holders, Holds
<1> QED BY <1>2 DEF Claims, Tokens

\* Every message is in one place, and a token of a queue, in its semaphore or with
\* the receiver it was given to, stands for a message: for threads that are
\* neither stopped nor exit inside a Receive.
THEOREM QueueInvariance ==
  ASSUME {"Init", "Stop", "Exit"} \cap Calls = {}
  PROVE  ObjectsSpec => [](QueueInv /\ TokenInv)
<1> USE KernelAssumption, SemaphoresAssumption, SleepAssumption, NotifyAssumption,
        EventFlagAssumption, MutexAssumption, MailboxAssumption, MessageAssumption,
        ObjectsAssumption
<1>1. ObjectsInit => QueueInv /\ TokenInv
  BY QueuesStart
<1>2. ObjInv /\ FrameInv /\ QueueInv /\ TokenInv /\ [ObjectsNext]_all => QueueInv' /\ TokenInv'
  BY EveryStepKeepsQueues, QueuesStutter DEF QueuesKept
<1>3. ObjectsSpec => [](ObjInv /\ FrameInv)
  BY ObjectsInvariance
<1> QED BY <1>1, <1>2, <1>3, PTL DEF ObjectsSpec

\* Receive never takes the head of an empty queue: whichever senders, receivers,
\* timeouts and calls of other objects come between its Pend and the critical
\* section in which it takes its message, the message is there.
THEOREM MessageThere ==
  ASSUME {"Init", "Stop", "Exit"} \cap Calls = {}
  PROVE  ObjectsSpec => []MessageForToken
<1> USE KernelAssumption, SemaphoresAssumption, SleepAssumption, MessageAssumption,
        ObjectsAssumption
<1>1. ObjInv /\ QueueInv /\ TokenInv => MessageForToken
  BY ClaimsAreTokens DEF TokenInv, MessageForToken
<1>2. ObjectsSpec => [](ObjInv /\ FrameInv)
  BY ObjectsInvariance
<1> QED BY <1>1, <1>2, QueueInvariance, PTL

\* While no Receive has a timeout, no message is left in a queue without a token
\* or a receiver that has one.
THEOREM MessagesRemembered ==
  ASSUME {"Init", "Stop", "Exit", "TimedReceiveMessage"} \cap Calls = {}
  PROVE  ObjectsSpec => []NoMessageForgotten
<1> USE KernelAssumption, SemaphoresAssumption, SleepAssumption, NotifyAssumption,
        EventFlagAssumption, MutexAssumption, MailboxAssumption, MessageAssumption,
        ObjectsAssumption
<1>1. ObjectsInit => MessageInv
  BY QueuesStart
<1>2. ObjInv /\ FrameInv /\ QueueInv /\ TokenInv /\ MessageInv /\ [ObjectsNext]_all => MessageInv'
  BY EveryStepKeepsQueues, QueuesStutter DEF QueuesKept
<1>3. ObjInv /\ QueueInv /\ MessageInv => NoMessageForgotten
  BY ClaimsAreTokens DEF MessageInv, NoMessageForgotten
<1>4. ObjectsSpec => [](ObjInv /\ FrameInv /\ QueueInv /\ TokenInv)
  <2>1. "Init" \notin Calls /\ {"Init", "Stop", "Exit"} \cap Calls = {}
    OBVIOUS
  <2> QED BY <2>1, ObjectsInvariance, QueueInvariance, PTL
<1> QED BY <1>1, <1>2, <1>3, <1>4, PTL DEF ObjectsSpec

-----------------------------------------------------------------------------
(* What a step is to semaphores and notifications *)

\* A post of a semaphore that is part of something else is not remembered.
Uncounted == posts' = posts \/ \E s \in Sem : s \notin Shared /\ Posted(s)

LEMMA SamePosts ==
  ASSUME Uncounted, posts \in [Shared -> 0 .. 1]
  PROVE  posts' = posts
BY DEF Uncounted, Posted

SemSide  == \/ \E t \in Thread : SemThreadStep(t)
            \/ \E s \in Shared : InterruptPosts(s)
            \/ Minding(Shared) /\ Uncounted /\ \A s \in Shared : value'[s] = value[s]
NoteSide == \/ \E t \in Thread : NotifyStep(t)
            \/ NotifyInterrupt
            \/ Minding(Note)
Aspects == SemSide /\ NoteSide

\* Neither has waits in common with the other, or with another kind.
LEMMA Apart ==
  ASSUME KernelAssumption, SemaphoresAssumption, SleepAssumption, NotifyAssumption,
         EventFlagAssumption, MutexAssumption, MailboxAssumption, MessageAssumption,
         ObjectsAssumption
  PROVE  /\ Shared \subseteq BlockList /\ Note \subseteq BlockList /\ Shared \subseteq Sem
         /\ Shared \cap Note = {} /\ Naps \cap Shared = {} /\ Naps \cap Note = {}
         /\ \A B \in {Mutexes, Group, BoxSems, QueueSems} : B \cap Shared = {} /\ B \cap Note = {}
<1>1. /\ Shared \subseteq BlockList /\ Note \subseteq BlockList /\ Shared \subseteq Sem
      /\ Note \cap Sem = {}
  BY DEF SemaphoresAssumption, NotifyAssumption
<1>2. Naps \subseteq Sem \ Shared
  BY OwnNaps DEF Naps
<1> QED BY <1>1, <1>2, Kinds

LEMMA OtherAspects ==
  ASSUME NEW B, Elsewhere(B), Shared \subseteq BlockList, Note \subseteq BlockList, Shared \subseteq Sem,
         B \cap Shared = {}, B \cap Note = {}, NEW S, Counting(S), S \cap Shared = {}, Uncounted
  PROVE  Aspects
<1>1. Minding(Shared) /\ Minding(Note)
  BY ElsewhereMinds
<1> QED BY <1>1 DEF Aspects, SemSide, NoteSide, Counting

\* Which steps post, and what.
LEMMA PendUncounted ==
  ASSUME NEW t, NEW s, NEW to, NEW ticks, Pend(t, s, to) \/ TimedPend(t, s, ticks, to)
  PROVE  posts' = posts
BY DEF Pend, TimedPend, Take, Wait

LEMMA PostUncounted ==
  ASSUME NEW s \in Sem, s \notin Shared, NEW t, PostBy(t, s) \/ PostInside(s)
  PROVE  Uncounted
BY DEF Uncounted, PostBy, PostInside, Count

LEMMA SleepUncounted ==
  ASSUME SemaphoresAssumption, SleepAssumption, NEW t \in Thread, SleepStep(t) \/ SleepExpires(t)
  PROVE  Uncounted
<1>1. Nap[t] \in Sem /\ Nap[t] \notin Shared
  BY OwnNaps
<1>2. ASSUME SleepExpires(t) PROVE Uncounted
  BY <1>1, <1>2 DEF SleepExpires, Count, Uncounted
<1>3. ASSUME SleepStep(t) PROVE posts' = posts
  <2>1. ASSUME SleepPends(t) PROVE posts' = posts
    BY <2>1, PendUncounted DEF SleepPends
  <2> QED BY <1>3, <2>1 DEF SleepStep, CallSleep, CallUSleep, BeginSleep, SleepReturns, PendEnds
<1> QED BY <1>2, <1>3 DEF Uncounted

LEMMA OthersUncounted ==
  ASSUME NEW t, NotifyStep(t) \/ FlagStep(t) \/ MutexStep(t)
  PROVE  Uncounted
<1>1. ASSUME NotifyStep(t) PROVE posts' = posts
  BY <1>1 DEF NotifyStep, CallSignal, CallWait, CallTimedWait, BlockOn, YieldBlocked, PendEnds, semVars
<1>2. ASSUME FlagStep(t) PROVE posts' = posts
  <2>1. ASSUME NEW g, NEW m, CallSet(t, g, m) \/ CallClear(t, g, m) PROVE posts' = posts
    BY <2>1 DEF CallSet, Set, CallClear, allVars, semVars
  <2>2. ASSUME NEW g, NEW m, NEW how, NEW a, NEW at, WaitFlags(t, g, m, how, a, at)
        PROVE  posts' = posts
    BY <2>2 DEF WaitFlags, allVars
  <2>3. ASSUME FlagsReturn(t) PROVE posts' = posts
    BY <2>3 DEF FlagsReturn, PendEnds
  <2> QED BY <1>2, <2>1, <2>2, <2>3 DEF FlagStep, CallWaitFlags, CallTimedWaitFlags
<1>3. ASSUME MutexStep(t) PROVE posts' = posts
  <2>1. CASE \E m \in Mutexes : CallClaim(t, m) \/ CallTimedClaim(t, m) \/ CallRelease(t, m)
    BY <2>1 DEF CallClaim, CallTimedClaim, ClaimBegins, CallRelease
  <2>2. CASE ClaimSucceeds(t) \/ ReleaseCounts(t)
    BY <2>2 DEF ClaimSucceeds, ReleaseCounts, Leave
  <2>3. CASE ClaimBlocks(t) \/ ClaimInherits(t)
    BY <2>3 DEF ClaimBlocks, ClaimInherits, semVars
  <2>4. CASE ClaimReturns(t) \/ YieldBlocked(t)
    BY <2>4 DEF ClaimReturns, PendEnds, YieldBlocked, semVars
  <2>5. CASE ReleaseChecks(t) \/ WakeNextChooses(t) \/ WakeNextUnBlocks(t)
    BY <2>5 DEF ReleaseChecks, WakeNextChooses, WakeNextUnBlocks, ReleaseEnds, Leave, semVars
  <2> QED BY <1>3, <2>1, <2>2, <2>3, <2>4, <2>5 DEF MutexStep
<1> QED BY <1>1, <1>2, <1>3 DEF Uncounted

LEMMA BoxUncounted ==
  ASSUME MailboxAssumption, FrameInv, NEW t \in Thread, BoxStep(t)
  PROVE  Uncounted
<1>1. ASSUME NEW b \in Box
      PROVE  RecvSem[b] \in Sem /\ SendSem[b] \in Sem /\ RecvSem[b] \notin Shared /\ SendSem[b] \notin Shared
  BY DEF MailboxAssumption
<1>2. pc[t] \in Mailing => mail[t].box \in Box
  BY DEF FrameInv, MailInv, Suits
<1>3. ASSUME NEW f, NEW again, TrySend(t, f, again) PROVE posts' = posts
  BY <1>3 DEF TrySend, semVars
<1>4. ASSUME NEW b \in Box, NEW end, CallSend(t, b, end) \/ CallReceive(t, b, end)
      PROVE  posts' = posts
  BY <1>3, <1>4, PendUncounted DEF CallSend, CallReceive
<1>5. ASSUME NEW b \in Box, NEW end, NEW ticks, CallTimedSend(t, b, end, ticks) \/ CallTimedReceive(t, b, end, ticks)
      PROVE  posts' = posts
  BY <1>3, <1>5, PendUncounted DEF CallTimedSend, CallTimedReceive
<1>6. ASSUME SendWaits(t) PROVE posts' = posts
  BY <1>6, PendUncounted DEF SendWaits
<1>7. ASSUME SendPosts(t) \/ ReceivePosts(t) PROVE Uncounted
  <2>1. mail[t].box \in Box
    BY <1>2, <1>7 DEF SendPosts, ReceivePosts, Mailing
  <2> QED BY <1>1, <1>7, <2>1, PostUncounted DEF SendPosts, ReceivePosts
<1>8. ASSUME SendWakes(t) \/ SendCopies(t) \/ ReceiveWakes(t) \/ ReceiveTakes(t) \/ ReceiveCopies(t)
      PROVE  posts' = posts
  BY <1>8 DEF SendWakes, SendCopies, ReceiveWakes, ReceiveTakes, ReceiveCopies, PendEnds, semVars
<1>9. ASSUME SendRetries(t) PROVE posts' = posts
  BY <1>3, <1>9 DEF SendRetries
<1>10. ASSUME posts' = posts PROVE Uncounted
  BY <1>10 DEF Uncounted
<1> QED BY <1>4, <1>5, <1>6, <1>7, <1>8, <1>9, <1>10 DEF BoxStep

LEMMA MessageUncounted ==
  ASSUME SemaphoresAssumption, SleepAssumption, MessageAssumption, ObjectsAssumption,
         NEW t \in Thread, MessageStep(t)
  PROVE  Uncounted
<1>1. \A q \in Queue : QueueSem[q] \in Sem /\ QueueSem[q] \notin Shared
  BY OwnQueueSems
<1>2. ASSUME CallPop(t) \/ (\E x \in Message : CallPush(t, x)) \/ MessagePops(t) PROVE posts' = posts
  BY <1>2 DEF CallPop, CallPush, MessagePops, allVars, semVars
<1>3. ASSUME NEW q \in Queue, NEW x, CallSendMessage(t, q, x) PROVE Uncounted
  BY <1>1, <1>3, PostUncounted DEF CallSendMessage
<1>4. ASSUME NEW q \in Queue, NEW n, CallReceiveMessage(t, q) \/ CallTimedReceiveMessage(t, q, n)
      PROVE  posts' = posts
  BY <1>4, PendUncounted DEF CallReceiveMessage, CallTimedReceiveMessage
<1>5. ASSUME MessageWakes(t) PROVE posts' = posts
  BY <1>5 DEF MessageWakes, PendEnds
<1>6. ASSUME posts' = posts PROVE Uncounted
  BY <1>6 DEF Uncounted
<1> QED BY <1>2, <1>3, <1>4, <1>5, <1>6 DEF MessageStep

\* Every step, as semaphores and notifications see it.
LEMMA EveryAspect ==
  ASSUME KernelAssumption, SemaphoresAssumption, SleepAssumption, NotifyAssumption,
         EventFlagAssumption, MutexAssumption, MailboxAssumption, MessageAssumption,
         ObjectsAssumption, "Init" \notin Calls, ObjInv, FrameInv, ObjectsNext
  PROVE  Aspects
<1>0. /\ Shared \subseteq BlockList /\ Note \subseteq BlockList /\ Shared \subseteq Sem
      /\ Shared \cap Note = {} /\ Naps \cap Shared = {} /\ Naps \cap Note = {}
      /\ \A B \in {Mutexes, Group, BoxSems, QueueSems} : B \cap Shared = {} /\ B \cap Note = {}
      /\ value \in [Sem -> Nat]
  BY Apart DEF ObjInv
<1>1. ASSUME UNCHANGED semVars PROVE Counting({}) /\ Uncounted
  BY <1>1, SameCounts DEF semVars, Uncounted
<1>2. ASSUME Interrupt, UNCHANGED semVars PROVE Aspects
  <2>1. Elsewhere({})
    BY <1>2, InterruptKeeps
  <2> QED BY <1>0, <1>1, <1>2, <2>1, OtherAspects
<1>3. ASSUME NEW t \in Thread, WaitExpires(t) PROVE Aspects
  <2>1. Minding(Shared) /\ Minding(Note) /\ value' = value /\ posts' = posts
    BY <1>3, ExpiresMinds DEF WaitExpires
  <2> QED BY <2>1 DEF Aspects, SemSide, NoteSide, Uncounted
<1>4. ASSUME NEW t \in Thread, SleepExpires(t) \/ SleepStep(t) PROVE Aspects
  <2>1. Elsewhere(Naps) /\ Counting(Naps) /\ Uncounted
    BY <1>0, <1>4, SleepExpiresKeeps, SleepStepKeeps, SleepCounts, SleepUncounted
  <2> QED BY <1>0, <2>1, OtherAspects
<1>5. ASSUME NEW s \in Shared, InterruptPosts(s) PROVE Aspects
  <2>1. s \in Sem /\ s \notin Naps /\ PostInside(s)
    BY <1>5, OwnNaps DEF SemaphoresAssumption, Naps, InterruptPosts
  <2>2. Elsewhere(Shared)
    BY <2>1, PostInsideKeeps
  <2>3. Minding(Note)
    BY <1>0, <2>2, ElsewhereMinds
  <2> QED BY <1>5, <2>3 DEF Aspects, SemSide, NoteSide
<1>6. ASSUME NotifyInterrupt PROVE Aspects
  <2>1. Elsewhere(Note) /\ UNCHANGED semVars
    BY <1>6, InterruptSignalsKeeps DEF NotifyInterrupt, InterruptSignals
  <2>2. Minding(Shared) /\ Uncounted /\ value' = value
    BY <1>0, <1>1, <2>1, ElsewhereMinds DEF semVars
  <2> QED BY <1>6, <2>2 DEF Aspects, SemSide, NoteSide
<1>7. ASSUME NEW g \in Group, NEW m, InterruptSets(g, m) PROVE Aspects
  <2>1. Set(g, m)
    BY <1>7 DEF InterruptSets
  <2>2. Elsewhere(Group)
    BY <2>1, SetKeeps
  <2>3. UNCHANGED semVars
    BY <2>1 DEF Set
  <2> QED BY <1>0, <1>1, <2>2, <2>3, OtherAspects
<1>8. ASSUME NEW t \in Thread, ThreadStep(t), UNCHANGED semVars PROVE Aspects
  <2>1. Minding(Shared) /\ Minding(Note)
    BY <1>0, <1>8, ThreadStepMinds
  <2>2. Uncounted /\ value' = value
    BY <1>1, <1>8 DEF semVars
  <2> QED BY <2>1, <2>2 DEF Aspects, SemSide, NoteSide
<1>9. ASSUME NEW t \in Thread, SemThreadStep(t) PROVE Aspects
  <2>1. Elsewhere(Shared)
    BY <1>9, SemStepKeeps
  <2>2. Minding(Note)
    BY <1>0, <2>1, ElsewhereMinds
  <2> QED BY <1>9, <2>2 DEF Aspects, SemSide, NoteSide
<1>10. ASSUME NEW t \in Thread, NotifyStep(t) PROVE Aspects
  <2>1. Elsewhere(Note) /\ Counting({}) /\ Uncounted
    BY <1>10, NotifyStepKeeps, OthersCount, OthersUncounted
  <2>2. Minding(Shared)
    BY <1>0, <2>1, ElsewhereMinds
  <2> QED BY <1>0, <1>10, <2>1, <2>2 DEF Aspects, SemSide, NoteSide, Counting
<1>11. ASSUME NEW t \in Thread, FlagStep(t) PROVE Aspects
  <2>1. Elsewhere(Group) /\ Counting({}) /\ Uncounted
    BY <1>11, FlagStepKeeps, OthersCount, OthersUncounted
  <2> QED BY <1>0, <2>1, OtherAspects
<1>12. ASSUME NEW t \in Thread, MutexStep(t) PROVE Aspects
  <2>1. Elsewhere(Mutexes) /\ Counting({}) /\ Uncounted
    <3>1. WakeInv
      BY DEF FrameInv
    <3> QED BY <1>12, <3>1, MutexStepKeeps, OthersCount, OthersUncounted
  <2> QED BY <1>0, <2>1, OtherAspects
<1>13. ASSUME NEW t \in Thread, BoxStep(t) PROVE Aspects
  <2>1. Elsewhere(BoxSems) /\ Counting(BoxSems) /\ Uncounted
    <3>1. MailInv
      BY DEF FrameInv
    <3> QED BY <1>0, <1>13, <3>1, BoxStepKeeps, BoxCounts, BoxUncounted
  <2> QED BY <1>0, <2>1, OtherAspects
<1>14. ASSUME NEW t \in Thread, MessageStep(t) PROVE Aspects
  <2>1. Elsewhere(QueueSems) /\ Counting(QueueSems) /\ Uncounted
    BY <1>0, <1>14, MessageStepKeeps, MessageCounts, MessageUncounted
  <2> QED BY <1>0, <2>1, OtherAspects
<1>15. ASSUME BeginPass \/ SwitchContext PROVE Aspects
  BY <1>2, <1>15 DEF BeginPass, SwitchContext, Interrupt
<1>16. ASSUME PassGoesOn PROVE Aspects
  <2>1. CASE (QuantumExpires \/ TickEnd) /\ UNCHANGED semVars
    BY <1>2, <2>1 DEF Interrupt
  <2>2. CASE \E t \in Thread : WaitExpires(t)
    BY <1>3, <2>2
  <2>3. CASE \E t \in Thread : SleepExpires(t)
    BY <1>4, <2>3
  <2>4. CASE \E t \in Thread : FlagWaitExpires(t)
    BY <1>3, <2>4 DEF FlagWaitExpires
  <2> QED BY <1>16, <2>1, <2>2, <2>3, <2>4 DEF PassGoesOn
<1>17. ASSUME OtherInterrupt PROVE Aspects
  BY <1>5, <1>6, <1>7, <1>17 DEF OtherInterrupt, FlagInterrupt
<1>18. ASSUME NEW t \in Thread, ObjectsThreadStep(t) PROVE Aspects
  BY <1>4, <1>8, <1>9, <1>10, <1>11, <1>12, <1>13, <1>14, <1>18 DEF ObjectsThreadStep
<1> QED BY <1>15, <1>16, <1>17, <1>18 DEF ObjectsNext

-----------------------------------------------------------------------------
(* How the waits for the objects of one kind stand *)

\* How a wait stands that has no timeout, by its object and its thread's state.
\* "Done" is what the interface calls a wait that is over.
Stands(B, done, object, state) ==
  IF object \notin B THEN "idle" ELSE IF state = "BLOCKED" THEN "waiting" ELSE done
Standing(B, done) == [t \in Thread |-> Stands(B, done, pendOn[t], k.state[t])]
Object(B, object) == IF object \in B THEN object ELSE NoList
Awaited(B) == [t \in Thread |-> Object(B, pendOn[t])]

\* The wait of u, if it is for one of B, stands as before.
SameStand(B, u) ==
  pendOn[u] \in B \/ pendOn'[u] \in B
    => pendOn'[u] = pendOn[u] /\ (k'.state[u] = "BLOCKED" <=> k.state[u] = "BLOCKED")

LEMMA AllStand ==
  ASSUME NEW B, NEW done, \A u \in Thread : SameStand(B, u)
  PROVE  Standing(B, done)' = Standing(B, done) /\ Awaited(B)' = Awaited(B)
BY DEF Standing, Awaited, SameStand, Stands, Object

\* The wait of w alone has moved.
Comes(B, done, w, to, b) ==
  /\ \A u \in Thread \ {w} : SameStand(B, u)
  /\ Stands(B, done, pendOn'[w], k'.state[w]) = to /\ Object(B, pendOn'[w]) = b

Came(B, done, w, to, b) ==
  /\ Standing(B, done)' = [Standing(B, done) EXCEPT ![w] = to]
  /\ Awaited(B)' = [Awaited(B) EXCEPT ![w] = b]

LEMMA OneMoves ==
  ASSUME NEW B, NEW done, NEW w \in Thread, NEW to, NEW b, Comes(B, done, w, to, b)
  PROVE  Came(B, done, w, to, b)
<1>1. \A u \in Thread \ {w} :
        /\ Stands(B, done, pendOn'[u], k'.state[u]) = Stands(B, done, pendOn[u], k.state[u])
        /\ Object(B, pendOn'[u]) = Object(B, pendOn[u])
  BY DEF Comes, SameStand, Stands, Object
<1>2. \A u \in Thread : Stands(B, done, pendOn'[u], k'.state[u])
                          = IF u = w THEN to ELSE Stands(B, done, pendOn[u], k.state[u])
  BY <1>1 DEF Comes
<1>3. \A u \in Thread : Object(B, pendOn'[u]) = IF u = w THEN b ELSE Object(B, pendOn[u])
  BY <1>1 DEF Comes
<1> QED BY <1>2, <1>3 DEF Came, Standing, Awaited

LEMMA MindersStand ==
  ASSUME {"Stop", "Exit"} \cap Calls = {}, NEW B, Minding(B),
         \A u \in Thread : pendOn[u] \in B => pc[u] \notin InTimedWait
  PROVE  /\ \A u \in Thread : SameStand(B, u)
         /\ \A u \in Thread : pendOn'[u] \in B => pendOn[u] \in B /\ pc'[u] = pc[u]
<1>1. ASSUME NEW u \in Thread, pendOn[u] \in B \/ pendOn'[u] \in B
      PROVE  /\ pc'[u] = pc[u] /\ pendOn'[u] = pendOn[u]
             /\ k'.state[u] = "BLOCKED" <=> k.state[u] = "BLOCKED"
  <2>1. Passing(u)
    BY <1>1 DEF Minding
  <2>2. pc'[u] = pc[u] /\ pendOn'[u] = pendOn[u]
    BY <2>1 DEF Passing
  <2>3. pc[u] \notin InTimedWait
    BY <1>1, <2>2
  <2>4. Departs(k', k, u)
    BY <2>1, <2>3 DEF Passing
  <2> QED BY <2>2, <2>4 DEF Departs
<1> QED BY <1>1 DEF SameStand

\* A step of the kernel that moves nobody in a call.
LEMMA StayersStand ==
  ASSUME NEW B, pendOn' = pendOn, Same
  PROVE  \A u \in Thread : SameStand(B, u)
BY DEF SameStand, Same

-----------------------------------------------------------------------------
(* The promise of the semaphores *)

Pends   == [t \in Thread |-> IF pendOn[t] \in Shared THEN Phase(t) ELSE "idle"]
PendsOn == [t \in Thread |-> IF pendOn[t] \in Shared THEN pendOn[t] ELSE NoList]

LEMMA PendsNow ==
  ASSUME KernelAssumption, SemaphoresAssumption, ObjInv, PendInv
  PROVE  Pends = Standing(Shared, "granted") /\ PendsOn = Awaited(Shared)
<1>1. ASSUME NEW t \in Thread, pendOn[t] \in Shared
      PROVE  Phase(t) = Stands(Shared, "granted", pendOn[t], k.state[t])
  <2>1. Good(k) /\ Placed(t) /\ pendOn[t] \in BlockList
    BY <1>1 DEF ObjInv, SemaphoresAssumption
  <2>2. t \in ToSet(k.list[pendOn[t]]) <=> k.state[t] = "BLOCKED" /\ k.where[t] = pendOn[t]
    BY <2>1, BlockedLists
  <2>3. k.state[t] = "BLOCKED" => k.where[t] = pendOn[t]
    BY <2>1 DEF Placed
  <2>4. pc[t] = "pend"
    BY <1>1 DEF PendInv
  <2> QED BY <1>1, <2>2, <2>3, <2>4 DEF Phase, Stands
<1> QED BY <1>1 DEF Pends, PendsOn, Standing, Awaited, Object, Stands

LEMMA PendsNext ==
  ASSUME KernelAssumption, SemaphoresAssumption, ObjInv', PendInv'
  PROVE  Pends' = Standing(Shared, "granted")' /\ PendsOn' = Awaited(Shared)'
<1>1. ASSUME NEW t \in Thread, pendOn'[t] \in Shared
      PROVE  Phase(t)' = Stands(Shared, "granted", pendOn'[t], k'.state[t])
  <2>1. Good(k') /\ Placed(t)' /\ pendOn'[t] \in BlockList
    BY <1>1 DEF ObjInv, SemaphoresAssumption
  <2>2. t \in ToSet(k'.list[pendOn'[t]]) <=> k'.state[t] = "BLOCKED" /\ k'.where[t] = pendOn'[t]
    BY <2>1, BlockedLists
  <2>3. k'.state[t] = "BLOCKED" => k'.where[t] = pendOn'[t]
    BY <2>1 DEF Placed
  <2>4. pc'[t] = "pend"
    BY <1>1 DEF PendInv
  <2> QED BY <1>1, <2>2, <2>3, <2>4 DEF Phase, Stands
<1> QED BY <1>1 DEF Pends, PendsOn, Standing, Awaited, Object, Stands

\* The state of SemaphoreSpec, now and after the step.
PendViews ==
  /\ Pends = Standing(Shared, "granted") /\ Pends' = Standing(Shared, "granted")'
  /\ PendsOn = Awaited(Shared) /\ PendsOn' = Awaited(Shared)'

\* A step is one of SemaphoreSpec, or none.
KeepsPend == PendInv' /\ (PendViews => [Promise!Next]_(Promise!vars))

LEMMA PendStutters ==
  ASSUME PendViews, \A u \in Thread : SameStand(Shared, u), \A s \in Shared : value'[s] = value[s],
         posts' = posts
  PROVE  UNCHANGED Promise!vars
<1>1. Pends' = Pends /\ PendsOn' = PendsOn
  BY AllStand DEF PendViews
<1> QED BY <1>1 DEF Promise!vars, Pends, PendsOn

\* Only t has moved, and not into a wait with a timeout.
LEMMA PendInvMoves ==
  ASSUME PendInv, posts' \in [Shared -> 0 .. 1], NEW t, MovedAlone(t),
         pendOn'[t] \in Shared => pc'[t] = "pend"
  PROVE  PendInv'
BY DEF PendInv, MovedAlone

\* The token of a Post is kept, or goes to a thread that waits for it.
Kept(s) == k' = k /\ Count(s)
Given(s) == (\E h : Grants(h, s)) /\ Posted(s) /\ value' = value

LEMMA PostedIs ==
  ASSUME posts \in [Shared -> 0 .. 1], NEW s \in Shared, Posted(s)
  PROVE  posts' \in [Shared -> 0 .. 1] /\ posts' = [posts EXCEPT ![s] = 1 - @]
<1>1. \A x \in Shared : posts[x] \in 0 .. 1 /\ 1 - posts[x] \in 0 .. 1
  OBVIOUS
<1>2. posts' = [x \in Shared |-> IF x = s THEN 1 - posts[x] ELSE posts[x]]
  BY DEF Posted
<1> QED BY <1>1, <1>2

LEMMA KeptIs ==
  ASSUME KernelAssumption, SemaphoresAssumption, ObjInv, PendInv, NEW s \in Shared, Kept(s),
         pendOn' = pendOn, PendViews
  PROVE  [Promise!Next]_(Promise!vars)
<1>1. \A u \in Thread : SameStand(Shared, u)
  BY StayersStand DEF Kept, Same
<1>2. Pends' = Pends /\ PendsOn' = PendsOn
  BY <1>1, AllStand DEF PendViews
<1>3. CASE UNCHANGED <<value, posts>>
  BY <1>1, <1>3, PendStutters
<1>4. CASE value[s] < MaxValue[s] /\ value' = [value EXCEPT ![s] = @ + 1] /\ Posted(s)
  <2>1. ASSUME NEW u \in Thread, Pends[u] = "waiting", PendsOn[u] = s PROVE FALSE
    <3>1. Good(k) /\ Placed(u) /\ s \in BlockList /\ k.list[s] = <<>>
      BY DEF ObjInv, SemaphoresAssumption, Kept, Count
    <3>2. k.state[u] = "BLOCKED" /\ pendOn[u] = s
      <4>1. Stands(Shared, "granted", pendOn[u], k.state[u]) = "waiting"
        BY <2>1 DEF PendViews, Standing
      <4> QED BY <2>1, <4>1 DEF PendViews, Stands, Awaited, Object
    <3>3. u \in ToSet(k.list[s])
      BY <3>1, <3>2, BlockedLists DEF Placed
    <3> QED BY <3>1, <3>3 DEF ToSet
  <2>2. posts' = [posts EXCEPT ![s] = 1 - @]
    BY <1>4, PostedIs DEF PendInv
  <2>3. [x \in Shared |-> value[x]]' = [[x \in Shared |-> value[x]] EXCEPT ![s] = @ + 1]
    <3>1. value \in [Sem -> Nat] /\ Shared \subseteq Sem
      BY DEF ObjInv, SemaphoresAssumption
    <3> QED BY <1>4, <3>1
  <2>4. Promise!Keep(s)
    BY <1>2, <1>4, <2>1, <2>2, <2>3 DEF Promise!Keep, Promise!Posted, Pends, PendsOn
  <2> QED BY <2>4 DEF Promise!Next
<1> QED BY <1>3, <1>4 DEF Kept, Count

LEMMA GivenIs ==
  ASSUME KernelAssumption, SemaphoresAssumption, ObjInv, PendInv, NEW s \in Shared, Given(s),
         pendOn' = pendOn, PendViews
  PROVE  Promise!Next
<1>1. PICK h \in Thread : Grants(h, s)
  BY DEF Given, Grants
<1>2. /\ k.state[h] = "BLOCKED" /\ k.where[h] = s /\ k'.state[h] = "READY"
      /\ \A u \in Thread \ {h} : k'.state[u] = k.state[u]
  BY <1>1 DEF Grants
<1>3. pendOn[h] = s
  BY <1>2 DEF ObjInv, Placed
<1>4. /\ Stands(Shared, "granted", pendOn[h], k.state[h]) = "waiting"
      /\ Object(Shared, pendOn[h]) = s
  BY <1>2, <1>3 DEF Stands, Object
<1>5. \A u \in Thread \ {h} : SameStand(Shared, u)
  BY <1>2 DEF SameStand
<1>6. Came(Shared, "granted", h, "granted", s)
  <2>1. Comes(Shared, "granted", h, "granted", s)
    BY <1>2, <1>3, <1>5 DEF Comes, Stands, Object
  <2> QED BY <2>1, OneMoves
<1>7. /\ Pends[h] = "waiting" /\ Pends' = [Pends EXCEPT ![h] = "granted"]
      /\ PendsOn[h] = s /\ PendsOn' = PendsOn
  <2>1. Standing(Shared, "granted")[h] = "waiting" /\ Awaited(Shared)[h] = s
    BY <1>4 DEF Standing, Awaited
  <2>2. Awaited(Shared)' = Awaited(Shared)
    BY <1>6, <2>1 DEF Came, Awaited
  <2> QED BY <1>6, <2>1, <2>2 DEF Came, PendViews
<1>8. posts' = [posts EXCEPT ![s] = 1 - @]
  BY PostedIs DEF Given, PendInv
<1>9. Promise!Grant(h)
  BY <1>7, <1>8 DEF Given, Promise!Grant, Promise!Move, Promise!Posted, Pends, PendsOn
<1> QED BY <1>9 DEF Promise!Next

LEMMA PostKeepsPend ==
  ASSUME KernelAssumption, SemaphoresAssumption, ObjInv, PendInv, NEW s \in Shared,
         Kept(s) \/ Given(s), pendOn' = pendOn,
         \A u \in Thread : pendOn[u] \in Shared => pc'[u] = pc[u]
  PROVE  KeepsPend
<1>1. posts' \in [Shared -> 0 .. 1]
  BY PostedIs DEF Kept, Given, Count, PendInv
<1>2. PendInv'
  BY <1>1 DEF PendInv
<1> QED BY <1>2, KeptIs, GivenIs DEF KeepsPend

LEMMA PostByGrants ==
  ASSUME KernelAssumption, ObjInv, NEW s, s \in BlockList, k.list[s] # <<>>,
         k' = UnBlock(k, Head(k.list[s]))
  PROVE  \E h : Grants(h, s)
<1> DEFINE h == Head(k.list[s])
<1>1. PICK y \in BOOLEAN : y <=> pc[k.current] \in Yielding
  OBVIOUS
<1>2. PICK o \in BOOLEAN : o <=> pc[k.current] \in Enabling
  OBVIOUS
<1>3. Good(k) /\ Dispatches(k, y, o)
  BY <1>1, <1>2 DEF ObjInv, Dispatches
<1>4. h \in Thread /\ k.state[h] = "BLOCKED" /\ k.where[h] = s /\ k' = UnBlock(k, h)
  BY <1>3, HeadWaits
<1> HIDE DEF h
<1>5. OthersStay(k', k, h) /\ k'.state[h] \in {k.state[h], "READY"} /\ k'.state[h] # "BLOCKED"
  BY <1>3, <1>4, UnBlockDispatches
<1> QED BY <1>4, <1>5 DEF Grants, OthersStay

LEMMA CallPostKeepsPend ==
  ASSUME KernelAssumption, SemaphoresAssumption, ObjInv, PendInv, NEW t \in Thread,
         NEW s \in Shared, CallPost(t, s)
  PROVE  KeepsPend
<1>1. Running(t) /\ pc[t] = "run" /\ PostBy(t, s) /\ s \in BlockList
  BY DEF CallPost, Calling, SemaphoresAssumption
<1>2. pendOn[t] = NoList /\ pc \in [Thread -> Where] /\ NoList \notin Shared
  BY <1>1 DEF ObjInv, Placed, InWait, Waiting, KernelAssumption, SemaphoresAssumption
<1>3. \A u \in Thread : pendOn[u] \in Shared => pc'[u] = pc[u]
  BY <1>1, <1>2 DEF PostBy
<1>4. Kept(s) \/ Given(s)
  <2>1. CASE Count(s) /\ UNCHANGED k
    BY <2>1 DEF Kept
  <2>2. CASE k.list[s] # <<>> /\ k' = UnBlock(k, Head(k.list[s])) /\ Posted(s) /\ UNCHANGED value
    BY <1>1, <2>2, PostByGrants DEF Given
  <2> QED BY <1>1, <2>1, <2>2 DEF PostBy
<1>5. pendOn' = pendOn
  BY <1>1 DEF PostBy
<1> QED BY <1>3, <1>4, <1>5, PostKeepsPend

LEMMA InterruptPostKeepsPend ==
  ASSUME KernelAssumption, SemaphoresAssumption, ObjInv, PendInv, NEW s \in Shared,
         InterruptPosts(s)
  PROVE  KeepsPend
<1>1. PostInside(s) /\ s \in BlockList
  BY DEF InterruptPosts, SemaphoresAssumption
<1>2. Kept(s) \/ Given(s)
  BY <1>1, PostGrants DEF PostInside, Kept, Given
<1>3. pendOn' = pendOn /\ \A u \in Thread : pendOn[u] \in Shared => pc'[u] = pc[u]
  BY <1>1 DEF PostInside
<1> QED BY <1>2, <1>3, PostKeepsPend

LEMMA CallPendKeepsPend ==
  ASSUME KernelAssumption, SemaphoresAssumption, ObjInv, PendInv, NEW t \in Thread,
         NEW s \in Shared, CallPend(t, s)
  PROVE  KeepsPend
<1>1. Running(t) /\ pc[t] = "run" /\ Pend(t, s, "run") /\ s \in BlockList /\ s \in Sem
  BY DEF CallPend, Calling, SemaphoresAssumption
<1>2. Outside(t)
  BY <1>1 DEF Outside, Plain, Where, InWait, Waiting, Yielding, Enabling
<1>3. pendOn[t] = NoList /\ k.state[t] = "READY" /\ NoList \notin Shared /\ value \in [Sem -> Nat]
  BY <1>1, <1>2, CallerHere DEF KernelAssumption, SemaphoresAssumption
<1>4. posts' = posts
  BY <1>1 DEF Pend, Take, Wait
<1>5. Stands(Shared, "granted", pendOn[t], k.state[t]) = "idle"
  BY <1>3 DEF Stands
<1>6. CASE Takes(t, s, "run")
  <2>1. /\ MovedAlone(t) /\ pendOn'[t] = NoList /\ value[s] # 0
        /\ value' = [value EXCEPT ![s] = @ - 1]
    BY <1>6 DEF Takes, OnlyMoves
  <2>2. PendInv'
    BY <1>3, <1>4, <2>1, PendInvMoves DEF PendInv
  <2>3. \A u \in Thread : SameStand(Shared, u)
    BY <1>3, <1>6 DEF Takes, OnlyMoves, MovedAlone, SameStand
  <2>4. ASSUME PendViews PROVE Promise!Take(t, s)
    <3>1. Pends' = Pends /\ PendsOn' = PendsOn /\ Pends[t] = "idle"
      BY <1>5, <2>3, <2>4, AllStand DEF PendViews, Standing
    <3>2. [x \in Shared |-> value[x]]' = [[x \in Shared |-> value[x]] EXCEPT ![s] = @ - 1]
      <4>1. Shared \subseteq Sem
        BY DEF SemaphoresAssumption
      <4>2. \A x \in Shared : value'[x] = IF x = s THEN value[s] - 1 ELSE value[x]
        BY <1>3, <2>1, <4>1
      <4> QED BY <4>2
    <3>3. value[s] \in Nat /\ value[s] > 0
      BY <1>1, <1>3, <2>1
    <3> QED BY <1>4, <3>1, <3>2, <3>3 DEF Promise!Take, Pends, PendsOn
  <2> QED BY <2>2, <2>4 DEF KeepsPend, Promise!Next
<1>7. CASE Waits(t, s, "pend")
  <2>1. /\ MovedAlone(t) /\ pendOn'[t] = s /\ pc'[t] = "pend" /\ k'.state[t] = "BLOCKED"
        /\ value[s] = 0 /\ value' = value
    BY <1>7 DEF Waits, OnlyMoves
  <2>2. PendInv'
    BY <1>4, <2>1, PendInvMoves DEF PendInv
  <2>3. \A u \in Thread \ {t} : SameStand(Shared, u)
    BY <1>7 DEF Waits, OnlyMoves, MovedAlone, SameStand
  <2>4. Comes(Shared, "granted", t, "waiting", s)
    BY <2>1, <2>3 DEF Comes, Stands, Object
  <2>5. ASSUME PendViews PROVE Promise!Wait(t, s)
    <3>1. Came(Shared, "granted", t, "waiting", s)
      BY <2>4, OneMoves
    <3>2. Standing(Shared, "granted")[t] = "idle"
      BY <1>5 DEF Standing
    <3>3. /\ Pends[t] = "idle" /\ Pends' = [Pends EXCEPT ![t] = "waiting"]
          /\ PendsOn' = [PendsOn EXCEPT ![t] = s]
      BY <2>5, <3>1, <3>2 DEF Came, PendViews
    <3> QED BY <1>4, <2>1, <3>3 DEF Promise!Wait, Promise!Move, Pends, PendsOn
  <2> QED BY <2>2, <2>5 DEF KeepsPend, Promise!Next
<1> QED BY <1>1, <1>2, <1>6, <1>7, PendMoves

LEMMA ReturnKeepsPend ==
  ASSUME KernelAssumption, SemaphoresAssumption, ObjInv, PendInv, NEW t \in Thread, PendReturns(t)
  PROVE  KeepsPend
<1>1. /\ Same /\ MovedAlone(t) /\ pendOn'[t] = NoList /\ k.state[t] = "READY"
      /\ pendOn[t] \in Shared
  BY PendEndsMoves DEF PendReturns
<1>2. value' = value /\ posts' = posts /\ NoList \notin Shared
  BY DEF PendReturns, PendEnds, KernelAssumption, SemaphoresAssumption
<1>3. PendInv'
  BY <1>1, <1>2, PendInvMoves DEF PendInv
<1>4. \A u \in Thread \ {t} : SameStand(Shared, u)
  BY <1>1 DEF MovedAlone, Same, SameStand
<1>5. /\ Stands(Shared, "granted", pendOn[t], k.state[t]) = "granted"
      /\ Comes(Shared, "granted", t, "idle", NoList)
  BY <1>1, <1>2, <1>4 DEF Comes, Stands, Object
<1>6. ASSUME PendViews PROVE Promise!Return(t)
  <2>1. Came(Shared, "granted", t, "idle", NoList)
    BY <1>5, OneMoves
  <2>2. Standing(Shared, "granted")[t] = "granted"
    BY <1>5 DEF Standing
  <2>3. /\ Pends[t] = "granted" /\ Pends' = [Pends EXCEPT ![t] = "idle"]
        /\ PendsOn' = [PendsOn EXCEPT ![t] = NoList]
    BY <1>6, <2>1, <2>2 DEF Came, PendViews
  <2> QED BY <1>2, <2>3 DEF Promise!Return, Promise!Move, Pends, PendsOn
<1> QED BY <1>3, <1>6 DEF KeepsPend, Promise!Next

LEMMA OthersKeepPend ==
  ASSUME {"Stop", "Exit"} \cap Calls = {}, PendInv, Minding(Shared), Uncounted,
         \A s \in Shared : value'[s] = value[s]
  PROVE  KeepsPend
<1>1. posts' = posts
  BY SamePosts DEF PendInv
<1>2. \A u \in Thread : pendOn[u] \in Shared => pc[u] \notin InTimedWait
  BY DEF PendInv, InTimedWait
<1>3. /\ \A u \in Thread : SameStand(Shared, u)
      /\ \A u \in Thread : pendOn'[u] \in Shared => pendOn[u] \in Shared /\ pc'[u] = pc[u]
  BY <1>2, MindersStand
<1>4. PendInv'
  BY <1>1, <1>3 DEF PendInv
<1> QED BY <1>1, <1>3, <1>4, PendStutters DEF KeepsPend

LEMMA EveryStepKeepsPend ==
  ASSUME KernelAssumption, SemaphoresAssumption, SleepAssumption, NotifyAssumption,
         EventFlagAssumption, MutexAssumption, MailboxAssumption, MessageAssumption,
         ObjectsAssumption, {"Init", "Stop", "Exit", "TimedPend"} \cap Calls = {},
         ObjInv, FrameInv, PendInv, ObjectsNext
  PROVE  KeepsPend
<1>1. SemSide
  BY EveryAspect DEF Aspects
<1>2. ASSUME NEW t \in Thread, SemThreadStep(t) PROVE KeepsPend
  <2>1. ASSUME NEW s \in Shared, NEW ticks, CallTimedPend(t, s, ticks) PROVE FALSE
    BY <2>1 DEF CallTimedPend, Calling
  <2> QED BY <1>2, <2>1, CallPostKeepsPend, CallPendKeepsPend, ReturnKeepsPend DEF SemThreadStep
<1>3. ASSUME NEW s \in Shared, InterruptPosts(s) PROVE KeepsPend
  BY <1>3, InterruptPostKeepsPend
<1>4. CASE Minding(Shared) /\ Uncounted /\ \A s \in Shared : value'[s] = value[s]
  BY <1>4, OthersKeepPend
<1> QED BY <1>1, <1>2, <1>3, <1>4 DEF SemSide

LEMMA PendStart ==
  ASSUME KernelAssumption, SemaphoresAssumption, ObjectsInit
  PROVE  PendInv /\ Promise!Init
<1>1. /\ value = [s \in Sem |-> IF s \in Shared THEN InitValue ELSE 0]
      /\ pendOn = [t \in Thread |-> NoList] /\ posts = [s \in Shared |-> 0]
  BY DEF ObjectsInit, SleepInit, SemInit
<1>2. NoList \notin Shared /\ Shared \subseteq Sem
  BY DEF KernelAssumption, SemaphoresAssumption
<1> QED BY <1>1, <1>2 DEF PendInv, Promise!Init

\* Every semaphore does what its interface promises, among all the other objects,
\* for Pends without a timeout and threads that are neither stopped nor exit while
\* they wait: a Pend that returns took a token that a Post or Init put there, a
\* Post of a semaphore somebody waits for ends one wait, and no token is lost or
\* made up.
THEOREM PromiseKept ==
  ASSUME {"Init", "Stop", "Exit", "TimedPend"} \cap Calls = {}
  PROVE  ObjectsSpec => KeepsPromise
<1> USE KernelAssumption, SemaphoresAssumption, SleepAssumption, NotifyAssumption,
        EventFlagAssumption, MutexAssumption, MailboxAssumption, MessageAssumption,
        ObjectsAssumption
<1> DEFINE I == ObjInv /\ FrameInv
<1>1. ObjectsInit => PendInv /\ Promise!Init
  BY PendStart
<1>2. I /\ PendInv /\ [ObjectsNext]_all => PendInv'
  <2>1. ASSUME PendInv, UNCHANGED all PROVE PendInv'
    <3>1. UNCHANGED <<pc, pendOn, posts>>
      BY <2>1 DEF all, everyVar, allVars
    <3> QED BY <2>1, <3>1 DEF PendInv
  <2> QED BY <2>1, EveryStepKeepsPend DEF KeepsPend
<1>3. I /\ PendInv /\ [ObjectsNext]_all /\ I' /\ PendInv' => [Promise!Next]_(Promise!vars)
  <2>1. ASSUME UNCHANGED all PROVE UNCHANGED Promise!vars
    <3>1. UNCHANGED <<k, pc, value, pendOn, expired, posts>>
      BY <2>1 DEF all, everyVar, allVars
    <3> QED BY <3>1 DEF Promise!vars, Phase
  <2>2. ASSUME I, PendInv, ObjectsNext, I', PendInv' PROVE [Promise!Next]_(Promise!vars)
    <3>1. PendViews
      BY <2>2, PendsNow, PendsNext DEF PendViews
    <3> QED BY <2>2, <3>1, EveryStepKeepsPend DEF KeepsPend
  <2> QED BY <2>1, <2>2
<1>4. ObjectsSpec => []I
  <2>1. "Init" \notin Calls
    OBVIOUS
  <2> QED BY <2>1, ObjectsInvariance, PTL
<1> QED BY <1>1, <1>2, <1>3, <1>4, PTL DEF ObjectsSpec, Promise!Spec, KeepsPromise

-----------------------------------------------------------------------------
(* The promise of the notifications *)

Tells == [t \in Thread |-> WaitPhase(t)]
Heard == [t \in Thread |-> IF pendOn[t] \in Note THEN pendOn[t] ELSE NoList]

LEMMA TellsNow ==
  ASSUME KernelAssumption, NotifyAssumption, ObjInv, ToldInv
  PROVE  Tells = Standing(Note, "told") /\ Heard = Awaited(Note)
<1>1. ASSUME NEW t \in Thread, pendOn[t] \in Note
      PROVE  WaitPhase(t) = Stands(Note, "told", pendOn[t], k.state[t])
  <2>1. Good(k) /\ Placed(t) /\ pendOn[t] \in BlockList
    BY <1>1 DEF ObjInv, NotifyAssumption
  <2>2. t \in ToSet(k.list[pendOn[t]]) <=> k.state[t] = "BLOCKED" /\ k.where[t] = pendOn[t]
    BY <2>1, BlockedLists
  <2>3. k.state[t] = "BLOCKED" => k.where[t] = pendOn[t]
    BY <2>1 DEF Placed
  <2>4. pc[t] \notin InTimedWait
    BY <1>1 DEF ToldInv, InTimedWait
  <2> QED BY <1>1, <2>2, <2>3, <2>4 DEF WaitPhase, Stands
<1>2. ASSUME NEW t \in Thread, pendOn[t] \notin Note
      PROVE  WaitPhase(t) = Stands(Note, "told", pendOn[t], k.state[t])
  BY <1>2 DEF WaitPhase, Stands
<1> QED BY <1>1, <1>2 DEF Tells, Heard, Standing, Awaited, Object

LEMMA TellsNext ==
  ASSUME KernelAssumption, NotifyAssumption, ObjInv', ToldInv'
  PROVE  Tells' = Standing(Note, "told")' /\ Heard' = Awaited(Note)'
<1>1. ASSUME NEW t \in Thread, pendOn'[t] \in Note
      PROVE  WaitPhase(t)' = Stands(Note, "told", pendOn'[t], k'.state[t])
  <2>1. Good(k') /\ Placed(t)' /\ pendOn'[t] \in BlockList
    BY <1>1 DEF ObjInv, NotifyAssumption
  <2>2. t \in ToSet(k'.list[pendOn'[t]]) <=> k'.state[t] = "BLOCKED" /\ k'.where[t] = pendOn'[t]
    BY <2>1, BlockedLists
  <2>3. k'.state[t] = "BLOCKED" => k'.where[t] = pendOn'[t]
    BY <2>1 DEF Placed
  <2>4. pc'[t] \notin InTimedWait
    BY <1>1 DEF ToldInv, InTimedWait
  <2> QED BY <1>1, <2>2, <2>3, <2>4 DEF WaitPhase, Stands
<1>2. ASSUME NEW t \in Thread, pendOn'[t] \notin Note
      PROVE  WaitPhase(t)' = Stands(Note, "told", pendOn'[t], k'.state[t])
  BY <1>2 DEF WaitPhase, Stands
<1> QED BY <1>1, <1>2 DEF Tells, Heard, Standing, Awaited, Object

\* The state of NotifySpec, now and after the step.
TellViews ==
  /\ Tells = Standing(Note, "told") /\ Tells' = Standing(Note, "told")'
  /\ Heard = Awaited(Note) /\ Heard' = Awaited(Note)'

\* A step is one of NotifySpec, or none.
KeepsTold == ToldInv' /\ (TellViews => [Told!Next]_(Told!vars))

LEMMA TellStutters ==
  ASSUME TellViews, \A u \in Thread : SameStand(Note, u)
  PROVE  UNCHANGED Told!vars
<1>1. Tells' = Tells /\ Heard' = Heard
  BY AllStand DEF TellViews
<1> QED BY <1>1 DEF Told!vars, Tells, Heard

LEMMA ToldInvMoves ==
  ASSUME ToldInv, NEW t, MovedAlone(t), pendOn'[t] \in Note => pc'[t] \in {"block", "pend"}
  PROVE  ToldInv'
BY DEF ToldInv, MovedAlone

\* A Signal makes every thread READY that is BLOCKED on n, and moves no other one.
Signals(n) ==
  \A u \in Thread : /\ k.state[u] = "BLOCKED" /\ k.where[u] = n => k'.state[u] = "READY"
                    /\ ~(k.state[u] = "BLOCKED" /\ k.where[u] = n) => k'.state[u] = k.state[u]

LEMMA SignalSignals ==
  ASSUME KernelAssumption, NotifyAssumption, ObjInv, NEW n \in Note, NEW a, a = SignalAll(k, n),
         MayYield(k', a)
  PROVE  Signals(n)
<1>1. PICK y \in BOOLEAN : y <=> pc[k.current] \in Yielding
  OBVIOUS
<1>2. PICK h \in BOOLEAN : h <=> pc[k.current] \in Enabling
  OBVIOUS
<1>3. Good(k) /\ Dispatches(k, y, h) /\ n \in BlockList
  BY <1>1, <1>2 DEF ObjInv, Dispatches, NotifyAssumption
<1>4. a = UnBlockEach(k, n, Thread)
  BY DEF SignalAll
<1>5. Wakes(k', k, n) /\ Woken(k', k, n, Thread)
  BY <1>3, <1>4, EachWakes
<1>6. ASSUME NEW u \in Thread, k.state[u] = "BLOCKED", k.where[u] = n PROVE k'.state[u] = "READY"
  <2>1. u \in ToSet(k.list[n])
    BY <1>3, <1>6, BlockedLists
  <2> QED BY <1>5, <2>1 DEF Woken
<1>7. ASSUME NEW u \in Thread, ~(k.state[u] = "BLOCKED" /\ k.where[u] = n)
      PROVE  k'.state[u] = k.state[u]
  BY <1>5, <1>7 DEF Wakes
<1> QED BY <1>6, <1>7 DEF Signals

LEMMA SignalIs ==
  ASSUME NotifyAssumption, KernelAssumption, ObjInv, NEW n \in Note, Signals(n), pendOn' = pendOn, TellViews
  PROVE  Told!Signal(n)
<1>1. ASSUME NEW u \in Thread
      PROVE  /\ Stands(Note, "told", pendOn'[u], k'.state[u])
                  = IF Stands(Note, "told", pendOn[u], k.state[u]) = "waiting" /\ Object(Note, pendOn[u]) = n
                    THEN "told" ELSE Stands(Note, "told", pendOn[u], k.state[u])
             /\ Object(Note, pendOn'[u]) = Object(Note, pendOn[u])
  <2>1. k.state[u] = "BLOCKED" => pendOn[u] = k.where[u]
    BY DEF ObjInv, Placed
  <2>2. Object(Note, pendOn[u]) = n <=> pendOn[u] = n
    BY DEF Object, KernelAssumption, NotifyAssumption
  <2>3. CASE k.state[u] = "BLOCKED" /\ k.where[u] = n
    BY <2>1, <2>2, <2>3 DEF Signals, Stands
  <2>4. CASE ~(k.state[u] = "BLOCKED" /\ k.where[u] = n)
    <3>1. k'.state[u] = k.state[u]
      BY <2>4 DEF Signals
    <3>2. ~(Stands(Note, "told", pendOn[u], k.state[u]) = "waiting" /\ Object(Note, pendOn[u]) = n)
      BY <2>1, <2>2, <2>4 DEF Stands
    <3> QED BY <3>1, <3>2
  <2> QED BY <2>3, <2>4
<1>2. /\ Tells' = [t \in Thread |-> IF Tells[t] = "waiting" /\ Heard[t] = n THEN "told" ELSE Tells[t]]
      /\ Heard' = Heard
  <2>1. Standing(Note, "told")'
          = [t \in Thread |-> IF Standing(Note, "told")[t] = "waiting" /\ Awaited(Note)[t] = n
                              THEN "told" ELSE Standing(Note, "told")[t]]
    BY <1>1 DEF Standing, Awaited
  <2>2. Awaited(Note)' = Awaited(Note)
    BY <1>1 DEF Awaited
  <2> QED BY <2>1, <2>2 DEF TellViews
<1>3. \A t \in Thread : k.curPrio[t] <= k.curPrio[t]
  BY KernelAssumption DEF ObjInv, Good, KernelState, Prio, KernelAssumption
<1>4. PICK told : told = Told!Waiters(n)
  OBVIOUS
<1>5. told = {t \in Thread : Tells[t] = "waiting" /\ Heard[t] = n}
  BY <1>4 DEF Told!Waiters, Tells, Heard
<1>6. Tells' = [t \in Thread |-> IF t \in told THEN "told" ELSE Tells[t]]
  BY <1>2, <1>5
<1>7. /\ told \in SUBSET Told!Waiters(n)
      /\ \A t \in Told!Waiters(n) : \E u \in told : k.curPrio[t] <= k.curPrio[u]
  BY <1>3, <1>4, <1>5
<1> QED BY <1>2, <1>6, <1>7 DEF Told!Signal, Tells, Heard

LEMMA SignalKeepsTold ==
  ASSUME NotifyAssumption, KernelAssumption, ObjInv, ToldInv, NEW n \in Note, Signals(n),
         pendOn' = pendOn, \A u \in Thread : pendOn[u] \in Note => pc'[u] = pc[u]
  PROVE  KeepsTold
<1>1. ToldInv'
  BY DEF ToldInv
<1>2. TellViews => Told!Next
  BY SignalIs DEF Told!Next
<1> QED BY <1>1, <1>2 DEF KeepsTold

LEMMA CallSignalKeepsTold ==
  ASSUME KernelAssumption, NotifyAssumption, ObjInv, ToldInv, NEW t \in Thread, NEW n \in Note,
         CallSignal(t, n)
  PROVE  KeepsTold
<1>1. /\ pc[t] = "run" /\ k' = SignalAll(k, n) /\ pendOn' = pendOn
      /\ pc' = IF Reschedules(k, n) THEN [pc EXCEPT ![t] = "yield"] ELSE pc
  BY DEF CallSignal, Calling, semVars
<1>2. pendOn[t] = NoList /\ pc \in [Thread -> Where] /\ NoList \notin Note
  BY <1>1 DEF ObjInv, Placed, InWait, Waiting, KernelAssumption, NotifyAssumption
<1>3. \A u \in Thread : pendOn[u] \in Note => pc'[u] = pc[u]
  BY <1>1, <1>2
<1>4. Signals(n)
  BY <1>1, SignalSignals DEF MayYield
<1> QED BY <1>1, <1>3, <1>4, SignalKeepsTold

LEMMA InterruptSignalKeepsTold ==
  ASSUME KernelAssumption, NotifyAssumption, ObjInv, ToldInv, NEW n \in Note, InterruptSignals(n)
  PROVE  KeepsTold
<1>1. PICK a : a = SignalAll(k, n)
  OBVIOUS
<1>2. MayYield(k', a) /\ pendOn' = pendOn /\ pc' = pc
  BY <1>1 DEF InterruptSignals, MayYield, semVars
<1>3. Signals(n)
  BY <1>1, <1>2, SignalSignals
<1> QED BY <1>2, <1>3, SignalKeepsTold

LEMMA CallWaitKeepsTold ==
  ASSUME KernelAssumption, NotifyAssumption, ObjInv, ToldInv, NEW t \in Thread, NEW n \in Note,
         CallWait(t, n)
  PROVE  KeepsTold
<1>1. /\ Running(t) /\ pc[t] = "run" /\ t # Idle /\ k.enabled /\ k' = Block(k, t, n)
      /\ pc' = [pc EXCEPT ![t] = "block"] /\ pendOn' = [pendOn EXCEPT ![t] = n]
      /\ expired' = expired /\ n \in BlockList
  BY DEF CallWait, Calling, BlockOn, NotifyAssumption
<1>2. Outside(t)
  BY <1>1 DEF Outside, Plain, Where, InWait, Waiting, Yielding, Enabling
<1>3. /\ Good(k) /\ Dispatches(k, FALSE, FALSE) /\ ~k.pendsv /\ t = k.current
      /\ pendOn[t] = NoList /\ pc \in [Thread -> Where]
      /\ pendOn \in [Thread -> BlockList \cup {NoList}]
  BY <1>1, <1>2, CallerHere
<1>4. BlockedBy(k', k, t, n) /\ Frames(k, t, "block")
  BY <1>1, <1>3, NoFrameTimer DEF BlockedBy
<1>5. Enters(t, n, "block")
  BY <1>1, <1>3, <1>4, BlockEnters
<1>6. MovedAlone(t) /\ pc'[t] = "block" /\ pendOn'[t] = n
  BY <1>1, <1>3 DEF MovedAlone
<1>7. ToldInv'
  BY <1>6, ToldInvMoves
<1>8. Comes(Note, "told", t, "waiting", n)
  <2>1. k'.state[t] = "BLOCKED" /\ \A u \in Thread \ {t} : k'.state[u] = k.state[u]
    BY <1>5 DEF Enters, OthersStay
  <2>2. \A u \in Thread \ {t} : SameStand(Note, u)
    BY <1>6, <2>1 DEF MovedAlone, SameStand
  <2> QED BY <1>6, <2>1, <2>2 DEF Comes, Stands, Object
<1>9. ASSUME TellViews PROVE Told!Wait(t, n)
  <2>1. Came(Note, "told", t, "waiting", n)
    BY <1>8, OneMoves
  <2>2. Standing(Note, "told")[t] = "idle"
    BY <1>3 DEF Standing, Stands, KernelAssumption, NotifyAssumption
  <2>3. /\ Tells[t] = "idle" /\ Tells' = [Tells EXCEPT ![t] = "waiting"]
        /\ Heard' = [Heard EXCEPT ![t] = n]
    BY <1>9, <2>1, <2>2 DEF Came, TellViews
  <2> QED BY <2>3 DEF Told!Wait, Tells, Heard
<1> QED BY <1>7, <1>9 DEF KeepsTold, Told!Next

LEMMA WaitYieldKeepsTold ==
  ASSUME KernelAssumption, ObjInv, ToldInv, NEW t \in Thread, pendOn[t] \in Note, YieldBlocked(t)
  PROVE  KeepsTold
<1>1. /\ Running(t) /\ pc[t] \in {"block", "blockT"} /\ k' = Yield(k) /\ pendOn' = pendOn
      /\ expired' = expired /\ pc' = [pc EXCEPT ![t] = IF @ = "block" THEN "pend" ELSE "timed"]
      /\ pc \in [Thread -> Where] /\ Good(k) /\ t = k.current
  BY DEF YieldBlocked, semVars, ObjInv, Running
<1>2. pc[t] = "block" /\ pc'[t] = "pend"
  <2>1. pc[t] \in {"block", "pend"}
    BY DEF ToldInv
  <2> QED BY <1>1, <2>1
<1>3. Dispatches(k, TRUE, FALSE)
  BY <1>1, <1>2 DEF ObjInv, Dispatches, Yielding, Enabling
<1>4. SameThreads(k', k)
  BY <1>1, <1>3, YieldDispatches
<1>5. \A u \in Thread : SameStand(Note, u)
  BY <1>1, <1>4 DEF SameThreads, SameStand
<1>6. ToldInv'
  BY <1>1, <1>2, ToldInvMoves DEF MovedAlone
<1> QED BY <1>5, <1>6, TellStutters DEF KeepsTold

LEMMA WaitReturnKeepsTold ==
  ASSUME KernelAssumption, NotifyAssumption, ObjInv, ToldInv, NEW t \in Thread, pendOn[t] \in Note,
         PendEnds(t, "run")
  PROVE  KeepsTold
<1>1. Same /\ MovedAlone(t) /\ pendOn'[t] = NoList /\ k.state[t] = "READY"
  BY PendEndsMoves
<1>2. NoList \notin Note
  BY DEF KernelAssumption, NotifyAssumption
<1>3. ToldInv'
  BY <1>1, <1>2, ToldInvMoves
<1>4. \A u \in Thread \ {t} : SameStand(Note, u)
  BY <1>1 DEF MovedAlone, Same, SameStand
<1>5. Comes(Note, "told", t, "idle", NoList)
  BY <1>1, <1>2, <1>4 DEF Comes, Stands, Object
<1>6. ASSUME TellViews PROVE Told!Return(t)
  <2>1. Came(Note, "told", t, "idle", NoList)
    BY <1>5, OneMoves
  <2>2. Standing(Note, "told")[t] = "told"
    BY <1>1 DEF Standing, Stands
  <2>3. /\ Tells[t] = "told" /\ Tells' = [Tells EXCEPT ![t] = "idle"]
        /\ Heard' = [Heard EXCEPT ![t] = NoList]
    BY <1>6, <2>1, <2>2 DEF Came, TellViews
  <2> QED BY <2>3 DEF Told!Return, Tells, Heard
<1> QED BY <1>3, <1>6 DEF KeepsTold, Told!Next

LEMMA OthersKeepTold ==
  ASSUME {"Stop", "Exit"} \cap Calls = {}, ToldInv, Minding(Note)
  PROVE  KeepsTold
<1>1. \A u \in Thread : pendOn[u] \in Note => pc[u] \notin InTimedWait
  BY DEF ToldInv, InTimedWait
<1>2. /\ \A u \in Thread : SameStand(Note, u)
      /\ \A u \in Thread : pendOn'[u] \in Note => pendOn[u] \in Note /\ pc'[u] = pc[u]
  BY <1>1, MindersStand
<1>3. ToldInv'
  BY <1>2 DEF ToldInv
<1> QED BY <1>2, <1>3, TellStutters DEF KeepsTold

LEMMA EveryStepKeepsTold ==
  ASSUME KernelAssumption, SemaphoresAssumption, SleepAssumption, NotifyAssumption,
         EventFlagAssumption, MutexAssumption, MailboxAssumption, MessageAssumption,
         ObjectsAssumption, {"Init", "Stop", "Exit", "TimedWait"} \cap Calls = {},
         ObjInv, FrameInv, ToldInv, ObjectsNext
  PROVE  KeepsTold
<1>1. NoteSide
  BY EveryAspect DEF Aspects
<1>2. ASSUME NEW t \in Thread, NotifyStep(t) PROVE KeepsTold
  <2>1. ASSUME NEW n \in Note, NEW ticks, CallTimedWait(t, n, ticks) PROVE FALSE
    BY <2>1 DEF CallTimedWait, Calling
  <2> QED BY <1>2, <2>1, CallSignalKeepsTold, CallWaitKeepsTold, WaitYieldKeepsTold,
             WaitReturnKeepsTold DEF NotifyStep
<1>3. ASSUME NotifyInterrupt PROVE KeepsTold
  BY <1>3, InterruptSignalKeepsTold DEF NotifyInterrupt
<1>4. CASE Minding(Note)
  BY <1>4, OthersKeepTold
<1> QED BY <1>1, <1>2, <1>3, <1>4 DEF NoteSide

LEMMA ToldStart ==
  ASSUME KernelAssumption, NotifyAssumption, ObjectsInit
  PROVE  ToldInv /\ Told!Init
<1>1. pendOn = [t \in Thread |-> NoList]
  BY DEF ObjectsInit, SleepInit, SemInit
<1>2. NoList \notin Note
  BY DEF KernelAssumption, NotifyAssumption
<1>3. \A t \in Thread : WaitPhase(t) = "idle"
  BY <1>1, <1>2 DEF WaitPhase
<1> QED BY <1>1, <1>2, <1>3 DEF ToldInv, Told!Init

\* Every notification does what its interface promises, among all the other
\* objects, for Waits without a timeout and threads that are neither stopped nor
\* exit while they wait: a Signal ends the Wait of the thread of the highest priority
\* that is inside one, before its Yield or after it, and nothing else ends one.
THEOREM SignalsReach ==
  ASSUME {"Init", "Stop", "Exit", "TimedWait"} \cap Calls = {}
  PROVE  ObjectsSpec => SignalsReachHighest
<1> USE KernelAssumption, SemaphoresAssumption, SleepAssumption, NotifyAssumption,
        EventFlagAssumption, MutexAssumption, MailboxAssumption, MessageAssumption,
        ObjectsAssumption
<1> DEFINE I == ObjInv /\ FrameInv
<1>1. ObjectsInit => ToldInv /\ Told!Init
  BY ToldStart
<1>2. I /\ ToldInv /\ [ObjectsNext]_all => ToldInv'
  <2>1. ASSUME ToldInv, UNCHANGED all PROVE ToldInv'
    <3>1. UNCHANGED <<pc, pendOn>>
      BY <2>1 DEF all, everyVar, allVars
    <3> QED BY <2>1, <3>1 DEF ToldInv
  <2> QED BY <2>1, EveryStepKeepsTold DEF KeepsTold
<1>3. I /\ ToldInv /\ [ObjectsNext]_all /\ I' /\ ToldInv' => [Told!Next]_(Told!vars)
  <2>1. ASSUME UNCHANGED all PROVE UNCHANGED Told!vars
    <3>1. UNCHANGED <<k, pc, pendOn, expired>>
      BY <2>1 DEF all, everyVar, allVars
    <3> QED BY <3>1 DEF Told!vars, WaitPhase
  <2>2. ASSUME I, ToldInv, ObjectsNext, I', ToldInv' PROVE [Told!Next]_(Told!vars)
    <3>1. TellViews
      BY <2>2, TellsNow, TellsNext DEF TellViews
    <3> QED BY <2>2, <3>1, EveryStepKeepsTold DEF KeepsTold
  <2> QED BY <2>1, <2>2
<1>4. ObjectsSpec => []I
  <2>1. "Init" \notin Calls
    OBVIOUS
  <2> QED BY <2>1, ObjectsInvariance, PTL
<1> QED BY <1>1, <1>2, <1>3, <1>4, PTL DEF ObjectsSpec, Told!Spec, SignalsReachHighest

==============================================================================
