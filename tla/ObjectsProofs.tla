---------------------------- MODULE ObjectsProofs ----------------------------
(***************************************************************************)
(* Proofs about the kernel with all its blocking objects at work together, *)
(* for any threads, objects, timeouts and calls (but Init after Exit).     *)
(*                                                                         *)
(* A step either is about one thread t, and leaves the others alone, or    *)
(* makes threads that wait on one object READY.  Each action is shown to   *)
(* be of one of these kinds, which also says which waits it has nothing to *)
(* do with: the proofs about single objects need no more of it.            *)
(***************************************************************************)
EXTENDS ObjectsInvariant, KernelProofs

\* The thread that runs owes what its place says.
Owing(at) == Dispatches(k', at \in Yielding, at \in Enabling)

\* A step about t alone: the other threads are where they were.
Alone(t) ==
  \A u \in Thread \ {t} :
    /\ k'.state[u] = k.state[u] /\ k'.where[u] = k.where[u]
    /\ pc'[u] = pc[u] /\ pendOn'[u] = pendOn[u] /\ expired'[u] = expired[u]
    /\ value'[Nap[u]] = value[Nap[u]]
    /\ WaitTimer(u) \in ToSet(k'.timers) => WaitTimer(u) \in ToSet(k.timers)
    /\ SleepTimer(u) \in ToSet(k'.timers) => SleepTimer(u) \in ToSet(k.timers)

\* What the variables may hold, whatever the step.
Typed ==
  /\ value' \in [Sem -> Nat] /\ expired' \in [Thread -> BOOLEAN]
  /\ pendOn' \in [Thread -> BlockList \cup {NoList}]

\* Thread u is in the wait it was in, and as far.
Untouched(u) ==
  /\ pc'[u] = pc[u] /\ pendOn'[u] = pendOn[u] /\ expired'[u] = expired[u]
  /\ k'.state[u] = k.state[u] /\ k'.where[u] = k.where[u]

\* The step has nothing to do with waits for objects that are not in B.
Elsewhere(B) ==
  \A u \in Thread :
    (pendOn[u] \in BlockList /\ pendOn[u] \notin B)
      \/ (pendOn'[u] \in BlockList /\ pendOn'[u] \notin B) => Untouched(u)

\* A thread that is in no call, or in one that has no wait on its stack.
Plain == Where \ (InWait \cup Yielding \cup {"sleep"})

-----------------------------------------------------------------------------
(* Steps about one thread *)

\* Wait timers and sleep timers are timers of their own.
LEMMA OwnTimers ==
  ASSUME SemaphoresAssumption, ObjectsAssumption
  PROVE  /\ \A t \in Thread : WaitTimer(t) \in Timer /\ SleepTimer(t) \in Timer
         /\ \A t \in Thread : WaitTimer(t) # QuantumTimer /\ SleepTimer(t) # QuantumTimer
         /\ \A t, u \in Thread : WaitTimer(t) # SleepTimer(u)
         /\ \A t, u \in Thread : t # u => /\ WaitTimer(t) # WaitTimer(u)
                                          /\ SleepTimer(t) # SleepTimer(u)
BY DEF Timer, SleepTimer, WaitTimer, SemaphoresAssumption, ObjectsAssumption

\* A thread that has the CPU and owes no Yield is READY.
LEMMA CallerIsReady ==
  ASSUME ObjInv, NEW t \in Thread, Running(t), pc[t] \notin Yielding
  PROVE  /\ Good(k) /\ Dispatches(k, FALSE, FALSE) /\ ~k.pendsv /\ t = k.current
         /\ k.state[t] = "READY" /\ Placed(t)
BY DEF ObjInv, Running, Dispatches, Yielding, Enabling

\* A thread that the step is not about keeps its place.
LEMMA OthersPlaced ==
  ASSUME ObjInv, NEW t, Alone(t), NEW u \in Thread, u # t
  PROVE  Placed(u)'
<1>1. Placed(u)
  BY DEF ObjInv
<1>2. /\ k'.state[u] = k.state[u] /\ k'.where[u] = k.where[u]
      /\ pc'[u] = pc[u] /\ pendOn'[u] = pendOn[u] /\ value'[Nap[u]] = value[Nap[u]]
      /\ WaitTimer(u) \in ToSet(k'.timers) => WaitTimer(u) \in ToSet(k.timers)
      /\ SleepTimer(u) \in ToSet(k'.timers) => SleepTimer(u) \in ToSet(k.timers)
  BY DEF Alone
<1> QED BY <1>1, <1>2 DEF Placed, Napping

\* A step about t alone keeps the invariant if it keeps t in its place.
LEMMA AloneKeeps ==
  ASSUME ObjInv, Typed, NEW t \in Thread, Alone(t), NEW at \in Where,
         pc' = [pc EXCEPT ![t] = at], Good(k'), k'.current = t, Owing(at), Placed(t)',
         at \in {"claim", "claimT"} => t # Idle
  PROVE  ObjInv'
<1>1. pc \in [Thread -> Where] /\ pc[Idle] \notin {"claim", "claimT"}
  BY DEF ObjInv
<1>2. pc' \in [Thread -> Where] /\ pc'[t] = at /\ pc'[Idle] \notin {"claim", "claimT"}
  BY <1>1
<1>3. Dispatches(k', pc'[k'.current] \in Yielding, pc'[k'.current] \in Enabling)
  BY <1>2 DEF Owing
<1>4. \A u \in Thread : Placed(u)'
  BY OthersPlaced
<1> QED BY <1>2, <1>3, <1>4 DEF ObjInv, Typed

\* ... and has to do with the waits t enters and leaves only.
LEMMA AloneElsewhere ==
  ASSUME NEW t \in Thread, Alone(t), NEW B, pendOn[t] \in BlockList => pendOn[t] \in B,
         pendOn'[t] \in BlockList => pendOn'[t] \in B
  PROVE  Elsewhere(B)
BY DEF Alone, Elsewhere, Untouched

-----------------------------------------------------------------------------
(* Steps that wake threads *)

\* A step that wakes threads on one object and changes neither the count of a
\* Sleep nor, for the thread that sleeps, anything while its timer is linked.
Wakening(b) ==
  /\ Wakes(k', k, b) /\ b \in BlockList
  /\ \A u \in Thread : b # Nap[u] \/ SleepTimer(u) \notin ToSet(k'.timers)
  /\ UNCHANGED <<pendOn, expired>> /\ \A u \in Thread : value'[Nap[u]] = value[Nap[u]]
  /\ value' \in [Sem -> Nat]

\* A woken thread keeps its place, and so does one that is not.
LEMMA WokenPlaced ==
  ASSUME SemaphoresAssumption, ObjectsAssumption, ObjInv, NEW b, Wakening(b),
         NEW u \in Thread, pc'[u] = pc[u]
  PROVE  Placed(u)'
<1>1. /\ Placed(u) /\ pendOn' = pendOn /\ value'[Nap[u]] = value[Nap[u]]
      /\ b # Nap[u] \/ SleepTimer(u) \notin ToSet(k'.timers)
  BY DEF ObjInv, Wakening
<1>2. /\ WaitTimer(u) \in ToSet(k'.timers) => WaitTimer(u) \in ToSet(k.timers)
      /\ SleepTimer(u) \in ToSet(k'.timers) => SleepTimer(u) \in ToSet(k.timers)
  BY OwnTimers DEF Wakening, Wakes, NoNewTimer
<1>3. CASE k'.state[u] = k.state[u] /\ k'.where[u] = k.where[u]
  BY <1>1, <1>2, <1>3 DEF Placed, Napping
<1>4. CASE k.state[u] = "BLOCKED" /\ k.where[u] = b /\ k'.state[u] = "READY"
  BY <1>1, <1>2, <1>4 DEF Placed, Napping, Waiting
<1> QED BY <1>3, <1>4 DEF Wakening, Wakes

\* Such a step has to do with waits on that object only.
LEMMA WakeningElsewhere ==
  ASSUME ObjInv, NEW b, Wakening(b),
         \A u \in Thread : pendOn[u] # NoList => pc'[u] = pc[u], NEW B, b \in B
  PROVE  Elsewhere(B)
<1> SUFFICES ASSUME NEW u \in Thread, pendOn[u] \in BlockList, pendOn[u] \notin B
             PROVE  Untouched(u)
  BY DEF Elsewhere, Wakening
<1>1. pendOn[u] # b /\ Placed(u) /\ pendOn' = pendOn /\ expired' = expired
  BY DEF ObjInv, Wakening
<1>2. k'.state[u] = k.state[u] /\ k'.where[u] = k.where[u]
  BY <1>1 DEF Wakening, Wakes, Placed
<1>3. pendOn[u] # NoList
  BY KernelAssumption DEF KernelAssumption
<1> QED BY <1>1, <1>2, <1>3 DEF Untouched

\* A handler that wakes threads.
LEMMA HandlerKeeps ==
  ASSUME SemaphoresAssumption, ObjectsAssumption, ObjInv, NEW b, Wakening(b), pc' = pc,
         NEW B, b \in B,
         Dispatches(k', pc[k.current] \in Yielding, pc[k.current] \in Enabling)
  PROVE  ObjInv' /\ Elsewhere(B)
<1>1. \A u \in Thread : Placed(u)'
  BY WokenPlaced
<1>2. k'.current = k.current /\ Good(k')
  BY DEF Wakening, Wakes
<1>3. Elsewhere(B)
  BY WakeningElsewhere
<1>4. ObjInv'
  BY <1>1, <1>2 DEF ObjInv, Wakening
<1> QED BY <1>3, <1>4

\* A call of t that wakes threads.
LEMMA CallWakes ==
  ASSUME SemaphoresAssumption, ObjectsAssumption, ObjInv, NEW b, Wakening(b),
         NEW t \in Thread, t = k.current, pc[t] \in Plain, NEW at \in Plain \cup {"yield"},
         pc' = [pc EXCEPT ![t] = at], Owing(at), NEW B, b \in B
  PROVE  ObjInv' /\ Elsewhere(B)
<1>1. /\ pc \in [Thread -> Where] /\ Placed(t) /\ pc' \in [Thread -> Where] /\ pc'[t] = at
      /\ pc[Idle] \notin {"claim", "claimT"} /\ at \notin InWait /\ at # "sleep"
      /\ pc[t] \notin InWait /\ pc[t] # "sleep" /\ at \in Where
  BY DEF ObjInv, Plain, Where, InWait, Waiting, Yielding, Enabling
<1>2. pc'[Idle] \notin {"claim", "claimT"}
  BY <1>1 DEF InWait
<1>3. pendOn[t] = NoList /\ k.state[t] # "BLOCKED" /\ SleepTimer(t) \notin ToSet(k.timers)
      /\ WaitTimer(t) \notin ToSet(k.timers)
  BY <1>1 DEF Placed, Napping, InWait, Waiting, InTimedWait
<1>4. Placed(t)'
  <2>1. SleepTimer(t) \notin ToSet(k'.timers) /\ WaitTimer(t) \notin ToSet(k'.timers)
    BY <1>3, OwnTimers DEF Wakening, Wakes, NoNewTimer
  <2>2. pendOn' = pendOn /\ k'.state[t] # "BLOCKED"
    BY <1>3 DEF Wakening, Wakes
  <2> QED BY <1>1, <1>3, <2>1, <2>2 DEF Placed
<1>5. \A u \in Thread : Placed(u)'
  <2>1. ASSUME NEW u \in Thread, u # t PROVE Placed(u)'
    <3>1. pc'[u] = pc[u]
      BY <1>1, <2>1
    <3> QED BY <3>1, WokenPlaced
  <2> QED BY <1>4, <2>1
<1>6. k'.current = t /\ Good(k')
  BY DEF Wakening, Wakes
<1>7. Elsewhere(B)
  <2>1. \A u \in Thread : pendOn[u] # NoList => pc'[u] = pc[u]
    BY <1>1, <1>3
  <2> QED BY <2>1, WakeningElsewhere
<1>8. ObjInv'
  BY <1>1, <1>2, <1>5, <1>6 DEF ObjInv, Wakening, Owing
<1> QED BY <1>7, <1>8

-----------------------------------------------------------------------------
(* The scheduler and SysTick *)

\* A thread keeps its place whatever a call of the scheduler does to it.
LEMMA DepartedPlaced ==
  ASSUME SemaphoresAssumption, ObjectsAssumption, ObjInv, NoNewTimer(k', k),
         UNCHANGED semVars, NEW u \in Thread, Departs(k', k, u), pc'[u] = pc[u]
  PROVE  Placed(u)'
<1>1. Placed(u) /\ pendOn' = pendOn /\ value' = value
  BY DEF ObjInv, semVars
<1>2. /\ WaitTimer(u) \in ToSet(k'.timers) => WaitTimer(u) \in ToSet(k.timers)
      /\ SleepTimer(u) \in ToSet(k'.timers) => SleepTimer(u) \in ToSet(k.timers)
  BY OwnTimers DEF NoNewTimer
<1>3. CASE k'.state[u] = k.state[u] /\ k'.where[u] = k.where[u]
  BY <1>1, <1>2, <1>3 DEF Placed, Napping
<1>4. CASE k'.state[u] = "READY" /\ k.state[u] \in {"READY", "STOP"}
  BY <1>1, <1>2, <1>4 DEF Placed, Napping
<1>5. CASE k'.state[u] \in {"STOP", "EXIT"} /\ SleepTimer(u) \notin ToSet(k'.timers)
  BY <1>1, <1>2, <1>5 DEF Placed
<1> QED BY <1>3, <1>4, <1>5 DEF Departs

\* SysTick and PendSV themselves do nothing to a wait.
LEMMA InterruptKeeps ==
  ASSUME KernelAssumption, SemaphoresAssumption, ObjectsAssumption, ObjInv, Interrupt,
         UNCHANGED semVars
  PROVE  ObjInv' /\ pc' = pc /\ Elsewhere({})
<1>1. PICK y \in BOOLEAN : y <=> pc[k.current] \in Yielding
  OBVIOUS
<1>2. PICK h \in BOOLEAN : h <=> pc[k.current] \in Enabling
  OBVIOUS
<1>3. Good(k) /\ Dispatches(k, y, h)
  BY <1>1, <1>2 DEF ObjInv, Dispatches
<1>4. /\ Good(k') /\ k'.state = k.state /\ k'.where = k.where /\ NoNewTimer(k', k)
      /\ pc' = pc
      /\ \/ k'.current = k.current /\ Dispatches(k', y, h)
         \/ Dispatches(k', FALSE, FALSE)
  BY <1>3, InterruptDispatches
<1>5. Dispatches(k', pc[k'.current] \in Yielding, pc[k'.current] \in Enabling)
  BY <1>1, <1>2, <1>4 DEF Dispatches
<1>6. \A u \in Thread : Departs(k', k, u)
  BY <1>4 DEF Departs
<1>7. \A u \in Thread : Placed(u)'
  BY <1>4, <1>6, DepartedPlaced
<1>8. ObjInv'
  BY <1>4, <1>5, <1>7 DEF ObjInv, semVars
<1> QED BY <1>4, <1>8 DEF Elsewhere, Untouched, semVars

\* A call of the scheduler.
LEMMA ThreadStepKeeps ==
  ASSUME KernelAssumption, SemaphoresAssumption, ObjectsAssumption, "Init" \notin Calls,
         ObjInv, NEW t \in Thread, ThreadStep(t), UNCHANGED semVars
  PROVE  /\ ObjInv' /\ \A u \in Thread : Departs(k', k, u)
         /\ pc[t] \in {"run", "yield"} /\ \E at \in {"run", "yield"} : pc' = [pc EXCEPT ![t] = at]
<1>1. t = k.current /\ pc[t] \in {"run", "yield"}
  BY DEF ThreadStep, CallStart, CallStop, CallExit, CallInit, CallSetPriority,
         CallSetScheduler, CallYield, FinishCall, Calling, Running
<1>2. Good(k) /\ Dispatches(k, pc[t] = "yield", FALSE) /\ pc \in [Thread -> Where] /\ Placed(t)
  BY <1>1 DEF ObjInv, Dispatches, Yielding, Enabling
<1>3. /\ Good(k') /\ NoNewTimer(k', k) /\ k'.current = t
      /\ \E at \in {"run", "yield"} : GoesOn(t, at)
      /\ \A u \in Thread : Departs(k', k, u)
  BY <1>2, ThreadStepDispatches
<1>4. PICK at \in {"run", "yield"} : pc' = [pc EXCEPT ![t] = at] /\ Dispatches(k', at = "yield", FALSE)
  BY <1>3 DEF GoesOn
<1>5. pc' \in [Thread -> Where] /\ pc'[t] = at /\ at \notin InWait /\ at # "sleep"
  BY <1>2, <1>4 DEF Where, InWait, Waiting
<1>6. Placed(t)'
  <2>1. /\ pendOn[t] = NoList /\ k.state[t] # "BLOCKED" /\ pendOn' = pendOn
        /\ WaitTimer(t) \notin ToSet(k.timers) /\ SleepTimer(t) \notin ToSet(k.timers)
    BY <1>1, <1>2 DEF Placed, Napping, InWait, Waiting, InTimedWait, semVars
  <2>2. WaitTimer(t) \notin ToSet(k'.timers) /\ SleepTimer(t) \notin ToSet(k'.timers)
    BY <1>3, <2>1, OwnTimers DEF NoNewTimer
  <2>3. k'.state[t] # "BLOCKED"
    BY <1>3, <2>1 DEF Departs
  <2> QED BY <1>5, <2>1, <2>2, <2>3 DEF Placed
<1>7. \A u \in Thread : Placed(u)'
  <2>1. ASSUME NEW u \in Thread, u # t PROVE Placed(u)'
    <3>1. pc'[u] = pc[u]
      BY <1>2, <1>4, <2>1
    <3> QED BY <1>3, <3>1, DepartedPlaced
  <2> QED BY <1>6, <2>1
<1>8. Dispatches(k', pc'[k'.current] \in Yielding, pc'[k'.current] \in Enabling)
  BY <1>3, <1>4, <1>5 DEF Dispatches, Yielding
<1>9. pc'[Idle] \notin {"claim", "claimT"}
  BY <1>2, <1>4, <1>5 DEF ObjInv, InWait
<1> QED BY <1>1, <1>3, <1>4, <1>5, <1>7, <1>8, <1>9 DEF ObjInv, semVars

-----------------------------------------------------------------------------
(* Timers that expire *)

\* A timer that expires is linked.
LEMMA ExpiringLinked ==
  ASSUME NEW x, Expiring(x)
  PROVE  x \in ToSet(k.timers)
BY DEF Expiring, ToSet

\* A handler that moves thread t only keeps the invariant if it keeps t in its
\* place.
LEMMA ExpiryKeeps ==
  ASSUME ObjInv, Typed, NEW t \in Thread, Alone(t), pc' = pc, Good(k'),
         k'.current = k.current, Placed(t)',
         Dispatches(k', pc[k.current] \in Yielding, pc[k.current] \in Enabling)
  PROVE  ObjInv'
<1>1. \A u \in Thread : Placed(u)'
  BY OthersPlaced
<1> QED BY <1>1 DEF ObjInv, Typed

\* The timeout of a wait, whatever it is for.
LEMMA WaitExpiresKeeps ==
  ASSUME KernelAssumption, SemaphoresAssumption, ObjectsAssumption, ObjInv,
         NEW t \in Thread, WaitExpires(t)
  PROVE  /\ ObjInv' /\ pc[t] \in InTimedWait /\ k'.state[t] # "BLOCKED" /\ pc' = pc
         /\ Alone(t)
<1>1. PICK y \in BOOLEAN : y <=> pc[k.current] \in Yielding
  OBVIOUS
<1>2. PICK h \in BOOLEAN : h <=> pc[k.current] \in Enabling
  OBVIOUS
<1>3. /\ Good(k) /\ Dispatches(k, y, h) /\ Placed(t) /\ value \in [Sem -> Nat]
      /\ expired \in [Thread -> BOOLEAN] /\ pendOn \in [Thread -> BlockList \cup {NoList}]
  BY <1>1, <1>2 DEF ObjInv, Dispatches
<1>4. pc[t] \in InTimedWait
  BY <1>3, ExpiringLinked DEF WaitExpires, Placed
<1> DEFINE u == UnBlock(k, t)
           a == IF Preempts(u, t) THEN Yield(u) ELSE u
<1>5. /\ u = UnBlock(k, t) /\ a = (IF Preempts(u, t) THEN Yield(u) ELSE u)
      /\ k' = TimerRemove(a, WaitTimer(t)) /\ pc' = pc
      /\ expired' = [expired EXCEPT ![t] = TRUE] /\ value' = value /\ pendOn' = pendOn
  BY DEF WaitExpires
<1> HIDE DEF u, a
<1>6. Unblocks(k', k, t) /\ Dispatches(k', y, h) /\ WaitTimer(t) \notin ToSet(k'.timers)
  BY <1>3, <1>5, ExpiryUnblocks
<1>7. Alone(t)
  <2> SUFFICES ASSUME NEW v \in Thread \ {t}
               PROVE  /\ k'.state[v] = k.state[v] /\ k'.where[v] = k.where[v]
                      /\ expired'[v] = expired[v]
                      /\ WaitTimer(v) \in ToSet(k'.timers) => WaitTimer(v) \in ToSet(k.timers)
                      /\ SleepTimer(v) \in ToSet(k'.timers) => SleepTimer(v) \in ToSet(k.timers)
    BY <1>5 DEF Alone
  <2>1. k'.state[v] = k.state[v] /\ k'.where[v] = k.where[v]
    BY <1>6 DEF Unblocks, OthersStay
  <2>2. expired'[v] = expired[v]
    BY <1>3, <1>5
  <2> QED BY <1>6, <2>1, <2>2, OwnTimers DEF Unblocks, NoNewTimer
<1>8. Placed(t)'
  <2>1. pc[t] \notin {"pend", "sleep"}
    BY <1>4 DEF InTimedWait
  <2>2. SleepTimer(t) \notin ToSet(k'.timers)
    BY <1>3, <1>6, <2>1, OwnTimers DEF Placed, Napping, Unblocks, NoNewTimer
  <2> QED BY <1>3, <1>5, <1>6, <2>2 DEF Placed, Unblocks
<1>9. Typed
  BY <1>3, <1>5 DEF Typed
<1>10. Dispatches(k', pc[k.current] \in Yielding, pc[k.current] \in Enabling)
  BY <1>1, <1>2, <1>6 DEF Dispatches
<1>11. Good(k') /\ k'.current = k.current /\ k'.state[t] # "BLOCKED"
  BY <1>6 DEF Unblocks
<1>12. ObjInv'
  BY <1>5, <1>7, <1>8, <1>9, <1>10, <1>11, ExpiryKeeps
<1> QED BY <1>4, <1>5, <1>7, <1>11, <1>12

\* The semaphores of the frames of Sleep.
Naps == {Nap[t] : t \in Thread}

\* Every thread has its own.
LEMMA OwnNaps ==
  ASSUME SemaphoresAssumption, SleepAssumption
  PROVE  \A t \in Thread : /\ Nap[t] \in Sem \ Shared /\ Nap[t] \in BlockList /\ Nap[t] \in Naps
                           /\ \A u \in Thread \ {t} : Nap[u] # Nap[t]
<1>1. \A t, u \in DOMAIN Nap : Nap[t] = Nap[u] => t = u
  BY DEF SleepAssumption, IsInjective
<1>2. Nap \in [Thread -> Sem \ Shared] /\ Sem \subseteq BlockList
  BY DEF SemaphoresAssumption, SleepAssumption
<1> QED BY <1>1, <1>2 DEF Naps

\* A Post that finds nobody changes one count.
LEMMA CountFacts ==
  ASSUME NEW s \in Sem, value \in [Sem -> Nat], Count(s) \/ value' = value
  PROVE  value' \in [Sem -> Nat] /\ \A x \in Sem \ {s} : value'[x] = value[x]
<1>1. CASE value' = value
  BY <1>1
<1>2. CASE value' = [value EXCEPT ![s] = @ + 1]
  <2>1. value[s] + 1 \in Nat
    OBVIOUS
  <2> QED BY <1>2, <2>1
<1> QED BY <1>1, <1>2 DEF Count

\* The callback of a Sleep that has not pended its semaphore yet, or does not any
\* more.
LEMMA SleepCountsKeeps ==
  ASSUME KernelAssumption, SemaphoresAssumption, ObjectsAssumption, SleepAssumption, ObjInv,
         NEW t \in Thread, Expiring(SleepTimer(t)), Count(Nap[t]),
         k' = TimerRemove(k, SleepTimer(t)), UNCHANGED <<pc, pendOn, expired>>
  PROVE  ObjInv' /\ Elsewhere(Naps)
<1>1. /\ Good(k) /\ Placed(t) /\ value \in [Sem -> Nat] /\ SleepTimer(t) \in Timer
      /\ expired \in [Thread -> BOOLEAN] /\ pendOn \in [Thread -> BlockList \cup {NoList}]
      /\ Nap[t] \in Sem /\ Nap[t] \in Naps
  BY OwnTimers, OwnNaps DEF ObjInv
<1>2. /\ TimersOnly(k', k) /\ SleepTimer(t) \notin ToSet(k'.timers)
      /\ ToSet(k'.timers) \subseteq ToSet(k.timers)
  BY <1>1, TimerGone
<1>3. /\ Good(k') /\ k'.state = k.state /\ k'.where = k.where /\ k'.current = k.current
  BY <1>2 DEF TimersOnly, SameButTimers, SameThreads
<1>4. value' \in [Sem -> Nat] /\ \A u \in Thread \ {t} : value'[Nap[u]] = value[Nap[u]]
  BY <1>1, OwnNaps, CountFacts
<1>5. Alone(t)
  BY <1>2, <1>3, <1>4 DEF Alone
<1>6. Placed(t)'
  BY <1>1, <1>2, <1>3 DEF Placed
<1>7. Typed
  BY <1>1, <1>4 DEF Typed
<1>8. Dispatches(k', pc[k.current] \in Yielding, pc[k.current] \in Enabling)
  BY <1>2, TimersDispatch DEF ObjInv
<1>9. pendOn[t] \in BlockList => pendOn[t] \in Naps
  <2>1. Napping(t)
    BY <1>1, ExpiringLinked DEF Placed
  <2> QED BY <1>1, <2>1, KernelAssumption DEF Napping, Placed, InWait, Waiting, KernelAssumption
<1>10. Elsewhere(Naps)
  BY <1>5, <1>9, AloneElsewhere
<1>11. ObjInv'
  BY <1>3, <1>5, <1>6, <1>7, <1>8, ExpiryKeeps
<1> QED BY <1>10, <1>11

\* ThreadSleepCallback.
LEMMA SleepExpiresKeeps ==
  ASSUME KernelAssumption, SemaphoresAssumption, ObjectsAssumption, SleepAssumption, ObjInv,
         NEW t \in Thread, SleepExpires(t)
  PROVE  ObjInv' /\ pc' = pc /\ Elsewhere(Naps)
<1>1. CASE Count(Nap[t]) /\ k' = TimerRemove(k, SleepTimer(t))
  BY <1>1, SleepCountsKeeps DEF SleepExpires
<1>2. CASE /\ k.list[Nap[t]] # <<>>
           /\ k' = TimerRemove(PostAndYield(k, Nap[t]), SleepTimer(t))
           /\ Posted(Nap[t]) /\ UNCHANGED value
  <2> DEFINE b == Nap[t]
             a == PostAndYield(k, b)
  <2>1. PICK y \in BOOLEAN : y <=> pc[k.current] \in Yielding
    OBVIOUS
  <2>2. PICK h \in BOOLEAN : h <=> pc[k.current] \in Enabling
    OBVIOUS
  <2>3. /\ Good(k) /\ Dispatches(k, y, h) /\ b \in BlockList /\ b \in Naps /\ k.list[b] # <<>>
        /\ value \in [Sem -> Nat] /\ (\A u \in Thread \ {t} : b # Nap[u])
        /\ SleepTimer(t) \in Timer
    BY <1>2, <2>1, <2>2, OwnNaps, OwnTimers DEF ObjInv, Dispatches
  <2>4. a = PostAndYield(k, b) /\ k' = TimerRemove(a, SleepTimer(t))
    BY <1>2
  <2> HIDE DEF a, b
  <2>5. Wakes(a, k, b) /\ Dispatches(a, y, h)
    BY <2>3, <2>4, PostWakes
  <2>6. /\ TimersOnly(k', a) /\ SleepTimer(t) \notin ToSet(k'.timers)
        /\ ToSet(k'.timers) \subseteq ToSet(a.timers)
    BY <2>3, <2>4, <2>5, TimerGone DEF Wakes
  <2>7. Wakes(k', k, b) /\ Dispatches(k', y, h)
    BY <2>5, <2>6, WakesThenTimer, TimersDispatch
  <2>8. Wakening(b)
    BY <1>2, <2>3, <2>6, <2>7 DEF Wakening, SleepExpires
  <2>9. Dispatches(k', pc[k.current] \in Yielding, pc[k.current] \in Enabling)
    BY <2>1, <2>2, <2>7 DEF Dispatches
  <2> QED BY <2>3, <2>8, <2>9, HandlerKeeps DEF SleepExpires
<1> QED BY <1>1, <1>2 DEF SleepExpires

-----------------------------------------------------------------------------
(* Posts, signals and flags that wake threads in one critical section *)

\* What a thread or a handler does to wake threads and leaves its place as it is.
LEMMA WakingKeeps ==
  ASSUME SemaphoresAssumption, ObjectsAssumption, ObjInv, NEW b, b \in BlockList,
         UNCHANGED <<pc, pendOn, expired>>, value' \in [Sem -> Nat],
         \A u \in Thread : b # Nap[u] /\ value'[Nap[u]] = value[Nap[u]], NEW B, b \in B,
         \A y, h \in BOOLEAN : Dispatches(k, y, h) => Wakes(k', k, b) /\ Dispatches(k', y, h)
  PROVE  ObjInv' /\ Elsewhere(B)
<1>1. PICK y \in BOOLEAN : y <=> pc[k.current] \in Yielding
  OBVIOUS
<1>2. PICK h \in BOOLEAN : h <=> pc[k.current] \in Enabling
  OBVIOUS
<1>3. Dispatches(k, y, h)
  BY <1>1, <1>2 DEF ObjInv, Dispatches
<1>4. Wakes(k', k, b) /\ Dispatches(k', y, h)
  BY <1>3
<1>5. Wakening(b)
  BY <1>4 DEF Wakening
<1>6. Dispatches(k', pc[k.current] \in Yielding, pc[k.current] \in Enabling)
  BY <1>1, <1>2, <1>4 DEF Dispatches
<1> QED BY <1>5, <1>6, HandlerKeeps

\* A step that leaves the kernel alone wakes nobody.
LEMMA NobodyWakes ==
  ASSUME Good(k), NEW b, k' = k
  PROVE  \A y, h \in BOOLEAN : Dispatches(k, y, h) => Wakes(k', k, b) /\ Dispatches(k', y, h)
BY DEF Wakes, NoNewTimer

\* Post in a handler, or inside a critical section.
LEMMA PostInsideKeeps ==
  ASSUME KernelAssumption, SemaphoresAssumption, ObjectsAssumption, SleepAssumption, ObjInv,
         NEW s \in Sem, PostInside(s), s \notin Naps, NEW B, s \in B
  PROVE  ObjInv' /\ pc' = pc /\ Elsewhere(B)
<1>1. /\ Good(k) /\ s \in BlockList /\ value \in [Sem -> Nat]
      /\ UNCHANGED <<pc, pendOn, expired>> /\ \A u \in Thread : s # Nap[u]
  BY DEF ObjInv, PostInside, SemaphoresAssumption, Naps
<1>2. value' \in [Sem -> Nat] /\ \A u \in Thread : value'[Nap[u]] = value[Nap[u]]
  <2>1. \A u \in Thread : Nap[u] \in Sem
    BY OwnNaps
  <2>2. Count(s) \/ value' = value
    BY DEF PostInside
  <2>3. value' \in [Sem -> Nat] /\ \A x \in Sem \ {s} : value'[x] = value[x]
    BY <1>1, <2>2, CountFacts
  <2> QED BY <1>1, <2>1, <2>3
<1>3. CASE k' = k
  BY <1>1, <1>2, <1>3, NobodyWakes, WakingKeeps
<1>4. CASE k.list[s] # <<>> /\ k' = PostAndYield(k, s)
  <2>1. ASSUME NEW y \in BOOLEAN, NEW h \in BOOLEAN, Dispatches(k, y, h)
        PROVE  Wakes(k', k, s) /\ Dispatches(k', y, h)
    BY <1>1, <1>4, <2>1, PostWakes
  <2> QED BY <1>1, <1>2, <2>1, WakingKeeps
<1> QED BY <1>1, <1>3, <1>4 DEF PostInside

\* A call may end with a Yield.
MayYield(d, a) == d = a \/ d = Yield(a)

\* A walk over the list of b, with the Yield after it or without.
LEMMA EachWakes ==
  ASSUME KernelAssumption, NEW s, NEW b, NEW who, NEW a, a = UnBlockEach(s, b, who),
         NEW d, MayYield(d, a), Good(s), b \in BlockList,
         NEW y, NEW h, y \in BOOLEAN, h \in BOOLEAN, Dispatches(s, y, h)
  PROVE  Wakes(d, s, b) /\ Dispatches(d, y, h) /\ Woken(d, s, b, who)
<1>2. Wakes(a, s, b) /\ Dispatches(a, y, h) /\ Woken(a, s, b, who)
  BY FoldWakes
<1>3. CASE d = Yield(a)
  <2>1. Good(d) /\ Dispatches(d, y, h) /\ SameThreads(d, a) /\ NoNewTimer(d, a)
    BY <1>2, <1>3, YieldDispatches DEF Wakes
  <2>2. Wakes(d, s, b)
    BY <1>2, <2>1, WakesOn
  <2>3. Owed(s) => Owed(d)
    BY <1>2, <1>3, YieldOwed DEF Woken, Wakes
  <2> QED BY <1>2, <2>1, <2>2, <2>3 DEF Woken, SameThreads
<1> QED BY <1>2, <1>3 DEF MayYield

\* Notify::Signal in a handler.
LEMMA InterruptSignalsKeeps ==
  ASSUME KernelAssumption, SemaphoresAssumption, ObjectsAssumption, SleepAssumption,
         NotifyAssumption, ObjInv, NEW n \in Note, InterruptSignals(n)
  PROVE  ObjInv' /\ pc' = pc /\ Elsewhere(Note)
<1> DEFINE a == UnBlockEach(k, n, Thread)
<1>1. /\ Good(k) /\ n \in BlockList /\ value' = value /\ value \in [Sem -> Nat]
      /\ UNCHANGED <<pc, pendOn, expired>> /\ n \notin Sem
  BY DEF ObjInv, InterruptSignals, NotifyAssumption, semVars
<1>2. \A u \in Thread : n # Nap[u]
  BY <1>1, OwnNaps
<1>3. MayYield(k', a)
  BY DEF InterruptSignals, SignalAll, MayYield
<1>4. a = UnBlockEach(k, n, Thread)
  OBVIOUS
<1> HIDE DEF a
<1>5. ASSUME NEW y \in BOOLEAN, NEW h \in BOOLEAN, Dispatches(k, y, h)
      PROVE  Wakes(k', k, n) /\ Dispatches(k', y, h)
  BY <1>1, <1>3, <1>4, <1>5, EachWakes
<1> QED BY <1>1, <1>2, <1>5, WakingKeeps

\* EventFlag::Set in a handler or from a thread.
LEMMA SetKeeps ==
  ASSUME KernelAssumption, SemaphoresAssumption, ObjectsAssumption, SleepAssumption,
         EventFlagAssumption, ObjInv, NEW g \in Group, NEW new, Set(g, new)
  PROVE  ObjInv' /\ pc' = pc /\ Elsewhere(Group)
<1> DEFINE who == Released(g, flags[g] \cup new)
           a == UnBlockEach(k, g, who)
<1>1. /\ Good(k) /\ g \in BlockList /\ value' = value /\ value \in [Sem -> Nat]
      /\ UNCHANGED <<pc, pendOn, expired>> /\ g \notin Sem
  BY DEF ObjInv, Set, EventFlagAssumption, semVars
<1>2. \A u \in Thread : g # Nap[u]
  BY <1>1, OwnNaps
<1>3. k' = k \/ k' = Yield(a)
  BY DEF Set
<1>4. a = UnBlockEach(k, g, who)
  OBVIOUS
<1> HIDE DEF a, who
<1>5. CASE k' = k
  BY <1>1, <1>2, <1>5, NobodyWakes, WakingKeeps
<1>6. CASE k' = Yield(a)
  <2>1. ASSUME NEW y \in BOOLEAN, NEW h \in BOOLEAN, Dispatches(k, y, h)
        PROVE  Wakes(k', k, g) /\ Dispatches(k', y, h)
    <3>1. MayYield(k', a)
      BY <1>6 DEF MayYield
    <3> QED BY <1>1, <1>4, <2>1, <3>1, EachWakes
  <2> QED BY <1>1, <1>2, <2>1, WakingKeeps
<1> QED BY <1>3, <1>5, <1>6

-----------------------------------------------------------------------------
(* Steps of a thread that wake nobody *)

\* No thread has moved.
Still(d, s) ==
  /\ Good(d) /\ NoNewTimer(d, s)
  /\ d.state = s.state /\ d.where = s.where /\ d.current = s.current

\* Thread t is in no wait, at the beginning of Sleep perhaps.
Outside(t) == pc[t] \in Plain \cup {"sleep"}

\* What a thread that is in no wait may count on.
LEMMA CallerHere ==
  ASSUME ObjInv, NEW t \in Thread, Running(t), Outside(t)
  PROVE  /\ Good(k) /\ Dispatches(k, FALSE, FALSE) /\ ~k.pendsv /\ t = k.current
         /\ k.state[t] = "READY" /\ Placed(t) /\ pendOn[t] = NoList
         /\ WaitTimer(t) \notin ToSet(k.timers)
         /\ pc \in [Thread -> Where] /\ value \in [Sem -> Nat] /\ expired \in [Thread -> BOOLEAN]
         /\ pendOn \in [Thread -> BlockList \cup {NoList}]
         /\ pc[t] # "sleep" => SleepTimer(t) \notin ToSet(k.timers)
         /\ pc[t] = "sleep" /\ value[Nap[t]] # 0 => SleepTimer(t) \notin ToSet(k.timers)
<1>1. pc[t] \notin Yielding /\ pc[t] \notin InWait /\ pc[t] # "pend"
  BY DEF Outside, Plain, Yielding, Enabling, InWait, Waiting
<1>2. /\ Good(k) /\ Dispatches(k, FALSE, FALSE) /\ ~k.pendsv /\ t = k.current
      /\ k.state[t] = "READY" /\ Placed(t)
  BY <1>1, CallerIsReady
<1>3. pc[t] \notin InTimedWait
  BY <1>1 DEF InTimedWait, InWait, Waiting
<1> QED BY <1>1, <1>2, <1>3 DEF ObjInv, Placed, Napping

\* The threads but t are where they were, and so are their variables.
LEMMA StillAlone ==
  ASSUME SemaphoresAssumption, ObjectsAssumption, NEW t \in Thread, Still(k', k),
         \A u \in Thread \ {t} : /\ pc'[u] = pc[u] /\ pendOn'[u] = pendOn[u]
                                 /\ expired'[u] = expired[u]
                                 /\ value'[Nap[u]] = value[Nap[u]]
  PROVE  Alone(t)
BY OwnTimers DEF Alone, Still, NoNewTimer

\* A step of t that begins and ends outside of waits.
LEMMA QuietKeeps ==
  ASSUME KernelAssumption, SemaphoresAssumption, ObjectsAssumption, ObjInv,
         NEW t \in Thread, Running(t), Outside(t),
         NEW at \in Plain, pc' = [pc EXCEPT ![t] = at],
         Still(k', k), Dispatches(k', FALSE, FALSE), SleepTimer(t) \notin ToSet(k.timers),
         UNCHANGED <<pendOn, expired>>, value' \in [Sem -> Nat],
         \A u \in Thread \ {t} : value'[Nap[u]] = value[Nap[u]], NEW B
  PROVE  ObjInv' /\ Elsewhere(B)
<1>1. /\ t = k.current /\ pendOn[t] = NoList /\ WaitTimer(t) \notin ToSet(k.timers)
      /\ k.state[t] = "READY" /\ pc \in [Thread -> Where] /\ expired \in [Thread -> BOOLEAN]
      /\ pendOn \in [Thread -> BlockList \cup {NoList}]
  BY CallerHere
<1>2. at \in Where /\ at \notin InWait /\ at # "sleep" /\ at \notin {"claim", "claimT"}
  BY DEF Plain, InWait
<1>3. Alone(t)
  BY <1>1, StillAlone
<1>4. Placed(t)'
  <2>1. WaitTimer(t) \notin ToSet(k'.timers) /\ SleepTimer(t) \notin ToSet(k'.timers)
    BY <1>1, OwnTimers DEF Still, NoNewTimer
  <2>2. pc'[t] = at /\ pendOn'[t] = NoList /\ k'.state[t] # "BLOCKED"
    BY <1>1 DEF Still
  <2> QED BY <1>2, <2>1, <2>2 DEF Placed
<1>5. Owing(at)
  BY DEF Owing, Dispatches
<1>6. Typed
  BY <1>1 DEF Typed
<1>7. ObjInv'
  BY <1>1, <1>2, <1>3, <1>4, <1>5, <1>6, AloneKeeps DEF Still
<1>8. Elsewhere(B)
  <2>1. pendOn[t] \notin BlockList /\ pendOn'[t] \notin BlockList
    BY <1>1, KernelAssumption DEF KernelAssumption
  <2> QED BY <1>3, <2>1, AloneElsewhere
<1> QED BY <1>7, <1>8

\* A Pend that finds a token.
LEMMA TakeKeepsPlaces ==
  ASSUME KernelAssumption, SemaphoresAssumption, ObjectsAssumption, SleepAssumption, ObjInv,
         NEW t \in Thread, Running(t), Outside(t), NEW s \in Sem, Take(t, s),
         \A u \in Thread \ {t} : s # Nap[u], pc[t] = "sleep" => s = Nap[t],
         NEW at \in Plain, pc' = [pc EXCEPT ![t] = at], NEW B
  PROVE  ObjInv' /\ Elsewhere(B)
<1>1. /\ Good(k) /\ Dispatches(k, FALSE, FALSE) /\ value \in [Sem -> Nat]
      /\ pc[t] # "sleep" => SleepTimer(t) \notin ToSet(k.timers)
      /\ pc[t] = "sleep" /\ value[Nap[t]] # 0 => SleepTimer(t) \notin ToSet(k.timers)
  BY CallerHere
<1>2. /\ value[s] # 0 /\ value' = [value EXCEPT ![s] = @ - 1] /\ k' = k
      /\ UNCHANGED <<pendOn, expired>>
  BY DEF Take
<1>3. Still(k', k) /\ Dispatches(k', FALSE, FALSE)
  BY <1>1, <1>2 DEF Still, NoNewTimer
<1>4. SleepTimer(t) \notin ToSet(k.timers)
  BY <1>1, <1>2
<1>5. value' \in [Sem -> Nat] /\ \A x \in Sem \ {s} : value'[x] = value[x]
  <2>1. value[s] - 1 \in Nat
    BY <1>1, <1>2
  <2> QED BY <1>1, <1>2, <2>1
<1>6. \A u \in Thread \ {t} : value'[Nap[u]] = value[Nap[u]]
  BY <1>5, OwnNaps
<1> QED BY <1>2, <1>3, <1>4, <1>5, <1>6, QuietKeeps

-----------------------------------------------------------------------------
(* Blocking *)

\* Thread t has blocked on b, its timer linked if the place `at` is one of a
\* timed wait.
Enters(t, b, at) ==
  /\ Good(k') /\ k'.current = t /\ OthersStay(k', k, t)
  /\ k'.state[t] = "BLOCKED" /\ k'.where[t] = b
  /\ \A x \in ToSet(k'.timers) : \/ x \in ToSet(k.timers) \/ x = QuantumTimer
                                 \/ x = WaitTimer(t) /\ at \in InTimedWait

\* The two ways to block the caller: with its timer, or without.
Frames(a, t, at) ==
  /\ TimersOnly(a, k)
  /\ \A x \in ToSet(a.timers) : \/ x \in ToSet(k.timers)
                                \/ x = WaitTimer(t) /\ at \in InTimedWait

LEMMA NoFrameTimer ==
  ASSUME Good(k), NEW t, NEW at
  PROVE  Frames(k, t, at)
BY DEF Frames, TimersOnly, SameButTimers, SameThreads

LEMMA TimedFrame ==
  ASSUME SemaphoresAssumption, NEW t, NEW ticks, NEW a, a = TimerAdd(k, WaitTimer(t), ticks),
         Good(k), t \in Thread, ticks \in WaitTicks, WaitTimer(t) \notin ToSet(k.timers),
         NEW at, at \in InTimedWait
  PROVE  Frames(a, t, at)
<1>1. ticks \in Nat
  BY DEF SemaphoresAssumption
<1>2. /\ TimersOnly(a, k)
      /\ \A x \in ToSet(a.timers) : x = WaitTimer(t) \/ x \in ToSet(k.timers)
  BY <1>1, FrameTimer
<1> QED BY <1>2 DEF Frames

LEMMA WaitEnters ==
  ASSUME KernelAssumption, ObjInv, NEW t \in Thread, Running(t), Outside(t),
         NEW a, NEW b, NEW at, k' = Yield(BlockPriority(a, t, b)), Frames(a, t, at),
         k.enabled, t # Idle, b \in BlockList
  PROVE  Enters(t, b, at) /\ Dispatches(k', FALSE, FALSE)
<1>1. Good(k) /\ Dispatches(k, FALSE, FALSE) /\ ~k.pendsv /\ t = k.current
  BY CallerHere
<1>2. TimersOnly(a, k)
  BY DEF Frames
<1>3. Blocks(k', a, t, b) /\ Dispatches(k', FALSE, FALSE) /\ OthersStay(k', k, t)
  BY <1>1, <1>2, WaitBlocks
<1> QED BY <1>3 DEF Enters, Blocks, Frames, NoNewTimer

LEMMA BlockEnters ==
  ASSUME KernelAssumption, ObjInv, NEW t \in Thread, Running(t),
         Good(k), Dispatches(k, FALSE, FALSE), ~k.pendsv, t = k.current,
         NEW a, NEW b, NEW at, BlockedBy(k', a, t, b), Frames(a, t, at),
         t # Idle, b \in BlockList
  PROVE  /\ Enters(t, b, at) /\ Dispatches(k', TRUE, TRUE)
         /\ k.enabled => Dispatches(k', TRUE, FALSE)
<1>2. TimersOnly(a, k)
  BY DEF Frames
<1>3. /\ Blocks(k', a, t, b) /\ OthersStay(k', k, t) /\ Dispatches(k', TRUE, TRUE)
      /\ k.enabled => Dispatches(k', TRUE, FALSE)
  BY <1>2, BlockBlocks
<1> QED BY <1>3 DEF Enters, Blocks, Frames, NoNewTimer

\* Whatever t waits for, and however, the others are where they were.
LEMMA EntersAlone ==
  ASSUME SemaphoresAssumption, ObjectsAssumption, NEW t \in Thread, NEW b, NEW at,
         Enters(t, b, at), pc' = [pc EXCEPT ![t] = at], pc \in [Thread -> Where],
         \A u \in Thread \ {t} : pendOn'[u] = pendOn[u] /\ expired'[u] = expired[u],
         value' = value
  PROVE  Alone(t)
BY OwnTimers DEF Alone, Enters, OthersStay

\* The step in which t blocks on b and goes to at.
Entering(t, b, at) ==
  /\ b \in BlockList /\ at \in {"pend", "timed", "block", "blockT"}
  /\ Enters(t, b, at) /\ Owing(at)
  /\ pc' = [pc EXCEPT ![t] = at] /\ pendOn' = [pendOn EXCEPT ![t] = b] /\ value' = value
  /\ expired' = expired \/ expired' = [expired EXCEPT ![t] = FALSE]
  /\ pc[t] = "sleep" => at = "pend" /\ b = Nap[t]

\* A thread that blocks.
LEMMA EntersKeeps ==
  ASSUME KernelAssumption, SemaphoresAssumption, ObjectsAssumption, ObjInv,
         NEW t \in Thread, Running(t), Outside(t), NEW b, NEW at, Entering(t, b, at),
         NEW B, b \in B
  PROVE  ObjInv' /\ Elsewhere(B)
<1>0. /\ b \in BlockList /\ at \in {"pend", "timed", "block", "blockT"}
      /\ Enters(t, b, at) /\ Owing(at)
      /\ pc' = [pc EXCEPT ![t] = at] /\ pendOn' = [pendOn EXCEPT ![t] = b] /\ value' = value
      /\ expired' = expired \/ expired' = [expired EXCEPT ![t] = FALSE]
      /\ pc[t] = "sleep" => at = "pend" /\ b = Nap[t]
  BY DEF Entering
<1>1. /\ t = k.current /\ pendOn[t] = NoList /\ WaitTimer(t) \notin ToSet(k.timers)
      /\ pc \in [Thread -> Where] /\ expired \in [Thread -> BOOLEAN]
      /\ pendOn \in [Thread -> BlockList \cup {NoList}] /\ value \in [Sem -> Nat]
      /\ pc[t] # "sleep" => SleepTimer(t) \notin ToSet(k.timers)
  BY CallerHere
<1>2. at \in Where /\ at \in Waiting /\ at \in InWait /\ at \notin {"claim", "claimT"}
  BY <1>0 DEF Where, InWait, Waiting
<1>3. expired' \in [Thread -> BOOLEAN] /\ \A u \in Thread \ {t} : expired'[u] = expired[u]
  BY <1>0, <1>1
<1>4. pendOn'[t] = b /\ \A u \in Thread \ {t} : pendOn'[u] = pendOn[u]
  BY <1>0, <1>1
<1>5. Alone(t)
  BY <1>0, <1>1, <1>3, <1>4, EntersAlone
<1>6. Placed(t)'
  <2>1. pc'[t] = at /\ k'.state[t] = "BLOCKED" /\ k'.where[t] = b
    BY <1>0, <1>1 DEF Enters
  <2>2. WaitTimer(t) \in ToSet(k'.timers) => at \in InTimedWait
    BY <1>0, <1>1, OwnTimers DEF Enters
  <2>3. SleepTimer(t) \in ToSet(k'.timers) => at = "pend" /\ b = Nap[t]
    BY <1>0, <1>1, OwnTimers DEF Enters
  <2>4. b # NoList
    BY <1>0, KernelAssumption DEF KernelAssumption
  <2> QED BY <1>2, <1>4, <2>1, <2>2, <2>3, <2>4 DEF Placed, Napping
<1>7. Typed
  <2>1. pendOn' \in [Thread -> BlockList \cup {NoList}]
    BY <1>0, <1>1
  <2> QED BY <1>0, <1>1, <1>2, <1>3, <2>1 DEF Typed
<1>8. ObjInv'
  BY <1>0, <1>2, <1>5, <1>6, <1>7, AloneKeeps DEF Enters
<1>9. Elsewhere(B)
  <2>1. pendOn[t] \notin BlockList
    BY <1>1, KernelAssumption DEF KernelAssumption
  <2> QED BY <1>4, <1>5, <2>1, AloneElsewhere
<1> QED BY <1>8, <1>9

-----------------------------------------------------------------------------
(* The end of a wait, and its Yield if that comes later *)

\* The wait of t is over: its timer goes with its frame.
LEMMA PendEndsKeeps ==
  ASSUME KernelAssumption, SemaphoresAssumption, ObjectsAssumption, ObjInv,
         NEW t \in Thread, NEW to \in Plain, PendEnds(t, to), NEW B, pendOn[t] \in B
  PROVE  ObjInv' /\ Elsewhere(B)
<1>1. /\ Running(t) /\ pc[t] \in {"pend", "timed"} /\ pc' = [pc EXCEPT ![t] = to]
      /\ k' = IF pc[t] = "timed" THEN TimerRemove(k, WaitTimer(t)) ELSE k
      /\ pendOn' = [pendOn EXCEPT ![t] = NoList] /\ UNCHANGED <<value, expired>>
  BY DEF PendEnds
<1>2. /\ Good(k) /\ Dispatches(k, FALSE, FALSE) /\ t = k.current
      /\ k.state[t] = "READY" /\ Placed(t)
  BY <1>1, CallerIsReady DEF Yielding, Enabling
<1>3. /\ pc \in [Thread -> Where] /\ value \in [Sem -> Nat] /\ expired \in [Thread -> BOOLEAN]
      /\ pendOn \in [Thread -> BlockList \cup {NoList}]
  BY DEF ObjInv
<1>4. SleepTimer(t) \notin ToSet(k.timers)
  BY <1>1, <1>2 DEF Placed, Napping
<1>5. /\ TimersOnly(k', k) /\ WaitTimer(t) \notin ToSet(k'.timers)
      /\ ToSet(k'.timers) \subseteq ToSet(k.timers)
  <2>1. CASE pc[t] = "timed"
    BY <1>1, <1>2, <2>1, TimerGone, OwnTimers
  <2>2. CASE pc[t] = "pend"
    <3>1. k' = k
      BY <1>1, <2>2
    <3>2. WaitTimer(t) \notin ToSet(k.timers)
      BY <1>2, <2>2 DEF Placed, InTimedWait
    <3> QED BY <1>2, <3>1, <3>2 DEF TimersOnly, SameButTimers, SameThreads
  <2> QED BY <1>1, <2>1, <2>2
<1>6. Still(k', k)
  BY <1>5 DEF Still, TimersOnly, SameButTimers, SameThreads, NoNewTimer
<1>7. pendOn'[t] = NoList /\ \A u \in Thread \ {t} : pendOn'[u] = pendOn[u] /\ pc'[u] = pc[u]
  BY <1>1, <1>3
<1>8. Alone(t)
  BY <1>1, <1>6, <1>7, StillAlone
<1>9. to \in Where /\ to \notin InWait /\ to # "sleep" /\ to \notin {"claim", "claimT"}
  BY DEF Plain, InWait
<1>10. Placed(t)'
  <2>1. pc'[t] = to /\ k'.state[t] # "BLOCKED" /\ SleepTimer(t) \notin ToSet(k'.timers)
    BY <1>1, <1>2, <1>3, <1>4, <1>5, <1>6 DEF Still
  <2> QED BY <1>5, <1>7, <1>9, <2>1 DEF Placed
<1>11. Owing(to)
  <2>1. Dispatches(k', FALSE, FALSE)
    BY <1>2, <1>5, TimersDispatch
  <2> QED BY <2>1 DEF Owing, Dispatches
<1>12. Typed
  <2>1. pendOn' \in [Thread -> BlockList \cup {NoList}]
    BY <1>1, <1>3
  <2> QED BY <1>1, <1>3, <2>1 DEF Typed
<1>13. ObjInv'
  BY <1>1, <1>2, <1>6, <1>8, <1>9, <1>10, <1>11, <1>12, AloneKeeps DEF Still
<1>14. Elsewhere(B)
  <2>1. pendOn'[t] \notin BlockList
    BY <1>7, KernelAssumption DEF KernelAssumption
  <2> QED BY <1>8, <2>1, AloneElsewhere
<1> QED BY <1>13, <1>14

\* The Yield of a thread that has blocked in an earlier critical section, woken
\* in between or not.
LEMMA YieldBlockedKeeps ==
  ASSUME KernelAssumption, SemaphoresAssumption, ObjectsAssumption, ObjInv,
         NEW t \in Thread, YieldBlocked(t), NEW B, pendOn[t] \in B
  PROVE  ObjInv' /\ Elsewhere(B)
<1> DEFINE at == IF pc[t] = "block" THEN "pend" ELSE "timed"
<1>1. /\ Running(t) /\ pc[t] \in {"block", "blockT"} /\ k' = Yield(k) /\ UNCHANGED semVars
      /\ t = k.current /\ Good(k) /\ Placed(t)
      /\ pc \in [Thread -> Where] /\ value \in [Sem -> Nat] /\ expired \in [Thread -> BOOLEAN]
      /\ pendOn \in [Thread -> BlockList \cup {NoList}]
  BY DEF YieldBlocked, ObjInv, Running
<1>2. pc' = [pc EXCEPT ![t] = at] /\ at \in Where
  BY <1>1 DEF YieldBlocked, Where
<1>3. (at = "pend" /\ pc[t] = "block") \/ (at = "timed" /\ pc[t] = "blockT")
  BY <1>1
<1> HIDE DEF at
<1>4. Dispatches(k, TRUE, FALSE)
  BY <1>1 DEF ObjInv, Dispatches, Yielding, Enabling
<1>5. /\ Good(k') /\ Dispatches(k', TRUE, FALSE) /\ (k.enabled => Dispatches(k', FALSE, FALSE))
      /\ SameThreads(k', k) /\ NoNewTimer(k', k)
  BY <1>1, <1>4, YieldDispatches
<1>6. Dispatches(k', FALSE, FALSE)
  BY <1>5 DEF Dispatches, SameThreads
<1>7. Still(k', k)
  BY <1>5 DEF Still, SameThreads
<1>8. Alone(t)
  BY <1>1, <1>2, <1>7, StillAlone DEF semVars
<1>9. Placed(t)'
  <2>1. /\ WaitTimer(t) \in ToSet(k'.timers) => at \in InTimedWait
        /\ SleepTimer(t) \notin ToSet(k'.timers)
    BY <1>1, <1>3, <1>7, OwnTimers DEF Placed, Napping, Still, NoNewTimer, InTimedWait
  <2>2. pc'[t] = at /\ at \in Waiting /\ at \in InWait /\ pc[t] \in InWait
    BY <1>1, <1>2, <1>3 DEF InWait, Waiting
  <2>3. pendOn[t] # NoList /\ pendOn' = pendOn /\ (k.state[t] = "BLOCKED" => pendOn[t] = k.where[t])
    BY <1>1, <2>2 DEF Placed, semVars
  <2> QED BY <1>7, <2>1, <2>2, <2>3 DEF Placed, Still
<1>10. ObjInv'
  <2>1. at \notin {"claim", "claimT"}
    BY <1>3
  <2>2. Owing(at) /\ Typed
    BY <1>1, <1>6 DEF Owing, Dispatches, Typed, semVars
  <2> QED BY <1>1, <1>2, <1>7, <1>8, <1>9, <2>1, <2>2, AloneKeeps DEF Still
<1>11. Elsewhere(B)
  BY <1>1, <1>8, AloneElsewhere DEF semVars
<1> QED BY <1>10, <1>11

-----------------------------------------------------------------------------
(* Semaphores *)

\* Post from a thread, for whatever object the semaphore is part of.
LEMMA PostByKeeps ==
  ASSUME KernelAssumption, SemaphoresAssumption, ObjectsAssumption, SleepAssumption, ObjInv,
         NEW t \in Thread, Running(t), pc[t] \in Plain, NEW s \in Sem, PostBy(t, s),
         s \notin Naps, NEW B, s \in B
  PROVE  ObjInv' /\ Elsewhere(B)
<1>1. /\ Good(k) /\ Dispatches(k, FALSE, FALSE) /\ t = k.current /\ value \in [Sem -> Nat]
      /\ SleepTimer(t) \notin ToSet(k.timers) /\ Outside(t) /\ s \in BlockList
      /\ \A u \in Thread : s # Nap[u]
  <2>1. Outside(t) /\ pc[t] # "sleep"
    BY DEF Outside, Plain
  <2> QED BY <2>1, CallerHere DEF SemaphoresAssumption, Naps
<1>2. UNCHANGED <<pendOn, expired>> /\ (Count(s) \/ value' = value)
  BY DEF PostBy
<1>3. value' \in [Sem -> Nat] /\ \A u \in Thread : value'[Nap[u]] = value[Nap[u]]
  <2>1. value' \in [Sem -> Nat] /\ \A x \in Sem \ {s} : value'[x] = value[x]
    BY <1>1, <1>2, CountFacts
  <2> QED BY <1>1, <2>1, OwnNaps
<1>4. CASE UNCHANGED k /\ pc' = [pc EXCEPT ![t] = "run"]
  <2>1. Still(k', k) /\ Dispatches(k', FALSE, FALSE) /\ "run" \in Plain
    BY <1>1, <1>4 DEF Still, NoNewTimer, Plain, Where, InWait, Waiting, Yielding, Enabling
  <2> QED BY <1>1, <1>2, <1>3, <1>4, <2>1, QuietKeeps
<1>5. CASE /\ k.list[s] # <<>> /\ k' = UnBlock(k, Head(k.list[s]))
           /\ pc' = [pc EXCEPT ![t] = IF Preempts(k', Head(k.list[s])) THEN "yield" ELSE "run"]
  <2>1. PICK at \in {"run", "yield"} : pc' = [pc EXCEPT ![t] = at]
    BY <1>5
  <2> DEFINE waiter == Head(k.list[s])
  <2>2. /\ waiter \in Thread /\ k.state[waiter] = "BLOCKED" /\ k.where[waiter] = s
        /\ k' = UnBlock(k, waiter)
    BY <1>1, <1>5, HeadWaits
  <2> HIDE DEF waiter
  <2>3. Wakes(k', k, s) /\ Dispatches(k', FALSE, FALSE)
    BY <1>1, <2>2, UnBlockWakes
  <2>4. Wakening(s)
    BY <1>1, <1>2, <1>3, <2>3 DEF Wakening
  <2>5. at \in Plain \cup {"yield"} /\ Owing(at)
    BY <2>3 DEF Plain, Where, InWait, Waiting, Yielding, Enabling, Owing, Dispatches
  <2> QED BY <1>1, <2>1, <2>4, <2>5, CallWakes
<1> QED BY <1>4, <1>5 DEF PostBy

\* Pend without a timeout ...
LEMMA PendKeeps ==
  ASSUME KernelAssumption, SemaphoresAssumption, ObjectsAssumption, SleepAssumption, ObjInv,
         NEW t \in Thread, Running(t), Outside(t), NEW s \in Sem, NEW to \in Plain,
         Pend(t, s, to), \A u \in Thread \ {t} : s # Nap[u], pc[t] = "sleep" => s = Nap[t],
         NEW B, s \in B
  PROVE  ObjInv' /\ Elsewhere(B)
<1>1. CASE Take(t, s) /\ pc' = [pc EXCEPT ![t] = to]
  BY <1>1, TakeKeepsPlaces
<1>2. CASE Wait(t, s, k, "pend") /\ UNCHANGED expired
  <2>1. /\ k' = Yield(BlockPriority(k, t, s)) /\ t # Idle /\ k.enabled /\ value' = value
        /\ pc' = [pc EXCEPT ![t] = "pend"] /\ pendOn' = [pendOn EXCEPT ![t] = s]
        /\ s \in BlockList /\ Good(k)
    BY <1>2 DEF Wait, SemaphoresAssumption, ObjInv
  <2>2. Frames(k, t, "pend")
    BY <2>1, NoFrameTimer
  <2>3. Enters(t, s, "pend") /\ Dispatches(k', FALSE, FALSE)
    BY <2>1, <2>2, WaitEnters
  <2>4. Owing("pend")
    BY <2>3 DEF Owing, Dispatches
  <2>5. Entering(t, s, "pend")
    BY <1>2, <2>1, <2>3, <2>4 DEF Entering
  <2> QED BY <2>5, EntersKeeps
<1> QED BY <1>1, <1>2 DEF Pend

\* ... and with one.
LEMMA TimedPendKeeps ==
  ASSUME KernelAssumption, SemaphoresAssumption, ObjectsAssumption, SleepAssumption, ObjInv,
         NEW t \in Thread, Running(t), pc[t] \in Plain, NEW s \in Sem, NEW to \in Plain,
         NEW ticks \in WaitTicks, TimedPend(t, s, ticks, to), s \notin Naps, NEW B, s \in B
  PROVE  ObjInv' /\ Elsewhere(B)
<1>0. Outside(t) /\ pc[t] # "sleep" /\ \A u \in Thread : s # Nap[u]
  BY DEF Outside, Plain, Naps
<1>1. CASE Take(t, s) /\ pc' = [pc EXCEPT ![t] = to]
  BY <1>0, <1>1, TakeKeepsPlaces
<1>2. CASE /\ Wait(t, s, TimerAdd(k, WaitTimer(t), ticks), "timed")
           /\ expired' = [expired EXCEPT ![t] = FALSE]
  <2> DEFINE a == TimerAdd(k, WaitTimer(t), ticks)
  <2>0. /\ Wait(t, s, a, "timed") /\ expired' = [expired EXCEPT ![t] = FALSE]
        /\ a = TimerAdd(k, WaitTimer(t), ticks)
    BY <1>2
  <2> HIDE DEF a
  <2>6. s \in BlockList /\ Good(k)
    BY DEF SemaphoresAssumption, ObjInv
  <2>7. /\ k' = Yield(BlockPriority(a, t, s)) /\ t # Idle /\ k.enabled /\ value' = value
        /\ pc' = [pc EXCEPT ![t] = "timed"] /\ pendOn' = [pendOn EXCEPT ![t] = s]
    BY <2>0 DEF Wait
  <2>1. /\ k' = Yield(BlockPriority(a, t, s)) /\ t # Idle /\ k.enabled /\ value' = value
        /\ pc' = [pc EXCEPT ![t] = "timed"] /\ pendOn' = [pendOn EXCEPT ![t] = s]
        /\ s \in BlockList /\ Good(k) /\ a = TimerAdd(k, WaitTimer(t), ticks)
    BY <2>0, <2>6, <2>7
  <2>2. Frames(a, t, "timed")
    BY <1>0, <2>1, CallerHere, TimedFrame DEF InTimedWait
  <2>3. Enters(t, s, "timed") /\ Dispatches(k', FALSE, FALSE)
    BY <1>0, <2>1, <2>2, WaitEnters
  <2>4. Owing("timed")
    BY <2>3 DEF Owing, Dispatches
  <2>5. Entering(t, s, "timed")
    BY <1>0, <2>0, <2>1, <2>3, <2>4 DEF Entering
  <2> QED BY <1>0, <2>5, EntersKeeps
<1> QED BY <1>1, <1>2 DEF TimedPend

\* The semaphores of the application.
LEMMA SemStepKeeps ==
  ASSUME KernelAssumption, SemaphoresAssumption, ObjectsAssumption, SleepAssumption, ObjInv,
         NEW t \in Thread, SemThreadStep(t)
  PROVE  ObjInv' /\ Elsewhere(Shared)
<1>1. "run" \in Plain
  BY DEF Plain, Where, InWait, Waiting, Yielding, Enabling
<1>2. \A s \in Shared : s \in Sem /\ s \notin Naps
  BY OwnNaps DEF SemaphoresAssumption, Naps
<1>3. ASSUME NEW s \in Shared, CallPost(t, s) PROVE ObjInv' /\ Elsewhere(Shared)
  BY <1>1, <1>2, <1>3, PostByKeeps DEF CallPost, Calling
<1>4. ASSUME NEW s \in Shared, CallPend(t, s) PROVE ObjInv' /\ Elsewhere(Shared)
  <2>1. Running(t) /\ Outside(t) /\ pc[t] # "sleep" /\ Pend(t, s, "run")
    BY <1>1, <1>4 DEF CallPend, Calling, Outside
  <2>2. \A u \in Thread \ {t} : s # Nap[u]
    BY <1>2 DEF Naps
  <2> QED BY <1>1, <1>2, <2>1, <2>2, PendKeeps
<1>5. ASSUME NEW s \in Shared, NEW ticks \in WaitTicks, CallTimedPend(t, s, ticks)
      PROVE  ObjInv' /\ Elsewhere(Shared)
  BY <1>1, <1>2, <1>5, TimedPendKeeps DEF CallTimedPend, Calling
<1>6. ASSUME PendReturns(t) PROVE ObjInv' /\ Elsewhere(Shared)
  BY <1>1, <1>6, PendEndsKeeps DEF PendReturns
<1> QED BY <1>3, <1>4, <1>5, <1>6 DEF SemThreadStep

-----------------------------------------------------------------------------
(* Notifications *)

\* Signal from a thread.
LEMMA CallSignalKeeps ==
  ASSUME KernelAssumption, SemaphoresAssumption, ObjectsAssumption, SleepAssumption,
         NotifyAssumption, ObjInv, NEW t \in Thread, NEW n \in Note, CallSignal(t, n)
  PROVE  ObjInv' /\ Elsewhere(Note)
<1>1. /\ Running(t) /\ pc[t] = "run" /\ k' = UnBlockEach(k, n, Thread) /\ UNCHANGED semVars
      /\ pc' = IF Reschedules(k, n) THEN [pc EXCEPT ![t] = "yield"] ELSE pc
  BY DEF CallSignal, Calling, SignalAll
<1>2. "run" \in Plain
  BY DEF Plain, Where, InWait, Waiting, Yielding, Enabling
<1>3. /\ Good(k) /\ Dispatches(k, FALSE, FALSE) /\ t = k.current /\ value \in [Sem -> Nat]
      /\ n \in BlockList /\ n \notin Sem
  BY <1>1, <1>2, CallerHere DEF Outside, NotifyAssumption
<1>4. \A u \in Thread : n # Nap[u]
  BY <1>3, OwnNaps
<1>5. MayYield(k', k')
  BY DEF MayYield
<1>6. ASSUME NEW y \in BOOLEAN, NEW h \in BOOLEAN, Dispatches(k, y, h)
      PROVE  Wakes(k', k, n) /\ Dispatches(k', y, h)
  BY <1>1, <1>3, <1>5, <1>6, EachWakes
<1>7. CASE pc' = pc
  BY <1>1, <1>3, <1>4, <1>6, <1>7, WakingKeeps DEF semVars
<1>8. CASE pc' = [pc EXCEPT ![t] = "yield"]
  <2>1. Wakening(n)
    BY <1>1, <1>3, <1>4, <1>6 DEF Wakening, semVars
  <2>2. PICK at \in Plain \cup {"yield"} : at = "yield"
    OBVIOUS
  <2>3. Owing(at) /\ pc' = [pc EXCEPT ![t] = at] /\ pc[t] \in Plain
    BY <1>1, <1>2, <1>3, <1>6, <1>8, <2>2 DEF Owing, Dispatches
  <2> QED BY <1>3, <2>1, <2>3, CallWakes
<1> QED BY <1>1, <1>7, <1>8

\* Wait, its first critical section.
LEMMA BlockOnKeeps ==
  ASSUME KernelAssumption, SemaphoresAssumption, ObjectsAssumption, NotifyAssumption, ObjInv,
         NEW t \in Thread, Running(t), pc[t] = "run", NEW n \in Note, NEW a,
         NEW at \in {"block", "blockT"}, BlockOn(t, n, a, at), Frames(a, t, at),
         expired' = expired \/ expired' = [expired EXCEPT ![t] = FALSE]
  PROVE  ObjInv' /\ Elsewhere(Note)
<1>1. /\ t # Idle /\ k.enabled /\ k' = Block(a, t, n) /\ pc' = [pc EXCEPT ![t] = at]
      /\ pendOn' = [pendOn EXCEPT ![t] = n] /\ value' = value /\ n \in BlockList
  BY DEF BlockOn, NotifyAssumption
<1>2. Outside(t) /\ pc[t] # "sleep"
  BY DEF Outside, Plain, Where, InWait, Waiting, Yielding, Enabling
<1>3. Good(k) /\ Dispatches(k, FALSE, FALSE) /\ ~k.pendsv /\ t = k.current
  BY <1>2, CallerHere
<1>4. BlockedBy(k', a, t, n)
  BY <1>1 DEF BlockedBy
<1>5. Enters(t, n, at) /\ Dispatches(k', TRUE, FALSE)
  BY <1>1, <1>3, <1>4, BlockEnters
<1>6. Owing(at)
  BY <1>5 DEF Owing, Dispatches, Yielding
<1>7. /\ at \in {"pend", "timed", "block", "blockT"} /\ n \in BlockList /\ n \in Note
      /\ expired' = expired \/ expired' = [expired EXCEPT ![t] = FALSE]
  BY <1>1
<1>8. Entering(t, n, at)
  BY <1>1, <1>2, <1>5, <1>6, <1>7 DEF Entering
<1> QED BY <1>2, <1>7, <1>8, EntersKeeps

\* Everything a thread does with a notification.
LEMMA NotifyStepKeeps ==
  ASSUME KernelAssumption, SemaphoresAssumption, ObjectsAssumption, SleepAssumption,
         NotifyAssumption, ObjInv, NEW t \in Thread, NotifyStep(t)
  PROVE  ObjInv' /\ Elsewhere(Note)
<1>1. ASSUME NEW n \in Note, CallWait(t, n) PROVE ObjInv' /\ Elsewhere(Note)
  <2>1. Frames(k, t, "block")
    BY NoFrameTimer DEF ObjInv
  <2>2. Running(t) /\ pc[t] = "run" /\ BlockOn(t, n, k, "block") /\ expired' = expired
    BY <1>1 DEF CallWait, Calling
  <2> QED BY <2>1, <2>2, BlockOnKeeps
<1>2. ASSUME NEW n \in Note, NEW ticks \in WaitTicks, CallTimedWait(t, n, ticks)
      PROVE  ObjInv' /\ Elsewhere(Note)
  <2> DEFINE a == TimerAdd(k, WaitTimer(t), ticks)
  <2>1. /\ Running(t) /\ pc[t] = "run" /\ BlockOn(t, n, a, "blockT")
        /\ expired' = [expired EXCEPT ![t] = FALSE] /\ a = TimerAdd(k, WaitTimer(t), ticks)
    BY <1>2 DEF CallTimedWait, Calling
  <2> HIDE DEF a
  <2>2. Outside(t)
    BY <2>1 DEF Outside, Plain, Where, InWait, Waiting, Yielding, Enabling
  <2>3. Frames(a, t, "blockT")
    BY <2>1, <2>2, CallerHere, TimedFrame DEF InTimedWait
  <2> QED BY <2>1, <2>3, BlockOnKeeps
<1>3. ASSUME pendOn[t] \in Note, PendEnds(t, "run") PROVE ObjInv' /\ Elsewhere(Note)
  BY <1>3, PendEndsKeeps DEF Plain, Where, InWait, Waiting, Yielding, Enabling
<1>4. ASSUME pendOn[t] \in Note, YieldBlocked(t) PROVE ObjInv' /\ Elsewhere(Note)
  BY <1>4, YieldBlockedKeeps
<1>5. ASSUME NEW n \in Note, CallSignal(t, n) PROVE ObjInv' /\ Elsewhere(Note)
  BY <1>5, CallSignalKeeps
<1>6. CASE \E n \in Note : CallSignal(t, n) \/ CallWait(t, n)
  BY <1>1, <1>5, <1>6
<1>7. CASE \E n \in Note, ticks \in WaitTicks : CallTimedWait(t, n, ticks)
  BY <1>2, <1>7
<1> QED BY <1>3, <1>4, <1>6, <1>7 DEF NotifyStep

-----------------------------------------------------------------------------
(* Sleep *)

\* A timer that is not linked is started.
LEMMA OneTimer ==
  ASSUME NEW s, NEW x, NEW n, NEW d, d = TimerAdd(s, x, n), Good(s), x \in Timer,
         x \notin ToSet(s.timers), x # QuantumTimer, n \in Nat
  PROVE  TimersOnly(d, s) /\ \A y \in ToSet(d.timers) : y = x \/ y \in ToSet(s.timers)
BY TimerAdded DEF TimersOnly

\* The first thing Sleep and USleep do is to start the timer of the thread.
LEMMA BeginSleepKeeps ==
  ASSUME KernelAssumption, SemaphoresAssumption, ObjectsAssumption, SleepAssumption, ObjInv,
         NEW t \in Thread, Running(t), pc[t] = "run", NEW us, NEW ticks, ticks \in Nat,
         BeginSleep(t, us, ticks)
  PROVE  ObjInv' /\ Elsewhere(Naps)
<1>1. /\ k' = TimerAdd(k, SleepTimer(t), ticks) /\ pc' = [pc EXCEPT ![t] = "sleep"]
      /\ value' = [value EXCEPT ![Nap[t]] = 0] /\ UNCHANGED <<pendOn, expired>>
  BY DEF BeginSleep
<1>2. Outside(t)
  BY DEF Outside, Plain, Where, InWait, Waiting, Yielding, Enabling
<1>3. /\ Good(k) /\ Dispatches(k, FALSE, FALSE) /\ t = k.current /\ k.state[t] = "READY"
      /\ pendOn[t] = NoList /\ WaitTimer(t) \notin ToSet(k.timers)
      /\ SleepTimer(t) \notin ToSet(k.timers)
      /\ pc \in [Thread -> Where] /\ value \in [Sem -> Nat] /\ expired \in [Thread -> BOOLEAN]
      /\ pendOn \in [Thread -> BlockList \cup {NoList}]
  BY <1>2, CallerHere
<1> DEFINE x == SleepTimer(t)
<1>4. /\ x \in Timer /\ x # QuantumTimer /\ x \notin ToSet(k.timers) /\ k' = TimerAdd(k, x, ticks)
      /\ x # WaitTimer(t)
  BY <1>1, <1>3, OwnTimers
<1>5. \A u \in Thread \ {t} : x # WaitTimer(u) /\ x # SleepTimer(u)
  BY OwnTimers
<1>6. x = SleepTimer(t)
  OBVIOUS
<1> HIDE DEF x
<1>7. /\ Good(k') /\ SameButTimers(k', k)
      /\ \A y \in ToSet(k'.timers) : y = x \/ y \in ToSet(k.timers)
  <2>1. TimersOnly(k', k) /\ \A y \in ToSet(k'.timers) : y = x \/ y \in ToSet(k.timers)
    BY <1>3, <1>4, OneTimer
  <2> QED BY <2>1 DEF TimersOnly
<1>8. /\ Nap[t] \in Sem /\ value' \in [Sem -> Nat] /\ value'[Nap[t]] = 0
      /\ \A u \in Thread \ {t} : value'[Nap[u]] = value[Nap[u]]
  BY <1>1, <1>3, OwnNaps
<1>9. Alone(t)
  BY <1>1, <1>3, <1>5, <1>7, <1>8 DEF Alone, SameButTimers, SameThreads
<1>10. Placed(t)'
  <2>1. pc'[t] = "sleep" /\ pendOn'[t] = NoList /\ k'.state[t] = "READY"
    BY <1>1, <1>3, <1>7 DEF SameButTimers, SameThreads
  <2>2. WaitTimer(t) \notin ToSet(k'.timers)
    BY <1>3, <1>4, <1>7
  <2> QED BY <1>8, <2>1, <2>2 DEF Placed, Napping, InWait, Waiting
<1>11. Owing("sleep") /\ k'.current = t
  BY <1>3, <1>7 DEF Owing, Dispatches, SameButTimers, SameThreads
<1>12. Typed /\ "sleep" \in Where
  BY <1>1, <1>3, <1>8 DEF Typed, Where
<1>13. ObjInv'
  BY <1>1, <1>7, <1>9, <1>10, <1>11, <1>12, AloneKeeps
<1>14. Elsewhere(Naps)
  <2>1. pendOn[t] \notin BlockList /\ pendOn'[t] \notin BlockList
    BY <1>1, <1>3, KernelAssumption DEF KernelAssumption
  <2> QED BY <1>9, <2>1, AloneElsewhere
<1> QED BY <1>13, <1>14

LEMMA SleepStepKeeps ==
  ASSUME KernelAssumption, SemaphoresAssumption, ObjectsAssumption, SleepAssumption, ObjInv,
         NEW t \in Thread, SleepStep(t)
  PROVE  ObjInv' /\ Elsewhere(Naps)
<1>1. "run" \in Plain
  BY DEF Plain, Where, InWait, Waiting, Yielding, Enabling
<1>2. ASSUME NEW ms \in SleepMs, CallSleep(t, ms) PROVE ObjInv' /\ Elsewhere(Naps)
  <2>1. MsToTicks(ms) \in Nat
    BY DEF MsToTicks, SleepAssumption
  <2> QED BY <1>2, <2>1, BeginSleepKeeps DEF CallSleep, Calling
<1>3. ASSUME NEW us \in SleepUs, CallUSleep(t, us) PROVE ObjInv' /\ Elsewhere(Naps)
  <2>1. UsToTicks(us) \in Nat
    <3>1. us \in Nat
      BY DEF SleepAssumption
    <3>2. (us + 999) \div 1000 \in Nat
      BY <3>1
    <3> QED BY <3>2 DEF UsToTicks
  <2> QED BY <1>3, <2>1, BeginSleepKeeps DEF CallUSleep, Calling
<1>4. ASSUME SleepPends(t) PROVE ObjInv' /\ Elsewhere(Naps)
  <2>1. Running(t) /\ Outside(t) /\ Pend(t, Nap[t], "run")
    BY <1>4 DEF SleepPends, Outside
  <2>2. Nap[t] \in Sem /\ Nap[t] \in Naps /\ \A u \in Thread \ {t} : Nap[t] # Nap[u]
    BY OwnNaps
  <2> QED BY <1>1, <2>1, <2>2, PendKeeps
<1>5. ASSUME SleepReturns(t) PROVE ObjInv' /\ Elsewhere(Naps)
  BY <1>1, <1>5, OwnNaps, PendEndsKeeps DEF SleepReturns
<1> QED BY <1>2, <1>3, <1>4, <1>5 DEF SleepStep

-----------------------------------------------------------------------------
(* Event flags *)

\* A step that changes nothing here.
LEMMA UnchangedKeeps ==
  ASSUME ObjInv, UNCHANGED allVars, NEW B
  PROVE  ObjInv' /\ Elsewhere(B)
<1>1. /\ k' = k /\ pc' = pc /\ value' = value /\ expired' = expired /\ pendOn' = pendOn
  BY DEF allVars
<1>2. \A u \in Thread : Placed(u)'
  BY <1>1 DEF ObjInv, Placed, Napping
<1> QED BY <1>1, <1>2 DEF ObjInv, Elsewhere, Untouched

\* A Wait that finds its flags set returns, any other blocks and yields.
LEMMA WaitFlagsKeeps ==
  ASSUME KernelAssumption, SemaphoresAssumption, ObjectsAssumption, EventFlagAssumption, ObjInv,
         NEW t \in Thread, Running(t), pc[t] = "run", NEW g \in Group, NEW wanted, NEW how,
         NEW a, NEW at \in {"pend", "timed"}, WaitFlags(t, g, wanted, how, a, at),
         Frames(a, t, at)
  PROVE  ObjInv' /\ Elsewhere(Group)
<1>1. CASE UNCHANGED <<allVars, flagVars>>
  BY <1>1, UnchangedKeeps
<1>2. CASE /\ t # Idle /\ k.enabled /\ k' = Yield(BlockPriority(a, t, g))
           /\ pc' = [pc EXCEPT ![t] = at] /\ pendOn' = [pendOn EXCEPT ![t] = g]
           /\ expired' = IF at = "timed" THEN [expired EXCEPT ![t] = FALSE] ELSE expired
           /\ UNCHANGED <<value, posts, flags>>
  <2>1. Outside(t) /\ pc[t] # "sleep" /\ g \in BlockList
    BY DEF Outside, Plain, Where, InWait, Waiting, Yielding, Enabling, EventFlagAssumption
  <2>2. Enters(t, g, at) /\ Dispatches(k', FALSE, FALSE)
    BY <1>2, <2>1, WaitEnters
  <2>3. Owing(at)
    BY <2>2 DEF Owing, Dispatches
  <2>4. /\ expired' = expired \/ expired' = [expired EXCEPT ![t] = FALSE]
        /\ at \in {"pend", "timed", "block", "blockT"} /\ value' = value
    BY <1>2
  <2>5. Entering(t, g, at)
    BY <1>2, <2>1, <2>2, <2>3, <2>4 DEF Entering
  <2> QED BY <2>1, <2>5, EntersKeeps
<1>3. pc' = [pc EXCEPT ![t] = at] \/ UNCHANGED <<allVars, flagVars>>
  BY DEF WaitFlags
<1> QED BY <1>1, <1>2, <1>3 DEF WaitFlags

LEMMA FlagStepKeeps ==
  ASSUME KernelAssumption, SemaphoresAssumption, ObjectsAssumption, SleepAssumption,
         EventFlagAssumption, ObjInv, NEW t \in Thread, FlagStep(t)
  PROVE  ObjInv' /\ Elsewhere(Group)
<1> DEFINE Goal == ObjInv' /\ Elsewhere(Group)
<1>1. ASSUME NEW g \in Group, NEW m, CallSet(t, g, m) PROVE Goal
  BY <1>1, SetKeeps DEF CallSet
<1>2. ASSUME NEW g \in Group, NEW m, CallClear(t, g, m) PROVE Goal
  BY <1>2, UnchangedKeeps DEF CallClear
<1>3. ASSUME NEW g \in Group, NEW m, NEW how, CallWaitFlags(t, g, m, how) PROVE Goal
  <2>1. Frames(k, t, "pend")
    BY NoFrameTimer DEF ObjInv
  <2>2. Running(t) /\ pc[t] = "run" /\ WaitFlags(t, g, m, how, k, "pend")
    BY <1>3 DEF CallWaitFlags, Calling
  <2> QED BY <2>1, <2>2, WaitFlagsKeeps
<1>4. ASSUME NEW g \in Group, NEW m, NEW how, NEW ticks \in WaitTicks,
             CallTimedWaitFlags(t, g, m, how, ticks)
      PROVE  Goal
  <2> DEFINE a == TimerAdd(k, WaitTimer(t), ticks)
  <2>1. /\ Running(t) /\ pc[t] = "run" /\ WaitFlags(t, g, m, how, a, "timed")
        /\ a = TimerAdd(k, WaitTimer(t), ticks)
    BY <1>4 DEF CallTimedWaitFlags, Calling
  <2> HIDE DEF a
  <2>2. Outside(t)
    BY <2>1 DEF Outside, Plain, Where, InWait, Waiting, Yielding, Enabling
  <2>3. Frames(a, t, "timed")
    BY <2>1, <2>2, CallerHere, TimedFrame DEF InTimedWait
  <2> QED BY <2>1, <2>3, WaitFlagsKeeps
<1>5. ASSUME FlagsReturn(t) PROVE Goal
  BY <1>5, PendEndsKeeps
     DEF FlagsReturn, Plain, Where, InWait, Waiting, Yielding, Enabling
<1> HIDE DEF Goal
<1>6. ASSUME NEW g \in Group, NEW m,
             \/ CallSet(t, g, m) \/ CallClear(t, g, m)
             \/ \E how \in Modes : \/ CallWaitFlags(t, g, m, how)
                                   \/ \E ticks \in WaitTicks : CallTimedWaitFlags(t, g, m, how, ticks)
      PROVE  Goal
  BY <1>1, <1>2, <1>3, <1>4, <1>6
<1>7. Goal
  BY <1>5, <1>6 DEF FlagStep
<1> QED BY <1>7 DEF Goal

-----------------------------------------------------------------------------
(* Mutexes *)

\* A step of t that moves no thread, wherever t is in its call.
LEMMA ScopeKeeps ==
  ASSUME KernelAssumption, SemaphoresAssumption, ObjectsAssumption, ObjInv,
         NEW t \in Thread, Running(t), Still(k', k), NEW at \in Where,
         pc' = [pc EXCEPT ![t] = at], Owing(at), UNCHANGED <<value, expired>>,
         NEW b \in BlockList \cup {NoList}, pendOn' = [pendOn EXCEPT ![t] = b],
         b # NoList <=> at \in InWait,
         k.state[t] = "BLOCKED" => b = pendOn[t] /\ at \in Waiting,
         WaitTimer(t) \in ToSet(k.timers) => at \in InTimedWait,
         SleepTimer(t) \notin ToSet(k.timers), at \in {"claim", "claimT"} => t # Idle,
         NEW B, pendOn[t] \in BlockList => pendOn[t] \in B, b \in BlockList => b \in B
  PROVE  ObjInv' /\ Elsewhere(B)
<1>1. /\ t = k.current /\ Placed(t) /\ pc \in [Thread -> Where] /\ value \in [Sem -> Nat]
      /\ expired \in [Thread -> BOOLEAN] /\ pendOn \in [Thread -> BlockList \cup {NoList}]
  BY DEF ObjInv, Running
<1>2. /\ pendOn'[t] = b /\ pc'[t] = at
      /\ \A u \in Thread \ {t} : pendOn'[u] = pendOn[u] /\ pc'[u] = pc[u]
  BY <1>1
<1>3. Alone(t)
  BY <1>1, <1>2, StillAlone
<1>4. Placed(t)'
  <2>1. /\ WaitTimer(t) \in ToSet(k'.timers) => at \in InTimedWait
        /\ SleepTimer(t) \notin ToSet(k'.timers)
    BY OwnTimers DEF Still, NoNewTimer
  <2>2. k'.state[t] = k.state[t] /\ k'.where[t] = k.where[t]
    BY DEF Still
  <2> QED BY <1>1, <1>2, <2>1, <2>2 DEF Placed
<1>5. Typed
  <2>1. pendOn' \in [Thread -> BlockList \cup {NoList}]
    BY <1>1
  <2> QED BY <1>1, <2>1 DEF Typed
<1>6. ObjInv'
  BY <1>1, <1>3, <1>4, <1>5, AloneKeeps DEF Still
<1>7. Elsewhere(B)
  BY <1>2, <1>3, AloneElsewhere
<1> QED BY <1>6, <1>7

\* A thread in its own code, or in Claim or Release where it waits for nothing.
LEMMA MutexCaller ==
  ASSUME ObjInv, NEW t \in Thread, Running(t),
         pc[t] \in {"run", "claim", "claimT", "release", "wake", "unblock"}
  PROVE  /\ Good(k) /\ Dispatches(k, FALSE, FALSE) /\ ~k.pendsv /\ t = k.current
         /\ k.state[t] = "READY"
         /\ WaitTimer(t) \notin ToSet(k.timers) /\ SleepTimer(t) \notin ToSet(k.timers)
         /\ pc \in [Thread -> Where] /\ value \in [Sem -> Nat] /\ expired \in [Thread -> BOOLEAN]
         /\ pendOn \in [Thread -> BlockList \cup {NoList}]
         /\ pc[t] \in {"claim", "claimT"} => t # Idle
         /\ pc[t] = "run" => pendOn[t] = NoList
<1>1. pc[t] \notin Yielding /\ pc[t] \notin InTimedWait /\ pc[t] \notin {"sleep", "pend"}
  BY DEF Yielding, Enabling, InTimedWait
<1>2. /\ Good(k) /\ Dispatches(k, FALSE, FALSE) /\ ~k.pendsv /\ t = k.current
      /\ k.state[t] = "READY" /\ Placed(t)
  BY <1>1, CallerIsReady
<1>3. "run" \notin InWait
  BY DEF InWait, Waiting
<1> QED BY <1>1, <1>2, <1>3 DEF ObjInv, Placed, Napping

\* The scheduler is switched and no thread moves.
LEMMA SwitchedStill ==
  ASSUME KernelAssumption, ObjInv, NEW t \in Thread, Running(t),
         pc[t] \in {"run", "claim", "claimT", "release", "wake", "unblock"},
         NEW e \in BOOLEAN, k' = SetScheduler(k, e)
  PROVE  Still(k', k) /\ Dispatches(k', FALSE, FALSE)
<1>1. /\ Good(k) /\ Dispatches(k, FALSE, FALSE) /\ ~k.pendsv /\ t = k.current
      /\ k.state[t] = "READY"
  BY MutexCaller
<1>2. Dispatches(k', FALSE, FALSE) /\ Toggled(k', k, e)
  BY <1>1, SetSchedulerDispatches
<1> QED BY <1>2 DEF Still, Toggled

\* Claim and Release begin.
LEMMA MutexCallKeeps ==
  ASSUME KernelAssumption, SemaphoresAssumption, ObjectsAssumption, MutexAssumption, ObjInv,
         NEW t \in Thread, Running(t), pc[t] = "run", NEW m \in Mutexes,
         NEW at \in {"claim", "claimT", "release"}, at # "release" => t # Idle,
         k' = SetScheduler(k, FALSE), pc' = [pc EXCEPT ![t] = at],
         pendOn' = [pendOn EXCEPT ![t] = m], UNCHANGED <<value, expired>>
  PROVE  ObjInv' /\ Elsewhere(Mutexes)
<1>1. Still(k', k) /\ Dispatches(k', FALSE, FALSE)
  BY SwitchedStill
<1>2. /\ k.state[t] = "READY" /\ WaitTimer(t) \notin ToSet(k.timers)
      /\ SleepTimer(t) \notin ToSet(k.timers) /\ pendOn[t] = NoList
  BY MutexCaller
<1>3. m \in BlockList /\ m # NoList /\ NoList \notin BlockList
  BY KernelAssumption DEF KernelAssumption, MutexAssumption
<1>4. at \in Where /\ at \in InWait
  BY DEF Where, InWait
<1>5. Owing(at)
  BY <1>1 DEF Owing, Dispatches
<1> QED BY <1>1, <1>2, <1>3, <1>4, <1>5, ScopeKeeps

\* Claim and Release end.
LEMMA MutexEndKeeps ==
  ASSUME KernelAssumption, SemaphoresAssumption, ObjectsAssumption, MutexAssumption, ObjInv,
         NEW t \in Thread, InMutexCall(t, {"claim", "claimT", "release"}),
         k' = SetScheduler(k, TRUE), Leave(t, "run")
  PROVE  ObjInv' /\ Elsewhere(Mutexes)
<1>1. /\ Running(t) /\ pc[t] \in {"claim", "claimT", "release"} /\ pendOn[t] \in Mutexes
      /\ pc' = [pc EXCEPT ![t] = "run"] /\ pendOn' = [pendOn EXCEPT ![t] = NoList]
      /\ UNCHANGED <<value, expired>>
  BY DEF InMutexCall, Leave
<1>2. Still(k', k) /\ Dispatches(k', FALSE, FALSE)
  BY <1>1, SwitchedStill
<1>3. /\ k.state[t] = "READY" /\ WaitTimer(t) \notin ToSet(k.timers)
      /\ SleepTimer(t) \notin ToSet(k.timers)
  BY <1>1, MutexCaller
<1>4. "run" \in Where /\ "run" \notin InWait /\ NoList \notin BlockList
  BY KernelAssumption DEF KernelAssumption, Where, InWait, Waiting
<1>5. Owing("run")
  BY <1>2 DEF Owing, Dispatches
<1> QED BY <1>1, <1>2, <1>3, <1>4, <1>5, ScopeKeeps

\* A Claim that blocks, its scheduler still disabled.
LEMMA ClaimEnters ==
  ASSUME KernelAssumption, SemaphoresAssumption, ObjectsAssumption, MutexAssumption, ObjInv,
         NEW t \in Thread, Running(t), pc[t] \in {"claim", "claimT"}, pendOn[t] \in Mutexes,
         NEW a, NEW at \in {"inherit", "inheritT"}, k' = BlockPriority(a, t, pendOn[t]),
         Frames(a, t, at), pc' = [pc EXCEPT ![t] = at], UNCHANGED <<value, pendOn>>,
         expired' = expired \/ expired' = [expired EXCEPT ![t] = FALSE]
  PROVE  ObjInv' /\ Elsewhere(Mutexes)
<1> DEFINE b == pendOn[t]
<1>1. /\ Good(k) /\ Dispatches(k, FALSE, FALSE) /\ ~k.pendsv /\ t = k.current /\ t # Idle
      /\ WaitTimer(t) \notin ToSet(k.timers) /\ SleepTimer(t) \notin ToSet(k.timers)
      /\ pc \in [Thread -> Where] /\ value \in [Sem -> Nat] /\ expired \in [Thread -> BOOLEAN]
      /\ pendOn \in [Thread -> BlockList \cup {NoList}]
  BY MutexCaller
<1>2. b \in BlockList /\ b = pendOn[t] /\ b \in Mutexes /\ b # NoList
  BY KernelAssumption DEF KernelAssumption, MutexAssumption
<1>3. BlockedBy(k', a, t, b)
  BY DEF BlockedBy
<1> HIDE DEF b
<1>4. Enters(t, b, at) /\ Dispatches(k', TRUE, TRUE)
  BY <1>1, <1>2, <1>3, BlockEnters
<1>5. at \in Where /\ at \in InWait /\ at \in Waiting /\ at \notin {"claim", "claimT"}
  BY DEF Where, InWait, Waiting
<1>6. Owing(at)
  BY <1>4 DEF Owing, Dispatches, Yielding, Enabling
<1>7. expired' \in [Thread -> BOOLEAN] /\ \A u \in Thread \ {t} : expired'[u] = expired[u]
  BY <1>1
<1>8. Alone(t)
  BY <1>1, <1>4, <1>7, EntersAlone
<1>9. Placed(t)'
  <2>1. pc'[t] = at /\ k'.where[t] = b /\ pendOn'[t] = b
    BY <1>1, <1>2, <1>4 DEF Enters
  <2>2. WaitTimer(t) \in ToSet(k'.timers) => at \in InTimedWait
    BY <1>1, <1>4, OwnTimers DEF Enters
  <2>3. SleepTimer(t) \notin ToSet(k'.timers)
    BY <1>1, <1>4, OwnTimers DEF Enters
  <2> QED BY <1>2, <1>5, <2>1, <2>2, <2>3 DEF Placed
<1>10. Typed
  BY <1>1, <1>7 DEF Typed
<1>11. ObjInv'
  BY <1>4, <1>5, <1>6, <1>8, <1>9, <1>10, AloneKeeps DEF Enters
<1>12. Elsewhere(Mutexes)
  BY <1>2, <1>8, AloneElsewhere
<1> QED BY <1>11, <1>12

LEMMA ClaimBlocksKeeps ==
  ASSUME KernelAssumption, SemaphoresAssumption, ObjectsAssumption, MutexAssumption, ObjInv,
         NEW t \in Thread, ClaimBlocks(t)
  PROVE  ObjInv' /\ Elsewhere(Mutexes)
<1>1. /\ Running(t) /\ pc[t] \in {"claim", "claimT"} /\ pendOn[t] \in Mutexes
      /\ UNCHANGED <<value, pendOn>>
  BY DEF ClaimBlocks, InMutexCall
<1>2. Good(k) /\ WaitTimer(t) \notin ToSet(k.timers)
  BY <1>1, MutexCaller
<1>3. CASE /\ k' = BlockPriority(k, t, pendOn[t])
           /\ pc' = [pc EXCEPT ![t] = "inherit"] /\ expired' = expired
  <2>1. Frames(k, t, "inherit")
    BY <1>2, NoFrameTimer
  <2> QED BY <1>1, <1>3, <2>1, ClaimEnters
<1>4. ASSUME NEW ticks \in WaitTicks, k' = BlockPriority(TimerAdd(k, WaitTimer(t), ticks), t, pendOn[t]),
             pc' = [pc EXCEPT ![t] = "inheritT"], expired' = [expired EXCEPT ![t] = FALSE]
      PROVE  ObjInv' /\ Elsewhere(Mutexes)
  <2> DEFINE a == TimerAdd(k, WaitTimer(t), ticks)
  <2>1. k' = BlockPriority(a, t, pendOn[t]) /\ a = TimerAdd(k, WaitTimer(t), ticks)
    BY <1>4
  <2> HIDE DEF a
  <2>2. Frames(a, t, "inheritT")
    BY <1>2, <2>1, TimedFrame DEF InTimedWait
  <2> QED BY <1>1, <1>4, <2>1, <2>2, ClaimEnters
<1> QED BY <1>3, <1>4 DEF ClaimBlocks

\* InheritPriority moves no thread.
LEMMA InheritFacts ==
  ASSUME NEW s, NEW who, NEW p, p \in Prio, NEW d, d = InheritPriority(s, who, p), Good(s)
  PROVE  /\ Good(d) /\ NoNewTimer(d, s) /\ d.state = s.state /\ d.where = s.where
         /\ d.current = s.current /\ d.pendsv = s.pendsv /\ d.enabled = s.enabled
         /\ d.queued = s.queued /\ d.next = s.next
<1>1. s \in KernelState
  BY DEF Good
<1>2. /\ d.list = s.list /\ d.map = s.map /\ d.where = s.where /\ d.state = s.state
      /\ d.prio = s.prio /\ d.timers = s.timers /\ d.qActive = s.qActive
      /\ d.current = s.current /\ d.pendsv = s.pendsv /\ d.enabled = s.enabled
      /\ d.queued = s.queued /\ d.next = s.next
  BY <1>1 DEF InheritPriority, KernelState
<1>3. /\ [t \in Thread |-> IF t \in who THEN p ELSE s.owner[t]] \in [Thread -> ListId \cup {NoList}]
      /\ [t \in Thread |-> IF t \in who THEN p ELSE s.curPrio[t]] \in [Thread -> Prio]
  BY <1>1 DEF KernelState, ListId
<1>4. d \in KernelState
  BY <1>1, <1>3 DEF InheritPriority, KernelState
<1>5. Good(d)
  BY <1>2, <1>4, GoodButFlags
<1> QED BY <1>2, <1>5 DEF NoNewTimer

LEMMA ClaimInheritsKeeps ==
  ASSUME KernelAssumption, SemaphoresAssumption, ObjectsAssumption, MutexAssumption, ObjInv,
         NEW t \in Thread, ClaimInherits(t)
  PROVE  ObjInv' /\ Elsewhere(Mutexes)
<1>1. /\ Running(t) /\ pc[t] \in {"inherit", "inheritT"} /\ pendOn[t] \in Mutexes
      /\ UNCHANGED semVars /\ Good(k) /\ Placed(t) /\ t = k.current
      /\ pc \in [Thread -> Where] /\ pendOn \in [Thread -> BlockList \cup {NoList}]
  BY DEF ClaimInherits, InMutexCall, ObjInv, Running
<1>2. Dispatches(k, TRUE, TRUE)
  BY <1>1 DEF ObjInv, Dispatches, Yielding, Enabling
<1>3. PICK who, a : a \in {k, InheritPriority(k, who, k.prio[t])} /\ k' = SetScheduler(a, TRUE)
  BY DEF ClaimInherits
<1>4. k.prio[t] \in Prio
  BY <1>1 DEF Good, KernelState
<1>5. Good(a) /\ Dispatches(a, TRUE, TRUE) /\ Still(a, k)
  <2>1. CASE a = k
    BY <1>1, <1>2, <2>1 DEF Still, NoNewTimer
  <2>2. CASE a = InheritPriority(k, who, k.prio[t])
    <3>1. /\ Good(a) /\ NoNewTimer(a, k) /\ a.state = k.state /\ a.where = k.where
          /\ a.current = k.current /\ a.pendsv = k.pendsv /\ a.enabled = k.enabled
          /\ a.queued = k.queued /\ a.next = k.next
      BY <1>1, <1>4, <2>2, InheritFacts
    <3> QED BY <1>2, <3>1 DEF Still, Dispatches
  <2> QED BY <1>3, <2>1, <2>2
<1>6. Dispatches(k', TRUE, FALSE) /\ Toggled(k', a, TRUE)
  BY <1>3, <1>5, SetSchedulerDispatches
<1>7. Still(k', k)
  BY <1>5, <1>6 DEF Still, Toggled, NoNewTimer
<1>8. PICK at \in {"block", "blockT"} : /\ pc' = [pc EXCEPT ![t] = at]
                                        /\ pc[t] = "inheritT" => at = "blockT"
  BY <1>1 DEF ClaimInherits
<1>9. /\ at \in Where /\ at \in InWait /\ at \in Waiting /\ at \notin {"claim", "claimT"}
      /\ pc[t] \in InTimedWait => at \in InTimedWait
  BY <1>1, <1>8 DEF Where, InWait, Waiting, InTimedWait
<1>10. Owing(at)
  BY <1>6 DEF Owing, Dispatches, Yielding
<1>11. pendOn' = [pendOn EXCEPT ![t] = pendOn[t]] /\ pendOn[t] # NoList /\ UNCHANGED <<value, expired>>
  BY <1>1, KernelAssumption DEF KernelAssumption, semVars, MutexAssumption
<1>12. /\ WaitTimer(t) \in ToSet(k.timers) => at \in InTimedWait
       /\ SleepTimer(t) \notin ToSet(k.timers)
  BY <1>1, <1>9 DEF Placed, Napping
<1>13. pendOn[t] \in BlockList \cup {NoList}
  BY <1>1
<1> QED BY <1>1, <1>7, <1>8, <1>9, <1>10, <1>11, <1>12, <1>13, ScopeKeeps

\* A null pointer followed is all that a step changes in the kernel.
LEMMA FaultStill ==
  ASSUME Good(k), Dispatches(k, FALSE, FALSE), k' = k \/ k' = [k EXCEPT !.fault = TRUE]
  PROVE  Still(k', k) /\ Dispatches(k', FALSE, FALSE)
<1>1. CASE k' = k
  BY <1>1 DEF Still, NoNewTimer
<1>2. CASE k' = [k EXCEPT !.fault = TRUE]
  <2>1. k \in KernelState
    BY DEF Good
  <2>2. k' \in KernelState
    BY <1>2, <2>1 DEF KernelState
  <2>3. /\ k'.list = k.list /\ k'.map = k.map /\ k'.where = k.where /\ k'.state = k.state
        /\ k'.prio = k.prio /\ k'.timers = k.timers /\ k'.qActive = k.qActive
        /\ k'.current = k.current /\ k'.pendsv = k.pendsv /\ k'.enabled = k.enabled
        /\ k'.queued = k.queued /\ k'.next = k.next
    BY <1>2, <2>1 DEF KernelState
  <2>4. Good(k')
    BY <2>2, <2>3, GoodButFlags
  <2> QED BY <2>3, <2>4 DEF Still, NoNewTimer, Dispatches
<1> QED BY <1>1, <1>2

\* Another thread stays where it is, or is one that the mutex is handed to.
HandedOver(u, m) ==
  \/ k'.state[u] = k.state[u] /\ k'.where[u] = k.where[u]
  \/ pendOn[u] = m /\ pc[u] \in Waiting /\ k'.state[u] # "BLOCKED"

\* The caller goes on, READY.
Readied(t) ==
  /\ Good(k') /\ Dispatches(k', FALSE, FALSE) /\ NoNewTimer(k', k)
  /\ k'.current = k.current /\ k'.state[t] = "READY"

\* A step of a Release of mutex m.  The caller is READY all along.
LEMMA ReleaseKeeps ==
  ASSUME KernelAssumption, SemaphoresAssumption, ObjectsAssumption, SleepAssumption,
         MutexAssumption, ObjInv, NEW t \in Thread, Running(t), pc[t] \in Releasing,
         NEW m \in Mutexes, pendOn[t] = m,
         NEW at \in {"run", "yield", "wake"}, pc' = [pc EXCEPT ![t] = at],
         NEW b, pendOn' = [pendOn EXCEPT ![t] = b],
         at = "wake" => b = m, at # "wake" => b = NoList, UNCHANGED <<value, expired>>,
         Readied(t), \A u \in Thread \ {t} : HandedOver(u, m)
  PROVE  ObjInv' /\ Elsewhere(Mutexes)
<1>1. /\ WaitTimer(t) \notin ToSet(k.timers) /\ SleepTimer(t) \notin ToSet(k.timers)
      /\ pc \in [Thread -> Where] /\ value \in [Sem -> Nat] /\ expired \in [Thread -> BOOLEAN]
      /\ pendOn \in [Thread -> BlockList \cup {NoList}] /\ t = k.current
  BY MutexCaller DEF Releasing
<1>2. m \in BlockList /\ m \notin Sem /\ NoList \notin BlockList /\ m # NoList
  BY KernelAssumption DEF MutexAssumption, KernelAssumption
<1>3. /\ Good(k') /\ Dispatches(k', FALSE, FALSE) /\ k'.current = t /\ NoNewTimer(k', k)
      /\ k'.state[t] = "READY"
  BY <1>1 DEF Readied
<1>4. ASSUME NEW u \in Thread, u # t
      PROVE  /\ pc'[u] = pc[u] /\ pendOn'[u] = pendOn[u] /\ expired'[u] = expired[u]
             /\ value'[Nap[u]] = value[Nap[u]]
  BY <1>1, <1>4
<1>5. pc'[t] = at /\ pendOn'[t] = b
  BY <1>1
<1>6. /\ at \in Where /\ at \notin InTimedWait /\ at \notin {"sleep", "claim", "claimT"}
      /\ at = "wake" <=> at \in InWait
  BY DEF Where, InWait, Waiting, InTimedWait
<1>7. b \in BlockList \cup {NoList} /\ (b # NoList <=> at = "wake") /\ (b \in BlockList => b = m)
  BY <1>2
<1>8. \A u \in Thread : Placed(u)'
  <2>1. ASSUME NEW u \in Thread, u # t PROVE Placed(u)'
    <3>1. Placed(u) /\ HandedOver(u, m)
      BY <2>1 DEF ObjInv
    <3>2. /\ WaitTimer(u) \in ToSet(k'.timers) => WaitTimer(u) \in ToSet(k.timers)
          /\ SleepTimer(u) \in ToSet(k'.timers) => SleepTimer(u) \in ToSet(k.timers)
      BY <1>3, OwnTimers DEF NoNewTimer
    <3>3. m # Nap[u]
      BY <1>2, OwnNaps
    <3>4. CASE k'.state[u] = k.state[u] /\ k'.where[u] = k.where[u]
      BY <1>4, <2>1, <3>1, <3>2, <3>4 DEF Placed, Napping
    <3>5. CASE pendOn[u] = m /\ pc[u] \in Waiting /\ k'.state[u] # "BLOCKED"
      BY <1>4, <2>1, <3>1, <3>2, <3>3, <3>5 DEF Placed, Napping, Waiting
    <3> QED BY <3>1, <3>4, <3>5 DEF HandedOver
  <2>2. Placed(t)'
    <3>1. WaitTimer(t) \notin ToSet(k'.timers) /\ SleepTimer(t) \notin ToSet(k'.timers)
      BY <1>1, <1>3, OwnTimers DEF NoNewTimer
    <3> QED BY <1>3, <1>5, <1>6, <1>7, <3>1 DEF Placed
  <2> QED BY <2>1, <2>2
<1>9. ObjInv'
  <2>1. pc' \in [Thread -> Where] /\ pc'[Idle] \notin {"claim", "claimT"}
    BY <1>1, <1>6 DEF ObjInv
  <2>2. Dispatches(k', pc'[k'.current] \in Yielding, pc'[k'.current] \in Enabling)
    BY <1>3 DEF Dispatches
  <2>3. pendOn' \in [Thread -> BlockList \cup {NoList}]
    BY <1>1, <1>7
  <2> QED BY <1>1, <1>3, <1>8, <2>1, <2>2, <2>3 DEF ObjInv
<1>10. Elsewhere(Mutexes)
  <2> SUFFICES ASSUME NEW u \in Thread, \/ pendOn[u] \in BlockList /\ pendOn[u] \notin Mutexes
                                        \/ pendOn'[u] \in BlockList /\ pendOn'[u] \notin Mutexes
               PROVE  Untouched(u)
    BY DEF Elsewhere
  <2>1. u # t
    BY <1>5, <1>7
  <2>2. pendOn[u] # m
    BY <1>4, <2>1
  <2>3. k'.state[u] = k.state[u] /\ k'.where[u] = k.where[u]
    BY <2>1, <2>2 DEF HandedOver
  <2> QED BY <1>4, <2>1, <2>3 DEF Untouched
<1> QED BY <1>9, <1>10

\* The caller of a Release gets its priority back.
LEMMA RestoreReadies ==
  ASSUME KernelAssumption, ObjInv, NEW t \in Thread, Running(t), pc[t] \in Releasing,
         NEW a, a = k \/ a = SetPriority(k, t, k.prio[t])
  PROVE  Readies(a, k, t)
<1>1. /\ Good(k) /\ Dispatches(k, FALSE, FALSE) /\ ~k.pendsv /\ k.state[t] = "READY"
  BY MutexCaller DEF Releasing
<1>2. CASE a = k
  BY <1>1, <1>2 DEF Readies, NoNewTimer, OthersStay
<1>3. CASE a = SetPriority(k, t, k.prio[t])
  <2>1. k.prio[t] \in Prio
    BY <1>1 DEF Good, KernelState
  <2> QED BY <1>1, <1>3, <2>1, SetPriorityDispatches
<1> QED BY <1>2, <1>3

\* The steps of the last Release.
LEMMA ReleaseChecksKeeps ==
  ASSUME KernelAssumption, SemaphoresAssumption, ObjectsAssumption, SleepAssumption,
         MutexAssumption, ObjInv, NEW t \in Thread, ReleaseChecks(t)
  PROVE  ObjInv' /\ Elsewhere(Mutexes)
<1>1. PICK a : /\ a = k \/ a = SetPriority(k, t, k.prio[t])
               /\ \/ /\ k' = SetScheduler(a, TRUE)
                     /\ \E y \in BOOLEAN : Leave(t, IF y THEN "yield" ELSE "run")
                  \/ k' = a /\ pc' = [pc EXCEPT ![t] = "wake"] /\ UNCHANGED semVars
  BY DEF ReleaseChecks, ReleaseEnds
<1>2. Running(t) /\ pc[t] = "release" /\ pc[t] \in Releasing
  BY DEF ReleaseChecks, InMutexCall, Releasing
<1>3. PICK m \in Mutexes : pendOn[t] = m
  BY DEF ReleaseChecks, InMutexCall
<1>4. Readies(a, k, t)
  BY <1>1, <1>2, RestoreReadies
<1>5. CASE k' = SetScheduler(a, TRUE) /\ \E y \in BOOLEAN : Leave(t, IF y THEN "yield" ELSE "run")
  <2>1. PICK at \in {"run", "yield"} : Leave(t, at)
    BY <1>5
  <2>2. Good(a) /\ Dispatches(a, FALSE, FALSE)
    BY <1>4 DEF Readies
  <2>3. Dispatches(k', FALSE, FALSE) /\ Toggled(k', a, TRUE)
    BY <1>5, <2>2, SetSchedulerDispatches
  <2>4. Readied(t)
    <3>1. NoNewTimer(k', a) /\ NoNewTimer(a, k)
      BY <1>4, <2>3 DEF Toggled, Readies
    <3>2. NoNewTimer(k', k)
      BY <3>1 DEF NoNewTimer
    <3> QED BY <1>4, <2>3, <3>2 DEF Toggled, Readies, Readied
  <2>6. \A u \in Thread \ {t} : HandedOver(u, m)
    BY <1>4, <2>3 DEF Toggled, Readies, OthersStay, HandedOver
  <2>5. /\ pc' = [pc EXCEPT ![t] = at] /\ pendOn' = [pendOn EXCEPT ![t] = NoList]
        /\ UNCHANGED <<value, expired>> /\ at # "wake"
    BY <2>1 DEF Leave
  <2> QED BY <1>2, <1>3, <2>4, <2>5, <2>6, ReleaseKeeps
<1>6. CASE k' = a /\ pc' = [pc EXCEPT ![t] = "wake"] /\ UNCHANGED semVars
  <2>1. Readied(t) /\ \A u \in Thread \ {t} : HandedOver(u, m)
    BY <1>4, <1>6 DEF Readies, OthersStay, Readied, HandedOver
  <2>2. pendOn' = [pendOn EXCEPT ![t] = m] /\ UNCHANGED <<value, expired>>
    BY <1>3, <1>6 DEF semVars, ObjInv
  <2> QED BY <1>2, <1>3, <1>6, <2>1, <2>2, ReleaseKeeps
<1> QED BY <1>1, <1>5, <1>6

LEMMA WakeNextChoosesKeeps ==
  ASSUME KernelAssumption, SemaphoresAssumption, ObjectsAssumption, SleepAssumption,
         MutexAssumption, ObjInv, NEW t \in Thread, InMutexCall(t, {"wake", "unblock"}),
         k' = k \/ k' = [k EXCEPT !.fault = TRUE],
         pc' = [pc EXCEPT ![t] = "unblock"], UNCHANGED semVars
  PROVE  ObjInv' /\ Elsewhere(Mutexes)
<1>1. /\ Running(t) /\ pc[t] \in {"wake", "unblock"} /\ pendOn[t] \in Mutexes
      /\ UNCHANGED <<value, expired, pendOn>>
  BY DEF InMutexCall, semVars
<1>2. /\ Good(k) /\ Dispatches(k, FALSE, FALSE) /\ k.state[t] = "READY"
      /\ WaitTimer(t) \notin ToSet(k.timers) /\ SleepTimer(t) \notin ToSet(k.timers)
      /\ pendOn \in [Thread -> BlockList \cup {NoList}]
  BY <1>1, MutexCaller
<1>3. Still(k', k) /\ Dispatches(k', FALSE, FALSE)
  BY <1>2, FaultStill
<1>4. "unblock" \in Where /\ "unblock" \in InWait /\ pendOn[t] # NoList /\ pendOn[t] \in BlockList
  BY <1>1, KernelAssumption DEF KernelAssumption, Where, InWait, MutexAssumption
<1>5. Owing("unblock")
  BY <1>3 DEF Owing, Dispatches
<1>6. pendOn' = [pendOn EXCEPT ![t] = pendOn[t]]
  BY <1>1, <1>2
<1> QED BY <1>1, <1>2, <1>3, <1>4, <1>5, <1>6, ScopeKeeps

\* The mutex is handed to the thread that has waited longest, if it still waits.
LEMMA WakeNextUnBlocksKeeps ==
  ASSUME KernelAssumption, SemaphoresAssumption, ObjectsAssumption, SleepAssumption,
         MutexAssumption, ObjInv, WakeInv, NEW t \in Thread, WakeNextUnBlocks(t)
  PROVE  ObjInv' /\ Elsewhere(Mutexes)
<1>1. Running(t) /\ pc[t] = "unblock" /\ pc[t] \in Releasing
  BY DEF WakeNextUnBlocks, InMutexCall, Releasing
<1>2. PICK m \in Mutexes : pendOn[t] = m
  BY DEF WakeNextUnBlocks, InMutexCall
<1>3. PICK h \in Thread \cup {NoList} : h = waking[t].chosen
  BY DEF WakeInv, Wakings
<1>4. CASE /\ k' = [k EXCEPT !.fault = TRUE] /\ UNCHANGED pc /\ UNCHANGED semVars
  <2>1. pc' = [pc EXCEPT ![t] = "unblock"]
    BY <1>1, <1>4 DEF ObjInv
  <2>2. InMutexCall(t, {"wake", "unblock"})
    BY DEF WakeNextUnBlocks, InMutexCall
  <2> QED BY <1>4, <2>1, <2>2, WakeNextChoosesKeeps
<1>5. ASSUME h # NoList, NEW a, a = UnBlock(k, h), NEW at \in {"run", "yield"}, Leave(t, at),
             k' = SetScheduler(a, TRUE)
      PROVE  ObjInv' /\ Elsewhere(Mutexes)
  <2>1. h \in Thread /\ h # t /\ pendOn[h] = m /\ pc[h] \in Waiting
    BY <1>1, <1>2, <1>3, <1>5 DEF WakeInv, ChosenWaits
  <2>2. /\ Good(k) /\ Dispatches(k, FALSE, FALSE) /\ k.state[t] = "READY" /\ t = k.current
    BY <1>1, MutexCaller DEF Releasing
  <2>3. PICK d : d = UnBlock(k, h)
    OBVIOUS
  <2>4. /\ Good(d) /\ Dispatches(d, FALSE, FALSE) /\ d.timers = k.timers
        /\ d.current = k.current /\ OthersStay(d, k, h)
        /\ d.state[h] \in {k.state[h], "READY"} /\ d.state[h] # "BLOCKED"
    <3>1. PICK y \in BOOLEAN : ~y
      OBVIOUS
    <3>2. Dispatches(k, y, y)
      BY <2>2 DEF Dispatches
    <3>3. /\ Good(d) /\ Dispatches(d, y, y) /\ d.timers = k.timers
          /\ d.current = k.current /\ OthersStay(d, k, h)
          /\ d.state[h] \in {k.state[h], "READY"} /\ d.state[h] # "BLOCKED"
      BY <2>1, <2>2, <2>3, <3>2, UnBlockDispatches
    <3>4. Dispatches(d, FALSE, FALSE)
      BY <3>1, <3>3 DEF Dispatches
    <3> QED BY <3>3, <3>4
  <2>5. Dispatches(k', FALSE, FALSE) /\ Toggled(k', d, TRUE)
    BY <1>5, <2>3, <2>4, SetSchedulerDispatches
  <2>6. Readied(t)
    <3>1. NoNewTimer(k', k)
      BY <2>4, <2>5 DEF Toggled, NoNewTimer
    <3>2. k'.state[t] = "READY"
      BY <2>1, <2>2, <2>4, <2>5 DEF Toggled, OthersStay
    <3> QED BY <2>4, <2>5, <3>1, <3>2 DEF Toggled, Readied
  <2>7. ASSUME NEW u \in Thread \ {t} PROVE HandedOver(u, m)
    <3>1. CASE u = h
      BY <2>1, <2>4, <2>5, <3>1 DEF Toggled, HandedOver
    <3>2. CASE u # h
      BY <2>4, <2>5, <3>2 DEF Toggled, OthersStay, HandedOver
    <3> QED BY <3>1, <3>2
  <2>8. /\ pc' = [pc EXCEPT ![t] = at] /\ pendOn' = [pendOn EXCEPT ![t] = NoList]
        /\ UNCHANGED <<value, expired>> /\ at # "wake"
    BY <1>5 DEF Leave
  <2> QED BY <1>1, <1>2, <2>6, <2>7, <2>8, ReleaseKeeps
<1>6. \/ k' = [k EXCEPT !.fault = TRUE] /\ UNCHANGED pc /\ UNCHANGED semVars
      \/ /\ h # NoList /\ k' = SetScheduler(UnBlock(k, h), TRUE)
         /\ \E at \in {"run", "yield"} : Leave(t, at)
  BY <1>3 DEF WakeNextUnBlocks, ReleaseEnds
<1> QED BY <1>4, <1>5, <1>6

\* Everything a thread does with a mutex.
LEMMA MutexStepKeeps ==
  ASSUME KernelAssumption, SemaphoresAssumption, ObjectsAssumption, SleepAssumption,
         MutexAssumption, ObjInv, WakeInv, NEW t \in Thread, MutexStep(t)
  PROVE  ObjInv' /\ Elsewhere(Mutexes)
<1> DEFINE Goal == ObjInv' /\ Elsewhere(Mutexes)
<1>1. ASSUME NEW m \in Mutexes, NEW at \in {"claim", "claimT"}, Running(t), pc[t] = "run",
             ClaimBegins(t, m, at)
      PROVE  Goal
  BY <1>1, MutexCallKeeps DEF ClaimBegins
<1>2. ASSUME NEW m \in Mutexes, CallRelease(t, m) PROVE Goal
  BY <1>2, MutexCallKeeps DEF CallRelease, Calling
<1>3. ASSUME ClaimSucceeds(t) PROVE Goal
  BY <1>3, MutexEndKeeps DEF ClaimSucceeds, InMutexCall
<1>4. ASSUME ReleaseCounts(t) PROVE Goal
  BY <1>4, MutexEndKeeps DEF ReleaseCounts, InMutexCall
<1>5. ASSUME ClaimReturns(t) PROVE Goal
  BY <1>5, PendEndsKeeps DEF ClaimReturns, Plain, Where, InWait, Waiting, Yielding, Enabling
<1>6. ASSUME pendOn[t] \in Mutexes, YieldBlocked(t) PROVE Goal
  BY <1>6, YieldBlockedKeeps
<1>7. ASSUME ClaimBlocks(t) \/ ClaimInherits(t) \/ ReleaseChecks(t) \/ WakeNextUnBlocks(t)
      PROVE  Goal
  BY <1>7, ClaimBlocksKeeps, ClaimInheritsKeeps, ReleaseChecksKeeps, WakeNextUnBlocksKeeps
<1>8. ASSUME WakeNextChooses(t) PROVE Goal
  <2>1. /\ InMutexCall(t, {"wake", "unblock"}) /\ k' = k
        /\ pc' = [pc EXCEPT ![t] = "unblock"] /\ UNCHANGED semVars
    BY <1>8 DEF WakeNextChooses, InMutexCall
  <2> QED BY <2>1, WakeNextChoosesKeeps
<1> HIDE DEF Goal
<1>9. ASSUME NEW m \in Mutexes, CallClaim(t, m) \/ CallTimedClaim(t, m) \/ CallRelease(t, m)
      PROVE  Goal
  BY <1>1, <1>2, <1>9 DEF CallClaim, CallTimedClaim, Calling
<1>10. Goal
  BY <1>3, <1>4, <1>5, <1>6, <1>7, <1>8, <1>9 DEF MutexStep
<1> QED BY <1>10 DEF Goal

-----------------------------------------------------------------------------
(* Mailboxes *)

BoxSems == {RecvSem[b] : b \in Box} \cup {SendSem[b] : b \in Box}

\* Every box has semaphores of its own.
LEMMA OwnBoxSems ==
  ASSUME SemaphoresAssumption, ObjectsAssumption, SleepAssumption, MailboxAssumption
  PROVE  \A b \in Box :
           /\ RecvSem[b] \in Sem /\ SendSem[b] \in Sem
           /\ RecvSem[b] \in BoxSems /\ SendSem[b] \in BoxSems
           /\ RecvSem[b] \notin Naps /\ SendSem[b] \notin Naps
           /\ \A c \in Box : /\ RecvSem[b] # SendSem[c]
                             /\ RecvSem[b] = RecvSem[c] \/ SendSem[b] = SendSem[c] => b = c
<1>1. /\ \A b, c \in DOMAIN RecvSem : RecvSem[b] = RecvSem[c] => b = c
      /\ \A b, c \in DOMAIN SendSem : SendSem[b] = SendSem[c] => b = c
  BY DEF ObjectsAssumption, IsInjective
<1>2. RecvSem \in [Box -> Sem] /\ SendSem \in [Box -> Sem]
  BY DEF MailboxAssumption
<1>3. \A b \in Box, t \in Thread : Nap[t] # RecvSem[b] /\ Nap[t] # SendSem[b]
  BY DEF ObjectsAssumption
<1>4. \A b, c \in Box : RecvSem[b] # SendSem[c]
  BY DEF ObjectsAssumption
<1> QED BY <1>1, <1>2, <1>3, <1>4 DEF BoxSems, Naps

\* The others have the frames they had, and wait for what they waited for.
OtherFrames(t) ==
  /\ DOMAIN mail' = Thread
  /\ \A u \in Thread \ {t} : mail'[u] = mail[u] /\ pendOn'[u] = pendOn[u]

\* Only t has moved, and its frame suits its new place.
LEMMA FrameKeeps ==
  ASSUME MailInv, NEW t, t \in Thread, NEW at, pc \in [Thread -> Where],
         pc' = [pc EXCEPT ![t] = at], OtherFrames(t),
         NEW f, mail'[t] = f, NEW x, pendOn'[t] = x, Suits(f, at, x)
  PROVE  MailInv'
<1>1. pc'[t] = at /\ \A u \in Thread \ {t} : pc'[u] = pc[u]
  OBVIOUS
<1>2. ASSUME NEW u \in Thread PROVE Suits(mail'[u], pc'[u], pendOn'[u])
  BY <1>1 DEF MailInv, OtherFrames
<1> QED BY <1>2 DEF MailInv, Suits, OtherFrames

\* The frame of a call that has just begun, and that of a thread in no call.
Begun(f, b, ticks) ==
  DOMAIN f = DOMAIN NoFrame /\ f.box = b /\ f.ticks = ticks /\ f.sched \in BOOLEAN

LEMMA FrameBegun ==
  ASSUME NEW b, NEW end, NEW ticks, NEW f, f = Frame(b, end, ticks)
  PROVE  Begun(f, b, ticks)
BY DEF Begun, Frame, NoFrame

LEMMA NoFrameSuits ==
  ASSUME KernelAssumption, SemaphoresAssumption, MailboxAssumption, NEW at, at \notin Mailing
  PROVE  Suits(NoFrame, at, NoList)
BY KernelAssumption
   DEF Suits, NoFrame, Frame, Mailing, MailboxAssumption, SemaphoresAssumption, KernelAssumption

\* The frame of a thread inside a call of box b that waits for nothing, or for a
\* semaphore of the box.
LEMMA BoxSuits ==
  ASSUME KernelAssumption, SemaphoresAssumption, ObjectsAssumption, SleepAssumption,
         MailboxAssumption, NEW b \in Box, NEW f, DOMAIN f = DOMAIN NoFrame, f.box = b,
         f.sched \in BOOLEAN, f.ticks \in WaitTicks \cup {0},
         NEW at, at = "full" => f.ticks \in WaitTicks,
         NEW s, s \in {NoList, RecvSem[b], SendSem[b]}
  PROVE  Suits(f, at, s)
<1>1. \A c \in Box : RecvSem[c] # NoList /\ SendSem[c] # NoList
  BY KernelAssumption DEF MailboxAssumption, SemaphoresAssumption, KernelAssumption
<1> QED BY <1>1, OwnBoxSems DEF Suits

\* A thread that disables the scheduler has not moved any thread.
LEMMA OffStill ==
  ASSUME KernelAssumption, ObjInv, NEW t \in Thread, Running(t), pc[t] \in Plain, NEW a,
         a = SetScheduler(k, FALSE)
  PROVE  Still(a, k) /\ Dispatches(a, FALSE, FALSE) /\ ~a.pendsv
<1>1. Outside(t)
  BY DEF Outside
<1>2. Good(k) /\ Dispatches(k, FALSE, FALSE) /\ ~k.pendsv /\ k.state[k.current] = "READY"
  BY <1>1, CallerHere
<1>3. Dispatches(a, FALSE, FALSE) /\ Toggled(a, k, FALSE)
  BY <1>2, SetSchedulerDispatches
<1> QED BY <1>3 DEF Still, Toggled, Dispatches

\* A step of t that switches the scheduler last and waits for nothing.
LEMMA SwitchKeeps ==
  ASSUME KernelAssumption, SemaphoresAssumption, ObjectsAssumption, ObjInv,
         NEW t \in Thread, Running(t), pc[t] \in Plain, NEW a, Still(a, k),
         Dispatches(a, FALSE, FALSE), ~a.pendsv, NEW e, e \in BOOLEAN, k' = SetScheduler(a, e),
         NEW at \in Plain, pc' = [pc EXCEPT ![t] = at], UNCHANGED semVars, NEW B
  PROVE  ObjInv' /\ Elsewhere(B)
<1>1. Outside(t) /\ pc[t] # "sleep"
  BY DEF Outside, Plain
<1>2. /\ t = k.current /\ k.state[t] = "READY" /\ SleepTimer(t) \notin ToSet(k.timers)
      /\ value \in [Sem -> Nat]
  BY <1>1, CallerHere
<1>3. Good(a) /\ a.state[a.current] = "READY"
  BY <1>2 DEF Still
<1>4. Dispatches(k', FALSE, FALSE) /\ Toggled(k', a, e)
  BY <1>3, SetSchedulerDispatches
<1>5. Still(k', k)
  BY <1>4 DEF Still, Toggled, NoNewTimer
<1> QED BY <1>1, <1>2, <1>4, <1>5, QuietKeeps DEF semVars

\* The part of a Send that looks at the ring.
LEMMA TrySendKeeps ==
  ASSUME KernelAssumption, SemaphoresAssumption, ObjectsAssumption, SleepAssumption,
         MailboxAssumption, ObjInv, MailInv, NEW t \in Thread, Running(t), pc[t] \in Plain,
         NEW f, Suits(f, "retry", NoList), NEW again, TrySend(t, f, again)
  PROVE  ObjInv' /\ Elsewhere(BoxSems) /\ MailInv'
<1> DEFINE off == SetScheduler(k, FALSE)
<1>1. Still(off, k) /\ Dispatches(off, FALSE, FALSE) /\ ~off.pendsv
  BY OffStill
<1>2. /\ Still(k, k) /\ Dispatches(k, FALSE, FALSE) /\ ~k.pendsv /\ pendOn[t] = NoList
      /\ pc \in [Thread -> Where]
  <2>1. Outside(t)
    BY DEF Outside
  <2> QED BY <2>1, CallerHere DEF Still, NoNewTimer
<1>3. /\ UNCHANGED semVars /\ FALSE \in BOOLEAN /\ pendOn' = pendOn /\ DOMAIN mail = Thread
      /\ DOMAIN f = DOMAIN NoFrame /\ f.box \in Box /\ f.sched \in BOOLEAN
      /\ f.ticks \in WaitTicks \cup {0}
  BY DEF TrySend, MailInv, Suits, Mailing, semVars
<1>4. PICK at, g : /\ at \in {"copyIn", "full", "run"} /\ pc' = [pc EXCEPT ![t] = at]
                   /\ mail' = [mail EXCEPT ![t] = g] /\ Suits(g, at, NoList)
                   /\ k' = off \/ k' = SetScheduler(off, f.sched)
  <2>1. CASE /\ mail' = [mail EXCEPT ![t] = [f EXCEPT !.slot = ClaimedSlot(ring[f.box], f.end)]]
             /\ k' = off /\ pc' = [pc EXCEPT ![t] = "copyIn"]
    <3> DEFINE g == [f EXCEPT !.slot = ClaimedSlot(ring[f.box], f.end)]
    <3>1. /\ DOMAIN g = DOMAIN NoFrame /\ g.box \in Box /\ g.sched \in BOOLEAN
          /\ g.ticks \in WaitTicks \cup {0} /\ g.box = f.box
      BY <1>3 DEF NoFrame, Frame
    <3>2. mail' = [mail EXCEPT ![t] = g]
      BY <2>1
    <3> HIDE DEF g
    <3>3. Suits(g, "copyIn", NoList)
      BY <3>1, BoxSuits
    <3> QED BY <2>1, <3>2, <3>3
  <2>2. CASE k' = SetScheduler(off, f.sched) /\ f.ticks > 0
             /\ pc' = [pc EXCEPT ![t] = "full"] /\ mail' = [mail EXCEPT ![t] = f]
    <3>1. f.ticks \in WaitTicks
      BY <1>3, <2>2
    <3>2. Suits(f, "full", NoList)
      BY <1>3, <3>1, BoxSuits
    <3> QED BY <2>2, <3>2
  <2>3. CASE k' = SetScheduler(off, f.sched)
             /\ pc' = [pc EXCEPT ![t] = "run"] /\ mail' = [mail EXCEPT ![t] = NoFrame]
    <3>1. Suits(NoFrame, "run", NoList)
      BY NoFrameSuits DEF Mailing
    <3> QED BY <2>3, <3>1
  <2> HIDE DEF off
  <2> QED BY <2>1, <2>2, <2>3 DEF TrySend, off
<1>5. at \in Plain
  BY <1>4 DEF Plain, Where, InWait, Waiting, Yielding, Enabling
<1>6. ObjInv' /\ Elsewhere(BoxSems)
  <2> HIDE DEF off
  <2>1. CASE k' = off
    <3>1. k' = SetScheduler(k, FALSE)
      BY <2>1 DEF off
    <3> QED BY <1>2, <1>3, <1>4, <1>5, <3>1, SwitchKeeps
  <2>2. CASE k' = SetScheduler(off, f.sched)
    BY <1>1, <1>3, <1>4, <1>5, <2>2, SwitchKeeps
  <2> QED BY <1>4, <2>1, <2>2
<1>7. mail'[t] = g /\ pendOn'[t] = NoList /\ OtherFrames(t)
  BY <1>2, <1>3, <1>4 DEF OtherFrames
<1>8. MailInv'
  BY <1>2, <1>3, <1>4, <1>7, FrameKeeps
<1> QED BY <1>6, <1>8

\* The calls that wait for a semaphore of the box.
LEMMA ReceiveCallKeeps ==
  ASSUME KernelAssumption, SemaphoresAssumption, ObjectsAssumption, SleepAssumption,
         MailboxAssumption, ObjInv, MailInv, NEW t \in Thread, NEW b \in Box, NEW end, NEW ticks,
         \/ CallReceive(t, b, end)
         \/ ticks \in WaitTicks /\ CallTimedReceive(t, b, end, ticks)
  PROVE  ObjInv' /\ Elsewhere(BoxSems) /\ MailInv'
<1> DEFINE s == RecvSem[b]
<1>1. /\ Running(t) /\ pc[t] = "run"
      /\ Pend(t, s, "take") \/ (ticks \in WaitTicks /\ TimedPend(t, s, ticks, "take"))
      /\ \E n \in WaitTicks \cup {0} : mail' = [mail EXCEPT ![t] = Frame(b, end, n)]
  BY DEF CallReceive, CallTimedReceive, Calling
<1>2. s \in Sem /\ s \in BoxSems /\ s \notin Naps /\ s \in BlockList /\ \A u \in Thread : s # Nap[u]
  BY OwnBoxSems DEF SemaphoresAssumption, Naps
<1>3. "run" \in Plain /\ "take" \in Plain /\ pc[t] # "sleep" /\ Outside(t)
  BY <1>1 DEF Plain, Where, InWait, Waiting, Yielding, Enabling, Outside
<1>4. /\ pc \in [Thread -> Where] /\ pendOn \in [Thread -> BlockList \cup {NoList}]
      /\ pendOn[t] = NoList /\ DOMAIN mail = Thread
  BY <1>1, <1>3, CallerHere DEF MailInv
<1>5. ObjInv' /\ Elsewhere(BoxSems)
  <2> HIDE DEF s
  <2>1. CASE Pend(t, s, "take")
    BY <1>1, <1>2, <1>3, <2>1, PendKeeps
  <2>2. CASE ticks \in WaitTicks /\ TimedPend(t, s, ticks, "take")
    BY <1>1, <1>2, <1>3, <2>2, TimedPendKeeps
  <2> QED BY <1>1, <2>1, <2>2
<1>6. PICK f, n : mail' = [mail EXCEPT ![t] = f] /\ n \in WaitTicks \cup {0} /\ Begun(f, b, n)
  <2>1. PICK n \in WaitTicks \cup {0} : mail' = [mail EXCEPT ![t] = Frame(b, end, n)]
    BY <1>1
  <2> QED BY <2>1, FrameBegun
<1>7. PICK at, x : /\ pc' = [pc EXCEPT ![t] = at] /\ at # "full" /\ x \in {NoList, s}
                   /\ pendOn' = [pendOn EXCEPT ![t] = x]
  <2>1. CASE pendOn' = pendOn /\ pc' = [pc EXCEPT ![t] = "take"]
    <3>1. pendOn' = [pendOn EXCEPT ![t] = NoList]
      BY <1>4, <2>1
    <3> QED BY <2>1, <3>1
  <2>2. CASE /\ pendOn' = [pendOn EXCEPT ![t] = s]
             /\ pc' = [pc EXCEPT ![t] = "pend"] \/ pc' = [pc EXCEPT ![t] = "timed"]
    BY <2>2
  <2> QED BY <1>1, <2>1, <2>2 DEF Pend, TimedPend, Take, Wait
<1>8. mail'[t] = f /\ pendOn'[t] = x /\ OtherFrames(t)
  BY <1>4, <1>6, <1>7 DEF OtherFrames
<1>9. Suits(f, at, x)
  BY <1>6, <1>7, BoxSuits DEF Begun
<1>10. MailInv'
  BY <1>4, <1>7, <1>8, <1>9, FrameKeeps
<1> QED BY <1>5, <1>10

LEMMA SendCallKeeps ==
  ASSUME KernelAssumption, SemaphoresAssumption, ObjectsAssumption, SleepAssumption,
         MailboxAssumption, ObjInv, MailInv, NEW t \in Thread, NEW b \in Box, NEW end, NEW ticks,
         \/ CallSend(t, b, end)
         \/ ticks \in WaitTicks /\ CallTimedSend(t, b, end, ticks)
  PROVE  ObjInv' /\ Elsewhere(BoxSems) /\ MailInv'
<1>1. Running(t) /\ pc[t] = "run" /\ k.enabled \in BOOLEAN
  BY DEF CallSend, CallTimedSend, Calling, ObjInv, Good, KernelState
<1>2. pc[t] \in Plain
  BY <1>1 DEF Plain, Where, InWait, Waiting, Yielding, Enabling
<1>3. CASE CallSend(t, b, end)
  <2> DEFINE f == Frame(b, end, 0)
             g == [f EXCEPT !.sched = k.enabled]
  <2>1. f = Frame(b, end, 0) /\ TrySend(t, g, FALSE) /\ g = [f EXCEPT !.sched = k.enabled]
    BY <1>3 DEF CallSend
  <2> HIDE DEF f
  <2>2. Begun(f, b, 0)
    BY <2>1, FrameBegun
  <2>3. DOMAIN g = DOMAIN NoFrame /\ g.box = b /\ g.ticks = 0 /\ g.sched \in BOOLEAN
    BY <1>1, <2>2 DEF Begun, NoFrame, Frame
  <2> HIDE DEF g
  <2>4. Suits(g, "retry", NoList)
    BY <2>3, BoxSuits
  <2> QED BY <1>1, <1>2, <2>1, <2>4, TrySendKeeps
<1>4. CASE ticks \in WaitTicks /\ CallTimedSend(t, b, end, ticks)
  <2> DEFINE f == Frame(b, end, ticks)
  <2>1. f = Frame(b, end, ticks) /\ TrySend(t, f, FALSE) /\ ticks \in WaitTicks
    BY <1>4 DEF CallTimedSend
  <2> HIDE DEF f
  <2>2. Begun(f, b, ticks)
    BY <2>1, FrameBegun
  <2>3. Suits(f, "retry", NoList)
    BY <2>1, <2>2, BoxSuits DEF Begun
  <2> QED BY <1>1, <1>2, <2>1, <2>3, TrySendKeeps
<1> QED BY <1>3, <1>4

\* The waits for those semaphores, and their ends.
LEMMA BoxWaitKeeps ==
  ASSUME KernelAssumption, SemaphoresAssumption, ObjectsAssumption, SleepAssumption,
         MailboxAssumption, ObjInv, MailInv, NEW t \in Thread,
         SendWaits(t) \/ SendWakes(t) \/ ReceiveWakes(t)
  PROVE  ObjInv' /\ Elsewhere(BoxSems) /\ MailInv'
<1> DEFINE Goal == ObjInv' /\ Elsewhere(BoxSems) /\ MailInv'
           f == mail[t]
<1>1. /\ pc \in [Thread -> Where] /\ pendOn \in [Thread -> BlockList \cup {NoList}]
      /\ Suits(f, pc[t], pendOn[t]) /\ DOMAIN mail = Thread /\ f = mail[t]
  BY DEF ObjInv, MailInv
<1> HIDE DEF f
<1>2. "run" \in Plain /\ "take" \in Plain /\ "retry" \in Plain /\ "full" \in Plain
      /\ "full" \in Mailing
  BY DEF Plain, Where, InWait, Waiting, Yielding, Enabling, Mailing
<1>3. CASE SendWaits(t)
  <2> DEFINE b == f.box
             s == SendSem[b]
             n == f.ticks
  <2>1. /\ Running(t) /\ pc[t] = "full" /\ TimedPend(t, s, n, "retry") /\ mail' = mail
        /\ s = SendSem[b] /\ b = f.box
    BY <1>1, <1>3 DEF SendWaits, boxVars
  <2>2. /\ b \in Box /\ n \in WaitTicks /\ DOMAIN f = DOMAIN NoFrame /\ f.sched \in BOOLEAN
        /\ f.ticks \in WaitTicks
    BY <1>1, <1>2, <2>1 DEF Suits
  <2> HIDE DEF b, n, s
  <2>3. s \in Sem /\ s \in BoxSems /\ s \notin Naps
    BY <2>1, <2>2, OwnBoxSems
  <2>4. ObjInv' /\ Elsewhere(BoxSems)
    BY <1>2, <2>1, <2>2, <2>3, TimedPendKeeps
  <2>5. pendOn[t] = NoList
    <3>1. Outside(t)
      BY <1>2, <2>1 DEF Outside
    <3> QED BY <2>1, <3>1, CallerHere
  <2>6. PICK at, x : /\ pc' = [pc EXCEPT ![t] = at] /\ at # "full" /\ x \in {NoList, s}
                     /\ pendOn' = [pendOn EXCEPT ![t] = x]
    <3>1. CASE pendOn' = pendOn /\ pc' = [pc EXCEPT ![t] = "retry"]
      <4>1. pendOn' = [pendOn EXCEPT ![t] = NoList]
        BY <1>1, <2>5, <3>1
      <4> QED BY <3>1, <4>1
    <3>2. CASE pendOn' = [pendOn EXCEPT ![t] = s] /\ pc' = [pc EXCEPT ![t] = "timed"]
      BY <3>2
    <3> QED BY <2>1, <3>1, <3>2 DEF TimedPend, Take, Wait
  <2>7. mail'[t] = f /\ pendOn'[t] = x /\ OtherFrames(t)
    BY <1>1, <2>1, <2>6 DEF OtherFrames
  <2>8. Suits(f, at, x)
    BY <2>1, <2>2, <2>6, BoxSuits
  <2> QED BY <1>1, <2>4, <2>6, <2>7, <2>8, FrameKeeps
<1>4. ASSUME NEW b \in Box, NEW to, PendEnds(t, to), pendOn[t] \in {RecvSem[b], SendSem[b]},
             to \in {"run", "retry", "take"}, mail' = mail
      PROVE  Goal
  <2>1. /\ f.box = b /\ DOMAIN f = DOMAIN NoFrame /\ f.sched \in BOOLEAN
        /\ f.ticks \in WaitTicks \cup {0}
    BY <1>1, <1>4 DEF Suits
  <2>2. pendOn[t] \in BoxSems /\ to \in Plain
    BY <1>2, <1>4, OwnBoxSems
  <2>3. ObjInv' /\ Elsewhere(BoxSems)
    BY <1>4, <2>2, PendEndsKeeps
  <2>4. Suits(f, to, NoList)
    BY <1>4, <2>1, BoxSuits
  <2>5. /\ pc' = [pc EXCEPT ![t] = to] /\ pendOn'[t] = NoList /\ mail'[t] = f
        /\ OtherFrames(t)
    BY <1>1, <1>4 DEF PendEnds, OtherFrames
  <2> QED BY <1>1, <2>3, <2>4, <2>5, FrameKeeps
<1>5. ASSUME NEW b \in Box, pendOn[t] = RecvSem[b], PendEnds(t, "run"),
             mail' = [mail EXCEPT ![t] = NoFrame]
      PROVE  Goal
  <2>1. pendOn[t] \in BoxSems
    BY <1>5, OwnBoxSems
  <2>2. ObjInv' /\ Elsewhere(BoxSems)
    BY <1>2, <1>5, <2>1, PendEndsKeeps
  <2>3. Suits(NoFrame, "run", NoList)
    BY NoFrameSuits DEF Mailing
  <2>4. /\ pc' = [pc EXCEPT ![t] = "run"] /\ pendOn'[t] = NoList /\ mail'[t] = NoFrame
        /\ OtherFrames(t)
    BY <1>1, <1>5 DEF PendEnds, OtherFrames
  <2> QED BY <1>1, <2>2, <2>3, <2>4, FrameKeeps
<1>6. CASE SendWakes(t)
  <2>1. PICK b \in Box : pendOn[t] = SendSem[b]
    BY <1>6 DEF SendWakes
  <2>2. PendEnds(t, "retry") /\ mail' = mail
    BY <1>6 DEF SendWakes, boxVars
  <2> QED BY <1>4, <2>1, <2>2
<1>7. CASE ReceiveWakes(t)
  <2>1. f.box \in Box /\ pendOn[t] = RecvSem[f.box]
    BY <1>1, <1>7 DEF ReceiveWakes
  <2>2. \/ PendEnds(t, "run") /\ mail' = [mail EXCEPT ![t] = NoFrame]
        \/ PendEnds(t, "take") /\ mail' = mail
    BY <1>7 DEF ReceiveWakes
  <2>3. CASE PendEnds(t, "run") /\ mail' = [mail EXCEPT ![t] = NoFrame]
    BY <1>5, <2>1, <2>3
  <2>4. CASE PendEnds(t, "take") /\ mail' = mail
    BY <1>4, <2>1, <2>4
  <2> QED BY <2>2, <2>3, <2>4
<1> QED BY <1>3, <1>6, <1>7

\* What such a step does: g is the frame after it.
Copies(t, at, e, g) ==
  /\ at \in {"sent", "copyOut", "taken"} /\ pc' = [pc EXCEPT ![t] = at]
  /\ Running(t) /\ pc[t] \in {"copyIn", "take", "copyOut"} /\ UNCHANGED semVars
  /\ e \in {FALSE, mail[t].sched} /\ k' = SetScheduler(k, e)
  /\ mail'[t] = g /\ DOMAIN mail' = Thread /\ \A u \in Thread \ {t} : mail'[u] = mail[u]
  /\ DOMAIN g = DOMAIN mail[t] /\ g.box = mail[t].box /\ g.ticks = mail[t].ticks
  /\ g.sched \in {mail[t].sched, k.enabled}

\* Copying a letter, in or out: the scheduler is disabled before it and switched
\* back after it.
LEMMA CopyKeeps ==
  ASSUME KernelAssumption, SemaphoresAssumption, ObjectsAssumption, SleepAssumption,
         MailboxAssumption, ObjInv, MailInv, NEW t \in Thread,
         SendCopies(t) \/ ReceiveTakes(t) \/ ReceiveCopies(t)
  PROVE  ObjInv' /\ Elsewhere(BoxSems) /\ MailInv'
<1> DEFINE f == mail[t]
           b == f.box
<1>1. /\ pc \in [Thread -> Where] /\ pendOn \in [Thread -> BlockList \cup {NoList}]
      /\ Suits(f, pc[t], pendOn[t]) /\ DOMAIN mail = Thread /\ f = mail[t]
      /\ k.enabled \in BOOLEAN
  BY DEF ObjInv, MailInv, Good, KernelState
<1>2. \E at, e, g : Copies(t, at, e, g)
  <2>0. DOMAIN f = {"box", "end", "ticks", "sched", "slot", "letter"}
    BY <1>1 DEF Suits, NoFrame, Frame
  <2>1. CASE SendCopies(t)
    <3>1. /\ mail'[t] = f /\ DOMAIN mail' = Thread /\ \A u \in Thread \ {t} : mail'[u] = mail[u]
          /\ k' = SetScheduler(k, f.sched)
      BY <1>1, <2>1 DEF SendCopies
    <3>2. Copies(t, "sent", f.sched, f)
      BY <1>1, <2>1, <3>1 DEF SendCopies, Copies
    <3> QED BY <3>2
  <2>2. CASE ReceiveTakes(t)
    <3> DEFINE slot == ReleasedSlot(ring[f.box], f.end)
               g == [f EXCEPT !.slot = slot, !.sched = k.enabled]
    <3>1. /\ mail'[t] = g /\ DOMAIN mail' = Thread /\ \A u \in Thread \ {t} : mail'[u] = mail[u]
          /\ k' = SetScheduler(k, FALSE)
      BY <1>1, <2>2 DEF ReceiveTakes
    <3> HIDE DEF slot, f
    <3>2. DOMAIN g = DOMAIN f /\ g.box = f.box /\ g.ticks = f.ticks /\ g.sched = k.enabled
      BY <2>0
    <3> HIDE DEF g
    <3>3. Copies(t, "copyOut", FALSE, g)
      BY <1>1, <2>2, <3>1, <3>2 DEF ReceiveTakes, Copies
    <3> QED BY <3>3
  <2>3. CASE ReceiveCopies(t)
    <3> DEFINE letter == ring[f.box].slots[f.slot]
               g == [f EXCEPT !.letter = letter]
    <3>1. /\ mail'[t] = g /\ DOMAIN mail' = Thread /\ \A u \in Thread \ {t} : mail'[u] = mail[u]
          /\ k' = SetScheduler(k, f.sched)
      BY <1>1, <2>3 DEF ReceiveCopies
    <3> HIDE DEF letter, f
    <3>2. DOMAIN g = DOMAIN f /\ g.box = f.box /\ g.ticks = f.ticks /\ g.sched = f.sched
      BY <2>0
    <3> HIDE DEF g
    <3>3. Copies(t, "taken", f.sched, g)
      BY <1>1, <2>3, <3>1, <3>2 DEF ReceiveCopies, Copies
    <3> QED BY <3>3
  <2> QED BY <2>1, <2>2, <2>3
<1> HIDE DEF f, b
<1>3. PICK at, e, g : Copies(t, at, e, g)
  BY <1>2
<1>4. /\ at \in {"sent", "copyOut", "taken"} /\ pc' = [pc EXCEPT ![t] = at]
      /\ Running(t) /\ pc[t] \in {"copyIn", "take", "copyOut"} /\ UNCHANGED semVars
      /\ e \in {FALSE, f.sched} /\ k' = SetScheduler(k, e)
      /\ mail'[t] = g /\ DOMAIN mail' = Thread /\ \A u \in Thread \ {t} : mail'[u] = mail[u]
      /\ DOMAIN g = DOMAIN f /\ g.box = f.box /\ g.ticks = f.ticks
      /\ g.sched \in {f.sched, k.enabled}
  BY <1>3 DEF Copies, f
<1>5. pc[t] \in Plain /\ pc[t] \in Mailing /\ at \in Plain /\ at # "full"
  BY <1>4 DEF Plain, Where, InWait, Waiting, Yielding, Enabling, Mailing
<1>6. /\ b \in Box /\ b = f.box /\ DOMAIN f = DOMAIN NoFrame /\ f.sched \in BOOLEAN
      /\ f.ticks \in WaitTicks \cup {0}
  BY <1>1, <1>5 DEF Suits, b
<1>7. e \in BOOLEAN /\ g.sched \in BOOLEAN
  <2>1. e \in BOOLEAN
    <3>1. CASE e = FALSE
      BY <3>1
    <3>2. CASE e = f.sched
      BY <1>6, <3>2
    <3> QED BY <1>4, <3>1, <3>2
  <2>2. g.sched \in BOOLEAN
    <3>1. CASE g.sched = f.sched
      BY <1>6, <3>1
    <3>2. CASE g.sched = k.enabled
      BY <1>1, <3>2
    <3> QED BY <1>4, <3>1, <3>2
  <2> QED BY <2>1, <2>2
<1>8. Still(k, k) /\ Dispatches(k, FALSE, FALSE) /\ ~k.pendsv /\ pendOn[t] = NoList
  <2>1. Outside(t)
    BY <1>5 DEF Outside
  <2> QED BY <1>4, <2>1, CallerHere DEF Still, NoNewTimer
<1>9. ObjInv' /\ Elsewhere(BoxSems)
  BY <1>4, <1>5, <1>7, <1>8, SwitchKeeps
<1>10. Suits(g, at, NoList)
  BY <1>4, <1>5, <1>6, <1>7, BoxSuits
<1>11. mail'[t] = g /\ pendOn'[t] = NoList /\ OtherFrames(t)
  BY <1>1, <1>4, <1>8 DEF OtherFrames, semVars
<1>12. MailInv'
  BY <1>1, <1>4, <1>10, <1>11, FrameKeeps
<1> QED BY <1>9, <1>12

\* The post at the end.
LEMMA BoxPostKeeps ==
  ASSUME KernelAssumption, SemaphoresAssumption, ObjectsAssumption, SleepAssumption,
         MailboxAssumption, ObjInv, MailInv, NEW t \in Thread, SendPosts(t) \/ ReceivePosts(t)
  PROVE  ObjInv' /\ Elsewhere(BoxSems) /\ MailInv'
<1> DEFINE b == mail[t].box
<1>1. /\ pc \in [Thread -> Where] /\ Suits(mail[t], pc[t], pendOn[t]) /\ DOMAIN mail = Thread
  BY DEF ObjInv, MailInv
<1>2. /\ Running(t) /\ pc[t] \in {"sent", "taken"} /\ mail' = [mail EXCEPT ![t] = NoFrame]
      /\ PostBy(t, RecvSem[b]) \/ PostBy(t, SendSem[b])
  BY DEF SendPosts, ReceivePosts
<1>3. pc[t] \in Plain /\ pc[t] \in Mailing
  BY <1>2 DEF Plain, Where, InWait, Waiting, Yielding, Enabling, Mailing
<1>4. b \in Box
  BY <1>1, <1>3 DEF Suits
<1> HIDE DEF b
<1>5. PICK s : PostBy(t, s) /\ s \in Sem /\ s \in BoxSems /\ s \notin Naps
  BY <1>2, <1>4, OwnBoxSems
<1>6. ObjInv' /\ Elsewhere(BoxSems)
  BY <1>2, <1>3, <1>5, PostByKeeps
<1>7. PICK at \in {"run", "yield"} : pc' = [pc EXCEPT ![t] = at]
  BY <1>5 DEF PostBy
<1>8. pendOn[t] = NoList /\ pendOn' = pendOn
  <2>1. Outside(t)
    BY <1>3 DEF Outside
  <2> QED BY <1>2, <1>5, <2>1, CallerHere DEF PostBy
<1>9. at \notin Mailing
  BY <1>7 DEF Mailing
<1>10. Suits(NoFrame, at, NoList)
  BY <1>9, NoFrameSuits
<1>11. mail'[t] = NoFrame /\ pendOn'[t] = NoList /\ OtherFrames(t)
  BY <1>1, <1>2, <1>8 DEF OtherFrames
<1>12. MailInv'
  BY <1>1, <1>7, <1>10, <1>11, FrameKeeps
<1> QED BY <1>6, <1>12

\* Everything a thread does with a mailbox.
LEMMA BoxStepKeeps ==
  ASSUME KernelAssumption, SemaphoresAssumption, ObjectsAssumption, SleepAssumption,
         MailboxAssumption, ObjInv, MailInv, NEW t \in Thread, BoxStep(t)
  PROVE  ObjInv' /\ Elsewhere(BoxSems) /\ MailInv'
<1> DEFINE Goal == ObjInv' /\ Elsewhere(BoxSems) /\ MailInv'
<1>1. ASSUME NEW b \in Box, NEW end, NEW ticks \in WaitTicks,
             CallTimedSend(t, b, end, ticks) \/ CallTimedReceive(t, b, end, ticks)
      PROVE  Goal
  BY <1>1, SendCallKeeps, ReceiveCallKeeps
<1>2. ASSUME NEW b \in Box, NEW end, CallSend(t, b, end) \/ CallReceive(t, b, end)
      PROVE  Goal
  BY <1>2, SendCallKeeps, ReceiveCallKeeps
<1>3. ASSUME SendRetries(t) PROVE Goal
  <2>1. /\ Running(t) /\ pc[t] = "retry" /\ TrySend(t, mail[t], TRUE)
        /\ Suits(mail[t], pc[t], pendOn[t])
    BY <1>3 DEF SendRetries, MailInv
  <2>2. pc[t] \in Plain
    BY <2>1 DEF Plain, Where, InWait, Waiting, Yielding, Enabling
  <2>3. pendOn[t] = NoList
    <3>1. Outside(t)
      BY <2>2 DEF Outside
    <3> QED BY <2>1, <3>1, CallerHere
  <2> QED BY <2>1, <2>2, <2>3, TrySendKeeps
<1>4. ASSUME SendWaits(t) \/ SendWakes(t) \/ ReceiveWakes(t) PROVE Goal
  BY <1>4, BoxWaitKeeps
<1>5. ASSUME SendCopies(t) \/ ReceiveTakes(t) \/ ReceiveCopies(t) PROVE Goal
  BY <1>5, CopyKeeps
<1>6. ASSUME SendPosts(t) \/ ReceivePosts(t) PROVE Goal
  BY <1>6, BoxPostKeeps
<1> HIDE DEF Goal
<1>7. Goal
  BY <1>1, <1>2, <1>3, <1>4, <1>5, <1>6 DEF BoxStep
<1> QED BY <1>7 DEF Goal

-----------------------------------------------------------------------------
(* Message queues *)

QueueSems == {QueueSem[q] : q \in Queue}

\* Every queue has a semaphore of its own.
LEMMA OwnQueueSems ==
  ASSUME SemaphoresAssumption, ObjectsAssumption, SleepAssumption, MessageAssumption
  PROVE  \A q \in Queue :
           /\ QueueSem[q] \in Sem /\ QueueSem[q] \in QueueSems /\ QueueSem[q] \notin Naps
           /\ QueueSem[q] \notin Shared /\ QueueSem[q] \in BlockList
           /\ \A r \in Queue : QueueSem[q] = QueueSem[r] => q = r
<1>1. \A q, r \in DOMAIN QueueSem : QueueSem[q] = QueueSem[r] => q = r
  BY DEF ObjectsAssumption, IsInjective
<1>2. QueueSem \in [Queue -> Sem \ Shared] /\ Sem \subseteq BlockList
  BY DEF MessageAssumption, SemaphoresAssumption
<1>3. \A q \in Queue, t \in Thread : Nap[t] # QueueSem[q]
  BY DEF ObjectsAssumption
<1> QED BY <1>1, <1>2, <1>3 DEF QueueSems, Naps

\* Everything a thread does with a message queue.
LEMMA MessageStepKeeps ==
  ASSUME KernelAssumption, SemaphoresAssumption, ObjectsAssumption, SleepAssumption,
         MessageAssumption, ObjInv, NEW t \in Thread, MessageStep(t)
  PROVE  ObjInv' /\ Elsewhere(QueueSems)
<1> DEFINE Goal == ObjInv' /\ Elsewhere(QueueSems)
<1>0. "run" \in Plain /\ "pop" \in Plain
  BY DEF Plain, Where, InWait, Waiting, Yielding, Enabling
<1>1. ASSUME UNCHANGED allVars PROVE Goal
  BY <1>1, UnchangedKeeps
<1>2. ASSUME NEW q \in Queue, NEW x, CallSendMessage(t, q, x) PROVE Goal
  <2>1. PostInside(QueueSem[q])
    BY <1>2 DEF CallSendMessage
  <2> QED BY <2>1, OwnQueueSems, PostInsideKeeps
<1>3. ASSUME NEW q \in Queue, CallReceiveMessage(t, q) PROVE Goal
  <2> DEFINE s == QueueSem[q]
  <2>1. Running(t) /\ Outside(t) /\ pc[t] # "sleep" /\ Pend(t, s, "pop")
    BY <1>0, <1>3 DEF CallReceiveMessage, Calling, Outside
  <2>2. s \in Sem /\ s \in QueueSems /\ \A u \in Thread \ {t} : s # Nap[u]
    BY OwnQueueSems DEF Naps
  <2> HIDE DEF s
  <2> QED BY <1>0, <2>1, <2>2, PendKeeps
<1>4. ASSUME NEW q \in Queue, NEW ticks \in WaitTicks, CallTimedReceiveMessage(t, q, ticks)
      PROVE  Goal
  <2> DEFINE s == QueueSem[q]
  <2>1. Running(t) /\ pc[t] \in Plain /\ TimedPend(t, s, ticks, "pop")
    BY <1>0, <1>4 DEF CallTimedReceiveMessage, Calling
  <2>2. s \in Sem /\ s \in QueueSems /\ s \notin Naps
    BY OwnQueueSems
  <2> HIDE DEF s
  <2> QED BY <1>0, <2>1, <2>2, TimedPendKeeps
<1>5. ASSUME MessageWakes(t) PROVE Goal
  <2>1. from[t] \in Queue /\ pendOn[t] = QueueSem[from[t]]
    BY <1>5 DEF MessageWakes
  <2>2. pendOn[t] \in QueueSems
    BY <2>1, OwnQueueSems
  <2>3. PICK to \in Plain : PendEnds(t, to)
    BY <1>0, <1>5 DEF MessageWakes
  <2> QED BY <2>2, <2>3, PendEndsKeeps
<1>6. ASSUME MessagePops(t) PROVE Goal
  <2>1. /\ Running(t) /\ pc[t] = "pop" /\ pc' = [pc EXCEPT ![t] = "run"]
        /\ k' = k \/ k' = [k EXCEPT !.fault = TRUE]
        /\ UNCHANGED semVars
    BY <1>6 DEF MessagePops
  <2>2. Outside(t) /\ pc[t] # "sleep"
    BY <1>0, <2>1 DEF Outside
  <2>3. /\ Good(k) /\ Dispatches(k, FALSE, FALSE) /\ value \in [Sem -> Nat]
        /\ SleepTimer(t) \notin ToSet(k.timers)
    BY <2>1, <2>2, CallerHere
  <2>4. Still(k', k) /\ Dispatches(k', FALSE, FALSE)
    BY <2>1, <2>3, FaultStill
  <2> QED BY <1>0, <2>1, <2>2, <2>3, <2>4, QuietKeeps DEF semVars
<1>7. ASSUME CallPop(t) \/ \E x \in Message : CallPush(t, x) PROVE Goal
  BY <1>1, <1>7 DEF CallPop, CallPush
<1> HIDE DEF Goal
<1>8. ASSUME NEW q \in Queue,
             \/ \E x \in Message : CallSendMessage(t, q, x)
             \/ CallReceiveMessage(t, q)
             \/ \E ticks \in WaitTicks : CallTimedReceiveMessage(t, q, ticks)
      PROVE  Goal
  BY <1>2, <1>3, <1>4, <1>8
<1>9. Goal
  BY <1>5, <1>6, <1>7, <1>8 DEF MessageStep
<1> QED BY <1>9 DEF Goal

-----------------------------------------------------------------------------
(* Places that only one kind of call has *)

Local == Mailing \cup {"pop"} \cup Releasing

\* No thread reaches or leaves a place in L.
Aside(L) == \A u \in Thread : pc[u] \in L \/ pc'[u] \in L => pc'[u] = pc[u]

LEMMA MoveAside ==
  ASSUME pc \in [Thread -> Where], NEW t, NEW at, pc' = [pc EXCEPT ![t] = at],
         NEW L, pc[t] \notin L, at \notin L
  PROVE  Aside(L)
BY DEF Aside

\* A step of t from a place outside of L to another, or to where it is.
Moves(t, L) ==
  \/ pc' = pc
  \/ pc[t] \notin L /\ \E at : at \notin L /\ pc' = [pc EXCEPT ![t] = at]

LEMMA MovesAside ==
  ASSUME pc \in [Thread -> Where], NEW t, NEW L, Moves(t, L)
  PROVE  Aside(L)
BY MoveAside DEF Moves, Aside

LEMMA PlacesOfSem ==
  ASSUME NEW t, SemThreadStep(t)
  PROVE  Moves(t, Local)
BY DEF SemThreadStep, CallPost, CallPend, CallTimedPend, PendReturns, PostBy, Pend, TimedPend,
       Take, Wait, PendEnds, Calling, Moves, Local, Mailing, Releasing

LEMMA PlacesOfNotify ==
  ASSUME NEW t, NotifyStep(t)
  PROVE  Moves(t, Local)
BY DEF NotifyStep, CallSignal, CallWait, CallTimedWait, BlockOn, PendEnds, YieldBlocked,
       Calling, Moves, Local, Mailing, Releasing

LEMMA PlacesOfSleep ==
  ASSUME NEW t, SleepStep(t)
  PROVE  Moves(t, Local)
<1>1. ASSUME NEW n, CallSleep(t, n) \/ CallUSleep(t, n) PROVE Moves(t, Local)
  BY <1>1 DEF CallSleep, CallUSleep, BeginSleep, Calling, Moves, Local, Mailing, Releasing
<1>2. CASE SleepPends(t)
  BY <1>2 DEF SleepPends, Pend, Take, Wait, Moves, Local, Mailing, Releasing
<1>3. CASE SleepReturns(t)
  BY <1>3 DEF SleepReturns, PendEnds, Moves, Local, Mailing, Releasing
<1> QED BY <1>1, <1>2, <1>3 DEF SleepStep

LEMMA PlacesOfWaitFlags ==
  ASSUME NEW t, pc[t] = "run", NEW g, NEW wanted, NEW how, NEW data, NEW where,
         where \notin Local, WaitFlags(t, g, wanted, how, data, where)
  PROVE  Moves(t, Local)
<1>1. pc' = pc \/ pc' = [pc EXCEPT ![t] = where]
  BY DEF WaitFlags, allVars, semVars
<1>2. "run" \notin Local
  BY DEF Local, Mailing, Releasing
<1> QED BY <1>1, <1>2 DEF Moves

LEMMA PlacesOfFlags ==
  ASSUME NEW t, FlagStep(t)
  PROVE  Moves(t, Local)
<1>0. "pend" \notin Local /\ "timed" \notin Local /\ "run" \notin Local
  BY DEF Local, Mailing, Releasing
<1>1. ASSUME NEW g, NEW m, CallSet(t, g, m) \/ CallClear(t, g, m) PROVE Moves(t, Local)
  BY <1>1 DEF CallSet, Set, CallClear, allVars, Moves
<1>2. ASSUME NEW g, NEW m, NEW how, CallWaitFlags(t, g, m, how) PROVE Moves(t, Local)
  BY <1>0, <1>2, PlacesOfWaitFlags DEF CallWaitFlags, Calling
<1>3. ASSUME NEW g, NEW m, NEW how, NEW ticks, CallTimedWaitFlags(t, g, m, how, ticks)
      PROVE  Moves(t, Local)
  BY <1>0, <1>3, PlacesOfWaitFlags DEF CallTimedWaitFlags, Calling
<1>4. ASSUME FlagsReturn(t) PROVE Moves(t, Local)
  BY <1>0, <1>4 DEF FlagsReturn, PendEnds, Moves
<1> QED BY <1>1, <1>2, <1>3, <1>4 DEF FlagStep

LEMMA PlacesOfMutex ==
  ASSUME NEW t, MutexStep(t)
  PROVE  Moves(t, Mailing \cup {"pop"})
<1> DEFINE InMutex == {"run", "yield", "claim", "claimT", "inherit", "inheritT", "release",
                       "wake", "unblock", "block", "blockT", "pend", "timed"}
<1>0. \A at \in InMutex : at \notin Mailing \cup {"pop"}
  BY DEF Mailing
<1>1. ASSUME pc[t] \in InMutex, NEW at \in InMutex, pc' = [pc EXCEPT ![t] = at]
      PROVE  Moves(t, Mailing \cup {"pop"})
  BY <1>0, <1>1 DEF Moves
<1> HIDE DEF InMutex
<1>2. ASSUME NEW m \in Mutexes, CallClaim(t, m) \/ CallTimedClaim(t, m) \/ CallRelease(t, m)
      PROVE  Moves(t, Mailing \cup {"pop"})
  <2>1. pc[t] = "run" /\ \E at \in InMutex : pc' = [pc EXCEPT ![t] = at]
    BY <1>2 DEF CallClaim, CallTimedClaim, ClaimBegins, CallRelease, Calling, InMutex
  <2> QED BY <2>1, <1>1 DEF InMutex
<1>3. ASSUME ClaimSucceeds(t) \/ ReleaseCounts(t) PROVE Moves(t, Mailing \cup {"pop"})
  <2>1. pc[t] \in InMutex /\ \E at \in InMutex : pc' = [pc EXCEPT ![t] = at]
    BY <1>3 DEF ClaimSucceeds, ReleaseCounts, InMutexCall, Leave, InMutex
  <2> QED BY <2>1, <1>1
<1>4. ASSUME ClaimBlocks(t) PROVE Moves(t, Mailing \cup {"pop"})
  <2>1. pc[t] \in InMutex /\ \E at \in InMutex : pc' = [pc EXCEPT ![t] = at]
    BY <1>4 DEF ClaimBlocks, InMutexCall, InMutex
  <2> QED BY <2>1, <1>1
<1>5. ASSUME ClaimInherits(t) \/ YieldBlocked(t) PROVE Moves(t, Mailing \cup {"pop"})
  <2>1. pc[t] \in InMutex /\ \E at \in InMutex : pc' = [pc EXCEPT ![t] = at]
    BY <1>5 DEF ClaimInherits, YieldBlocked, InMutexCall, InMutex
  <2> QED BY <2>1, <1>1
<1>6. ASSUME ClaimReturns(t) PROVE Moves(t, Mailing \cup {"pop"})
  <2>1. pc[t] \in InMutex /\ \E at \in InMutex : pc' = [pc EXCEPT ![t] = at]
    BY <1>6 DEF ClaimReturns, PendEnds, InMutex
  <2> QED BY <2>1, <1>1
<1>7. ASSUME ReleaseChecks(t) \/ WakeNextChooses(t) \/ WakeNextUnBlocks(t)
      PROVE  Moves(t, Mailing \cup {"pop"})
  <2>1. pc[t] \in InMutex /\ (pc' = pc \/ \E at \in InMutex : pc' = [pc EXCEPT ![t] = at])
    BY <1>7 DEF ReleaseChecks, WakeNextChooses, WakeNextUnBlocks, ReleaseEnds, InMutexCall,
                Leave, InMutex
  <2>2. CASE pc' = pc
    BY <2>2 DEF Moves
  <2> QED BY <2>1, <2>2, <1>1
<1> QED BY <1>2, <1>3, <1>4, <1>5, <1>6, <1>7 DEF MutexStep

LEMMA PlacesOfMessage ==
  ASSUME NEW t, MessageStep(t)
  PROVE  Moves(t, Mailing \cup Releasing)
BY DEF MessageStep, CallPop, CallPush, CallSendMessage, PostInside, CallReceiveMessage,
       CallTimedReceiveMessage, Pend, TimedPend, Take, Wait, MessageWakes, MessagePops,
       PendEnds, allVars, Calling, Moves, Mailing,
       Releasing

LEMMA PlacesOfSending ==
  ASSUME NEW t, NEW f, NEW again, TrySend(t, f, again), pc[t] \notin {"pop"} \cup Releasing
  PROVE  Moves(t, {"pop"} \cup Releasing)
<1>1. \E at \in {"copyIn", "full", "run"} : pc' = [pc EXCEPT ![t] = at]
  BY DEF TrySend
<1> QED BY <1>1 DEF Moves, Releasing

LEMMA PlacesOfBox ==
  ASSUME NEW t, BoxStep(t)
  PROVE  Moves(t, {"pop"} \cup Releasing)
<1>1. ASSUME NEW b \in Box, NEW end \in Ends, CallSend(t, b, end) PROVE Moves(t, {"pop"} \cup Releasing)
  BY <1>1, PlacesOfSending DEF CallSend, Calling, Releasing
<1>2. ASSUME NEW b \in Box, NEW end \in Ends, NEW ticks \in WaitTicks, CallTimedSend(t, b, end, ticks)
      PROVE  Moves(t, {"pop"} \cup Releasing)
  BY <1>2, PlacesOfSending DEF CallTimedSend, Calling, Releasing
<1>3. ASSUME NEW b \in Box, NEW end \in Ends, CallReceive(t, b, end) PROVE Moves(t, {"pop"} \cup Releasing)
  BY <1>3 DEF CallReceive, Pend, Take, Wait, Calling, Moves, Releasing
<1>4. ASSUME NEW b \in Box, NEW end \in Ends, NEW ticks \in WaitTicks,
             CallTimedReceive(t, b, end, ticks)
      PROVE  Moves(t, {"pop"} \cup Releasing)
  BY <1>4 DEF CallTimedReceive, TimedPend, Take, Wait, Calling, Moves, Releasing
<1>5. ASSUME SendWaits(t) \/ SendWakes(t) \/ SendCopies(t) PROVE Moves(t, {"pop"} \cup Releasing)
  BY <1>5 DEF SendWaits, SendWakes, SendCopies, PendEnds, TimedPend, Take, Wait, Moves,
              Releasing
<1>6. ASSUME SendRetries(t) PROVE Moves(t, {"pop"} \cup Releasing)
  BY <1>6, PlacesOfSending DEF SendRetries, Releasing
<1>7. ASSUME SendPosts(t) \/ ReceivePosts(t) PROVE Moves(t, {"pop"} \cup Releasing)
  <2>1. pc[t] \notin {"pop"} \cup Releasing /\ \E at \in {"run", "yield"} : pc' = [pc EXCEPT ![t] = at]
    BY <1>7 DEF SendPosts, ReceivePosts, PostBy, Releasing
  <2> QED BY <2>1 DEF Moves, Releasing
<1>8. ASSUME ReceiveWakes(t) \/ ReceiveTakes(t) \/ ReceiveCopies(t) PROVE Moves(t, {"pop"} \cup Releasing)
  BY <1>8 DEF ReceiveWakes, ReceiveTakes, ReceiveCopies, PendEnds, Moves, Releasing
<1>9. ASSUME NEW b \in Box, NEW end \in Ends,
             \/ CallSend(t, b, end) \/ CallReceive(t, b, end)
             \/ \E ticks \in WaitTicks :
                  CallTimedSend(t, b, end, ticks) \/ CallTimedReceive(t, b, end, ticks)
      PROVE  Moves(t, {"pop"} \cup Releasing)
  BY <1>1, <1>2, <1>3, <1>4, <1>9
<1> QED BY <1>5, <1>6, <1>7, <1>8, <1>9 DEF BoxStep

-----------------------------------------------------------------------------
(* The thread that has the CPU *)

\* The scheduler and the CPU are as they were.
SameCpu(d, s) == d.current = s.current /\ d.enabled = s.enabled

LEMMA OffYields ==
  ASSUME NEW s, s \in KernelState, ~s.enabled, NEW d, d = Yield(s)
  PROVE  SameCpu(d, s)
BY DEF Yield, SameCpu, KernelState

\* With the scheduler disabled, no interrupt handler takes the CPU away.
LEMMA HandlersKeepCpu ==
  ASSUME k \in KernelState, Good(k), ~k.enabled, ~k.pendsv, Interrupt
  PROVE  SameCpu(k', k)
<1>1. CASE TickBegin
  BY <1>1 DEF TickBegin, SameCpu, KernelState
<1>2. CASE QuantumExpires
  <2> DEFINE a == QuantumCallback(k)
  <2>1. a \in KernelState /\ SameCpu(a, k)
    BY QuantumCallbackFacts DEF Good, SameThreads, SameCpu
  <2>2. k' = TimerRemove(a, QuantumTimer)
    BY <1>2 DEF QuantumExpires
  <2> HIDE DEF a
  <2>3. SameCpu(k', a)
    BY <2>1, <2>2 DEF TimerRemove, SameCpu, KernelState
  <2> QED BY <2>1, <2>3 DEF SameCpu
<1>3. CASE TickEnd
  <2> DEFINE d == [k EXCEPT !.inTimer = FALSE]
             y == Yield(d)
  <2>1. d \in KernelState /\ SameCpu(d, k) /\ ~d.enabled
    BY DEF SameCpu, KernelState
  <2>2. y = [d EXCEPT !.queued = TRUE]
    BY <2>1 DEF Yield
  <2>3. k' = [(IF d.qAdd THEN [y EXCEPT !.qAdd = FALSE] ELSE d) EXCEPT
                !.due = (IF d.qAdd THEN [y EXCEPT !.qAdd = FALSE] ELSE d).pendsv]
    BY <1>3 DEF TickEnd
  <2> HIDE DEF d
  <2>4. SameCpu(k', d)
    BY <2>1, <2>2, <2>3 DEF SameCpu, KernelState
  <2> QED BY <2>1, <2>4 DEF SameCpu
<1>4. ~PendSV
  BY DEF PendSV
<1> QED BY <1>1, <1>2, <1>3, <1>4 DEF Interrupt

\* Neither does a timeout, ...
LEMMA ExpiryKeepsCpu ==
  ASSUME KernelAssumption, ObjInv, NEW t \in Thread, WaitExpires(t)
  PROVE  SameCpu(k', k)
<1>1. PICK y \in BOOLEAN : y <=> pc[k.current] \in Yielding
  OBVIOUS
<1>2. PICK h \in BOOLEAN : h <=> pc[k.current] \in Enabling
  OBVIOUS
<1>3. Good(k) /\ Dispatches(k, y, h)
  BY <1>1, <1>2 DEF ObjInv, Dispatches
<1> DEFINE u == UnBlock(k, t)
           a == IF Preempts(u, t) THEN Yield(u) ELSE u
<1>4. u = UnBlock(k, t) /\ (a = u \/ a = Yield(u)) /\ k' = TimerRemove(a, WaitTimer(t))
  BY DEF WaitExpires
<1> HIDE DEF u, a
<1>5. Good(u) /\ Dispatches(u, y, h) /\ SameCpu(u, k)
  BY <1>3, <1>4, UnBlockDispatches DEF SameCpu
<1>6. Good(a) /\ SameCpu(a, u)
  <2>1. CASE a = u
    BY <1>5, <2>1 DEF SameCpu
  <2>2. CASE a = Yield(u)
    <3>1. Good(a) /\ SameThreads(a, u)
      BY <1>5, <2>2, YieldDispatches
    <3> QED BY <3>1 DEF SameThreads, SameCpu
  <2> QED BY <1>4, <2>1, <2>2
<1>7. SameCpu(k', a)
  <2>1. WaitTimer(t) \in Timer
    BY DEF Timer, WaitTimer
  <2> QED BY <1>4, <1>6, <2>1, TimerGone DEF TimersOnly, SameButTimers, SameThreads, SameCpu
<1> QED BY <1>5, <1>6, <1>7 DEF SameCpu

\* ... nor a post, a signal or a set that wakes threads.
LEMMA WakersKeepCpu ==
  ASSUME KernelAssumption, SemaphoresAssumption, NotifyAssumption, EventFlagAssumption,
         SleepAssumption, ObjInv,
         (\E s \in Sem : PostInside(s)) \/ NotifyInterrupt \/ FlagInterrupt
  PROVE  SameCpu(k', k)
<1>1. PICK y \in BOOLEAN : y <=> pc[k.current] \in Yielding
  OBVIOUS
<1>2. PICK h \in BOOLEAN : h <=> pc[k.current] \in Enabling
  OBVIOUS
<1>3. Good(k) /\ Dispatches(k, y, h)
  BY <1>1, <1>2 DEF ObjInv, Dispatches
<1>4. ASSUME NEW b \in BlockList, NEW who, NEW a, a = UnBlockEach(k, b, who), MayYield(k', a)
      PROVE  SameCpu(k', k)
  <2>1. Wakes(k', k, b)
    BY <1>3, <1>4, EachWakes
  <2> QED BY <2>1 DEF Wakes, SameCpu
<1>5. ASSUME NEW s \in Sem, PostInside(s) PROVE SameCpu(k', k)
  <2>1. s \in BlockList
    BY DEF SemaphoresAssumption
  <2>2. CASE k' = k
    BY <2>2 DEF SameCpu
  <2>3. CASE k.list[s] # <<>> /\ k' = PostAndYield(k, s)
    <3>1. Wakes(k', k, s)
      BY <1>3, <2>1, <2>3, PostWakes
    <3> QED BY <3>1 DEF Wakes, SameCpu
  <2> QED BY <1>5, <2>2, <2>3 DEF PostInside
<1>6. ASSUME NEW n \in Note, InterruptSignals(n) PROVE SameCpu(k', k)
  <2> DEFINE a == UnBlockEach(k, n, Thread)
  <2>1. n \in BlockList /\ MayYield(k', a)
    BY <1>6 DEF InterruptSignals, SignalAll, MayYield, NotifyAssumption
  <2>2. a = UnBlockEach(k, n, Thread)
    OBVIOUS
  <2> HIDE DEF a
  <2> QED BY <1>4, <2>1, <2>2
<1>7. ASSUME NEW g \in Group, NEW m, InterruptSets(g, m) PROVE SameCpu(k', k)
  <2> DEFINE who == Released(g, flags[g] \cup m)
             a == UnBlockEach(k, g, who)
  <2>1. g \in BlockList
    BY DEF EventFlagAssumption
  <2>2. k' = k \/ k' = Yield(a)
    BY <1>7 DEF InterruptSets, Set
  <2>3. a = UnBlockEach(k, g, who)
    OBVIOUS
  <2> HIDE DEF a, who
  <2>4. CASE k' = k
    BY <2>4 DEF SameCpu
  <2>5. CASE k' = Yield(a)
    BY <1>4, <2>1, <2>3, <2>5 DEF MayYield
  <2> QED BY <2>2, <2>4, <2>5
<1> QED BY <1>5, <1>6, <1>7 DEF NotifyInterrupt, FlagInterrupt

LEMMA SleepKeepsCpu ==
  ASSUME KernelAssumption, SemaphoresAssumption, SleepAssumption, ObjInv,
         NEW t \in Thread, SleepExpires(t)
  PROVE  SameCpu(k', k)
<1>1. PICK y \in BOOLEAN : y <=> pc[k.current] \in Yielding
  OBVIOUS
<1>2. PICK h \in BOOLEAN : h <=> pc[k.current] \in Enabling
  OBVIOUS
<1>3. Good(k) /\ Dispatches(k, y, h)
  BY <1>1, <1>2 DEF ObjInv, Dispatches
<1>4. PICK x : x = SleepTimer(t)
  OBVIOUS
<1>5. x \in Timer
  BY <1>4 DEF Timer, SleepTimer
<1>6. PICK s : s = Nap[t]
  OBVIOUS
<1>7. s \in BlockList
  BY <1>6, OwnNaps
<1>8. CASE k' = TimerRemove(k, x)
  BY <1>3, <1>5, <1>8, TimerGone DEF TimersOnly, SameButTimers, SameThreads, SameCpu
<1>9. CASE k.list[s] # <<>> /\ k' = TimerRemove(PostAndYield(k, s), x)
  <2>1. PICK a : a = PostAndYield(k, s)
    OBVIOUS
  <2>2. Good(a) /\ SameCpu(a, k)
    BY <1>3, <1>7, <1>9, <2>1, PostWakes DEF Wakes, SameCpu
  <2>3. SameCpu(k', a)
    BY <1>5, <1>9, <2>1, <2>2, TimerGone DEF TimersOnly, SameButTimers, SameThreads, SameCpu
  <2> QED BY <2>2, <2>3 DEF SameCpu
<1> QED BY <1>4, <1>6, <1>8, <1>9 DEF SleepExpires

\* Only the thread that has the CPU takes a step of its own.
LEMMA StepRuns ==
  ASSUME NEW t \in Thread, ObjectsThreadStep(t)
  PROVE  Running(t)
<1>1. ASSUME ThreadStep(t) PROVE Running(t)
  BY <1>1 DEF ThreadStep, CallStart, CallStop, CallExit, CallInit, CallSetPriority,
              CallSetScheduler, CallYield, FinishCall, Calling
<1>2. ASSUME SemThreadStep(t) PROVE Running(t)
  BY <1>2 DEF SemThreadStep, CallPost, CallPend, CallTimedPend, PendReturns, PendEnds, Calling
<1>3. ASSUME NotifyStep(t) PROVE Running(t)
  BY <1>3 DEF NotifyStep, CallSignal, CallWait, CallTimedWait, PendEnds, YieldBlocked, Calling
<1>4. ASSUME SleepStep(t) PROVE Running(t)
  BY <1>4 DEF SleepStep, CallSleep, CallUSleep, SleepPends, SleepReturns, PendEnds, Calling
<1>5. ASSUME FlagStep(t) PROVE Running(t)
  BY <1>5 DEF FlagStep, CallSet, CallClear, CallWaitFlags, CallTimedWaitFlags, FlagsReturn, PendEnds, Calling
<1>6. ASSUME MutexStep(t) PROVE Running(t)
  BY <1>6 DEF MutexStep, CallClaim, CallTimedClaim, CallRelease, ClaimSucceeds, ReleaseCounts,
              ReleaseChecks, WakeNextChooses, WakeNextUnBlocks, ClaimBlocks, ClaimInherits,
              ClaimReturns, InMutexCall, PendEnds, YieldBlocked, Calling
<1>7. ASSUME BoxStep(t) PROVE Running(t)
  BY <1>7 DEF BoxStep, CallSend, CallTimedSend, CallReceive, CallTimedReceive, SendWaits, SendWakes,
              SendRetries, SendCopies, SendPosts, ReceiveWakes, ReceiveTakes, ReceiveCopies,
              ReceivePosts, PendEnds, Calling
<1>8. ASSUME MessageStep(t) PROVE Running(t)
  BY <1>8 DEF MessageStep, CallPop, CallPush, CallSendMessage, CallReceiveMessage,
              CallTimedReceiveMessage, MessageWakes, MessagePops, PendEnds, Calling
<1> QED BY <1>1, <1>2, <1>3, <1>4, <1>5, <1>6, <1>7, <1>8 DEF ObjectsThreadStep

\* No interrupt takes the CPU away while the scheduler is disabled.
LEMMA InterruptsKeepCpu ==
  ASSUME KernelAssumption, SemaphoresAssumption, SleepAssumption, NotifyAssumption,
         EventFlagAssumption, ObjInv, ~k.enabled,
         BeginPass \/ PassGoesOn \/ SwitchContext \/ OtherInterrupt
  PROVE  SameCpu(k', k)
<1>1. Good(k) /\ k \in KernelState /\ ~k.pendsv /\ Shared \subseteq Sem
  BY DEF ObjInv, Good, Dispatches, SemaphoresAssumption
<1>2. CASE BeginPass \/ SwitchContext
  BY <1>1, <1>2, HandlersKeepCpu DEF BeginPass, SwitchContext, Interrupt
<1>3. CASE PassGoesOn
  BY <1>1, <1>3, HandlersKeepCpu, ExpiryKeepsCpu, SleepKeepsCpu
     DEF PassGoesOn, Interrupt, FlagWaitExpires
<1>4. CASE OtherInterrupt
  BY <1>1, <1>4, WakersKeepCpu DEF OtherInterrupt, InterruptPosts
<1> QED BY <1>2, <1>3, <1>4

\* All that a thread inside a Release does is go on with it.
LEMMA ReleaserReleases ==
  ASSUME NEW t, ObjectsThreadStep(t), pc[t] \in Releasing
  PROVE  MutexStep(t)
<1>1. pc[t] \notin {"run", "yield", "pend", "timed", "sleep", "block", "blockT", "pop"} \cup Mailing
  BY DEF Releasing, Mailing
<1>2. ~ThreadStep(t)
  BY <1>1 DEF ThreadStep, CallStart, CallStop, CallExit, CallInit, CallSetPriority,
              CallSetScheduler, CallYield, FinishCall, Calling
<1>3. ~SemThreadStep(t)
  BY <1>1 DEF SemThreadStep, CallPost, CallPend, CallTimedPend, PendReturns, PendEnds, Calling
<1>4. ~NotifyStep(t)
  BY <1>1 DEF NotifyStep, CallSignal, CallWait, CallTimedWait, PendEnds, YieldBlocked, Calling
<1>5. ~SleepStep(t)
  BY <1>1 DEF SleepStep, CallSleep, CallUSleep, SleepPends, SleepReturns, PendEnds, Calling
<1>6. ~FlagStep(t)
  BY <1>1 DEF FlagStep, CallSet, CallClear, CallWaitFlags, CallTimedWaitFlags, FlagsReturn, PendEnds, Calling
<1>7. ~BoxStep(t)
  BY <1>1 DEF BoxStep, CallSend, CallTimedSend, CallReceive, CallTimedReceive, SendWaits, SendWakes,
              SendRetries, SendCopies, SendPosts, ReceiveWakes, ReceiveTakes, ReceiveCopies,
              ReceivePosts, PendEnds, Calling, Mailing
<1>8. ~MessageStep(t)
  BY <1>1 DEF MessageStep, CallPop, CallPush, CallSendMessage, CallReceiveMessage,
              CallTimedReceiveMessage, MessageWakes, MessagePops, PendEnds, Calling
<1> QED BY <1>2, <1>3, <1>4, <1>5, <1>6, <1>7, <1>8 DEF ObjectsThreadStep

LEMMA ReleaserStays ==
  ASSUME KernelAssumption, SemaphoresAssumption, SleepAssumption, NotifyAssumption,
         EventFlagAssumption, ObjInv, WakeInv, ObjectsNext,
         NEW u \in Thread, pc[u] \in Releasing
  PROVE  MutexStep(u) \/ SameCpu(k', k)
<1>1. u = k.current /\ ~k.enabled
  BY DEF WakeInv, Occupies
<1>2. ASSUME NEW t \in Thread, ObjectsThreadStep(t) PROVE MutexStep(u)
  <2>1. Running(t)
    BY <1>2, StepRuns
  <2>2. t = u
    BY <1>1, <2>1 DEF Running
  <2> QED BY <1>2, <2>2, ReleaserReleases
<1> QED BY <1>1, <1>2, InterruptsKeepCpu DEF ObjectsNext

-----------------------------------------------------------------------------
(* Every step *)

\* The kinds of objects have no waits in common.
LEMMA Kinds ==
  ASSUME KernelAssumption, SemaphoresAssumption, SleepAssumption, NotifyAssumption,
         EventFlagAssumption, MutexAssumption, MailboxAssumption, MessageAssumption,
         ObjectsAssumption
  PROVE  /\ Mutexes \subseteq BlockList /\ Group \subseteq BlockList
         /\ BoxSems \subseteq BlockList /\ QueueSems \subseteq BlockList
         /\ (Shared \cup Naps \cup Note) \cap (Mutexes \cup Group \cup BoxSems \cup QueueSems) = {}
         /\ Mutexes \cap (Group \cup BoxSems \cup QueueSems) = {}
         /\ Group \cap (BoxSems \cup QueueSems) = {}
         /\ BoxSems \cap QueueSems = {}
<1>1. /\ Note \cap Sem = {} /\ Group \cap Sem = {} /\ Mutexes \cap Sem = {}
      /\ Note \cap Group = {} /\ Note \cap Mutexes = {} /\ Group \cap Mutexes = {}
      /\ Mutexes \subseteq BlockList /\ Group \subseteq BlockList
  BY DEF NotifyAssumption, EventFlagAssumption, MutexAssumption, ObjectsAssumption
<1>2. Shared \subseteq Sem /\ Naps \subseteq Sem /\ Sem \subseteq BlockList
  BY DEF SemaphoresAssumption, SleepAssumption, Naps
<1>3. BoxSems \subseteq Sem \ Shared /\ QueueSems \subseteq Sem \ Shared
  BY DEF MailboxAssumption, MessageAssumption, BoxSems, QueueSems
<1>4. BoxSems \cap Naps = {}
  BY OwnBoxSems DEF BoxSems
<1>5. QueueSems \cap Naps = {}
  BY OwnQueueSems DEF QueueSems
<1>6. BoxSems \cap QueueSems = {}
  BY DEF ObjectsAssumption, BoxSems, QueueSems
<1> QED BY <1>1, <1>2, <1>3, <1>4, <1>5, <1>6

\* All that a step about something else may do to a wait of thread u: a call of
\* the scheduler, or its timeout.
Passing(u) ==
  /\ pc'[u] = pc[u] /\ pendOn'[u] = pendOn[u]
  /\ \/ expired'[u] = expired[u] /\ Departs(k', k, u)
     \/ expired'[u] /\ pc[u] \in InTimedWait /\ k'.state[u] # "BLOCKED"

\* The step is about other objects than those of B.
Minding(B) == \A u \in Thread : pendOn[u] \in B \/ pendOn'[u] \in B => Passing(u)

LEMMA ElsewhereMinds ==
  ASSUME NEW B, Elsewhere(B), NEW C, C \subseteq BlockList, B \cap C = {}
  PROVE  Minding(C)
<1> SUFFICES ASSUME NEW u \in Thread, pendOn[u] \in C \/ pendOn'[u] \in C PROVE Passing(u)
  BY DEF Minding
<1>1. Untouched(u)
  BY DEF Elsewhere
<1> QED BY <1>1 DEF Untouched, Passing, Departs

\* The frames of the calls of mailboxes suit a step that is not about them.
LEMMA FrameStays ==
  ASSUME MailInv, mail' = mail, Minding(BoxSems), Aside(Mailing)
  PROVE  MailInv'
<1>1. ASSUME NEW u \in Thread PROVE Suits(mail[u], pc'[u], pendOn'[u])
  <2>1. Suits(mail[u], pc[u], pendOn[u])
    BY DEF MailInv
  <2>2. pc'[u] \in Mailing => pc'[u] = pc[u]
    BY DEF Aside
  <2>3. ASSUME NEW b \in Box, pendOn'[u] \in {RecvSem[b], SendSem[b]} PROVE pendOn'[u] = pendOn[u]
    BY <2>3 DEF BoxSems, Minding, Passing
  <2>4. "full" \in Mailing
    BY DEF Mailing
  <2> QED BY <2>1, <2>2, <2>3, <2>4 DEF Suits
<1> QED BY <1>1 DEF MailInv

\* A step that is not about mutexes.
LEMMA WakeStays ==
  ASSUME WakeInv, UNCHANGED mutexVars, Minding(Mutexes), Aside(Releasing),
         \A u \in Thread : pc[u] \in Releasing => SameCpu(k', k)
  PROVE  WakeInv'
<1>1. waking' = waking /\ waking \in [Thread -> Wakings]
  BY DEF mutexVars, WakeInv
<1>2. ASSUME NEW u \in Thread, pc'[u] \in Releasing
      PROVE  /\ pc[u] = pc'[u] /\ u = k'.current /\ ~k'.enabled
             /\ pendOn[u] \in Mutexes /\ pendOn'[u] = pendOn[u]
  <2>1. pc[u] = pc'[u] /\ pc[u] \in Releasing
    BY <1>2 DEF Aside
  <2>2. u = k.current /\ ~k.enabled /\ pendOn[u] \in Mutexes /\ SameCpu(k', k)
    BY <2>1 DEF WakeInv, Occupies
  <2>3. pendOn'[u] = pendOn[u]
    BY <2>2 DEF Minding, Passing
  <2> QED BY <2>1, <2>2, <2>3 DEF SameCpu
<1>3. ASSUME NEW u \in Thread PROVE Occupies(u)'
  BY <1>2 DEF Occupies
<1>4. ASSUME NEW u \in Thread PROVE ChosenWaits(u)'
  <2> DEFINE h == waking[u].chosen
  <2>1. h \in Thread \cup {NoList}
    BY <1>1 DEF Wakings
  <2>2. ASSUME pc'[u] = "unblock", h # NoList
        PROVE  h # u /\ pendOn'[h] = pendOn'[u] /\ pc'[h] \in Waiting
    <3>1. pc'[u] \in Releasing
      BY <2>2 DEF Releasing
    <3>2. pc[u] = "unblock" /\ pendOn[u] \in Mutexes /\ pendOn'[u] = pendOn[u]
      BY <1>2, <2>2, <3>1
    <3>3. h # u /\ pendOn[h] = pendOn[u] /\ pc[h] \in Waiting
      BY <2>2, <3>2 DEF WakeInv, ChosenWaits
    <3>4. pc'[h] = pc[h] /\ pendOn'[h] = pendOn[h]
      BY <2>1, <2>2, <3>2, <3>3 DEF Minding, Passing
    <3> QED BY <3>2, <3>3, <3>4
  <2> QED BY <1>1, <2>2 DEF ChosenWaits
<1> QED BY <1>1, <1>3, <1>4 DEF WakeInv

\* Nobody is inside a Release after a step of t that is none of it.
LEMMA NobodyReleases ==
  ASSUME WakeInv, ObjInv, NEW t \in Thread, t = k.current, NEW at, pc' = [pc EXCEPT ![t] = at],
         at \notin Releasing, waking' = waking \/ waking' = [waking EXCEPT ![t] = NotWaking]
  PROVE  WakeInv'
<1>1. \A u \in Thread : pc'[u] \notin Releasing
  BY DEF WakeInv, Occupies, ObjInv
<1>2. waking' \in [Thread -> Wakings]
  <2>1. NotWaking \in Wakings
    BY DEF NotWaking, Waking, Wakings
  <2> QED BY <2>1 DEF WakeInv
<1>3. "unblock" \in Releasing
  BY DEF Releasing
<1> QED BY <1>1, <1>2, <1>3 DEF WakeInv, Occupies, ChosenWaits

\* Thread t is alone inside a Release, at a place where it has chosen nobody.
LEMMA AloneReleases ==
  ASSUME WakeInv, ObjInv, NEW t \in Thread, t = k.current, NEW at, pc' = [pc EXCEPT ![t] = at],
         at \in {"release", "wake"}, NEW w, w \in Wakings, waking' = [waking EXCEPT ![t] = w],
         k'.current = t, ~k'.enabled, pendOn'[t] \in Mutexes
  PROVE  WakeInv'
<1>1. \A u \in Thread : u # t => pc'[u] \notin Releasing
  BY DEF WakeInv, Occupies, ObjInv
<1>2. pc'[t] = at /\ at # "unblock" /\ "unblock" \in Releasing
  BY DEF ObjInv, Releasing
<1>3. waking' \in [Thread -> Wakings]
  BY DEF WakeInv
<1>4. ASSUME NEW u \in Thread PROVE Occupies(u)'
  BY <1>1 DEF Occupies
<1>5. ASSUME NEW u \in Thread PROVE ChosenWaits(u)'
  BY <1>1, <1>2 DEF ChosenWaits
<1> QED BY <1>3, <1>4, <1>5 DEF WakeInv

LEMMA ReleaseCallWakes ==
  ASSUME KernelAssumption, ObjInv, WakeInv, NEW t \in Thread, NEW m \in Mutexes, CallRelease(t, m)
  PROVE  WakeInv'
<1>1. /\ Running(t) /\ pc[t] = "run" /\ k' = SetScheduler(k, FALSE)
      /\ pc' = [pc EXCEPT ![t] = "release"] /\ pendOn' = [pendOn EXCEPT ![t] = m]
      /\ waking' = waking
  BY DEF CallRelease, Calling, mutexVars
<1>2. t = k.current
  BY <1>1 DEF Running
<1>3. k'.current = k.current /\ ~k'.enabled
  BY <1>1 DEF SetScheduler, ObjInv, Good, KernelState
<1>4. pendOn'[t] = m
  BY <1>1 DEF ObjInv
<1>5. waking' = [waking EXCEPT ![t] = waking[t]] /\ waking[t] \in Wakings
  BY <1>1 DEF WakeInv
<1> QED BY <1>1, <1>2, <1>3, <1>4, <1>5, AloneReleases

LEMMA ReleaseChecksWakes ==
  ASSUME KernelAssumption, ObjInv, WakeInv, NEW t \in Thread, ReleaseChecks(t)
  PROVE  WakeInv'
<1>1. /\ Running(t) /\ pc[t] = "release" /\ pendOn[t] \in Mutexes /\ t = k.current
      /\ pc[t] \in Releasing
  BY DEF ReleaseChecks, InMutexCall, Running, Releasing
<1>2. CASE /\ \E at \in {"run", "yield"} : pc' = [pc EXCEPT ![t] = at]
           /\ waking' = [waking EXCEPT ![t] = NotWaking]
  <2>1. PICK at \in {"run", "yield"} : pc' = [pc EXCEPT ![t] = at]
    BY <1>2
  <2>2. at \notin Releasing
    BY DEF Releasing
  <2> QED BY <1>1, <1>2, <2>1, <2>2, NobodyReleases
<1>3. ASSUME k' = k \/ k' = SetPriority(k, t, k.prio[t]), pc' = [pc EXCEPT ![t] = "wake"],
             pendOn' = pendOn, NEW y \in BOOLEAN,
             waking' = [waking EXCEPT ![t] = Waking(NoList, y)]
      PROVE  WakeInv'
  <2>1. Readies(k', k, t)
    BY <1>1, <1>3, RestoreReadies
  <2>2. k'.current = k.current /\ k'.enabled = k.enabled
    BY <2>1 DEF Readies
  <2>3. ~k.enabled
    BY <1>1 DEF WakeInv, Occupies
  <2>4. PICK w \in Wakings : w = Waking(NoList, y)
    BY DEF Waking, Wakings
  <2> QED BY <1>1, <1>3, <2>2, <2>3, <2>4, AloneReleases
<1>4. \/ /\ \E at \in {"run", "yield"} : pc' = [pc EXCEPT ![t] = at]
         /\ waking' = [waking EXCEPT ![t] = NotWaking]
      \/ /\ k' = k \/ k' = SetPriority(k, t, k.prio[t])
         /\ pc' = [pc EXCEPT ![t] = "wake"] /\ pendOn' = pendOn
         /\ \E y \in BOOLEAN : waking' = [waking EXCEPT ![t] = Waking(NoList, y)]
  BY DEF ReleaseChecks, ReleaseEnds, Leave, semVars
<1> QED BY <1>2, <1>3, <1>4

LEMMA WakeNextChoosesWakes ==
  ASSUME KernelAssumption, MutexAssumption, ObjInv, WakeInv, NEW t \in Thread, WakeNextChooses(t)
  PROVE  WakeInv'
<1>1. /\ Running(t) /\ pc[t] = "wake" /\ t = k.current /\ k' = k /\ pendOn' = pendOn
      /\ pc' = [pc EXCEPT ![t] = "unblock"] /\ pc[t] \in Releasing
  BY DEF WakeNextChooses, InMutexCall, Running, semVars, Releasing
<1>2. PICK m \in Mutexes : pendOn[t] = m
  BY DEF WakeNextChooses, InMutexCall
<1>3. PICK h : h = HighestWaiter(k, m)
  OBVIOUS
<1>4. waking' = [waking EXCEPT ![t].chosen = h] /\ waking \in [Thread -> Wakings]
  BY <1>2, <1>3 DEF WakeNextChooses, WakeInv
<1>5. /\ Good(k) /\ k.state[t] = "READY" /\ m \in BlockList /\ m # NoList
      /\ pc \in [Thread -> Where]
  BY <1>1, KernelAssumption, MutexCaller DEF Releasing, KernelAssumption, MutexAssumption
<1>7. h = NoList \/ (h \in Thread /\ k.state[h] = "BLOCKED" /\ k.where[h] = m)
  <2>1. CASE k.list[m] = <<>>
    BY <1>3, <2>1 DEF HighestWaiter
  <2>2. CASE k.list[m] # <<>>
    <3>1. h = Head(k.list[m])
      BY <1>3, <2>2 DEF HighestWaiter
    <3> QED BY <1>5, <2>2, <3>1, HeadWaits
  <2> QED BY <2>1, <2>2
<1>8. h # NoList => h # t /\ pendOn[h] = m /\ pc[h] \in Waiting
  BY <1>5, <1>7 DEF ObjInv, Placed
<1>9. /\ waking' \in [Thread -> Wakings] /\ waking'[t].chosen = h
  <2>1. h \in Thread \cup {NoList}
    BY <1>7
  <2> QED BY <1>4, <2>1 DEF Wakings
<1>10. \A u \in Thread : u # t => pc'[u] \notin Releasing
  BY <1>1, <1>5 DEF WakeInv, Occupies
<1>11. ASSUME NEW u \in Thread PROVE Occupies(u)'
  BY <1>1, <1>2, <1>10 DEF Occupies, WakeInv
<1>12. ASSUME NEW u \in Thread PROVE ChosenWaits(u)'
  <2>1. CASE u = t
    BY <1>1, <1>2, <1>5, <1>7, <1>8, <1>9, <2>1 DEF ChosenWaits
  <2>2. CASE u # t
    BY <1>10, <2>2 DEF ChosenWaits, Releasing
  <2> QED BY <2>1, <2>2
<1> QED BY <1>9, <1>11, <1>12 DEF WakeInv

LEMMA WakeNextUnBlocksWakes ==
  ASSUME KernelAssumption, ObjInv, WakeInv, NEW t \in Thread, WakeNextUnBlocks(t)
  PROVE  WakeInv'
<1>1. t = k.current
  BY DEF WakeNextUnBlocks, InMutexCall, Running
<1>2. CASE k' = [k EXCEPT !.fault = TRUE] /\ UNCHANGED <<pc, semVars, mutexVars>>
  <2>1. k'.current = k.current /\ k'.enabled = k.enabled
    BY <1>2 DEF ObjInv, Good, KernelState
  <2>2. pc' = pc /\ pendOn' = pendOn /\ waking' = waking
    BY <1>2 DEF semVars, mutexVars
  <2> QED BY <2>1, <2>2 DEF WakeInv, Occupies, ChosenWaits
<1>3. CASE /\ \E at \in {"run", "yield"} : pc' = [pc EXCEPT ![t] = at]
           /\ waking' = [waking EXCEPT ![t] = NotWaking]
  <2>1. PICK at \in {"run", "yield"} : pc' = [pc EXCEPT ![t] = at]
    BY <1>3
  <2>2. at \notin Releasing
    BY DEF Releasing
  <2> QED BY <1>1, <1>3, <2>1, <2>2, NobodyReleases
<1> QED BY <1>2, <1>3 DEF WakeNextUnBlocks, ReleaseEnds, Leave

\* Any other step about mutexes.
LEMMA MutexWakes ==
  ASSUME KernelAssumption, MutexAssumption, ObjInv, WakeInv, NEW t \in Thread, MutexStep(t)
  PROVE  WakeInv'
<1> DEFINE Outer == {"run", "claim", "claimT", "inherit", "inheritT", "block", "blockT",
                     "pend", "timed"}
<1>1. ASSUME Running(t), \E at \in Outer : pc' = [pc EXCEPT ![t] = at], waking' = waking
      PROVE  WakeInv'
  <2>1. t = k.current
    BY <1>1 DEF Running
  <2>2. PICK at \in Outer : pc' = [pc EXCEPT ![t] = at]
    BY <1>1
  <2>3. at \notin Releasing
    BY DEF Releasing
  <2> QED BY <1>1, <2>1, <2>2, <2>3, NobodyReleases
<1>2. ASSUME NEW m \in Mutexes, CallClaim(t, m) \/ CallTimedClaim(t, m) PROVE WakeInv'
  BY <1>1, <1>2 DEF CallClaim, CallTimedClaim, ClaimBegins, Calling, mutexVars
<1>3. ASSUME ClaimSucceeds(t) \/ ReleaseCounts(t) \/ ClaimReturns(t) PROVE WakeInv'
  BY <1>1, <1>3 DEF ClaimSucceeds, ReleaseCounts, ClaimReturns, Leave, InMutexCall, PendEnds
<1>4. ASSUME ClaimBlocks(t) PROVE WakeInv'
  BY <1>1, <1>4 DEF ClaimBlocks, InMutexCall, mutexVars
<1>5. ASSUME ClaimInherits(t) PROVE WakeInv'
  BY <1>1, <1>5 DEF ClaimInherits, InMutexCall
<1>6. ASSUME YieldBlocked(t), UNCHANGED mutexVars PROVE WakeInv'
  BY <1>1, <1>6 DEF YieldBlocked, mutexVars
<1> HIDE DEF Outer
<1>7. ASSUME NEW m \in Mutexes, CallClaim(t, m) \/ CallTimedClaim(t, m) \/ CallRelease(t, m)
      PROVE  WakeInv'
  BY <1>2, <1>7, ReleaseCallWakes
<1> QED BY <1>3, <1>4, <1>5, <1>6, <1>7, ReleaseChecksWakes, WakeNextChoosesWakes,
           WakeNextUnBlocksWakes DEF MutexStep

\* What a step is to the objects of each kind: one of theirs, or not about them.
MutexSide == \/ \E t \in Thread : MutexStep(t)
             \/ UNCHANGED mutexVars /\ Minding(Mutexes) /\ Aside(Releasing)
FlagSide  == \/ \E t \in Thread : FlagStep(t) \/ FlagWaitExpires(t)
             \/ FlagInterrupt
             \/ UNCHANGED flagVars /\ Minding(Group)
BoxSide   == \/ \E t \in Thread : BoxStep(t)
             \/ UNCHANGED boxVars /\ Minding(BoxSems) /\ Aside(Mailing)
QueueSide == \/ \E t \in Thread : MessageStep(t)
             \/ UNCHANGED messageVars /\ Minding(QueueSems) /\ Aside({"pop"})

\* What every step does to the threads and their calls.
Sides == ObjInv' /\ MailInv' /\ MutexSide /\ FlagSide /\ BoxSide /\ QueueSide

LEMMA AsideLocal ==
  ASSUME Aside(Local)
  PROVE  Aside(Mailing) /\ Aside({"pop"}) /\ Aside(Releasing)
BY DEF Aside, Local

LEMMA AsideApart ==
  /\ Aside(Mailing \cup {"pop"}) => Aside(Mailing) /\ Aside({"pop"})
  /\ Aside(Mailing \cup Releasing) => Aside(Mailing) /\ Aside(Releasing)
  /\ Aside({"pop"} \cup Releasing) => Aside({"pop"}) /\ Aside(Releasing)
BY DEF Aside

\* A step about none of these.
LEMMA OtherSteps ==
  ASSUME MailInv, ObjInv', UNCHANGED objectVars, Aside(Local),
         Minding(Mutexes), Minding(Group), Minding(BoxSems), Minding(QueueSems)
  PROVE  Sides
<1>1. /\ UNCHANGED mutexVars /\ UNCHANGED flagVars /\ UNCHANGED boxVars
      /\ UNCHANGED messageVars /\ mail' = mail
  BY DEF objectVars, boxVars
<1> QED BY <1>1, AsideLocal, FrameStays DEF Sides, MutexSide, FlagSide, BoxSide, QueueSide

LEMMA ElsewhereSteps ==
  ASSUME KernelAssumption, SemaphoresAssumption, SleepAssumption, NotifyAssumption,
         EventFlagAssumption, MutexAssumption, MailboxAssumption, MessageAssumption,
         ObjectsAssumption, MailInv, ObjInv', UNCHANGED objectVars, Aside(Local),
         NEW B, Elsewhere(B), B \subseteq Shared \cup Naps \cup Note
  PROVE  Sides
<1>1. /\ B \cap Mutexes = {} /\ B \cap Group = {} /\ B \cap BoxSems = {} /\ B \cap QueueSems = {}
      /\ Mutexes \subseteq BlockList /\ Group \subseteq BlockList
      /\ BoxSems \subseteq BlockList /\ QueueSems \subseteq BlockList
  BY Kinds
<1>2. Minding(Mutexes) /\ Minding(Group) /\ Minding(BoxSems) /\ Minding(QueueSems)
  BY <1>1, ElsewhereMinds
<1> QED BY <1>2, OtherSteps

\* The timeout of a wait passes every wait.
LEMMA ExpiresMinds ==
  ASSUME KernelAssumption, SemaphoresAssumption, ObjectsAssumption, ObjInv,
         NEW t \in Thread, WaitExpires(t), NEW C
  PROVE  Minding(C)
<1>1. /\ pc[t] \in InTimedWait /\ k'.state[t] # "BLOCKED" /\ pc' = pc /\ Alone(t)
  BY WaitExpiresKeeps
<1>2. pendOn' = pendOn /\ expired' = [expired EXCEPT ![t] = TRUE] /\ expired \in [Thread -> BOOLEAN]
  BY DEF WaitExpires, ObjInv
<1>3. expired'[t]
  BY <1>2
<1>4. ASSUME NEW u \in Thread, u # t PROVE Passing(u)
  <2>1. k'.state[u] = k.state[u] /\ k'.where[u] = k.where[u] /\ expired'[u] = expired[u]
    BY <1>1, <1>4 DEF Alone
  <2> QED BY <1>1, <1>2, <2>1 DEF Passing, Departs
<1>5. Passing(t)
  BY <1>1, <1>2, <1>3 DEF Passing
<1> QED BY <1>4, <1>5 DEF Minding

\* A call of the scheduler.
LEMMA ThreadStepMinds ==
  ASSUME KernelAssumption, SemaphoresAssumption, ObjectsAssumption, "Init" \notin Calls,
         ObjInv, NEW t \in Thread, ThreadStep(t), UNCHANGED semVars, NEW C, C \subseteq BlockList
  PROVE  Minding(C)
<1>1. /\ \A u \in Thread : Departs(k', k, u)
      /\ pc[t] \in {"run", "yield"} /\ \E at \in {"run", "yield"} : pc' = [pc EXCEPT ![t] = at]
  BY ThreadStepKeeps
<1> SUFFICES ASSUME NEW u \in Thread, pendOn[u] \in C \/ pendOn'[u] \in C PROVE Passing(u)
  BY DEF Minding
<1>2. pendOn' = pendOn /\ expired' = expired /\ pc \in [Thread -> Where]
  BY DEF semVars, ObjInv
<1>3. pendOn[u] # NoList /\ Placed(u)
  BY <1>2 DEF KernelAssumption, ObjInv
<1>4. u # t
  BY <1>1, <1>3 DEF Placed, InWait, Waiting
<1> QED BY <1>1, <1>2, <1>4 DEF Passing

\* No step of the scheduler or of an interrupt is about places of a call.
LEMMA SamePlaces ==
  ASSUME pc' = pc, NEW L
  PROVE  Aside(L)
BY DEF Aside

LEMMA EverySide ==
  ASSUME KernelAssumption, SemaphoresAssumption, SleepAssumption, NotifyAssumption,
         EventFlagAssumption, MutexAssumption, MailboxAssumption, MessageAssumption,
         ObjectsAssumption, "Init" \notin Calls, ObjInv, MailInv, WakeInv, ObjectsNext
  PROVE  Sides
<1>0. pc \in [Thread -> Where]
  BY DEF ObjInv
<1>1. ASSUME Interrupt, UNCHANGED semVars, UNCHANGED objectVars PROVE Sides
  <2>1. ObjInv' /\ pc' = pc /\ Elsewhere({})
    BY <1>1, InterruptKeeps
  <2> QED BY <1>1, <2>1, SamePlaces, ElsewhereSteps
<1>2. ASSUME NEW t \in Thread, WaitExpires(t), UNCHANGED objectVars PROVE Sides
  <2>1. ObjInv' /\ pc' = pc
    BY <1>2, WaitExpiresKeeps
  <2> QED BY <1>2, <2>1, SamePlaces, ExpiresMinds, OtherSteps
<1>3. ASSUME NEW t \in Thread, SleepExpires(t), UNCHANGED objectVars PROVE Sides
  <2>1. ObjInv' /\ pc' = pc /\ Elsewhere(Naps)
    BY <1>3, SleepExpiresKeeps
  <2> QED BY <1>3, <2>1, SamePlaces, ElsewhereSteps
<1>4. ASSUME NEW t \in Thread, FlagWaitExpires(t), UNCHANGED <<mutexVars, boxVars, messageVars>>
      PROVE  Sides
  <2>1. WaitExpires(t) /\ mail' = mail
    BY <1>4 DEF FlagWaitExpires, boxVars
  <2>2. ObjInv' /\ pc' = pc
    BY <2>1, WaitExpiresKeeps
  <2>3. Minding(Mutexes) /\ Minding(BoxSems) /\ Minding(QueueSems)
    BY <2>1, ExpiresMinds
  <2>4. MailInv' /\ Aside(Mailing) /\ Aside({"pop"}) /\ Aside(Releasing)
    BY <2>1, <2>2, <2>3, SamePlaces, FrameStays
  <2> QED BY <1>4, <2>2, <2>3, <2>4 DEF Sides, MutexSide, FlagSide, BoxSide, QueueSide
<1>5. ASSUME NEW s \in Shared, InterruptPosts(s), UNCHANGED objectVars PROVE Sides
  <2>1. s \in Sem /\ s \notin Naps /\ PostInside(s)
    BY <1>5, OwnNaps DEF SemaphoresAssumption, Naps, InterruptPosts
  <2>2. ObjInv' /\ pc' = pc /\ Elsewhere(Shared)
    BY <2>1, PostInsideKeeps
  <2> QED BY <1>5, <2>2, SamePlaces, ElsewhereSteps
<1>6. ASSUME NotifyInterrupt, UNCHANGED objectVars PROVE Sides
  <2>1. ObjInv' /\ pc' = pc /\ Elsewhere(Note)
    BY <1>6, InterruptSignalsKeeps DEF NotifyInterrupt
  <2> QED BY <1>6, <2>1, SamePlaces, ElsewhereSteps
<1>7. ASSUME ObjInv', Elsewhere(Group), Aside(Local), UNCHANGED <<mutexVars, boxVars, messageVars>>,
             FlagInterrupt \/ \E t \in Thread : FlagStep(t)
      PROVE  Sides
  <2>1. Minding(Mutexes) /\ Minding(BoxSems) /\ Minding(QueueSems)
    <3>1. /\ Group \cap Mutexes = {} /\ Group \cap BoxSems = {} /\ Group \cap QueueSems = {}
          /\ Mutexes \subseteq BlockList /\ BoxSems \subseteq BlockList /\ QueueSems \subseteq BlockList
      BY Kinds
    <3> QED BY <1>7, <3>1, ElsewhereMinds
  <2>2. MailInv' /\ Aside(Mailing) /\ Aside({"pop"}) /\ Aside(Releasing)
    BY <1>7, <2>1, AsideLocal, FrameStays DEF boxVars
  <2> QED BY <1>7, <2>1, <2>2 DEF Sides, MutexSide, FlagSide, BoxSide, QueueSide
<1>8. ASSUME NEW g \in Group, NEW m, InterruptSets(g, m), UNCHANGED <<mutexVars, boxVars, messageVars>>,
             FlagInterrupt
      PROVE  Sides
  <2>1. ObjInv' /\ pc' = pc /\ Elsewhere(Group)
    BY <1>8, SetKeeps DEF InterruptSets
  <2> QED BY <1>7, <1>8, <2>1, SamePlaces
<1>9. ASSUME NEW t \in Thread, ThreadStep(t), UNCHANGED semVars, UNCHANGED objectVars PROVE Sides
  <2>1. ObjInv'
    BY <1>9, ThreadStepKeeps
  <2>2. pc[t] \notin Local /\ \E at : at \notin Local /\ pc' = [pc EXCEPT ![t] = at]
    <3>1. "run" \notin Local /\ "yield" \notin Local
      BY DEF Local, Mailing, Releasing
    <3> QED BY <1>9, <3>1, ThreadStepKeeps
  <2>3. Aside(Local)
    BY <1>0, <2>2, MovesAside DEF Moves
  <2>4. Minding(Mutexes) /\ Minding(Group) /\ Minding(BoxSems) /\ Minding(QueueSems)
    BY <1>9, Kinds, ThreadStepMinds
  <2> QED BY <1>9, <2>1, <2>3, <2>4, OtherSteps
<1>10. ASSUME NEW t \in Thread, SemThreadStep(t), UNCHANGED objectVars PROVE Sides
  <2>1. ObjInv' /\ Elsewhere(Shared) /\ Aside(Local)
    BY <1>0, <1>10, SemStepKeeps, PlacesOfSem, MovesAside
  <2> QED BY <1>10, <2>1, ElsewhereSteps
<1>11. ASSUME NEW t \in Thread, NotifyStep(t), UNCHANGED objectVars PROVE Sides
  <2>1. ObjInv' /\ Elsewhere(Note) /\ Aside(Local)
    BY <1>0, <1>11, NotifyStepKeeps, PlacesOfNotify, MovesAside
  <2> QED BY <1>11, <2>1, ElsewhereSteps
<1>12. ASSUME NEW t \in Thread, SleepStep(t), UNCHANGED objectVars PROVE Sides
  <2>1. ObjInv' /\ Elsewhere(Naps) /\ Aside(Local)
    BY <1>0, <1>12, SleepStepKeeps, PlacesOfSleep, MovesAside
  <2> QED BY <1>12, <2>1, ElsewhereSteps
<1>13. ASSUME NEW t \in Thread, FlagStep(t), UNCHANGED <<mutexVars, boxVars, messageVars>> PROVE Sides
  <2>1. ObjInv' /\ Elsewhere(Group) /\ Aside(Local)
    BY <1>0, <1>13, FlagStepKeeps, PlacesOfFlags, MovesAside
  <2> QED BY <1>7, <1>13, <2>1
<1>14. ASSUME NEW t \in Thread, MutexStep(t), UNCHANGED <<flagVars, boxVars, messageVars>> PROVE Sides
  <2>1. ObjInv' /\ Elsewhere(Mutexes) /\ Aside(Mailing \cup {"pop"})
    BY <1>0, <1>14, MutexStepKeeps, PlacesOfMutex, MovesAside
  <2>2. Minding(Group) /\ Minding(BoxSems) /\ Minding(QueueSems)
    <3>1. /\ Mutexes \cap Group = {} /\ Mutexes \cap BoxSems = {} /\ Mutexes \cap QueueSems = {}
          /\ Group \subseteq BlockList /\ BoxSems \subseteq BlockList /\ QueueSems \subseteq BlockList
      BY Kinds
    <3> QED BY <2>1, <3>1, ElsewhereMinds
  <2>3. MailInv' /\ Aside(Mailing) /\ Aside({"pop"})
    BY <1>14, <2>1, <2>2, AsideApart, FrameStays DEF boxVars
  <2> QED BY <1>14, <2>1, <2>2, <2>3 DEF Sides, MutexSide, FlagSide, BoxSide, QueueSide
<1>15. ASSUME NEW t \in Thread, BoxStep(t), UNCHANGED <<flagVars, mutexVars, messageVars>> PROVE Sides
  <2>1. ObjInv' /\ Elsewhere(BoxSems) /\ MailInv' /\ Aside({"pop"} \cup Releasing)
    BY <1>0, <1>15, BoxStepKeeps, PlacesOfBox, MovesAside
  <2>2. Minding(Mutexes) /\ Minding(Group) /\ Minding(QueueSems)
    <3>1. /\ BoxSems \cap Mutexes = {} /\ BoxSems \cap Group = {} /\ BoxSems \cap QueueSems = {}
          /\ Mutexes \subseteq BlockList /\ Group \subseteq BlockList /\ QueueSems \subseteq BlockList
      BY Kinds
    <3> QED BY <2>1, <3>1, ElsewhereMinds
  <2>3. Aside({"pop"}) /\ Aside(Releasing)
    BY <2>1, AsideApart
  <2> QED BY <1>15, <2>1, <2>2, <2>3 DEF Sides, MutexSide, FlagSide, BoxSide, QueueSide
<1>16. ASSUME NEW t \in Thread, MessageStep(t), UNCHANGED <<flagVars, mutexVars, boxVars>> PROVE Sides
  <2>1. ObjInv' /\ Elsewhere(QueueSems) /\ Aside(Mailing \cup Releasing)
    BY <1>0, <1>16, MessageStepKeeps, PlacesOfMessage, MovesAside
  <2>2. Minding(Mutexes) /\ Minding(Group) /\ Minding(BoxSems)
    <3>1. /\ QueueSems \cap Mutexes = {} /\ QueueSems \cap Group = {} /\ QueueSems \cap BoxSems = {}
          /\ Mutexes \subseteq BlockList /\ Group \subseteq BlockList /\ BoxSems \subseteq BlockList
      BY Kinds
    <3> QED BY <2>1, <3>1, ElsewhereMinds
  <2>3. MailInv' /\ Aside(Mailing) /\ Aside(Releasing)
    BY <1>16, <2>1, <2>2, AsideApart, FrameStays DEF boxVars
  <2> QED BY <1>16, <2>1, <2>2, <2>3 DEF Sides, MutexSide, FlagSide, BoxSide, QueueSide
<1>17. ASSUME BeginPass \/ SwitchContext PROVE Sides
  BY <1>1, <1>17 DEF BeginPass, SwitchContext, Interrupt
<1>18. ASSUME PassGoesOn PROVE Sides
  <2>1. CASE (QuantumExpires \/ TickEnd) /\ UNCHANGED semVars /\ UNCHANGED objectVars
    BY <1>1, <2>1 DEF Interrupt
  <2>2. CASE (\E t \in Thread : WaitExpires(t)) /\ UNCHANGED objectVars
    BY <1>2, <2>2
  <2>3. CASE (\E t \in Thread : SleepExpires(t)) /\ UNCHANGED objectVars
    BY <1>3, <2>3
  <2>4. CASE (\E t \in Thread : FlagWaitExpires(t)) /\ UNCHANGED <<mutexVars, boxVars, messageVars>>
    BY <1>4, <2>4
  <2> QED BY <1>18, <2>1, <2>2, <2>3, <2>4 DEF PassGoesOn
<1>19. ASSUME OtherInterrupt PROVE Sides
  BY <1>5, <1>6, <1>8, <1>19 DEF OtherInterrupt, FlagInterrupt
<1>20. ASSUME NEW t \in Thread, ObjectsThreadStep(t) PROVE Sides
  BY <1>9, <1>10, <1>11, <1>12, <1>13, <1>14, <1>15, <1>16, <1>20 DEF ObjectsThreadStep
<1> QED BY <1>17, <1>18, <1>19, <1>20 DEF ObjectsNext

\* What every step does.
Steps == Sides /\ FrameInv'

LEMMA EveryStep ==
  ASSUME KernelAssumption, SemaphoresAssumption, SleepAssumption, NotifyAssumption,
         EventFlagAssumption, MutexAssumption, MailboxAssumption, MessageAssumption,
         ObjectsAssumption, "Init" \notin Calls, ObjInv, FrameInv, ObjectsNext
  PROVE  Steps
<1>1. MailInv /\ WakeInv
  BY DEF FrameInv
<1>2. Sides
  BY <1>1, EverySide
<1>3. WakeInv'
  <2>1. CASE \E t \in Thread : MutexStep(t)
    BY <1>1, <2>1, MutexWakes
  <2>2. CASE ~\E t \in Thread : MutexStep(t)
    <3>1. \A u \in Thread : pc[u] \in Releasing => SameCpu(k', k)
      BY <1>1, <2>2, ReleaserStays
    <3>2. UNCHANGED mutexVars /\ Minding(Mutexes) /\ Aside(Releasing)
      BY <1>2, <2>2 DEF Sides, MutexSide
    <3> QED BY <1>1, <3>1, <3>2, WakeStays
  <2> QED BY <2>1, <2>2
<1> QED BY <1>2, <1>3 DEF Steps, Sides, FrameInv

-----------------------------------------------------------------------------
(* What a step of one object does to the threads *)

\* No thread enters or leaves the READY state.
Same == \A u \in Thread : k'.state[u] = k.state[u]

\* Thread t is the only one that has moved in its call.
MovedAlone(t) ==
  \A u \in Thread \ {t} :
    pc'[u] = pc[u] /\ pendOn'[u] = pendOn[u] /\ expired'[u] = expired[u]

\* A wait is over.
LEMMA PendEndsMoves ==
  ASSUME KernelAssumption, ObjInv, NEW t \in Thread, NEW to, PendEnds(t, to)
  PROVE  /\ Same /\ MovedAlone(t) /\ pendOn'[t] = NoList /\ k.state[t] = "READY"
         /\ pc[t] \in {"pend", "timed"}
<1>1. /\ Running(t) /\ pc[t] \in {"pend", "timed"} /\ pc' = [pc EXCEPT ![t] = to]
      /\ k' = k \/ k' = TimerRemove(k, WaitTimer(t))
      /\ pendOn' = [pendOn EXCEPT ![t] = NoList] /\ expired' = expired
  BY DEF PendEnds
<1>2. /\ Good(k) /\ pc \in [Thread -> Where] /\ pendOn \in [Thread -> BlockList \cup {NoList}]
  BY DEF ObjInv
<1>3. k.state[t] = "READY"
  <2>1. pc[t] \notin Yielding
    BY <1>1 DEF Yielding, Enabling
  <2> QED BY <1>1, <2>1, CallerIsReady
<1>4. Same
  <2>1. CASE k' = k
    BY <2>1 DEF Same
  <2>2. CASE k' = TimerRemove(k, WaitTimer(t))
    <3>1. TimersOnly(k', k)
      BY <1>2, <2>2, TimerGone DEF Timer
    <3> QED BY <3>1 DEF TimersOnly, SameButTimers, SameThreads, Same
  <2> QED BY <1>1, <2>1, <2>2
<1> QED BY <1>1, <1>2, <1>3, <1>4 DEF MovedAlone

-----------------------------------------------------------------------------
(* What holds in every reachable state *)

LEMMA ObjectsStart ==
  ASSUME KernelAssumption, SemaphoresAssumption, MailboxAssumption, ObjectsInit
  PROVE  ObjInv /\ FrameInv
<1>1. PICK q \in SetToSeqs(Thread \ {Idle, Main}) : k = InitState(q)
  BY DEF ObjectsInit, SleepInit, SemInit, Init
<1>2. /\ pc = [t \in Thread |-> "run"] /\ pendOn = [t \in Thread |-> NoList]
      /\ expired = [t \in Thread |-> FALSE] /\ mail = [t \in Thread |-> NoFrame]
      /\ value = [s \in Sem |-> IF s \in Shared THEN InitValue ELSE 0]
  BY DEF ObjectsInit, SleepInit, SemInit, Init, BoxInit
<1>3. Scheduled(k, TRUE)
  BY <1>1, InitGood
<1>4. "run" \notin Yielding /\ "run" \notin Enabling /\ "run" \in Where /\ "run" \notin InWait
      /\ "run" \notin Mailing
  BY DEF Yielding, Enabling, Where, InWait, Waiting, Mailing
<1>5. Good(k) /\ k.current \in Thread /\ Dispatches(k, FALSE, FALSE)
  BY <1>3 DEF Scheduled, Dispatches, Top, Good, KernelState
<1>6. Dispatches(k, pc[k.current] \in Yielding, pc[k.current] \in Enabling)
  BY <1>2, <1>4, <1>5 DEF Dispatches
<1>7. ASSUME NEW t \in Thread PROVE Placed(t)
  <2>1. pc[t] = "run" /\ pendOn[t] = NoList
    BY <1>2
  <2>2. ToSet(k.timers) = {}
    BY <1>1 DEF InitState, ToSet
  <2>3. k.state[t] # "BLOCKED"
    BY <1>1 DEF InitState
  <2> QED BY <1>4, <2>1, <2>2, <2>3 DEF Placed
<1>8. value \in [Sem -> Nat]
  BY <1>2 DEF SemaphoresAssumption
<1>9. Idle \in Thread
  BY DEF KernelAssumption
<1>10. ObjInv
  BY <1>2, <1>4, <1>5, <1>6, <1>7, <1>8, <1>9 DEF ObjInv
<1>11. MailInv
  BY <1>2, <1>4, NoFrameSuits DEF MailInv
<1>12. WakeInv
  <2>1. waking = [t \in Thread |-> NotWaking] /\ NotWaking \in Wakings
    BY DEF ObjectsInit, MutexInit, NotWaking, Waking, Wakings
  <2>2. "run" \notin Releasing /\ "unblock" # "run"
    BY DEF Releasing
  <2> QED BY <1>2, <2>1, <2>2 DEF WakeInv, Occupies, ChosenWaits
<1> QED BY <1>10, <1>11, <1>12 DEF FrameInv

\* Nothing happens.
LEMMA ObjectsStutter ==
  ASSUME ObjInv, FrameInv, UNCHANGED all
  PROVE  ObjInv' /\ FrameInv'
<1>1. UNCHANGED allVars /\ UNCHANGED mail /\ UNCHANGED waking
  BY DEF all, everyVar, objectVars, boxVars, mutexVars
<1>2. ObjInv'
  BY <1>1, UnchangedKeeps
<1>3. FrameInv'
  BY <1>1 DEF FrameInv, MailInv, WakeInv, Occupies, ChosenWaits, allVars, semVars
<1> QED BY <1>2, <1>3

\* The invariant of the whole kernel: whatever the threads wait for, and
\* whichever posts, signals, releases, timeouts and interrupts come in between,
\* the lists, the timers, the pending switch and the place of every thread in
\* its call agree.
THEOREM ObjectsInvariance ==
  ASSUME "Init" \notin Calls
  PROVE  ObjectsSpec => [](ObjInv /\ FrameInv)
<1> USE KernelAssumption, SemaphoresAssumption, SleepAssumption, NotifyAssumption,
        EventFlagAssumption, MutexAssumption, MailboxAssumption, MessageAssumption,
        ObjectsAssumption
<1>1. ObjectsInit => ObjInv /\ FrameInv
  BY ObjectsStart
<1>2. ObjInv /\ FrameInv /\ [ObjectsNext]_all => ObjInv' /\ FrameInv'
  BY EveryStep, ObjectsStutter DEF Steps, Sides
<1> QED BY <1>1, <1>2, PTL DEF ObjectsSpec

\* The Timer in the frame of a timed wait, for whatever object, is off the
\* kernel's list before the frame is gone.
THEOREM NoFrameTimerDangles ==
  ASSUME "Init" \notin Calls
  PROVE  ObjectsSpec => []NoDanglingTimer
<1>1. ObjInv => NoDanglingTimer
  BY DEF ObjInv, Placed, NoDanglingTimer
<1> QED BY <1>1, ObjectsInvariance, PTL

\* Schedule never dispatches the head of an empty list, also when a mutex moves
\* its owner between the lists.
THEOREM ObjectsMapConsistent ==
  ASSUME "Init" \notin Calls
  PROVE  ObjectsSpec => []MapMatchesLists
<1>1. ObjInv => MapMatchesLists
  BY DEF ObjInv, Good, MapAt, MapMatchesLists
<1> QED BY <1>1, ObjectsInvariance, PTL

-----------------------------------------------------------------------------
(* A reschedule that is queued while the scheduler is disabled *)

\* A thread or an interrupt handler walks over the list of an object.
LEMMA EachOwed ==
  ASSUME KernelAssumption, ObjInv, Owed(k), NEW b \in BlockList, NEW who,
         NEW a, a = UnBlockEach(k, b, who), MayYield(k', a)
  PROVE  Owed(k')
<1>1. PICK y \in BOOLEAN, h \in BOOLEAN : Dispatches(k, y, h)
  <2>1. (pc[k.current] \in Yielding) \in BOOLEAN /\ (pc[k.current] \in Enabling) \in BOOLEAN
    OBVIOUS
  <2> QED BY <2>1 DEF ObjInv
<1>2. Good(k)
  BY DEF ObjInv
<1>3. Woken(k', k, b, who)
  BY <1>1, <1>2, EachWakes
<1> QED BY <1>3 DEF Woken

\* Calls that would block are not made with the scheduler disabled.
LEMMA WaitOwed ==
  ASSUME KernelAssumption, ObjInv, Owed(k), NEW t \in Thread, NEW to,
         \/ \E s, ticks : Pend(t, s, to) \/ TimedPend(t, s, ticks, to)
         \/ PendEnds(t, to) \/ YieldBlocked(t)
  PROVE  Owed(k')
<1>1. Good(k)
  BY DEF ObjInv
<1>2. CASE \E s, ticks : Pend(t, s, to) \/ TimedPend(t, s, ticks, to)
  BY <1>2, PendOwed
<1>3. CASE PendEnds(t, to)
  BY <1>1, <1>3, PendEndsOwed
<1>4. CASE YieldBlocked(t)
  BY <1>1, <1>4, YieldOwed DEF YieldBlocked
<1> QED BY <1>2, <1>3, <1>4

LEMMA NotifyOwed ==
  ASSUME KernelAssumption, NotifyAssumption, ObjInv, Owed(k), NEW t \in Thread, NotifyStep(t)
  PROVE  Owed(k')
<1>1. ASSUME NEW n \in Note, CallSignal(t, n) PROVE Owed(k')
  <2>1. n \in BlockList /\ MayYield(k', UnBlockEach(k, n, Thread))
    BY <1>1 DEF CallSignal, SignalAll, NotifyAssumption, MayYield
  <2> QED BY <2>1, EachOwed
<1>2. ASSUME NEW n, NEW ticks, CallWait(t, n) \/ CallTimedWait(t, n, ticks) PROVE Owed(k')
  BY <1>2 DEF CallWait, CallTimedWait, BlockOn, Owed
<1> QED BY <1>1, <1>2, WaitOwed DEF NotifyStep

LEMMA SleepOwed ==
  ASSUME KernelAssumption, ObjInv, Owed(k), NEW t \in Thread, SleepStep(t)
  PROVE  Owed(k')
<1>1. ASSUME NEW us, NEW ticks, BeginSleep(t, us, ticks) PROVE Owed(k')
  BY <1>1 DEF BeginSleep, Owed
<1>2. CASE SleepPends(t) \/ SleepReturns(t)
  BY <1>2, WaitOwed DEF SleepPends, SleepReturns
<1> QED BY <1>1, <1>2 DEF SleepStep, CallSleep, CallUSleep

LEMMA SetOwed ==
  ASSUME KernelAssumption, EventFlagAssumption, ObjInv, Owed(k), NEW g \in Group, NEW new,
         Set(g, new)
  PROVE  Owed(k')
<1>1. PICK who : k' = k \/ k' = Yield(UnBlockEach(k, g, who))
  BY DEF Set
<1>2. CASE k' = Yield(UnBlockEach(k, g, who))
  <2>1. g \in BlockList /\ MayYield(k', UnBlockEach(k, g, who))
    BY <1>2 DEF EventFlagAssumption, MayYield
  <2> QED BY <2>1, EachOwed
<1> QED BY <1>1, <1>2

LEMMA FlagOwed ==
  ASSUME KernelAssumption, EventFlagAssumption, ObjInv, Owed(k), NEW t \in Thread, FlagStep(t)
  PROVE  Owed(k')
<1>1. ASSUME NEW g \in Group, NEW m, CallSet(t, g, m) \/ CallClear(t, g, m) PROVE Owed(k')
  BY <1>1, SetOwed DEF CallSet, CallClear, allVars, vars
<1>2. ASSUME NEW g, NEW m, NEW how, NEW ticks,
             CallWaitFlags(t, g, m, how) \/ CallTimedWaitFlags(t, g, m, how, ticks)
      PROVE  Owed(k')
  BY <1>2 DEF CallWaitFlags, CallTimedWaitFlags, WaitFlags, Owed, allVars, vars
<1>3. CASE FlagsReturn(t)
  BY <1>3, WaitOwed DEF FlagsReturn
<1> QED BY <1>1, <1>2, <1>3 DEF FlagStep

\* Disabling the scheduler again is no harm; to set it performs what is owed.
LEMMA DisableOwed ==
  ASSUME NEW s, Good(s), Owed(s), NEW d, d = SetScheduler(s, FALSE)
  PROVE  Good(d) /\ Owed(d)
<1> DEFINE a == [s EXCEPT !.enabled = FALSE]
<1>1. d = a
  BY DEF SetScheduler
<1>3. Good(a) /\ a.enabled = FALSE /\ a.queued = s.queued
  BY EnabledFacts
<1> HIDE DEF a
<1>2. Good(d) /\ d.enabled = FALSE /\ d.queued = s.queued
  BY <1>1, <1>3
<1> QED BY <1>2 DEF Owed

LEMMA MutexPerforms ==
  ASSUME KernelAssumption, MutexAssumption, ObjInv, WakeInv, Owed(k), NEW t \in Thread,
         MutexStep(t)
  PROVE  Performed(k')
<1>0. Good(k) /\ TRUE \in BOOLEAN
  BY DEF ObjInv
<1>1. ASSUME NEW m, CallClaim(t, m) \/ CallTimedClaim(t, m) \/ CallRelease(t, m)
      PROVE  Performed(k')
  BY <1>1 DEF CallClaim, CallTimedClaim, ClaimBegins, CallRelease, Owed
<1>2. CASE ClaimSucceeds(t) \/ ReleaseCounts(t)
  BY <1>0, <1>2, EnablePerforms DEF ClaimSucceeds, ReleaseCounts
<1>3. CASE ClaimBlocks(t)
  <2>1. PICK a, m, ticks : /\ a \in {k, TimerAdd(k, WaitTimer(t), ticks)}
                           /\ k' = BlockPriority(a, t, m)
    BY <1>3 DEF ClaimBlocks
  <2>2. k \in KernelState
    BY <1>0 DEF Good
  <2>3. /\ a.queued = k.queued /\ a.enabled = k.enabled
        /\ "queued" \in DOMAIN a /\ "enabled" \in DOMAIN a
    BY <2>1, <2>2 DEF TimerAdd, KernelState
  <2>4. Owed(k')
    BY <2>1, <2>3 DEF BlockPriority, SchedulerRemove, UnlinkThread, Owed
  <2> QED BY <2>4, OwedIsKept
<1>4. CASE ClaimInherits(t)
  <2>1. PICK who, a : a \in {k, InheritPriority(k, who, k.prio[t])} /\ k' = SetScheduler(a, TRUE)
    BY <1>4 DEF ClaimInherits
  <2>2. k.prio[t] \in Prio
    BY <1>0 DEF Good, KernelState
  <2>3. Good(a) /\ a.queued = k.queued /\ a.enabled = k.enabled
    BY <1>0, <2>1, <2>2, InheritFacts
  <2>4. Owed(a)
    BY <2>3 DEF Owed
  <2> QED BY <1>0, <2>1, <2>3, <2>4, EnablePerforms
<1>5. CASE ClaimReturns(t) \/ (pendOn[t] \in Mutexes /\ YieldBlocked(t))
  BY <1>5, WaitOwed, OwedIsKept DEF ClaimReturns
<1>6. CASE ReleaseChecks(t)
  <2>1. PICK a : /\ a = k \/ a = SetPriority(k, t, k.prio[t])
                 /\ k' = a \/ k' = SetScheduler(a, TRUE)
    BY <1>6 DEF ReleaseChecks, ReleaseEnds
  <2>2. Running(t) /\ pc[t] = "release" /\ pc[t] \in Releasing
    BY <1>6 DEF ReleaseChecks, InMutexCall, Releasing
  <2>3. Good(a)
    BY <2>1, <2>2, RestoreReadies DEF Readies
  <2>4. k.state[t] = "READY" /\ k.prio[t] \in Prio
    BY <1>0, <2>2, MutexCaller DEF Good, KernelState
  <2>5. Owed(a)
    BY <1>0, <2>1, <2>4, SetPriorityOwed
  <2> QED BY <1>0, <2>1, <2>3, <2>5, OwedIsKept, EnablePerforms
<1>7. CASE WakeNextChooses(t)
  BY <1>7, OwedIsKept DEF WakeNextChooses
<1>8. CASE WakeNextUnBlocks(t)
  <2>1. PICK h \in Thread \cup {NoList} : h = waking[t].chosen
    BY DEF WakeInv, Wakings
  <2>2. \/ k' = [k EXCEPT !.fault = TRUE]
        \/ h # NoList /\ k' = SetScheduler(UnBlock(k, h), TRUE)
    BY <1>8, <2>1 DEF WakeNextUnBlocks, ReleaseEnds
  <2>3. CASE k' = [k EXCEPT !.fault = TRUE]
    <3>1. k \in KernelState
      BY <1>0 DEF Good
    <3> QED BY <2>3, <3>1 DEF Owed, Performed, KernelState
  <2>4. CASE h # NoList /\ k' = SetScheduler(UnBlock(k, h), TRUE)
    <3>1. PICK a : a = UnBlock(k, h)
      OBVIOUS
    <3>2. h \in Thread
      BY <2>1, <2>4
    <3>3. Good(a) /\ OnlyThread(a, k, h)
      BY <1>0, <3>1, <3>2, UnBlockFacts
    <3>4. Owed(a)
      BY <3>3, OwedByThread
    <3> QED BY <1>0, <2>4, <3>1, <3>3, <3>4, EnablePerforms
  <2> QED BY <2>2, <2>3, <2>4
<1> QED BY <1>1, <1>2, <1>3, <1>4, <1>5, <1>6, <1>7, <1>8 DEF MutexStep

LEMMA BoxPerforms ==
  ASSUME KernelAssumption, SemaphoresAssumption, MailboxAssumption, ObjInv, MailInv, Owed(k),
         NEW t \in Thread, BoxStep(t)
  PROVE  Performed(k')
<1>0. Good(k) /\ k.enabled \in BOOLEAN /\ FALSE \in BOOLEAN
  BY DEF ObjInv, Good, KernelState
<1>1. PICK off : off = SetScheduler(k, FALSE) /\ Good(off) /\ Owed(off)
  BY <1>0, DisableOwed
<1>2. ASSUME NEW f, f.sched \in BOOLEAN, NEW again, TrySend(t, f, again) PROVE Performed(k')
  <2>1. k' = off \/ k' = SetScheduler(off, f.sched)
    BY <1>1, <1>2 DEF TrySend
  <2> QED BY <1>1, <1>2, <2>1, OwedIsKept, EnablePerforms
<1>3. ASSUME NEW b, NEW end, NEW ticks, CallSend(t, b, end) \/ CallTimedSend(t, b, end, ticks)
      PROVE  Performed(k')
  <2>1. PICK f, again : f.sched \in BOOLEAN /\ TrySend(t, f, again)
    <3>1. Frame(b, end, ticks).sched = TRUE
          /\ [Frame(b, end, 0) EXCEPT !.sched = k.enabled].sched = k.enabled
      BY DEF Frame
    <3> QED BY <1>0, <1>3, <3>1 DEF CallSend, CallTimedSend
  <2> QED BY <1>2, <2>1
<1>4. ASSUME pc[t] \in Mailing PROVE mail[t].sched \in BOOLEAN /\ mail[t].box \in Box
  BY <1>4 DEF MailInv, Suits
<1>5. CASE SendRetries(t)
  <2>1. PICK f, again : f = mail[t] /\ again = TRUE
    OBVIOUS
  <2>2. f.sched \in BOOLEAN /\ TrySend(t, f, again)
    BY <1>4, <1>5, <2>1 DEF SendRetries, Mailing
  <2> QED BY <1>2, <2>2
<1>6. CASE SendCopies(t) \/ ReceiveTakes(t) \/ ReceiveCopies(t)
  <2>1. ASSUME NEW e \in BOOLEAN, k' = SetScheduler(k, e) PROVE Performed(k')
    BY <1>0, <2>1, EnablePerforms
  <2>2. \E e \in BOOLEAN : k' = SetScheduler(k, e)
    BY <1>0, <1>4, <1>6 DEF SendCopies, ReceiveTakes, ReceiveCopies, Mailing
  <2> QED BY <2>1, <2>2
<1>7. CASE SendPosts(t) \/ ReceivePosts(t)
  <2>1. PICK s : s \in {RecvSem[mail[t].box], SendSem[mail[t].box]} /\ PostBy(t, s)
    BY <1>7 DEF SendPosts, ReceivePosts
  <2>2. mail[t].box \in Box
    BY <1>4, <1>7 DEF SendPosts, ReceivePosts, Mailing
  <2>3. s \in BlockList
    BY <2>1, <2>2, OwnBoxSems DEF SemaphoresAssumption
  <2> QED BY <1>0, <2>1, <2>3, PostByOwed, OwedIsKept
<1>8. ASSUME NEW b, NEW end, NEW ticks, CallReceive(t, b, end) \/ CallTimedReceive(t, b, end, ticks)
      PROVE  Performed(k')
  BY <1>8, WaitOwed, OwedIsKept DEF CallReceive, CallTimedReceive
<1>9. CASE SendWaits(t) \/ SendWakes(t) \/ ReceiveWakes(t)
  BY <1>9, WaitOwed, OwedIsKept DEF SendWaits, SendWakes, ReceiveWakes
<1> QED BY <1>3, <1>5, <1>6, <1>7, <1>8, <1>9 DEF BoxStep

LEMMA MessageOwed ==
  ASSUME KernelAssumption, SemaphoresAssumption, MessageAssumption, ObjInv, Owed(k),
         NEW t \in Thread, MessageStep(t)
  PROVE  Owed(k')
<1>0. Good(k) /\ k \in KernelState
  BY DEF ObjInv, Good
<1>1. ASSUME NEW x, CallPop(t) \/ CallPush(t, x) PROVE Owed(k')
  BY <1>1 DEF CallPop, CallPush, allVars, vars
<1>2. ASSUME NEW q \in Queue, NEW x, CallSendMessage(t, q, x) PROVE Owed(k')
  <2>1. QueueSem[q] \in BlockList /\ PostInside(QueueSem[q])
    BY <1>2, OwnQueueSems DEF CallSendMessage, SemaphoresAssumption
  <2> QED BY <1>0, <2>1, PostInsideOwed
<1>3. ASSUME NEW q, NEW ticks, CallReceiveMessage(t, q) \/ CallTimedReceiveMessage(t, q, ticks)
      PROVE  Owed(k')
  BY <1>3, WaitOwed DEF CallReceiveMessage, CallTimedReceiveMessage
<1>4. CASE MessageWakes(t)
  BY <1>4, WaitOwed DEF MessageWakes
<1>5. CASE MessagePops(t)
  <2>1. k' = k \/ k' = [k EXCEPT !.fault = TRUE]
    BY <1>5 DEF MessagePops
  <2> QED BY <1>0, <2>1 DEF Owed, KernelState
<1> QED BY <1>1, <1>2, <1>3, <1>4, <1>5 DEF MessageStep

\* A timeout, a sleep that is over, a post, a signal or a set in a handler.
LEMMA HandlersOwe ==
  ASSUME KernelAssumption, SemaphoresAssumption, SleepAssumption, NotifyAssumption,
         EventFlagAssumption, ObjInv, Owed(k), OtherInterrupt \/ PassGoesOn,
         ~(QuantumExpires \/ TickEnd)
  PROVE  Owed(k')
<1>0. Good(k)
  BY DEF ObjInv
<1>1. ASSUME NEW s \in Shared, InterruptPosts(s) PROVE Owed(k')
  <2>1. s \in BlockList
    BY DEF SemaphoresAssumption
  <2> QED BY <1>0, <1>1, <2>1, PostInsideOwed DEF InterruptPosts
<1>2. ASSUME NEW n \in Note, InterruptSignals(n) PROVE Owed(k')
  <2>1. n \in BlockList /\ MayYield(k', UnBlockEach(k, n, Thread))
    BY <1>2 DEF InterruptSignals, SignalAll, NotifyAssumption, MayYield
  <2> QED BY <2>1, EachOwed
<1>3. ASSUME NEW g \in Group, NEW new, InterruptSets(g, new) PROVE Owed(k')
  BY <1>3, SetOwed DEF InterruptSets
<1>4. ASSUME NEW t \in Thread, WaitExpires(t) PROVE Owed(k')
  BY <1>0, <1>4, ExpiryOwed
<1>5. ASSUME NEW t \in Thread, SleepExpires(t) PROVE Owed(k')
  <2>1. PICK a : /\ \/ a = k
                    \/ k.list[Nap[t]] # <<>> /\ a = PostAndYield(k, Nap[t])
                 /\ k' = TimerRemove(a, SleepTimer(t))
    BY <1>5 DEF SleepExpires
  <2>2. Nap[t] \in BlockList /\ SleepTimer(t) \in Timer
    BY OwnNaps DEF Timer
  <2>3. Good(a) /\ Owed(a)
    BY <1>0, <2>1, <2>2, PostOwed
  <2> QED BY <2>1, <2>2, <2>3, TimerRemoveFacts, OwedByTimer
<1>6. CASE OtherInterrupt
  BY <1>1, <1>2, <1>3, <1>6 DEF OtherInterrupt, NotifyInterrupt, FlagInterrupt
<1>7. CASE PassGoesOn
  BY <1>4, <1>5, <1>7 DEF PassGoesOn, FlagWaitExpires
<1> QED BY <1>6, <1>7

\* Whatever a thread calls while the scheduler is disabled, and whichever timeouts,
\* sleeps and interrupts end meanwhile, a reschedule they ask for is performed by
\* the step that enables the scheduler (Scheduler::SetScheduler, Thread::Yield).
THEOREM ObjectsReschedulePerformed ==
  ASSUME "Init" \notin Calls
  PROVE  ObjectsSpec => PerformsReschedule
<1> USE KernelAssumption, SemaphoresAssumption, SleepAssumption, NotifyAssumption,
        EventFlagAssumption, MutexAssumption, MailboxAssumption, MessageAssumption,
        ObjectsAssumption
<1>1. ASSUME ObjInv, FrameInv, ObjectsNext, k.queued PROVE Performed(k')
  <2>1. Good(k) /\ Owed(k) /\ (k.pendsv => k.enabled) /\ MailInv /\ WakeInv
    BY <1>1 DEF ObjInv, Dispatches, Owed, FrameInv
  <2>2. CASE BeginPass \/ SwitchContext \/ QuantumExpires \/ TickEnd
    BY <2>1, <2>2, InterruptPerforms DEF BeginPass, SwitchContext, Interrupt
  <2>3. CASE (OtherInterrupt \/ PassGoesOn) /\ ~(QuantumExpires \/ TickEnd)
    BY <1>1, <2>1, <2>3, HandlersOwe, OwedIsKept
  <2>4. ASSUME NEW t \in Thread, ThreadStep(t) PROVE Performed(k')
    BY <2>1, <2>4, ThreadStepPerforms
  <2>5. ASSUME NEW t \in Thread, SemThreadStep(t) PROVE Performed(k')
    BY <2>1, <2>5, SemStepOwed, OwedIsKept
  <2>6. ASSUME NEW t \in Thread,
               NotifyStep(t) \/ SleepStep(t) \/ FlagStep(t) \/ MessageStep(t)
        PROVE  Performed(k')
    BY <1>1, <2>1, <2>6, NotifyOwed, SleepOwed, FlagOwed, MessageOwed, OwedIsKept
  <2>7. ASSUME NEW t \in Thread, MutexStep(t) \/ BoxStep(t) PROVE Performed(k')
    BY <1>1, <2>1, <2>7, MutexPerforms, BoxPerforms
  <2>8. ASSUME NEW t \in Thread, ObjectsThreadStep(t) PROVE Performed(k')
    BY <2>4, <2>5, <2>6, <2>7, <2>8 DEF ObjectsThreadStep
  <2> QED BY <1>1, <2>2, <2>3, <2>8 DEF ObjectsNext
<1>2. ObjInv /\ FrameInv /\ [ObjectsNext]_all => [k.queued => Performed(k')]_vars
  BY <1>1 DEF all, everyVar, allVars, vars
<1>3. ASSUME [k.queued => Performed(k')]_vars
      PROVE  [k.queued => IF k'.enabled THEN ~k'.queued /\ SchedulesTop(k') ELSE k'.queued]_vars
  BY <1>3 DEF Performed
<1> QED BY <1>2, <1>3, ObjectsInvariance, PTL DEF ObjectsSpec, PerformsReschedule

=============================================================================
