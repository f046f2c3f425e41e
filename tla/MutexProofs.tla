------------------------------ MODULE MutexProofs ------------------------------
(***************************************************************************)
(* Proofs about mutexes, event flags and sleep among all the other objects *)
(* a thread may wait for.  Mutexes: mutual exclusion, for any threads,     *)
(* priorities, timeouts and calls but Stop, which can make a Claim return  *)
(* that has not got its mutex; and where no Claim times out, the           *)
(* refinement of MutexSpec.  Event flags: no waiter misses the flags it    *)
(* waits for.  Sleep: none is too short, and none too long.                *)
(***************************************************************************)
EXTENDS ObjectsProofs

-----------------------------------------------------------------------------
(* What the steps of Claim and Release do to the threads *)

LEMMA SwitchedSame ==
  ASSUME KernelAssumption, ObjInv, NEW t \in Thread, Running(t),
         pc[t] \in {"run", "claim", "claimT", "release"},
         NEW e \in BOOLEAN, k' = SetScheduler(k, e)
  PROVE  Same
BY SwitchedStill DEF Still, Same

\* The call begins.
LEMMA MutexCallMoves ==
  ASSUME KernelAssumption, ObjInv, NEW t \in Thread, NEW m \in Mutexes,
         CallClaim(t, m) \/ CallTimedClaim(t, m) \/ CallRelease(t, m)
  PROVE  /\ Same /\ MovedAlone(t) /\ UNCHANGED mutexVars /\ pendOn'[t] = m /\ pc[t] = "run"
         /\ \/ /\ pc'[t] \in {"claim", "claimT"}
               /\ lock[m].owner = t => lock[m].recurse < MaxRecurse
            \/ pc'[t] = "release" /\ t \in held[m]
<1>1. /\ Running(t) /\ pc[t] = "run" /\ k' = SetScheduler(k, FALSE) /\ UNCHANGED mutexVars
      /\ pendOn' = [pendOn EXCEPT ![t] = m] /\ expired' = expired
  BY DEF CallClaim, CallTimedClaim, ClaimBegins, CallRelease, Calling
<1>2. \E at \in {"claim", "claimT", "release"} :
        /\ pc' = [pc EXCEPT ![t] = at]
        /\ \/ at # "release" /\ (lock[m].owner = t => lock[m].recurse < MaxRecurse)
           \/ at = "release" /\ t \in held[m]
  BY DEF CallClaim, CallTimedClaim, ClaimBegins, CallRelease
<1>3. Same
  BY <1>1, SwitchedSame
<1>4. /\ pc \in [Thread -> Where] /\ pendOn \in [Thread -> BlockList \cup {NoList}]
  BY DEF ObjInv
<1>5. MovedAlone(t) /\ pendOn'[t] = m
  BY <1>1, <1>2, <1>4 DEF MovedAlone
<1> QED BY <1>1, <1>2, <1>3, <1>4, <1>5

\* Claim and Release end at once.
LEMMA MutexEndMoves ==
  ASSUME KernelAssumption, ObjInv, NEW t \in Thread,
         InMutexCall(t, {"claim", "claimT", "release"}), k' = SetScheduler(k, TRUE),
         Leave(t, "run")
  PROVE  Same /\ MovedAlone(t) /\ pendOn'[t] = NoList /\ pc'[t] = "run" /\ Running(t)
<1>1. /\ Running(t) /\ pc[t] \in {"claim", "claimT", "release"}
      /\ pc' = [pc EXCEPT ![t] = "run"] /\ pendOn' = [pendOn EXCEPT ![t] = NoList]
      /\ expired' = expired
  BY DEF InMutexCall, Leave
<1>2. Same
  BY <1>1, SwitchedSame
<1>3. /\ pc \in [Thread -> Where] /\ pendOn \in [Thread -> BlockList \cup {NoList}]
  BY DEF ObjInv
<1> QED BY <1>1, <1>2, <1>3 DEF MovedAlone

\* A Claim that does not get the mutex blocks.
LEMMA ClaimBlocksMoves ==
  ASSUME KernelAssumption, SemaphoresAssumption, ObjectsAssumption, MutexAssumption, ObjInv,
         NEW t \in Thread, ClaimBlocks(t)
  PROVE  /\ MovedAlone(t) /\ k'.state[t] = "BLOCKED" /\ pendOn'[t] = pendOn[t]
         /\ \A u \in Thread \ {t} : k'.state[u] = k.state[u]
         /\ pc'[t] \in {"inherit", "inheritT"} /\ UNCHANGED mutexVars
         /\ pc[t] = "claim" => pc'[t] = "inherit"
<1>1. /\ Running(t) /\ pc[t] \in {"claim", "claimT"} /\ pendOn[t] \in Mutexes
      /\ UNCHANGED <<value, pendOn>> /\ UNCHANGED mutexVars
  BY DEF ClaimBlocks, InMutexCall
<1>2. /\ Good(k) /\ Dispatches(k, FALSE, FALSE) /\ ~k.pendsv /\ t = k.current /\ t # Idle
      /\ WaitTimer(t) \notin ToSet(k.timers) /\ pc \in [Thread -> Where]
      /\ expired \in [Thread -> BOOLEAN]
  BY <1>1, MutexCaller
<1> DEFINE b == pendOn[t]
           Entered(at) == Enters(t, b, at)
<1>3. b \in BlockList
  BY <1>1 DEF MutexAssumption
<1>4. ASSUME NEW a, NEW at, k' = BlockPriority(a, t, pendOn[t]), Frames(a, t, at)
      PROVE  Enters(t, b, at)
  <2>1. BlockedBy(k', a, t, b)
    BY <1>4 DEF BlockedBy
  <2> HIDE DEF b
  <2> QED BY <1>1, <1>2, <1>3, <1>4, <2>1, BlockEnters
<1>5. CASE pc[t] = "claim"
  <2>1. /\ k' = BlockPriority(k, t, pendOn[t]) /\ pc' = [pc EXCEPT ![t] = "inherit"]
        /\ expired' = expired
    BY <1>5 DEF ClaimBlocks
  <2>2. Frames(k, t, "inherit")
    BY <1>2, NoFrameTimer
  <2>3. Enters(t, b, "inherit")
    BY <1>4, <2>1, <2>2
  <2> QED BY <1>1, <1>2, <2>1, <2>3 DEF Enters, OthersStay, MovedAlone
<1>6. CASE pc[t] = "claimT"
  <2>1. PICK ticks \in WaitTicks : k' = BlockPriority(TimerAdd(k, WaitTimer(t), ticks), t, pendOn[t])
    BY <1>6 DEF ClaimBlocks
  <2>2. pc' = [pc EXCEPT ![t] = "inheritT"] /\ expired' = [expired EXCEPT ![t] = FALSE]
    BY <1>6 DEF ClaimBlocks
  <2> DEFINE a == TimerAdd(k, WaitTimer(t), ticks)
  <2>3. k' = BlockPriority(a, t, pendOn[t]) /\ a = TimerAdd(k, WaitTimer(t), ticks)
    BY <2>1
  <2> HIDE DEF a
  <2>4. Frames(a, t, "inheritT")
    BY <1>2, <2>3, TimedFrame DEF InTimedWait
  <2>5. Enters(t, b, "inheritT")
    BY <1>4, <2>3, <2>4
  <2> QED BY <1>1, <1>2, <1>6, <2>2, <2>5 DEF Enters, OthersStay, MovedAlone
<1> QED BY <1>1, <1>5, <1>6

\* The owner inherits the priority.
LEMMA ClaimInheritsMoves ==
  ASSUME KernelAssumption, ObjInv, NEW t \in Thread, ClaimInherits(t)
  PROVE  /\ Same /\ MovedAlone(t) /\ pendOn' = pendOn /\ expired' = expired /\ held' = held
         /\ k.prio[t] \in Prio
         /\ lock' \in {lock, [lock EXCEPT ![pendOn[t]].maxPri = k.prio[t]]}
         /\ pc[t] \in {"inherit", "inheritT"}
         /\ pc'[t] = IF pc[t] = "inherit" THEN "block" ELSE "blockT"
<1>1. /\ pc[t] \in {"inherit", "inheritT"} /\ UNCHANGED <<pendOn, expired, held>>
      /\ pc' = [pc EXCEPT ![t] = IF @ = "inherit" THEN "block" ELSE "blockT"]
      /\ Good(k) /\ pc \in [Thread -> Where] /\ t = k.current
      /\ lock' \in {lock, [lock EXCEPT ![pendOn[t]].maxPri = k.prio[t]]}
  BY DEF ClaimInherits, InMutexCall, ObjInv, Running, semVars
<1>2. Dispatches(k, TRUE, TRUE)
  BY <1>1 DEF ObjInv, Dispatches, Yielding, Enabling
<1>3. PICK who, a : a \in {k, InheritPriority(k, who, k.prio[t])} /\ k' = SetScheduler(a, TRUE)
  BY DEF ClaimInherits
<1>4. k.prio[t] \in Prio
  BY <1>1 DEF Good, KernelState
<1>5. Good(a) /\ Dispatches(a, TRUE, TRUE) /\ a.state = k.state
  <2>1. CASE a = k
    BY <1>1, <1>2, <2>1
  <2>2. CASE a = InheritPriority(k, who, k.prio[t])
    <3>1. /\ Good(a) /\ NoNewTimer(a, k) /\ a.state = k.state /\ a.where = k.where
          /\ a.current = k.current /\ a.pendsv = k.pendsv /\ a.enabled = k.enabled
          /\ a.queued = k.queued /\ a.next = k.next
      BY <1>1, <1>4, <2>2, InheritFacts
    <3> QED BY <1>2, <3>1 DEF Dispatches
  <2> QED BY <1>3, <2>1, <2>2
<1>6. Toggled(k', a, TRUE)
  BY <1>3, <1>5, SetSchedulerDispatches
<1>7. Same
  BY <1>5, <1>6 DEF Toggled, Same
<1>8. pc'[t] = (IF pc[t] = "inherit" THEN "block" ELSE "blockT") /\ MovedAlone(t)
  BY <1>1 DEF MovedAlone
<1> QED BY <1>1, <1>4, <1>7, <1>8

\* The Yield of a Claim.
LEMMA ClaimYieldsMoves ==
  ASSUME KernelAssumption, ObjInv, NEW t \in Thread, YieldBlocked(t)
  PROVE  /\ Same /\ MovedAlone(t) /\ pendOn' = pendOn /\ expired' = expired
         /\ pc[t] \in {"block", "blockT"}
         /\ pc'[t] = IF pc[t] = "block" THEN "pend" ELSE "timed"
<1>1. /\ pc[t] \in {"block", "blockT"} /\ k' = Yield(k) /\ UNCHANGED <<pendOn, expired>>
      /\ Good(k) /\ pc \in [Thread -> Where]
      /\ pc' = [pc EXCEPT ![t] = IF @ = "block" THEN "pend" ELSE "timed"]
  BY DEF YieldBlocked, ObjInv, semVars
<1>2. PICK y \in BOOLEAN : y <=> pc[k.current] \in Yielding
  OBVIOUS
<1>3. PICK h \in BOOLEAN : h <=> pc[k.current] \in Enabling
  OBVIOUS
<1>4. Dispatches(k, y, h)
  BY <1>2, <1>3 DEF ObjInv, Dispatches
<1>5. SameThreads(k', k)
  BY <1>1, <1>4, YieldDispatches
<1> QED BY <1>1, <1>5 DEF Same, SameThreads, MovedAlone


\* The first step of the last Release frees the mutex, if nobody is BLOCKED on it,
\* or goes on to wake somebody.
Frees(t, m) ==
  /\ pendOn'[t] = NoList /\ pc'[t] \in {"run", "yield"}
  /\ lock' = [lock EXCEPT ![m] = Free] /\ held' = [held EXCEPT ![m] = @ \ {t}]
  /\ \A u \in Thread : ~(k.state[u] = "BLOCKED" /\ k.where[u] = m)
Continues(t, at) ==
  pc'[t] = at /\ pendOn'[t] = pendOn[t] /\ lock' = lock /\ held' = held

LEMMA ReleaseChecksMoves ==
  ASSUME KernelAssumption, MutexAssumption, ObjInv, NEW t \in Thread, ReleaseChecks(t)
  PROVE  /\ Same /\ MovedAlone(t) /\ k.state[t] = "READY"
         /\ pc[t] = "release" /\ pendOn[t] \in Mutexes /\ lock[pendOn[t]].recurse = 0
         /\ Frees(t, pendOn[t]) \/ Continues(t, "wake")
<1>1. /\ Running(t) /\ pc[t] = "release" /\ pc[t] \in Releasing /\ pendOn[t] \in Mutexes
      /\ lock[pendOn[t]].recurse = 0
  BY DEF ReleaseChecks, InMutexCall, Releasing
<1>2. PICK m \in Mutexes : m = pendOn[t]
  BY <1>1
<1>3. /\ Good(k) /\ k.state[t] = "READY" /\ m \in BlockList
      /\ pc \in [Thread -> Where] /\ pendOn \in [Thread -> BlockList \cup {NoList}]
  BY <1>1, MutexCaller DEF MutexAssumption
<1>4. PICK a : /\ a = k \/ a = SetPriority(k, t, k.prio[t])
               /\ \/ /\ k.list[m] = <<>> /\ lock' = [lock EXCEPT ![m] = Free]
                     /\ k' = SetScheduler(a, TRUE)
                     /\ held' = [held EXCEPT ![m] = @ \ {t}]
                     /\ \E y \in BOOLEAN : Leave(t, IF y THEN "yield" ELSE "run")
                  \/ /\ k' = a /\ pc' = [pc EXCEPT ![t] = "wake"] /\ UNCHANGED semVars
                     /\ lock' = lock /\ held' = held
  BY <1>2 DEF ReleaseChecks, ReleaseEnds
<1>5. Readies(a, k, t)
  BY <1>1, <1>4, RestoreReadies
<1>6. \A u \in Thread : a.state[u] = k.state[u]
  BY <1>3, <1>5 DEF Readies, OthersStay
<1>7. ASSUME k.list[m] = <<>>, lock' = [lock EXCEPT ![m] = Free], k' = SetScheduler(a, TRUE),
             held' = [held EXCEPT ![m] = @ \ {t}],
             \E y \in BOOLEAN : Leave(t, IF y THEN "yield" ELSE "run")
      PROVE  Same /\ MovedAlone(t) /\ Frees(t, m)
  <2>1. PICK at \in {"run", "yield"} : Leave(t, at)
    BY <1>7
  <2>2. /\ pc' = [pc EXCEPT ![t] = at] /\ pendOn' = [pendOn EXCEPT ![t] = NoList]
        /\ expired' = expired
    BY <2>1 DEF Leave
  <2>3. MovedAlone(t) /\ pendOn'[t] = NoList /\ pc'[t] \in {"run", "yield"}
    BY <1>3, <2>2 DEF MovedAlone
  <2>4. Good(a) /\ Dispatches(a, FALSE, FALSE)
    BY <1>5 DEF Readies
  <2>5. Toggled(k', a, TRUE)
    BY <1>7, <2>4, SetSchedulerDispatches
  <2>6. Same
    BY <1>6, <2>5 DEF Toggled, Same
  <2>7. ASSUME NEW u \in Thread, k.state[u] = "BLOCKED", k.where[u] = m PROVE FALSE
    <3>1. u \in ToSet(k.list[m])
      BY <1>3, <2>7, BlockedLists
    <3> QED BY <1>7, <3>1 DEF ToSet
  <2> QED BY <1>7, <2>3, <2>6, <2>7 DEF Frees
<1>8. ASSUME k' = a, pc' = [pc EXCEPT ![t] = "wake"], UNCHANGED semVars, lock' = lock, held' = held
      PROVE  Same /\ MovedAlone(t) /\ Continues(t, "wake")
  BY <1>3, <1>6, <1>8 DEF Same, MovedAlone, Continues, semVars
<1> QED BY <1>1, <1>2, <1>3, <1>4, <1>7, <1>8

\* The next chooses a thread that is BLOCKED on the mutex, if there is one still.
Chooses(t) ==
  waking'[t].chosen # NoList => k'.state[waking'[t].chosen] = "BLOCKED"

LEMMA WakeNextChoosesMoves ==
  ASSUME KernelAssumption, MutexAssumption, ObjInv, WakeInv, NEW t \in Thread, WakeNextChooses(t)
  PROVE  /\ Same /\ MovedAlone(t) /\ pc[t] = "wake" /\ pendOn[t] \in Mutexes
         /\ Continues(t, "unblock") /\ Chooses(t)
<1>1. /\ Running(t) /\ pc[t] = "wake" /\ pc[t] \in Releasing /\ pendOn[t] \in Mutexes
      /\ UNCHANGED <<k, lock, held, pendOn, expired>>
      /\ pc' = [pc EXCEPT ![t] = "unblock"]
  BY DEF WakeNextChooses, InMutexCall, Releasing, semVars
<1>2. PICK m \in Mutexes : m = pendOn[t]
  BY <1>1
<1>3. /\ Good(k) /\ m \in BlockList /\ pc \in [Thread -> Where] /\ pendOn[t] \in Mutexes
  BY <1>1, MutexCaller DEF MutexAssumption
<1>4. PICK h : h = HighestWaiter(k, m)
  OBVIOUS
<1>5. waking'[t].chosen = h
  BY <1>2, <1>4 DEF WakeNextChooses, WakeInv, Wakings
<1>6. h # NoList => k.state[h] = "BLOCKED"
  <2>1. CASE k.list[m] # <<>>
    <3>1. h = Head(k.list[m])
      BY <1>4, <2>1 DEF HighestWaiter
    <3> QED BY <1>3, <2>1, <3>1, HeadWaits
  <2> QED BY <1>4, <2>1 DEF HighestWaiter
<1> QED BY <1>1, <1>3, <1>5, <1>6 DEF Same, MovedAlone, Continues, Chooses

\* The last makes the chosen thread READY, if it is not yet, and the owner.
Passes(t, m, h) ==
  /\ h # t /\ pendOn[h] = m /\ pc[h] \in Waiting
  /\ k'.state[h] \in {k.state[h], "READY"} /\ k'.state[h] # "BLOCKED"
  /\ \A u \in Thread \ {h} : k'.state[u] = k.state[u]
  /\ pendOn'[t] = NoList /\ pc'[t] \in {"run", "yield"}
  /\ lock' = [lock EXCEPT ![m] = [lock[m] EXCEPT !.owner = h]]
  /\ held' = [held EXCEPT ![m] = @ \ {t}]

LEMMA WakeNextUnBlocksMoves ==
  ASSUME KernelAssumption, MutexAssumption, ObjInv, WakeInv, NEW t \in Thread, WakeNextUnBlocks(t)
  PROVE  /\ MovedAlone(t) /\ pc[t] = "unblock" /\ pendOn[t] \in Mutexes /\ k.state[t] = "READY"
         /\ \/ Same /\ UNCHANGED <<pc, semVars>> /\ UNCHANGED mutexVars
            \/ \E h \in Thread : h = waking[t].chosen /\ Passes(t, pendOn[t], h)
<1>1. Running(t) /\ pc[t] = "unblock" /\ pc[t] \in Releasing
  BY DEF WakeNextUnBlocks, InMutexCall, Releasing
<1>2. PICK m \in Mutexes : m = pendOn[t]
  BY DEF WakeNextUnBlocks, InMutexCall
<1>3. PICK h \in Thread \cup {NoList} : h = waking[t].chosen
  BY DEF WakeInv, Wakings
<1>4. /\ Good(k) /\ Dispatches(k, FALSE, FALSE) /\ k.state[t] = "READY" /\ t = k.current
      /\ pc \in [Thread -> Where] /\ pendOn \in [Thread -> BlockList \cup {NoList}]
  BY <1>1, MutexCaller DEF Releasing
<1>5. CASE k' = [k EXCEPT !.fault = TRUE] /\ UNCHANGED <<pc, semVars, mutexVars>>
  <2>1. Still(k', k)
    BY <1>4, <1>5, FaultStill
  <2> QED BY <1>1, <1>2, <1>4, <1>5, <2>1 DEF Still, Same, MovedAlone, semVars
<1>6. ASSUME h # NoList, k' = SetScheduler(UnBlock(k, h), TRUE), NEW at \in {"run", "yield"},
             Leave(t, at), lock' = [lock EXCEPT ![m] = [lock[m] EXCEPT !.owner = h]],
             held' = [held EXCEPT ![m] = @ \ {t}]
      PROVE  MovedAlone(t) /\ h \in Thread /\ Passes(t, m, h)
  <2>1. h \in Thread /\ h # t /\ pendOn[h] = m /\ pc[h] \in Waiting
    BY <1>1, <1>2, <1>3, <1>6 DEF WakeInv, ChosenWaits
  <2>2. PICK d : d = UnBlock(k, h)
    OBVIOUS
  <2>3. /\ Good(d) /\ Dispatches(d, FALSE, FALSE) /\ OthersStay(d, k, h)
        /\ d.state[h] \in {k.state[h], "READY"} /\ d.state[h] # "BLOCKED"
    <3>1. PICK y \in BOOLEAN : ~y
      OBVIOUS
    <3>2. Dispatches(k, y, y)
      BY <1>4 DEF Dispatches
    <3>3. /\ Good(d) /\ Dispatches(d, y, y) /\ OthersStay(d, k, h)
          /\ d.state[h] \in {k.state[h], "READY"} /\ d.state[h] # "BLOCKED"
      BY <1>4, <2>1, <2>2, <3>2, UnBlockDispatches
    <3>4. Dispatches(d, FALSE, FALSE)
      BY <3>1, <3>3 DEF Dispatches
    <3> QED BY <3>3, <3>4
  <2>4. Toggled(k', d, TRUE)
    BY <1>6, <2>2, <2>3, SetSchedulerDispatches
  <2>5. \A u \in Thread : k'.state[u] = d.state[u]
    BY <2>4 DEF Toggled
  <2>6. /\ pc' = [pc EXCEPT ![t] = at] /\ pendOn' = [pendOn EXCEPT ![t] = NoList]
        /\ expired' = expired
    BY <1>6 DEF Leave
  <2>7. MovedAlone(t) /\ pendOn'[t] = NoList /\ pc'[t] \in {"run", "yield"}
    BY <1>4, <2>6 DEF MovedAlone
  <2> QED BY <1>6, <2>1, <2>3, <2>5, <2>7 DEF Passes, OthersStay
<1>7. \/ k' = [k EXCEPT !.fault = TRUE] /\ UNCHANGED <<pc, semVars, mutexVars>>
      \/ /\ h # NoList /\ k' = SetScheduler(UnBlock(k, h), TRUE)
         /\ lock' = [lock EXCEPT ![m] = [lock[m] EXCEPT !.owner = h]]
         /\ held' = [held EXCEPT ![m] = @ \ {t}]
         /\ \E at \in {"run", "yield"} : Leave(t, at)
  BY <1>2, <1>3 DEF WakeNextUnBlocks, ReleaseEnds, PassOn
<1> QED BY <1>1, <1>2, <1>3, <1>4, <1>5, <1>6, <1>7

-----------------------------------------------------------------------------
(* The invariant of the mutexes *)

\* What is u's stays u's, and no more becomes so.
KeepsOwn(u) ==
  \A m \in Mutexes :
    /\ Owns(u, m) => Owns(u, m)'
    /\ Owns(u, m)' => Owns(u, m) /\ lock'[m].recurse = lock[m].recurse
    /\ u \in held[m] => u \in held'[m]

\* A Claim that the step is not about stands as it stood.
LEMMA ClaimStillStands ==
  ASSUME LockInv, NEW u \in Thread, pc'[u] = pc[u], pendOn'[u] = pendOn[u],
         expired'[u] = expired[u], k'.state[u] = k.state[u], KeepsOwn(u)
  PROVE  ClaimStands(u)'
<1>1. ClaimStands(u)
  BY DEF LockInv
<1> SUFFICES ASSUME pendOn[u] \in Mutexes PROVE ClaimStands(u)'
  BY DEF ClaimStands
<1>2. pc[u] \in {"wake", "unblock"} => Owns(u, pendOn[u])
  BY <1>1 DEF ClaimStands, Releasing, LockInv
<1> QED BY <1>1, <1>2 DEF ClaimStands, KeepsOwn

\* The mutexes themselves are in order.
Locks ==
  /\ lock \in [Mutexes -> Lock] /\ held \in [Mutexes -> SUBSET Thread]
  /\ \A m \in Mutexes : lock[m].ready <=> lock[m].owner = NoList
  /\ \A m \in Mutexes : \A t \in held[m] : Owns(t, m)

LEMMA LockKeeps ==
  ASSUME LockInv, NEW t \in Thread, MovedAlone(t), \A u \in Thread \ {t} : k'.state[u] = k.state[u],
         Locks', \A u \in Thread \ {t} : KeepsOwn(u), ClaimStands(t)'
  PROVE  LockInv'
<1>1. \A u \in Thread : ClaimStands(u)'
  BY ClaimStillStands DEF MovedAlone
<1> QED BY <1>1 DEF LockInv, Locks

\* Nothing has happened to the mutexes.
LEMMA LockSame ==
  ASSUME LockInv, UNCHANGED mutexVars
  PROVE  Locks' /\ \A u \in Thread : KeepsOwn(u)
BY DEF LockInv, Locks, KeepsOwn, Owns, mutexVars

LEMMA CallKeepsLock ==
  ASSUME KernelAssumption, ObjInv, LockInv, NEW t \in Thread, NEW m \in Mutexes,
         CallClaim(t, m) \/ CallTimedClaim(t, m) \/ CallRelease(t, m)
  PROVE  LockInv'
<1>1. /\ Same /\ MovedAlone(t) /\ UNCHANGED mutexVars /\ pendOn'[t] = m /\ pc[t] = "run"
      /\ \/ /\ pc'[t] \in {"claim", "claimT"}
            /\ lock[m].owner = t => lock[m].recurse < MaxRecurse
         \/ pc'[t] = "release" /\ t \in held[m]
  BY MutexCallMoves
<1>2. ClaimStands(t)'
  BY <1>1 DEF ClaimStands, Owns, Waiting, Releasing, mutexVars
<1> QED BY <1>1, <1>2, LockSame, LockKeeps DEF Same

LEMMA SuccessKeepsLock ==
  ASSUME KernelAssumption, MutexAssumption, ObjInv, LockInv, NEW t \in Thread, ClaimSucceeds(t)
  PROVE  LockInv'
<1>0. PICK m \in Mutexes : m = pendOn[t]
  BY DEF ClaimSucceeds, InMutexCall
<1>1. /\ InMutexCall(t, {"claim", "claimT", "release"}) /\ k' = SetScheduler(k, TRUE)
      /\ Leave(t, "run") /\ pc[t] \in {"claim", "claimT"} /\ m \in Mutexes
      /\ held' = [held EXCEPT ![m] = @ \cup {t}] /\ m = pendOn[t]
  BY <1>0 DEF ClaimSucceeds, InMutexCall
<1>2. Same /\ MovedAlone(t) /\ pendOn'[t] = NoList
  BY <1>1, MutexEndMoves
<1>3. ClaimStands(t)'
  BY <1>2, KernelAssumption DEF ClaimStands, KernelAssumption, MutexAssumption
<1>4. k.prio[t] \in Prio
  BY DEF ObjInv, Good, KernelState
<1>5. CASE lock[m].ready /\ lock' = [lock EXCEPT ![m] = [ready |-> FALSE, owner |-> t,
                                                         recurse |-> 0, maxPri |-> k.prio[t]]]
  <2>1. [ready |-> FALSE, owner |-> t, recurse |-> 0, maxPri |-> k.prio[t]] \in Lock
    BY <1>4 DEF Lock, MutexAssumption
  <2>2. /\ lock' \in [Mutexes -> Lock] /\ held' \in [Mutexes -> SUBSET Thread]
    BY <1>1, <1>5, <2>1 DEF LockInv
  <2>3. \A u \in Thread : ~Owns(u, m)
    BY <1>5 DEF Owns
  <2>4. Owns(t, m)' /\ \A u \in Thread \ {t} : ~Owns(u, m)'
    BY <1>1, <1>5 DEF Owns, LockInv
  <2>5. \A x \in Mutexes \ {m} : lock'[x] = lock[x] /\ held'[x] = held[x]
    BY <1>1, <1>5 DEF LockInv
  <2>6. held'[m] = held[m] \cup {t} /\ held[m] = {}
    BY <1>1, <2>3 DEF LockInv
  <2>7. ~lock'[m].ready /\ lock'[m].owner # NoList
    BY <1>1, <1>5 DEF LockInv, MutexAssumption
  <2>8. Locks'
    BY <2>2, <2>4, <2>5, <2>6, <2>7 DEF Locks, LockInv, Owns
  <2>9. \A u \in Thread \ {t} : KeepsOwn(u)
    BY <2>3, <2>4, <2>5, <2>6 DEF KeepsOwn, Owns
  <2> QED BY <1>2, <1>3, <2>8, <2>9, LockKeeps DEF Same
<1>6. CASE ~lock[m].ready /\ lock[m].owner = t /\ lock' = [lock EXCEPT ![m].recurse = @ + 1]
  <2>1. Owns(t, m) /\ lock[m].recurse < MaxRecurse
    BY <1>1, <1>6 DEF LockInv, ClaimStands, Owns
  <2>2. lock[m] \in Lock /\ MaxRecurse \in Nat
    BY <1>1 DEF LockInv, MutexAssumption
  <2>3. lock'[m] = [lock[m] EXCEPT !.recurse = @ + 1]
    BY <1>1, <1>6 DEF LockInv
  <2>4. /\ lock'[m] \in Lock /\ lock'[m].owner = t /\ ~lock'[m].ready
    BY <1>6, <2>1, <2>2, <2>3 DEF Lock
  <2>5. \A x \in Mutexes \ {m} : lock'[x] = lock[x] /\ held'[x] = held[x]
    BY <1>1, <1>6 DEF LockInv
  <2>6. /\ lock' \in [Mutexes -> Lock] /\ held' \in [Mutexes -> SUBSET Thread]
    BY <1>1, <1>6, <2>4 DEF LockInv
  <2>7. held'[m] = held[m] \cup {t}
    BY <1>1 DEF LockInv
  <2>8. Locks'
    BY <1>6, <2>4, <2>5, <2>6, <2>7 DEF Locks, LockInv, Owns
  <2>9. \A u \in Thread \ {t} : KeepsOwn(u)
    BY <1>6, <2>4, <2>5, <2>7 DEF KeepsOwn, Owns
  <2> QED BY <1>2, <1>3, <2>8, <2>9, LockKeeps DEF Same
<1> QED BY <1>1, <1>5, <1>6 DEF ClaimSucceeds

LEMMA BlockKeepsLock ==
  ASSUME KernelAssumption, SemaphoresAssumption, ObjectsAssumption, MutexAssumption, ObjInv,
         LockInv, NEW t \in Thread, ClaimBlocks(t)
  PROVE  LockInv'
<1>1. /\ MovedAlone(t) /\ k'.state[t] = "BLOCKED"
      /\ \A u \in Thread \ {t} : k'.state[u] = k.state[u]
      /\ pc'[t] \in {"inherit", "inheritT"} /\ UNCHANGED mutexVars
  BY ClaimBlocksMoves
<1>2. ClaimStands(t)'
  BY <1>1 DEF ClaimStands, Releasing
<1> QED BY <1>1, <1>2, LockSame, LockKeeps

LEMMA InheritKeepsLock ==
  ASSUME KernelAssumption, ObjInv, LockInv, NEW t \in Thread, ClaimInherits(t)
  PROVE  LockInv'
<1>1. /\ Same /\ MovedAlone(t) /\ pendOn' = pendOn /\ expired' = expired /\ held' = held
      /\ k.prio[t] \in Prio
      /\ lock' \in {lock, [lock EXCEPT ![pendOn[t]].maxPri = k.prio[t]]}
      /\ pc[t] \in {"inherit", "inheritT"}
      /\ pc'[t] = IF pc[t] = "inherit" THEN "block" ELSE "blockT"
  BY ClaimInheritsMoves
<1>2. PICK m \in Mutexes : m = pendOn[t]
  BY DEF ClaimInherits, InMutexCall
<1>3. /\ lock' \in [Mutexes -> Lock]
      /\ \A x \in Mutexes : /\ lock'[x].ready = lock[x].ready /\ lock'[x].owner = lock[x].owner
                            /\ lock'[x].recurse = lock[x].recurse
  <2>1. CASE lock' = lock
    BY <2>1 DEF LockInv
  <2>2. CASE lock' = [lock EXCEPT ![m].maxPri = k.prio[t]]
    <3>1. lock \in [Mutexes -> Lock]
      BY DEF LockInv
    <3>2. /\ [lock[m] EXCEPT !.maxPri = k.prio[t]] \in Lock
          /\ [lock[m] EXCEPT !.maxPri = k.prio[t]].ready = lock[m].ready
          /\ [lock[m] EXCEPT !.maxPri = k.prio[t]].owner = lock[m].owner
          /\ [lock[m] EXCEPT !.maxPri = k.prio[t]].recurse = lock[m].recurse
      BY <1>1, <3>1 DEF Lock
    <3>3. lock'[m] = [lock[m] EXCEPT !.maxPri = k.prio[t]]
      BY <2>2, <3>1
    <3>4. \A x \in Mutexes \ {m} : lock'[x] = lock[x]
      BY <2>2, <3>1
    <3> QED BY <2>2, <3>1, <3>2, <3>3, <3>4
  <2> QED BY <1>1, <1>2, <2>1, <2>2
<1>4. Locks' /\ \A u \in Thread : KeepsOwn(u)
  BY <1>1, <1>3 DEF Locks, LockInv, KeepsOwn, Owns
<1>5. ClaimStands(t)'
  <2>1. pc[t] \in Waiting /\ (pc[t] \in InTimedWait <=> pc'[t] \in InTimedWait)
    BY <1>1 DEF Waiting, InTimedWait
  <2>2. \/ k.state[t] \in {"BLOCKED", "EXIT"}
        \/ pc[t] \in InTimedWait /\ expired[t]
        \/ Owns(t, m)
    BY <1>2, <2>1 DEF LockInv, ClaimStands
  <2> QED BY <1>1, <1>2, <1>3, <2>1, <2>2 DEF ClaimStands, Same, Owns, Releasing
<1> QED BY <1>1, <1>4, <1>5, LockKeeps DEF Same

LEMMA YieldKeepsLock ==
  ASSUME KernelAssumption, ObjInv, LockInv, NEW t \in Thread, YieldBlocked(t), UNCHANGED mutexVars
  PROVE  LockInv'
<1>1. /\ Same /\ MovedAlone(t) /\ pendOn' = pendOn /\ expired' = expired
      /\ pc[t] \in {"block", "blockT"}
      /\ pc'[t] = IF pc[t] = "block" THEN "pend" ELSE "timed"
  BY ClaimYieldsMoves
<1>2. pc[t] \in Waiting /\ (pc[t] \in InTimedWait <=> pc'[t] \in InTimedWait)
  BY <1>1 DEF Waiting, InTimedWait
<1>3. ClaimStands(t)'
  <2>1. ClaimStands(t) /\ lock' = lock /\ held' = held
    BY DEF LockInv, mutexVars
  <2> QED BY <1>1, <1>2, <2>1 DEF ClaimStands, Same, Owns, Releasing
<1> QED BY <1>1, <1>3, LockSame, LockKeeps DEF Same

\* A Claim that returns true has the mutex.
LEMMA ReturnKeepsLock ==
  ASSUME KernelAssumption, MutexAssumption, ObjInv, LockInv, NEW t \in Thread, ClaimReturns(t)
  PROVE  LockInv'
<1>1. PICK m \in Mutexes : m = pendOn[t]
  BY DEF ClaimReturns
<1>2. /\ Same /\ MovedAlone(t) /\ pendOn'[t] = NoList /\ k.state[t] = "READY"
      /\ pc[t] \in {"pend", "timed"}
  BY PendEndsMoves DEF ClaimReturns
<1>3. /\ lock' = lock
      /\ held' = IF TimedOut(t) THEN held ELSE [held EXCEPT ![m] = @ \cup {t}]
  BY <1>1 DEF ClaimReturns
<1>4. ~TimedOut(t) => Owns(t, m)
  BY <1>1, <1>2 DEF LockInv, ClaimStands, Waiting, TimedOut, InTimedWait
<1>5. /\ held' \in [Mutexes -> SUBSET Thread]
      /\ \A x \in Mutexes : held[x] \subseteq held'[x]
      /\ \A x \in Mutexes : \A u \in held'[x] : u \in held[x] \/ (u = t /\ x = m /\ ~TimedOut(t))
  BY <1>3 DEF LockInv
<1>6. Locks'
  BY <1>3, <1>4, <1>5 DEF Locks, LockInv, Owns
<1>7. \A u \in Thread : KeepsOwn(u)
  BY <1>3, <1>5 DEF KeepsOwn, Owns
<1>8. ClaimStands(t)'
  BY <1>2 DEF ClaimStands, KernelAssumption, MutexAssumption
<1> QED BY <1>2, <1>6, <1>7, <1>8, LockKeeps DEF Same

LEMMA CountKeepsLock ==
  ASSUME KernelAssumption, MutexAssumption, ObjInv, LockInv, NEW t \in Thread, ReleaseCounts(t)
  PROVE  LockInv'
<1>1. PICK m \in Mutexes : m = pendOn[t]
  BY DEF ReleaseCounts, InMutexCall
<1>2. /\ InMutexCall(t, {"claim", "claimT", "release"}) /\ k' = SetScheduler(k, TRUE)
      /\ Leave(t, "run") /\ pc[t] = "release" /\ held' = held /\ lock[m].recurse > 0
      /\ lock' = [lock EXCEPT ![m].recurse = @ - 1]
  BY <1>1 DEF ReleaseCounts, InMutexCall
<1>3. Same /\ MovedAlone(t) /\ pendOn'[t] = NoList
  BY <1>2, MutexEndMoves
<1>4. Owns(t, m)
  BY <1>1, <1>2 DEF LockInv, ClaimStands, Releasing
<1>5. /\ lock'[m] \in Lock /\ lock'[m].owner = lock[m].owner /\ lock'[m].ready = lock[m].ready
      /\ lock' \in [Mutexes -> Lock] /\ \A x \in Mutexes \ {m} : lock'[x] = lock[x]
  <2>1. lock \in [Mutexes -> Lock] /\ MaxRecurse \in Nat /\ lock[m] \in Lock
    BY DEF LockInv, MutexAssumption
  <2>2. lock'[m] = [lock[m] EXCEPT !.recurse = @ - 1]
    BY <1>2, <2>1
  <2>3. /\ lock'[m] \in Lock /\ lock'[m].owner = lock[m].owner /\ lock'[m].ready = lock[m].ready
    BY <1>2, <2>1, <2>2 DEF Lock
  <2> QED BY <1>2, <2>1, <2>3
<1>6. Locks'
  BY <1>2, <1>5 DEF Locks, LockInv, Owns
<1>7. \A u \in Thread \ {t} : KeepsOwn(u)
  BY <1>2, <1>4, <1>5 DEF KeepsOwn, Owns
<1>8. ClaimStands(t)'
  BY <1>3 DEF ClaimStands, KernelAssumption, MutexAssumption
<1> QED BY <1>3, <1>6, <1>7, <1>8, LockKeeps DEF Same

\* The caller of a Release owns the mutex, until it belongs to nobody.
LEMMA ChecksKeepsLock ==
  ASSUME KernelAssumption, MutexAssumption, ObjInv, LockInv, NEW t \in Thread, ReleaseChecks(t)
  PROVE  LockInv'
<1>1. /\ Same /\ MovedAlone(t) /\ pc[t] = "release" /\ pendOn[t] \in Mutexes
      /\ lock[pendOn[t]].recurse = 0
      /\ Frees(t, pendOn[t]) \/ Continues(t, "wake")
  BY ReleaseChecksMoves
<1>2. PICK m \in Mutexes : m = pendOn[t]
  BY <1>1
<1>3. t \in held[m] /\ Owns(t, m) /\ held[m] \subseteq {t}
  BY <1>1, <1>2 DEF LockInv, ClaimStands, Owns, Releasing
<1>4. CASE Frees(t, m)
  <2>1. Free \in Lock /\ Free.ready /\ Free.owner = NoList
    BY KernelAssumption DEF Free, Lock, MutexAssumption, KernelAssumption, Prio
  <2>2. lock \in [Mutexes -> Lock] /\ held \in [Mutexes -> SUBSET Thread]
    BY DEF LockInv
  <2>3. /\ lock'[m] = Free /\ lock' \in [Mutexes -> Lock]
        /\ \A x \in Mutexes \ {m} : lock'[x] = lock[x]
    BY <1>4, <2>1, <2>2 DEF Frees
  <2>4. /\ held'[m] = {} /\ held' \in [Mutexes -> SUBSET Thread]
        /\ \A x \in Mutexes \ {m} : held'[x] = held[x]
    BY <1>3, <1>4, <2>2 DEF Frees
  <2>5. Locks'
    BY <2>1, <2>3, <2>4 DEF Locks, LockInv, Owns
  <2>6. \A u \in Thread \ {t} : KeepsOwn(u)
    BY <1>3, <2>1, <2>3, <2>4 DEF KeepsOwn, Owns
  <2>7. ClaimStands(t)'
    BY <1>4 DEF Frees, ClaimStands, KernelAssumption, MutexAssumption
  <2> QED BY <1>1, <2>5, <2>6, <2>7, LockKeeps DEF Same
<1>5. CASE Continues(t, "wake")
  <2>1. Locks' /\ \A u \in Thread : KeepsOwn(u)
    BY <1>5 DEF Continues, LockInv, Locks, KeepsOwn, Owns
  <2>2. ClaimStands(t)'
    BY <1>1, <1>2, <1>3, <1>5 DEF Continues, ClaimStands, Waiting
  <2> QED BY <1>1, <2>1, <2>2, LockKeeps DEF Same
<1> QED BY <1>1, <1>2, <1>4, <1>5

LEMMA ChooseKeepsLock ==
  ASSUME KernelAssumption, MutexAssumption, ObjInv, WakeInv, LockInv, NEW t \in Thread,
         WakeNextChooses(t)
  PROVE  LockInv'
<1>1. /\ Same /\ MovedAlone(t) /\ pc[t] = "wake" /\ pendOn[t] \in Mutexes
      /\ Continues(t, "unblock")
  BY WakeNextChoosesMoves
<1>2. t \in held[pendOn[t]] /\ lock[pendOn[t]].recurse = 0
  BY <1>1 DEF LockInv, ClaimStands, Releasing
<1>3. Locks' /\ \A u \in Thread : KeepsOwn(u)
  BY <1>1 DEF Continues, LockInv, Locks, KeepsOwn, Owns
<1>4. ClaimStands(t)'
  BY <1>1, <1>2 DEF Continues, ClaimStands, Waiting
<1> QED BY <1>1, <1>3, <1>4, LockKeeps DEF Same

\* It then belongs to the thread it is passed to.
LEMMA PassKeepsLock ==
  ASSUME KernelAssumption, MutexAssumption, ObjInv, WakeInv, LockInv, NEW t \in Thread,
         WakeNextUnBlocks(t)
  PROVE  LockInv'
<1>1. /\ MovedAlone(t) /\ pc[t] = "unblock" /\ pendOn[t] \in Mutexes /\ k.state[t] = "READY"
      /\ \/ Same /\ UNCHANGED <<pc, semVars>> /\ UNCHANGED mutexVars
         \/ \E h \in Thread : h = waking[t].chosen /\ Passes(t, pendOn[t], h)
  BY WakeNextUnBlocksMoves
<1>2. PICK m \in Mutexes : m = pendOn[t]
  BY <1>1
<1>3. CASE Same /\ UNCHANGED <<pc, semVars>> /\ UNCHANGED mutexVars
  <2>1. UNCHANGED <<pc, pendOn, expired>>
    BY <1>3 DEF semVars
  <2>2. Locks' /\ \A u \in Thread : KeepsOwn(u)
    BY <1>3, LockSame
  <2>3. ClaimStands(t)'
    BY <1>3, <2>1, <2>2, ClaimStillStands DEF Same
  <2> QED BY <1>1, <1>3, <2>2, <2>3, LockKeeps DEF Same
<1>4. ASSUME NEW h \in Thread, Passes(t, m, h)
      PROVE  LockInv'
  <2>1. t \in held[m] /\ Owns(t, m) /\ held[m] \subseteq {t}
    BY <1>1, <1>2 DEF LockInv, ClaimStands, Owns, Releasing
  <2>2. /\ lock \in [Mutexes -> Lock] /\ lock[m] \in Lock /\ ~lock[m].ready
        /\ held \in [Mutexes -> SUBSET Thread]
    BY <2>1 DEF LockInv, Owns
  <2>3. /\ lock' = [lock EXCEPT ![m] = [lock[m] EXCEPT !.owner = h]]
        /\ held' = [held EXCEPT ![m] = @ \ {t}] /\ pendOn'[t] = NoList
        /\ \A u \in Thread \ {h} : k'.state[u] = k.state[u]
        /\ h # t /\ pendOn[h] = m /\ pc[h] \in Waiting
    BY <1>4 DEF Passes
  <2>4. /\ held'[m] = {} /\ held' \in [Mutexes -> SUBSET Thread]
        /\ \A x \in Mutexes \ {m} : held'[x] = held[x]
    BY <2>1, <2>2, <2>3
  <2>5. /\ lock'[m] \in Lock /\ lock'[m].owner = h /\ ~lock'[m].ready
        /\ lock' \in [Mutexes -> Lock] /\ \A x \in Mutexes \ {m} : lock'[x] = lock[x]
    <3>1. /\ [lock[m] EXCEPT !.owner = h] \in Lock /\ [lock[m] EXCEPT !.owner = h].owner = h
          /\ ~[lock[m] EXCEPT !.owner = h].ready
      BY <2>2 DEF Lock
    <3> QED BY <2>2, <2>3, <3>1
  <2>6. Locks'
    BY <2>4, <2>5 DEF Locks, LockInv, Owns, MutexAssumption
  <2>7. ASSUME NEW u \in Thread, u # h, u # t PROVE ClaimStands(u)'
    <3>1. KeepsOwn(u)
      BY <2>1, <2>4, <2>5, <2>7 DEF KeepsOwn, Owns
    <3> QED BY <1>1, <2>3, <2>7, <3>1, ClaimStillStands DEF MovedAlone
  <2>8. ClaimStands(h)'
    <3>1. pc'[h] = pc[h] /\ pendOn'[h] = m
      BY <1>1, <2>3 DEF MovedAlone
    <3>2. Owns(h, m)'
      BY <2>5 DEF Owns
    <3> QED BY <2>3, <3>1, <3>2 DEF ClaimStands, Waiting, Releasing
  <2>9. ClaimStands(t)'
    BY <2>3 DEF ClaimStands, KernelAssumption, MutexAssumption
  <2> QED BY <2>6, <2>7, <2>8, <2>9 DEF LockInv, Locks
<1> QED BY <1>1, <1>2, <1>3, <1>4

\* A step about other objects leaves every Claim as it stands: nobody is stopped.
LEMMA OthersKeepLock ==
  ASSUME "Stop" \notin Calls, LockInv, UNCHANGED mutexVars, Minding(Mutexes)
  PROVE  LockInv'
<1>1. lock' = lock /\ held' = held
  BY DEF mutexVars
<1>2. ASSUME NEW u \in Thread, pendOn'[u] \in Mutexes PROVE ClaimStands(u)'
  <2>1. Passing(u) /\ ClaimStands(u)
    BY <1>2 DEF Minding, LockInv
  <2>2. pc'[u] = pc[u] /\ pendOn'[u] = pendOn[u]
    BY <2>1 DEF Passing
  <2>3. CASE expired'[u] = expired[u] /\ Departs(k', k, u)
    <3>1. k.state[u] \in {"BLOCKED", "EXIT"} => k'.state[u] \in {"BLOCKED", "EXIT"}
      BY <2>3 DEF Departs
    <3> QED BY <1>1, <2>1, <2>2, <2>3, <3>1 DEF ClaimStands, Owns
  <2>4. CASE expired'[u] /\ pc[u] \in InTimedWait
    <3>1. pc[u] \notin {"claim", "claimT"} \cup Releasing \cup {"wake", "unblock"}
      BY <2>4 DEF InTimedWait, Releasing
    <3> QED BY <1>1, <2>1, <2>2, <2>4, <3>1 DEF ClaimStands
  <2> QED BY <2>1, <2>3, <2>4 DEF Passing
<1>3. \A u \in Thread : ClaimStands(u)'
  BY <1>2 DEF ClaimStands
<1> QED BY <1>1, <1>3 DEF LockInv, Owns

-----------------------------------------------------------------------------
(* What holds in every reachable state *)

LEMMA EveryStepKeepsLock ==
  ASSUME KernelAssumption, SemaphoresAssumption, SleepAssumption, NotifyAssumption,
         EventFlagAssumption, MutexAssumption, MailboxAssumption, MessageAssumption,
         ObjectsAssumption, {"Init", "Stop"} \cap Calls = {}, ObjInv, FrameInv, LockInv, ObjectsNext
  PROVE  LockInv'
<1>0. WakeInv
  BY DEF FrameInv
<1>1. ASSUME NEW t \in Thread, MutexStep(t) PROVE LockInv'
  BY <1>0, <1>1, CallKeepsLock, SuccessKeepsLock, BlockKeepsLock, InheritKeepsLock,
     YieldKeepsLock, ReturnKeepsLock, CountKeepsLock, ChecksKeepsLock, ChooseKeepsLock,
     PassKeepsLock DEF MutexStep
<1>2. MutexSide
  BY EveryStep DEF Steps, Sides
<1> QED BY <1>1, <1>2, OthersKeepLock DEF MutexSide

LEMMA LockStart ==
  ASSUME MutexAssumption, KernelAssumption, ObjectsInit
  PROVE  LockInv
<1>1. /\ lock = [m \in Mutexes |-> Free] /\ held = [m \in Mutexes |-> {}]
      /\ pendOn = [t \in Thread |-> NoList]
  BY DEF ObjectsInit, MutexInit, SleepInit, SemInit
<1>2. Free \in Lock /\ Free.ready /\ Free.owner = NoList
  BY KernelAssumption DEF Free, Lock, MutexAssumption, KernelAssumption, Prio
<1>3. NoList \notin Mutexes
  BY KernelAssumption DEF KernelAssumption, MutexAssumption
<1> QED BY <1>1, <1>2, <1>3 DEF LockInv, ClaimStands

\* The invariant of the mutexes holds among all the other objects, while no
\* thread is stopped in a Claim and started again.
THEOREM LockInvariance ==
  ASSUME {"Init", "Stop"} \cap Calls = {}
  PROVE  ObjectsSpec => []LockInv
<1> USE KernelAssumption, SemaphoresAssumption, SleepAssumption, NotifyAssumption,
        EventFlagAssumption, MutexAssumption, MailboxAssumption, MessageAssumption,
        ObjectsAssumption
<1>1. ObjectsInit => LockInv
  BY LockStart
<1>2. ObjInv /\ FrameInv /\ LockInv /\ [ObjectsNext]_all => LockInv'
  <2>1. ASSUME LockInv, UNCHANGED all PROVE LockInv'
    <3>1. UNCHANGED <<k, pc, pendOn, expired, lock, held>>
      BY <2>1 DEF all, everyVar, allVars, semVars, objectVars, mutexVars
    <3> QED BY <2>1, <3>1 DEF LockInv, ClaimStands, Owns
  <2> QED BY <2>1, EveryStepKeepsLock
<1>3. ObjectsSpec => [](ObjInv /\ FrameInv)
  <2>1. "Init" \notin Calls
    OBVIOUS
  <2> QED BY <2>1, ObjectsInvariance
<1> QED BY <1>1, <1>2, <1>3, PTL DEF ObjectsSpec

\* Mutual exclusion: however claims, timeouts, releases and exits interleave, two
\* threads are never both told that they have claimed a mutex.
THEOREM MutualExclusionHolds ==
  ASSUME {"Init", "Stop"} \cap Calls = {}
  PROVE  ObjectsSpec => []MutualExclusion
<1>1. LockInv => MutualExclusion
  BY DEF LockInv, Owns, MutualExclusion
<1> QED BY <1>1, LockInvariance, PTL

-----------------------------------------------------------------------------
(* The promise of the mutexes: what a step is to MutexSpec *)

\* How a Claim without a timeout stands, by the place of the thread.
PhaseFrom(place, object, state) ==
  IF object \notin Mutexes \/ place \in {"claim", "release", "wake", "unblock"} THEN "idle"
  ELSE IF state = "BLOCKED" THEN "waiting" ELSE "granted"
Seen(t) == PhaseFrom(pc[t], pendOn[t], k.state[t])

LEMMA NoListIsNone ==
  ASSUME KernelAssumption, MutexAssumption
  PROVE  NoList \notin Mutexes
BY DEF KernelAssumption, MutexAssumption

LEMMA SeenNow ==
  ASSUME KernelAssumption, MutexAssumption, ObjInv, PatientInv, NEW t \in Thread
  PROVE  ClaimPhase(t) = Seen(t)
<1>1. CASE pendOn[t] \in Mutexes
  <2>1. Good(k) /\ Placed(t) /\ pendOn[t] \in BlockList
    BY <1>1 DEF ObjInv, MutexAssumption
  <2>2. t \in ToSet(k.list[pendOn[t]]) <=> k.state[t] = "BLOCKED" /\ k.where[t] = pendOn[t]
    BY <2>1, BlockedLists
  <2>3. k.state[t] = "BLOCKED" => k.where[t] = pendOn[t]
    BY <2>1 DEF Placed
  <2>4. /\ pc[t] \notin InTimedWait \cup {"claimT"}
        /\ pc[t] \in ClaimWaits <=> pc[t] \notin {"claim", "release", "wake", "unblock"}
    <3>1. pendOn[t] # NoList
      BY <1>1, NoListIsNone
    <3> QED BY <1>1, <2>1, <3>1 DEF PatientInv, Placed, InWait, Waiting, ClaimWaits
  <2> QED BY <1>1, <2>2, <2>3, <2>4 DEF ClaimPhase, Seen, PhaseFrom
<1> QED BY <1>1 DEF ClaimPhase, Seen, PhaseFrom

LEMMA SeenNext ==
  ASSUME KernelAssumption, MutexAssumption, ObjInv', PatientInv', NEW t \in Thread
  PROVE  ClaimPhase(t)' = Seen(t)'
<1>1. CASE pendOn'[t] \in Mutexes
  <2>1. Good(k') /\ Placed(t)' /\ pendOn'[t] \in BlockList
    BY <1>1 DEF ObjInv, MutexAssumption
  <2>2. t \in ToSet(k'.list[pendOn'[t]]) <=> k'.state[t] = "BLOCKED" /\ k'.where[t] = pendOn'[t]
    BY <2>1, BlockedLists
  <2>3. k'.state[t] = "BLOCKED" => k'.where[t] = pendOn'[t]
    BY <2>1 DEF Placed
  <2>4. /\ pc'[t] \notin InTimedWait \cup {"claimT"}
        /\ pc'[t] \in ClaimWaits <=> pc'[t] \notin {"claim", "release", "wake", "unblock"}
    <3>1. pendOn'[t] # NoList
      BY <1>1, NoListIsNone
    <3> QED BY <1>1, <2>1, <3>1 DEF PatientInv, Placed, InWait, Waiting, ClaimWaits
  <2> QED BY <1>1, <2>2, <2>3, <2>4 DEF ClaimPhase, Seen, PhaseFrom
<1> QED BY <1>1 DEF ClaimPhase, Seen, PhaseFrom

\* The Claim of u stands as before.
SameSeen(u) == Seen(u)' = Seen(u) /\ (Seen(u) # "idle" => pendOn'[u] = pendOn[u])

\* The state of MutexSpec, now and after the step.
Views == \A t \in Thread : ClaimPhase(t) = Seen(t) /\ ClaimPhase(t)' = Seen(t)'

LEMMA BothViews ==
  ASSUME KernelAssumption, MutexAssumption, ObjInv, PatientInv, ObjInv', PatientInv'
  PROVE  Views
BY SeenNow, SeenNext DEF Views

LEMMA MovedAloneSeen ==
  ASSUME NEW t, MovedAlone(t), NEW u \in Thread \ {t}, k'.state[u] = k.state[u]
  PROVE  SameSeen(u)
BY DEF MovedAlone, SameSeen, Seen

\* Nothing that concerns the callers has changed.
LEMMA SeenStutters ==
  ASSUME Views, \A u \in Thread : SameSeen(u),
         \A m \in Mutexes : lock'[m].owner = lock[m].owner /\ lock'[m].recurse = lock[m].recurse
  PROVE  UNCHANGED Ownership!vars
BY DEF Views, SameSeen, Ownership!vars

\* What the caller owns is what the lock says, and depth counts it.
SameLocks(m) ==
  /\ lock \in [Mutexes -> Lock] /\ lock' \in [Mutexes -> Lock]
  /\ \A x \in Mutexes \ {m} : lock'[x] = lock[x]

OwnerIs(m, o) == lock'[m].owner = o
DepthIs(m, n) == lock'[m].recurse = n

LEMMA OwnerMoves ==
  ASSUME NEW m \in Mutexes, SameLocks(m), NEW o, OwnerIs(m, o)
  PROVE  [x \in Mutexes |-> lock'[x].owner]
           = [[x \in Mutexes |-> lock[x].owner] EXCEPT ![m] = o]
BY DEF SameLocks, OwnerIs

LEMMA DepthMoves ==
  ASSUME NEW m \in Mutexes, SameLocks(m), NEW n, DepthIs(m, n)
  PROVE  [x \in Mutexes |-> lock'[x].recurse]
           = [[x \in Mutexes |-> lock[x].recurse] EXCEPT ![m] = n]
BY DEF SameLocks, DepthIs

LEMMA DepthStays ==
  ASSUME NEW m \in Mutexes, SameLocks(m), DepthIs(m, lock[m].recurse)
  PROVE  [x \in Mutexes |-> lock'[x].recurse] = [x \in Mutexes |-> lock[x].recurse]
BY DEF SameLocks, DepthIs

LEMMA OwnerStays ==
  ASSUME NEW m \in Mutexes, SameLocks(m), OwnerIs(m, lock[m].owner)
  PROVE  [x \in Mutexes |-> lock'[x].owner] = [x \in Mutexes |-> lock[x].owner]
BY DEF SameLocks, OwnerIs

\* Nobody's Claim has moved, or that of u alone.
LEMMA PhasesStay ==
  ASSUME Views, \A u \in Thread : SameSeen(u)
  PROVE  /\ [t \in Thread |-> ClaimPhase(t)]' = [t \in Thread |-> ClaimPhase(t)]
         /\ [t \in Thread |-> IF ClaimPhase(t) = "idle" THEN NoList ELSE pendOn[t]]'
              = [t \in Thread |-> IF ClaimPhase(t) = "idle" THEN NoList ELSE pendOn[t]]
BY DEF Views, SameSeen

\* Thread w reaches the phase `to` on mutex b.
Reaches(w, to, b) == Seen(w)' = to /\ b = IF to = "idle" THEN NoList ELSE pendOn'[w]

LEMMA PhaseMoves ==
  ASSUME Views, NEW w \in Thread, \A u \in Thread \ {w} : SameSeen(u), NEW to, NEW b,
         Reaches(w, to, b)
  PROVE  /\ [t \in Thread |-> ClaimPhase(t)]' = [[t \in Thread |-> ClaimPhase(t)] EXCEPT ![w] = to]
         /\ [t \in Thread |-> IF ClaimPhase(t) = "idle" THEN NoList ELSE pendOn[t]]'
              = [[t \in Thread |-> IF ClaimPhase(t) = "idle" THEN NoList ELSE pendOn[t]]
                   EXCEPT ![w] = b]
<1> DEFINE N(t) == IF ClaimPhase(t) = "idle" THEN NoList ELSE pendOn[t]
<1>1. \A t \in Thread \ {w} : ClaimPhase(t)' = ClaimPhase(t) /\ N(t)' = N(t)
  BY DEF Views, SameSeen
<1>2. ClaimPhase(w)' = to /\ N(w)' = b
  BY DEF Views, Reaches
<1> HIDE DEF N
<1>3. [t \in Thread |-> ClaimPhase(t)]' = [[t \in Thread |-> ClaimPhase(t)] EXCEPT ![w] = to]
  BY <1>1, <1>2
<1>4. [t \in Thread |-> N(t)]' = [[t \in Thread |-> N(t)] EXCEPT ![w] = b]
  BY <1>1, <1>2
<1> QED BY <1>3, <1>4 DEF N

\* Only t has moved, and not into a wait with a timeout.
LEMMA PatientMoves ==
  ASSUME PatientInv, WakeInv, NEW t \in Thread, Running(t), MovedAlone(t),
         pendOn'[t] \in Mutexes => pc'[t] \notin InTimedWait \cup {"claimT"},
         pc'[t] = "unblock" => Chooses(t),
         \A m \in Mutexes : lock'[m].ready => lock'[m].recurse = 0
  PROVE  PatientInv'
<1>1. ASSUME NEW u \in Thread, pc'[u] = "unblock" PROVE u = t
  <2>1. pc[u] \in Releasing => u = t
    BY DEF WakeInv, Occupies, Running
  <2> QED BY <1>1, <2>1 DEF MovedAlone, Releasing
<1> QED BY <1>1 DEF PatientInv, MovedAlone, Chooses

\* The steps of Claim and Release, one by one.
LEMMA CallIsStutter ==
  ASSUME KernelAssumption, MutexAssumption, ObjInv, WakeInv, PatientInv, NEW t \in Thread,
         NEW m \in Mutexes, CallClaim(t, m) \/ CallRelease(t, m)
  PROVE  PatientInv' /\ (Views => UNCHANGED Ownership!vars)
<1>1. /\ Same /\ MovedAlone(t) /\ UNCHANGED mutexVars /\ pendOn'[t] = m /\ pc[t] = "run"
  BY MutexCallMoves
<1>2. pc'[t] \in {"claim", "release"} /\ Running(t)
  <2>1. pc \in [Thread -> Where]
    BY DEF ObjInv
  <2> QED BY <2>1 DEF CallClaim, CallRelease, ClaimBegins, Calling
<1>3. PatientInv'
  BY <1>1, <1>2, PatientMoves DEF InTimedWait, PatientInv, mutexVars
<1>4. pendOn[t] = NoList
  BY <1>1 DEF ObjInv, Placed, InWait, Waiting
<1>5. SameSeen(t)
  BY <1>1, <1>2, <1>4, NoListIsNone DEF SameSeen, Seen, PhaseFrom
<1>6. \A u \in Thread : SameSeen(u)
  BY <1>1, <1>5, MovedAloneSeen DEF Same
<1> QED BY <1>1, <1>3, <1>6, SeenStutters DEF mutexVars

LEMMA SuccessIsClaim ==
  ASSUME KernelAssumption, MutexAssumption, ObjInv, WakeInv, LockInv, PatientInv, LockInv',
         NEW t \in Thread, ClaimSucceeds(t)
  PROVE  PatientInv' /\ (Views => Ownership!Next)
<1>0. PICK m \in Mutexes : m = pendOn[t]
  BY DEF ClaimSucceeds, InMutexCall
<1>1. /\ InMutexCall(t, {"claim", "claimT", "release"}) /\ k' = SetScheduler(k, TRUE)
      /\ Leave(t, "run") /\ pc[t] \in {"claim", "claimT"} /\ m \in Mutexes /\ m = pendOn[t]
  BY <1>0 DEF ClaimSucceeds, InMutexCall
<1>2. Same /\ MovedAlone(t) /\ pendOn'[t] = NoList /\ pc'[t] = "run" /\ Running(t)
  BY <1>1, MutexEndMoves
<1>3. pc[t] = "claim"
  BY <1>1 DEF PatientInv
<1>4. lock \in [Mutexes -> Lock] /\ lock' \in [Mutexes -> Lock]
  BY DEF LockInv
<1>5. \/ /\ lock[m].ready
         /\ lock' = [lock EXCEPT ![m] = [ready |-> FALSE, owner |-> t,
                                         recurse |-> 0, maxPri |-> k.prio[t]]]
      \/ /\ ~lock[m].ready /\ lock[m].owner = t
         /\ lock' = [lock EXCEPT ![m].recurse = @ + 1]
  BY <1>0 DEF ClaimSucceeds
<1>6. SameLocks(m) /\ OwnerIs(m, t) /\ ~lock'[m].ready
  BY <1>4, <1>5 DEF SameLocks, OwnerIs, Lock
<1>7. PatientInv'
  <2>1. \A x \in Mutexes : lock'[x].ready => lock'[x].recurse = 0
    BY <1>6 DEF SameLocks, PatientInv
  <2> QED BY <1>2, <2>1, NoListIsNone, PatientMoves
<1>8. \A u \in Thread : SameSeen(u) /\ Seen(t) = "idle"
  <2>1. SameSeen(t) /\ Seen(t) = "idle"
    BY <1>2, <1>3, NoListIsNone DEF SameSeen, Seen, PhaseFrom
  <2> QED BY <1>2, <2>1, MovedAloneSeen DEF Same
<1>9. ASSUME Views PROVE Ownership!Claim(t, m)
  <2>1. ClaimPhase(t) = "idle"
    BY <1>8, <1>9 DEF Views
  <2>2. [x \in Mutexes |-> lock'[x].owner] = [[x \in Mutexes |-> lock[x].owner] EXCEPT ![m] = t]
    BY <1>6, OwnerMoves
  <2>3. CASE lock[m].ready /\ DepthIs(m, 0)
    <3>1. lock[m].owner = NoList /\ lock[m].recurse = 0
      BY <2>3 DEF LockInv, PatientInv
    <3>2. [x \in Mutexes |-> lock'[x].recurse] = [x \in Mutexes |-> lock[x].recurse]
      BY <1>6, <2>3, <3>1, DepthStays
    <3> QED BY <1>8, <1>9, <2>1, <2>2, <3>1, <3>2, PhasesStay DEF Ownership!Claim
  <2>4. CASE ~lock[m].ready /\ lock[m].owner = t /\ DepthIs(m, lock[m].recurse + 1)
    <3>1. [x \in Mutexes |-> lock'[x].owner] = [x \in Mutexes |-> lock[x].owner]
      BY <1>6, <2>4, OwnerStays
    <3>2. [x \in Mutexes |-> lock'[x].recurse]
            = [[x \in Mutexes |-> lock[x].recurse] EXCEPT ![m] = lock[m].recurse + 1]
      BY <1>6, <2>4, DepthMoves
    <3>3. [x \in Mutexes |-> lock'[x].recurse]
            = [[x \in Mutexes |-> lock[x].recurse] EXCEPT ![m] = @ + 1]
      BY <3>2
    <3> QED BY <1>8, <1>9, <2>1, <2>4, <3>1, <3>3, PhasesStay DEF Ownership!Claim
  <2>5. \/ lock[m].ready /\ DepthIs(m, 0)
        \/ ~lock[m].ready /\ lock[m].owner = t /\ DepthIs(m, lock[m].recurse + 1)
    BY <1>4, <1>5 DEF DepthIs, Lock
  <2> QED BY <2>3, <2>4, <2>5
<1> QED BY <1>7, <1>9 DEF Ownership!Next

LEMMA BlockIsClaim ==
  ASSUME KernelAssumption, SemaphoresAssumption, ObjectsAssumption, MutexAssumption, ObjInv,
         WakeInv, LockInv, PatientInv, NEW t \in Thread, ClaimBlocks(t)
  PROVE  PatientInv' /\ (Views => Ownership!Next)
<1>0. PICK m \in Mutexes : m = pendOn[t]
  BY DEF ClaimBlocks, InMutexCall
<1>1. /\ MovedAlone(t) /\ k'.state[t] = "BLOCKED" /\ pendOn'[t] = m
      /\ \A u \in Thread \ {t} : k'.state[u] = k.state[u]
      /\ UNCHANGED mutexVars
      /\ pc[t] = "claim" => pc'[t] = "inherit"
  BY <1>0, ClaimBlocksMoves
<1>2. pc[t] = "claim" /\ ~lock[m].ready /\ lock[m].owner # t /\ Running(t)
  BY <1>0 DEF PatientInv, ClaimBlocks, InMutexCall
<1>3. PatientInv'
  BY <1>1, <1>2, PatientMoves DEF InTimedWait, PatientInv, mutexVars
<1>4. Reaches(t, "waiting", m) /\ Seen(t) = "idle"
  BY <1>0, <1>1, <1>2 DEF Reaches, Seen, PhaseFrom
<1>5. lock[m].owner # NoList
  BY <1>2 DEF LockInv
<1>6. ASSUME Views PROVE Ownership!Claim(t, m)
  <2>1. ClaimPhase(t) = "idle"
    BY <1>4, <1>6 DEF Views
  <2>2. \A u \in Thread \ {t} : SameSeen(u)
    BY <1>1, MovedAloneSeen
  <2>3. /\ [u \in Thread |-> ClaimPhase(u)]'
             = [[u \in Thread |-> ClaimPhase(u)] EXCEPT ![t] = "waiting"]
        /\ [u \in Thread |-> IF ClaimPhase(u) = "idle" THEN NoList ELSE pendOn[u]]'
             = [[u \in Thread |-> IF ClaimPhase(u) = "idle" THEN NoList ELSE pendOn[u]]
                  EXCEPT ![t] = m]
    BY <1>4, <1>6, <2>2, PhaseMoves
  <2>4. lock' = lock /\ lock[m].owner \notin {NoList, t}
    BY <1>1, <1>2, <1>5 DEF mutexVars
  <2> QED BY <2>1, <2>3, <2>4 DEF Ownership!Claim
<1> QED BY <1>3, <1>6 DEF Ownership!Next

LEMMA InheritIsStutter ==
  ASSUME KernelAssumption, ObjInv, WakeInv, LockInv, PatientInv, NEW t \in Thread, ClaimInherits(t)
  PROVE  PatientInv' /\ (Views => UNCHANGED Ownership!vars)
<1>0. PICK m \in Mutexes : m = pendOn[t]
  BY DEF ClaimInherits, InMutexCall
<1>1. /\ Same /\ MovedAlone(t) /\ pendOn' = pendOn
      /\ lock' \in {lock, [lock EXCEPT ![m].maxPri = k.prio[t]]}
      /\ pc[t] \in {"inherit", "inheritT"}
      /\ pc'[t] = IF pc[t] = "inherit" THEN "block" ELSE "blockT"
  BY <1>0, ClaimInheritsMoves
<1>2. pc[t] = "inherit" /\ pc'[t] = "block" /\ Running(t)
  BY <1>0, <1>1 DEF PatientInv, InTimedWait, ClaimInherits, InMutexCall
<1>3. \A x \in Mutexes : /\ lock'[x].ready = lock[x].ready /\ lock'[x].owner = lock[x].owner
                         /\ lock'[x].recurse = lock[x].recurse
  BY <1>1 DEF LockInv, Lock
<1>4. PatientInv'
  BY <1>1, <1>2, <1>3, PatientMoves DEF InTimedWait, PatientInv
<1>5. SameSeen(t)
  BY <1>1, <1>2 DEF SameSeen, Seen, PhaseFrom, Same
<1> QED BY <1>1, <1>3, <1>4, <1>5, MovedAloneSeen, SeenStutters DEF Same

LEMMA YieldIsStutter ==
  ASSUME KernelAssumption, ObjInv, WakeInv, PatientInv, NEW t \in Thread, YieldBlocked(t),
         pendOn[t] \in Mutexes, UNCHANGED mutexVars
  PROVE  PatientInv' /\ (Views => UNCHANGED Ownership!vars)
<1>1. /\ Same /\ MovedAlone(t) /\ pendOn' = pendOn /\ pc[t] \in {"block", "blockT"}
      /\ pc'[t] = IF pc[t] = "block" THEN "pend" ELSE "timed"
  BY ClaimYieldsMoves
<1>2. pc[t] = "block" /\ pc'[t] = "pend" /\ Running(t)
  BY <1>1 DEF PatientInv, InTimedWait, YieldBlocked
<1>3. PatientInv'
  BY <1>1, <1>2, PatientMoves DEF InTimedWait, PatientInv, mutexVars
<1>4. SameSeen(t)
  BY <1>1, <1>2 DEF SameSeen, Seen, PhaseFrom, Same
<1> QED BY <1>1, <1>3, <1>4, MovedAloneSeen, SeenStutters DEF Same, mutexVars

LEMMA ReturnIsReturn ==
  ASSUME KernelAssumption, MutexAssumption, ObjInv, WakeInv, PatientInv, NEW t \in Thread,
         ClaimReturns(t)
  PROVE  PatientInv' /\ (Views => Ownership!Next)
<1>1. /\ Same /\ MovedAlone(t) /\ pendOn'[t] = NoList /\ k.state[t] = "READY"
      /\ pc[t] \in {"pend", "timed"} /\ pendOn[t] \in Mutexes /\ lock' = lock
  BY PendEndsMoves DEF ClaimReturns
<1>2. PatientInv'
  <2>1. Running(t) /\ pc'[t] = "run"
    BY DEF ClaimReturns, PendEnds, ObjInv
  <2> QED BY <1>1, <2>1, NoListIsNone, PatientMoves DEF PatientInv
<1>3. Seen(t) = "granted" /\ Reaches(t, "idle", NoList)
  BY <1>1, NoListIsNone DEF Seen, PhaseFrom, Reaches
<1>4. ASSUME Views PROVE Ownership!Return(t)
  <2>1. ClaimPhase(t) = "granted"
    BY <1>3, <1>4 DEF Views
  <2>2. \A u \in Thread \ {t} : SameSeen(u)
    BY <1>1, MovedAloneSeen DEF Same
  <2> QED BY <1>1, <1>3, <1>4, <2>1, <2>2, PhaseMoves DEF Ownership!Return
<1> QED BY <1>2, <1>4 DEF Ownership!Next

LEMMA CountIsRelease ==
  ASSUME KernelAssumption, MutexAssumption, ObjInv, WakeInv, LockInv, PatientInv, LockInv',
         NEW t \in Thread, ReleaseCounts(t)
  PROVE  PatientInv' /\ (Views => Ownership!Next)
<1>0. PICK m \in Mutexes : m = pendOn[t]
  BY DEF ReleaseCounts, InMutexCall
<1>1. /\ InMutexCall(t, {"claim", "claimT", "release"}) /\ k' = SetScheduler(k, TRUE)
      /\ Leave(t, "run") /\ pc[t] = "release" /\ lock[m].recurse > 0
      /\ lock' = [lock EXCEPT ![m].recurse = @ - 1]
  BY <1>0 DEF ReleaseCounts, InMutexCall
<1>2. Same /\ MovedAlone(t) /\ pendOn'[t] = NoList /\ pc'[t] = "run" /\ Running(t)
  BY <1>1, MutexEndMoves
<1>3. Owns(t, m)
  BY <1>0, <1>1 DEF LockInv, ClaimStands, Releasing
<1>4. /\ SameLocks(m) /\ OwnerIs(m, lock[m].owner) /\ DepthIs(m, lock[m].recurse - 1)
      /\ ~lock'[m].ready
  <2>1. lock \in [Mutexes -> Lock] /\ lock' \in [Mutexes -> Lock]
    BY DEF LockInv
  <2> QED BY <1>1, <1>3, <2>1 DEF SameLocks, OwnerIs, DepthIs, Lock, Owns
<1>5. PatientInv'
  <2>1. \A x \in Mutexes : lock'[x].ready => lock'[x].recurse = 0
    BY <1>4 DEF SameLocks, PatientInv
  <2> QED BY <1>2, <2>1, NoListIsNone, PatientMoves
<1>6. Seen(t) = "idle" /\ \A u \in Thread : SameSeen(u)
  <2>1. SameSeen(t) /\ Seen(t) = "idle"
    BY <1>1, <1>2, NoListIsNone DEF SameSeen, Seen, PhaseFrom
  <2> QED BY <1>2, <2>1, MovedAloneSeen DEF Same
<1>7. ASSUME Views PROVE Ownership!Release(t, m)
  <2>1. ClaimPhase(t) = "idle" /\ lock[m].owner = t
    BY <1>3, <1>6, <1>7 DEF Views, Owns
  <2>2. [x \in Mutexes |-> lock'[x].owner] = [x \in Mutexes |-> lock[x].owner]
    BY <1>4, OwnerStays
  <2>3. [x \in Mutexes |-> lock'[x].recurse]
          = [[x \in Mutexes |-> lock[x].recurse] EXCEPT ![m] = lock[m].recurse - 1]
    BY <1>4, DepthMoves
  <2>4. [x \in Mutexes |-> lock'[x].recurse]
          = [[x \in Mutexes |-> lock[x].recurse] EXCEPT ![m] = @ - 1]
    BY <2>3
  <2> QED BY <1>1, <1>6, <1>7, <2>1, <2>2, <2>4, PhasesStay DEF Ownership!Release
<1> QED BY <1>5, <1>7 DEF Ownership!Next

\* The lock of m keeps its count of 0 and gets the owner o; nobody is blocked in a
\* Release meanwhile.
Owned(t, m, o) ==
  /\ SameLocks(m) /\ OwnerIs(m, o) /\ DepthIs(m, lock[m].recurse) /\ lock[m].recurse = 0
  /\ Owns(t, m)

LEMMA OwnedViews ==
  ASSUME NEW t \in Thread, NEW m \in Mutexes, NEW o, Owned(t, m, o), Views, Seen(t) = "idle"
  PROVE  /\ ClaimPhase(t) = "idle" /\ lock[m].owner = t /\ lock[m].recurse = 0
         /\ [x \in Mutexes |-> lock'[x].recurse] = [x \in Mutexes |-> lock[x].recurse]
         /\ [x \in Mutexes |-> lock'[x].owner]
              = [[x \in Mutexes |-> lock[x].owner] EXCEPT ![m] = o]
BY DepthStays, OwnerMoves DEF Owned, Views, Owns

LEMMA ChecksIsRelease ==
  ASSUME KernelAssumption, MutexAssumption, ObjInv, WakeInv, LockInv, PatientInv, LockInv',
         NEW t \in Thread, ReleaseChecks(t)
  PROVE  PatientInv' /\ (Views => [Ownership!Next]_(Ownership!vars))
<1>1. /\ Same /\ MovedAlone(t) /\ k.state[t] = "READY"
      /\ pc[t] = "release" /\ pendOn[t] \in Mutexes /\ lock[pendOn[t]].recurse = 0
      /\ Frees(t, pendOn[t]) \/ Continues(t, "wake")
  BY ReleaseChecksMoves
<1>2. PICK m \in Mutexes : m = pendOn[t]
  BY <1>1
<1>3. Owns(t, m) /\ Running(t)
  BY <1>1, <1>2 DEF LockInv, ClaimStands, Releasing, ReleaseChecks, InMutexCall
<1>4. Seen(t) = "idle"
  BY <1>1 DEF Seen, PhaseFrom
<1>5. CASE Frees(t, m)
  <2>1. /\ lock' = [lock EXCEPT ![m] = Free] /\ pendOn'[t] = NoList /\ pc'[t] \in {"run", "yield"}
        /\ \A u \in Thread : ~(k.state[u] = "BLOCKED" /\ k.where[u] = m)
    BY <1>5 DEF Frees
  <2>2. Owned(t, m, NoList)
    <3>1. lock \in [Mutexes -> Lock] /\ lock' \in [Mutexes -> Lock]
      BY DEF LockInv
    <3> QED BY <1>1, <1>2, <1>3, <2>1, <3>1 DEF Owned, SameLocks, OwnerIs, DepthIs, Free
  <2>3. PatientInv'
    <3>1. \A x \in Mutexes : lock'[x].ready => lock'[x].recurse = 0
      BY <2>2 DEF Owned, SameLocks, DepthIs, PatientInv
    <3> QED BY <1>1, <1>3, <2>1, <3>1, NoListIsNone, PatientMoves
  <2>4. \A u \in Thread : SameSeen(u)
    <3>1. SameSeen(t)
      BY <1>4, <2>1, NoListIsNone DEF SameSeen, Seen, PhaseFrom
    <3> QED BY <1>1, <3>1, MovedAloneSeen DEF Same
  <2>5. ASSUME Views, NEW u \in Thread, ClaimPhase(u) = "waiting", pendOn[u] = m PROVE FALSE
    <3>1. k.state[u] = "BLOCKED"
      BY <2>5 DEF Views, Seen, PhaseFrom
    <3> QED BY <2>1, <2>5, <3>1 DEF ObjInv, Placed
  <2>6. ASSUME Views PROVE Ownership!Release(t, m)
    <3>1. Ownership!Waiting(m) = {}
      BY <2>5, <2>6 DEF Ownership!Waiting
    <3>2. /\ ClaimPhase(t) = "idle" /\ lock[m].owner = t /\ lock[m].recurse = 0
          /\ [x \in Mutexes |-> lock'[x].recurse] = [x \in Mutexes |-> lock[x].recurse]
          /\ [x \in Mutexes |-> lock'[x].owner]
               = [[x \in Mutexes |-> lock[x].owner] EXCEPT ![m] = NoList]
      BY <1>4, <2>2, <2>6, OwnedViews
    <3> QED BY <2>4, <2>6, <3>1, <3>2, PhasesStay DEF Ownership!Release
  <2> QED BY <2>3, <2>6 DEF Ownership!Next
<1>6. CASE Continues(t, "wake")
  <2>1. pc'[t] = "wake" /\ pendOn'[t] = pendOn[t] /\ lock' = lock
    BY <1>6 DEF Continues
  <2>2. PatientInv'
    BY <1>1, <1>3, <2>1, PatientMoves DEF InTimedWait, PatientInv
  <2>3. SameSeen(t)
    BY <1>1, <2>1 DEF SameSeen, Seen, PhaseFrom
  <2>4. \A u \in Thread : SameSeen(u)
    BY <1>1, <2>3, MovedAloneSeen DEF Same
  <2> QED BY <2>1, <2>2, <2>4, SeenStutters
<1> QED BY <1>1, <1>2, <1>5, <1>6

LEMMA ChooseIsStutter ==
  ASSUME KernelAssumption, MutexAssumption, ObjInv, WakeInv, PatientInv, NEW t \in Thread,
         WakeNextChooses(t)
  PROVE  PatientInv' /\ (Views => UNCHANGED Ownership!vars)
<1>1. /\ Same /\ MovedAlone(t) /\ pc[t] = "wake" /\ pendOn[t] \in Mutexes
      /\ Continues(t, "unblock") /\ Chooses(t)
  BY WakeNextChoosesMoves
<1>2. pc'[t] = "unblock" /\ pendOn'[t] = pendOn[t] /\ lock' = lock /\ Running(t)
  BY <1>1 DEF Continues, WakeNextChooses, InMutexCall
<1>3. PatientInv'
  BY <1>1, <1>2, PatientMoves DEF InTimedWait, PatientInv
<1>4. SameSeen(t)
  BY <1>1, <1>2 DEF SameSeen, Seen, PhaseFrom
<1>5. \A u \in Thread : SameSeen(u)
  BY <1>1, <1>4, MovedAloneSeen DEF Same
<1> QED BY <1>2, <1>3, <1>5, SeenStutters

LEMMA PassIsRelease ==
  ASSUME KernelAssumption, MutexAssumption, ObjInv, WakeInv, LockInv, PatientInv, LockInv',
         NEW t \in Thread, WakeNextUnBlocks(t)
  PROVE  PatientInv' /\ (Views => [Ownership!Next]_(Ownership!vars))
<1>1. /\ MovedAlone(t) /\ pc[t] = "unblock" /\ pendOn[t] \in Mutexes /\ k.state[t] = "READY"
      /\ \/ Same /\ UNCHANGED <<pc, semVars>> /\ UNCHANGED mutexVars
         \/ \E h \in Thread : h = waking[t].chosen /\ Passes(t, pendOn[t], h)
  BY WakeNextUnBlocksMoves
<1>2. PICK m \in Mutexes : m = pendOn[t]
  BY <1>1
<1>3. Owns(t, m) /\ lock[m].recurse = 0 /\ Running(t)
  BY <1>1, <1>2 DEF LockInv, ClaimStands, Releasing, WakeNextUnBlocks, InMutexCall
<1>4. Seen(t) = "idle"
  BY <1>1 DEF Seen, PhaseFrom
<1>5. CASE Same /\ UNCHANGED <<pc, semVars>> /\ UNCHANGED mutexVars
  <2>1. pc' = pc /\ pendOn' = pendOn /\ lock' = lock /\ waking' = waking
    BY <1>5 DEF semVars, mutexVars
  <2>2. PatientInv'
    <3>1. ASSUME NEW u \in Thread, pc[u] = "unblock", waking[u].chosen # NoList
          PROVE  k'.state[waking[u].chosen] = "BLOCKED"
      <4>1. waking[u].chosen \in Thread
        BY <3>1 DEF WakeInv, Wakings
      <4> QED BY <1>5, <3>1, <4>1 DEF PatientInv, Same
    <3> QED BY <2>1, <3>1 DEF PatientInv
  <2>3. \A u \in Thread : SameSeen(u)
    BY <1>5, <2>1 DEF SameSeen, Seen, PhaseFrom, Same
  <2> QED BY <2>1, <2>2, <2>3, SeenStutters
<1>6. ASSUME NEW h \in Thread, h = waking[t].chosen, Passes(t, m, h)
      PROVE  PatientInv' /\ (Views => Ownership!Next)
  <2>1. /\ h # t /\ pendOn[h] = m /\ pc[h] \in Waiting
        /\ k'.state[h] # "BLOCKED" /\ \A u \in Thread \ {h} : k'.state[u] = k.state[u]
        /\ pendOn'[t] = NoList /\ pc'[t] \in {"run", "yield"}
        /\ lock' = [lock EXCEPT ![m] = [lock[m] EXCEPT !.owner = h]]
    BY <1>6 DEF Passes
  <2>2. k.state[h] = "BLOCKED"
    BY <1>1, <1>6, KernelAssumption DEF PatientInv, KernelAssumption, MutexAssumption
  <2>3. Owned(t, m, h)
    <3>1. lock \in [Mutexes -> Lock] /\ lock' \in [Mutexes -> Lock]
      BY DEF LockInv
    <3>2. [lock[m] EXCEPT !.owner = h].recurse = lock[m].recurse
      BY <3>1 DEF Lock
    <3>3. [lock[m] EXCEPT !.owner = h].owner = h
      BY <3>1 DEF Lock
    <3>4. lock'[m] = [lock[m] EXCEPT !.owner = h]
      BY <2>1, <3>1
    <3> QED BY <1>3, <2>1, <3>1, <3>2, <3>3, <3>4 DEF Owned, SameLocks, OwnerIs, DepthIs
  <2>4. PatientInv'
    <3>1. \A x \in Mutexes : lock'[x].ready => lock'[x].recurse = 0
      BY <2>3 DEF Owned, SameLocks, DepthIs, PatientInv
    <3> QED BY <1>1, <1>3, <2>1, <3>1, NoListIsNone, PatientMoves
  <2>5. pc'[h] = pc[h] /\ pendOn'[h] = m
    BY <1>1, <2>1 DEF MovedAlone
  <2>6. Seen(h) = "waiting" /\ Reaches(h, "granted", m)
    BY <2>1, <2>2, <2>5 DEF Seen, PhaseFrom, Reaches, Waiting
  <2>7. \A u \in Thread \ {h} : SameSeen(u)
    <3>1. SameSeen(t)
      BY <1>4, <2>1, NoListIsNone DEF SameSeen, Seen, PhaseFrom
    <3> QED BY <1>1, <2>1, <3>1, MovedAloneSeen
  <2>8. ASSUME Views PROVE Ownership!Release(t, m)
    <3>1. h \in Ownership!Waiting(m)
      BY <2>1, <2>6, <2>8 DEF Ownership!Waiting, Views
    <3>2. /\ [u \in Thread |-> ClaimPhase(u)]'
               = [[u \in Thread |-> ClaimPhase(u)] EXCEPT ![h] = "granted"]
          /\ [u \in Thread |-> IF ClaimPhase(u) = "idle" THEN NoList ELSE pendOn[u]]'
               = [[u \in Thread |-> IF ClaimPhase(u) = "idle" THEN NoList ELSE pendOn[u]]
                    EXCEPT ![h] = m]
      BY <2>6, <2>7, <2>8, PhaseMoves
    <3>3. [u \in Thread |-> IF ClaimPhase(u) = "idle" THEN NoList ELSE pendOn[u]]'
            = [u \in Thread |-> IF ClaimPhase(u) = "idle" THEN NoList ELSE pendOn[u]]
      <4> DEFINE On == [u \in Thread |-> IF ClaimPhase(u) = "idle" THEN NoList ELSE pendOn[u]]
      <4>1. On[h] = m /\ On' = [On EXCEPT ![h] = m]
        BY <2>1, <2>6, <2>8, <3>2 DEF Views
      <4>2. \A u \in Thread : [On EXCEPT ![h] = m][u] = On[u]
        BY <4>1
      <4> QED BY <4>1, <4>2
    <3>4. /\ ClaimPhase(t) = "idle" /\ lock[m].owner = t /\ lock[m].recurse = 0
          /\ [x \in Mutexes |-> lock'[x].recurse] = [x \in Mutexes |-> lock[x].recurse]
          /\ [x \in Mutexes |-> lock'[x].owner]
               = [[x \in Mutexes |-> lock[x].owner] EXCEPT ![m] = h]
      BY <1>4, <2>3, <2>8, OwnedViews
    <3> QED BY <3>1, <3>2, <3>3, <3>4 DEF Ownership!Release
  <2> QED BY <2>4, <2>8 DEF Ownership!Next
<1> QED BY <1>1, <1>2, <1>5, <1>6

\* A step about other objects is none of MutexSpec: nobody is stopped or exits.
LEMMA OthersStutter ==
  ASSUME {"Stop", "Exit"} \cap Calls = {}, WakeInv, PatientInv, UNCHANGED mutexVars,
         Minding(Mutexes), Aside(Releasing)
  PROVE  PatientInv' /\ (Views => UNCHANGED Ownership!vars)
<1>1. ASSUME NEW u \in Thread, pendOn[u] \in Mutexes \/ pendOn'[u] \in Mutexes
      PROVE  /\ pc'[u] = pc[u] /\ pendOn'[u] = pendOn[u]
             /\ k'.state[u] = "BLOCKED" <=> k.state[u] = "BLOCKED"
  <2>1. Passing(u)
    BY <1>1 DEF Minding
  <2>2. pc'[u] = pc[u] /\ pendOn'[u] = pendOn[u]
    BY <2>1 DEF Passing
  <2>3. pc[u] \notin InTimedWait
    BY <1>1, <2>2 DEF PatientInv
  <2>4. Departs(k', k, u)
    BY <2>1, <2>3 DEF Passing
  <2> QED BY <2>2, <2>4 DEF Departs
<1>2. PatientInv'
  <2>1. ASSUME NEW u \in Thread, pc'[u] = "unblock", waking[u].chosen # NoList
        PROVE  k'.state[waking[u].chosen] = "BLOCKED"
    <3>1. pc[u] = "unblock" /\ pc[u] \in Releasing
      BY <2>1 DEF Aside, Releasing
    <3>2. waking[u].chosen \in Thread /\ pendOn[waking[u].chosen] \in Mutexes
      BY <2>1, <3>1 DEF WakeInv, Wakings, Occupies, ChosenWaits
    <3> QED BY <1>1, <2>1, <3>1, <3>2 DEF PatientInv
  <2> QED BY <1>1, <2>1 DEF PatientInv, mutexVars
<1>3. \A u \in Thread : SameSeen(u)
  BY <1>1 DEF SameSeen, Seen, PhaseFrom
<1> QED BY <1>2, <1>3, SeenStutters DEF mutexVars

\* A step is one of MutexSpec, or none.
Keeps == PatientInv' /\ (Views => [Ownership!Next]_(Ownership!vars))

LEMMA EveryStepKeepsPromise ==
  ASSUME KernelAssumption, SemaphoresAssumption, SleepAssumption, NotifyAssumption,
         EventFlagAssumption, MutexAssumption, MailboxAssumption, MessageAssumption,
         ObjectsAssumption, {"Init", "Stop", "Exit", "TimedClaim"} \cap Calls = {},
         ObjInv, FrameInv, LockInv, PatientInv, ObjectsNext
  PROVE  Keeps
<1>1. LockInv' /\ WakeInv
  BY EveryStepKeepsLock DEF FrameInv
<1>2. ASSUME NEW t \in Thread, MutexStep(t) PROVE Keeps
  <2>1. CASE \E m \in Mutexes : CallClaim(t, m) \/ CallRelease(t, m)
    BY <1>1, <2>1, CallIsStutter DEF Keeps
  <2>2. ASSUME NEW m \in Mutexes, CallTimedClaim(t, m) PROVE FALSE
    BY <2>2 DEF CallTimedClaim, Calling
  <2>3. CASE ClaimSucceeds(t)
    BY <1>1, <2>3, SuccessIsClaim DEF Keeps
  <2>4. CASE ClaimBlocks(t)
    BY <1>1, <2>4, BlockIsClaim DEF Keeps
  <2>5. CASE ClaimInherits(t)
    BY <1>1, <2>5, InheritIsStutter DEF Keeps
  <2>6. CASE ClaimReturns(t)
    BY <1>1, <2>6, ReturnIsReturn DEF Keeps
  <2>7. CASE pendOn[t] \in Mutexes /\ YieldBlocked(t) /\ UNCHANGED mutexVars
    BY <1>1, <2>7, YieldIsStutter DEF Keeps
  <2>8. CASE ReleaseCounts(t)
    BY <1>1, <2>8, CountIsRelease DEF Keeps
  <2>9. CASE ReleaseChecks(t)
    BY <1>1, <2>9, ChecksIsRelease DEF Keeps
  <2>10. CASE WakeNextChooses(t)
    BY <1>1, <2>10, ChooseIsStutter DEF Keeps
  <2>11. CASE WakeNextUnBlocks(t)
    BY <1>1, <2>11, PassIsRelease DEF Keeps
  <2> QED BY <1>2, <2>1, <2>2, <2>3, <2>4, <2>5, <2>6, <2>7, <2>8, <2>9, <2>10, <2>11
             DEF MutexStep
<1>3. MutexSide
  BY EveryStep DEF Steps, Sides
<1>4. CASE UNCHANGED mutexVars /\ Minding(Mutexes) /\ Aside(Releasing)
  BY <1>1, <1>4, OthersStutter DEF Keeps
<1> QED BY <1>2, <1>3, <1>4 DEF MutexSide

LEMMA PatientStart ==
  ASSUME KernelAssumption, MutexAssumption, ObjectsInit
  PROVE  PatientInv /\ Ownership!Init
<1>1. /\ lock = [m \in Mutexes |-> Free] /\ pendOn = [t \in Thread |-> NoList]
      /\ \A t \in Thread : pc[t] # "unblock"
  BY DEF ObjectsInit, MutexInit, SleepInit, SemInit, Init
<1>2. Free.owner = NoList /\ Free.recurse = 0
  BY DEF Free
<1>3. \A t \in Thread : ClaimPhase(t) = "idle"
  BY <1>1, NoListIsNone DEF ClaimPhase
<1> QED BY <1>1, <1>2, <1>3, NoListIsNone DEF PatientInv, Ownership!Init

\* Every mutex does what its interface promises, among all the other objects, for
\* Claims without a timeout and threads that are neither stopped nor exit while
\* they hold or wait for one: it has one owner, each Release undoes one Claim, and
\* the last one hands it to a thread that waits, whose Claim then returns.
THEOREM LockKept ==
  ASSUME {"Init", "Stop", "Exit", "TimedClaim"} \cap Calls = {}
  PROVE  ObjectsSpec => KeepsLock
<1> USE KernelAssumption, SemaphoresAssumption, SleepAssumption, NotifyAssumption,
        EventFlagAssumption, MutexAssumption, MailboxAssumption, MessageAssumption,
        ObjectsAssumption
<1> DEFINE I == ObjInv /\ FrameInv /\ LockInv
<1>1. ObjectsInit => PatientInv /\ Ownership!Init
  BY PatientStart
<1>2. I /\ PatientInv /\ [ObjectsNext]_all => PatientInv'
  <2>1. ASSUME PatientInv, UNCHANGED all PROVE PatientInv'
    <3>1. UNCHANGED <<k, pc, pendOn, lock, waking>>
      BY <2>1 DEF all, everyVar, allVars, semVars, objectVars, mutexVars
    <3> QED BY <2>1, <3>1 DEF PatientInv
  <2> QED BY <2>1, EveryStepKeepsPromise DEF Keeps
<1>3. /\ I /\ PatientInv /\ [ObjectsNext]_all /\ I' /\ PatientInv'
      => [Ownership!Next]_(Ownership!vars)
  <2>1. ASSUME UNCHANGED all PROVE UNCHANGED Ownership!vars
    <3>1. UNCHANGED <<k, pc, pendOn, expired, lock>>
      BY <2>1 DEF all, everyVar, allVars, semVars, objectVars, mutexVars
    <3> QED BY <3>1 DEF Ownership!vars, ClaimPhase
  <2>2. ASSUME I, PatientInv, ObjectsNext, I', PatientInv' PROVE [Ownership!Next]_(Ownership!vars)
    <3>1. Views
      BY <2>2, BothViews
    <3> QED BY <2>2, <3>1, EveryStepKeepsPromise DEF Keeps
  <2> QED BY <2>1, <2>2
<1>4. ObjectsSpec => []I
  <2>1. "Init" \notin Calls /\ {"Init", "Stop"} \cap Calls = {}
    OBVIOUS
  <2> QED BY <2>1, ObjectsInvariance, LockInvariance, PTL
<1> QED BY <1>1, <1>2, <1>3, <1>4, PTL DEF ObjectsSpec, Ownership!Spec, KeepsLock

-----------------------------------------------------------------------------
(* Event flags: what each operation does to the threads *)

\* Thread t waits for flags of g that are not all set.
Awaits(t, g, wanted, how) ==
  /\ MovedAlone(t) /\ pendOn'[t] = g /\ k'.state[t] = "BLOCKED"
  /\ \A u \in Thread \ {t} : k'.state[u] = k.state[u]
  /\ ~Matches(wanted, how, flags[g]) /\ flags' = flags
  /\ mask' = [mask EXCEPT ![t] = wanted] /\ mode' = [mode EXCEPT ![t] = how]

\* A wait for flags that are set changes nothing; any other blocks the caller.
LEMMA WaitFlagsMoves ==
  ASSUME KernelAssumption, EventFlagAssumption, ObjInv, NEW t \in Thread, Running(t), pc[t] = "run",
         NEW g \in Group, NEW wanted, NEW how, NEW a, NEW at, Frames(a, t, at),
         WaitFlags(t, g, wanted, how, a, at)
  PROVE  \/ UNCHANGED <<allVars, flagVars>>
         \/ Awaits(t, g, wanted, how) /\ pc'[t] = at
<1> SUFFICES ASSUME ~UNCHANGED <<allVars, flagVars>>
             PROVE  Awaits(t, g, wanted, how) /\ pc'[t] = at
  OBVIOUS
<1>1. /\ ~Matches(wanted, how, flags[g]) /\ t # Idle /\ k.enabled
      /\ k' = Yield(BlockPriority(a, t, g))
      /\ pc' = [pc EXCEPT ![t] = at] /\ pendOn' = [pendOn EXCEPT ![t] = g]
      /\ mask' = [mask EXCEPT ![t] = wanted] /\ mode' = [mode EXCEPT ![t] = how]
      /\ flags' = flags
      /\ expired' = [expired EXCEPT ![t] = FALSE] \/ expired' = expired
  BY DEF WaitFlags
<1>2. Outside(t) /\ g \in BlockList
  BY DEF Outside, Plain, Where, InWait, Waiting, Yielding, Enabling, EventFlagAssumption
<1>3. Enters(t, g, at)
  BY <1>1, <1>2, WaitEnters
<1>4. /\ k'.state[t] = "BLOCKED" /\ \A u \in Thread \ {t} : k'.state[u] = k.state[u]
  BY <1>3 DEF Enters, OthersStay
<1>5. /\ pc \in [Thread -> Where] /\ pendOn \in [Thread -> BlockList \cup {NoList}]
      /\ expired \in [Thread -> BOOLEAN]
  BY DEF ObjInv
<1>6. MovedAlone(t) /\ pendOn'[t] = g /\ pc'[t] = at
  BY <1>1, <1>5 DEF MovedAlone
<1> QED BY <1>1, <1>4, <1>6 DEF Awaits

\* A Set makes the waiters it releases READY and moves no other thread.
Sets(g, set) ==
  /\ \A u \in Released(g, set) :
       /\ u \in Thread /\ k.state[u] = "BLOCKED" /\ pendOn[u] = g /\ k'.state[u] = "READY"
       /\ Matches(mask[u], mode[u], set)
  /\ \A u \in Thread : u \notin Released(g, set) =>
       /\ k'.state[u] = k.state[u]
       /\ k.state[u] = "BLOCKED" /\ pendOn[u] = g => ~Matches(mask[u], mode[u], set)

LEMMA SetMoves ==
  ASSUME KernelAssumption, EventFlagAssumption, ObjInv, NEW g \in Group, NEW new, Set(g, new)
  PROVE  Sets(g, flags[g] \cup new)
<1> DEFINE set == flags[g] \cup new
           who == Released(g, set)
           a   == UnBlockEach(k, g, who)
<1>1. /\ Good(k) /\ g \in BlockList /\ \A u \in Thread : Placed(u)
  BY DEF ObjInv, EventFlagAssumption
<1>2. \A u : u \in who <=> u \in ToSet(k.list[g]) /\ Matches(mask[u], mode[u], set)
  BY DEF Released
<1>3. \A u \in Thread : u \in ToSet(k.list[g]) <=> k.state[u] = "BLOCKED" /\ k.where[u] = g
  BY <1>1, BlockedLists
<1>4. ToSet(k.list[g]) \subseteq Thread
  <2>1. k.list \in [ListId -> Seq(Thread)] /\ g \in ListId
    BY <1>1 DEF Good, KernelState, ListId
  <2> QED BY <2>1 DEF ToSet
<1>5. \A u \in Thread : k.state[u] = "BLOCKED" => k.where[u] = pendOn[u]
  BY <1>1 DEF Placed
<1>6. a = UnBlockEach(k, g, who) /\ (k' = Yield(a) \/ (who = {} /\ k' = k))
  BY DEF Set
<1> HIDE DEF a, who
<1>7. /\ \A u \in who : u \in ToSet(k.list[g]) => k'.state[u] = "READY"
      /\ \A u \in Thread : u \notin who => k'.state[u] = k.state[u]
  <2>1. PICK y \in BOOLEAN : y <=> pc[k.current] \in Yielding
    OBVIOUS
  <2>2. PICK h \in BOOLEAN : h <=> pc[k.current] \in Enabling
    OBVIOUS
  <2>3. Dispatches(k, y, h)
    BY <2>1, <2>2 DEF ObjInv, Dispatches
  <2>4. CASE k' = Yield(a)
    <3>1. MayYield(k', a)
      BY <2>4 DEF MayYield
    <3>2. Woken(k', k, g, who)
      BY <1>1, <1>6, <2>3, <3>1, EachWakes
    <3> QED BY <3>2 DEF Woken
  <2>5. CASE who = {} /\ k' = k
    BY <2>5
  <2> QED BY <1>6, <2>4, <2>5
<1>8. /\ \A u \in who : /\ u \in Thread /\ k.state[u] = "BLOCKED" /\ pendOn[u] = g
                        /\ k'.state[u] = "READY" /\ Matches(mask[u], mode[u], set)
      /\ \A u \in Thread : u \notin who =>
           /\ k'.state[u] = k.state[u]
           /\ k.state[u] = "BLOCKED" /\ pendOn[u] = g => ~Matches(mask[u], mode[u], set)
  <2> HIDE DEF set
  <2> QED BY <1>2, <1>3, <1>4, <1>5, <1>7
<1>9. who = Released(g, flags[g] \cup new)
  BY DEF who
<1> QED BY <1>8, <1>9 DEF Sets

-----------------------------------------------------------------------------
(* Event flags: the invariants *)

\* Fewer flags match no more.
LEMMA MatchesMore ==
  ASSUME NEW wanted, NEW how, NEW set, NEW less, less \subseteq set, Matches(wanted, how, less)
  PROVE  Matches(wanted, how, set)
BY DEF Matches

\* A mask that matches has flags in common with what it matches.
LEMMA MatchesSome ==
  ASSUME NEW wanted, NEW how, NEW set, wanted # {}, Matches(wanted, how, set)
  PROVE  wanted \cap set # {}
BY DEF Matches

\* What a Set does to the variables of event flags.
LEMMA SetWrites ==
  ASSUME FlagInv, NEW g \in Group, NEW new, new \subseteq Flag, Set(g, new),
         NEW set, set = flags[g] \cup new
  PROVE  /\ UNCHANGED <<pc, pendOn>>
         /\ flags' \in [Group -> SUBSET Flag] /\ mask' \in [Thread -> SUBSET Flag]
         /\ mode' \in [Thread -> Modes \cup {"PENDING"}]
         /\ flags'[g] \subseteq set /\ \A h \in Group \ {g} : flags'[h] = flags[h]
         /\ \A u \in Thread : u \in Released(g, set) =>
              mask'[u] = mask[u] \cap set /\ mode'[u] = "PENDING"
         /\ \A u \in Thread : u \notin Released(g, set) =>
              mask'[u] = mask[u] /\ mode'[u] = mode[u]
<1> DEFINE who      == Released(g, set)
           clearing == {t \in who : mode[t] \in {"ALL_CLEAR", "ANY_CLEAR"}}
           off      == UNION {mask[t] \cap new : t \in clearing}
<1>1. /\ flags' = [flags EXCEPT ![g] = set \ off]
      /\ mask' = [t \in Thread |-> IF t \in who THEN mask[t] \cap set ELSE mask[t]]
      /\ mode' = [t \in Thread |-> IF t \in who THEN "PENDING" ELSE mode[t]]
      /\ UNCHANGED <<pc, pendOn>>
  BY DEF Set, semVars
<1>2. who = Released(g, set)
  OBVIOUS
<1> HIDE DEF who, off
<1>3. /\ flags \in [Group -> SUBSET Flag] /\ mask \in [Thread -> SUBSET Flag]
      /\ mode \in [Thread -> Modes \cup {"PENDING"}]
  BY DEF FlagInv
<1>4. set \subseteq Flag
  BY <1>3
<1>5. /\ flags' \in [Group -> SUBSET Flag] /\ flags'[g] \subseteq set
      /\ \A h \in Group \ {g} : flags'[h] = flags[h]
  BY <1>1, <1>3, <1>4
<1>6. /\ mask' \in [Thread -> SUBSET Flag] /\ mode' \in [Thread -> Modes \cup {"PENDING"}]
      /\ \A u \in Thread : u \in who => mask'[u] = mask[u] \cap set /\ mode'[u] = "PENDING"
      /\ \A u \in Thread : u \notin who => mask'[u] = mask[u] /\ mode'[u] = mode[u]
  BY <1>1, <1>3
<1> QED BY <1>1, <1>2, <1>5, <1>6

LEMMA SetKeepsFlags ==
  ASSUME KernelAssumption, EventFlagAssumption, ObjInv, FlagInv, NEW g \in Group,
         NEW new, new \subseteq Flag, Set(g, new)
  PROVE  FlagInv' /\ (ReleasedInv => ReleasedInv')
<1>1. PICK set : set = flags[g] \cup new
  OBVIOUS
<1>2. Sets(g, set)
  BY <1>1, SetMoves
<1>3. /\ UNCHANGED <<pc, pendOn>>
      /\ flags' \in [Group -> SUBSET Flag] /\ mask' \in [Thread -> SUBSET Flag]
      /\ mode' \in [Thread -> Modes \cup {"PENDING"}]
      /\ flags'[g] \subseteq set /\ \A h \in Group \ {g} : flags'[h] = flags[h]
      /\ \A u \in Thread : u \in Released(g, set) =>
           mask'[u] = mask[u] \cap set /\ mode'[u] = "PENDING"
      /\ \A u \in Thread : u \notin Released(g, set) =>
           mask'[u] = mask[u] /\ mode'[u] = mode[u]
  BY <1>1, SetWrites
<1>4. ASSUME NEW u \in Thread, pendOn[u] \in Group, k'.state[u] = "BLOCKED"
      PROVE  ~Matches(mask'[u], mode'[u], flags'[pendOn[u]])
  <2>1. u \notin Released(g, set) /\ k.state[u] = "BLOCKED"
    BY <1>2, <1>4 DEF Sets
  <2>2. mask'[u] = mask[u] /\ mode'[u] = mode[u]
    BY <1>3, <2>1
  <2>3. CASE pendOn[u] = g
    <3>1. ~Matches(mask[u], mode[u], set)
      BY <1>2, <2>1, <2>3 DEF Sets
    <3> QED BY <1>3, <2>2, <2>3, <3>1, MatchesMore
  <2>4. CASE pendOn[u] # g
    BY <1>3, <1>4, <2>1, <2>2, <2>4 DEF FlagInv
  <2> QED BY <2>3, <2>4
<1>5. ASSUME ReleasedInv, NEW u \in Thread, pendOn[u] \in Group
      PROVE  /\ pc'[u] \notin InTimedWait /\ mask'[u] # {}
             /\ k'.state[u] # "BLOCKED" => mode'[u] = "PENDING"
  <2>1. /\ pc'[u] \notin InTimedWait /\ mask[u] # {}
        /\ k.state[u] # "BLOCKED" => mode[u] = "PENDING"
    BY <1>3, <1>5 DEF ReleasedInv
  <2>2. CASE u \in Released(g, set)
    <3>1. Matches(mask[u], mode[u], set)
      BY <1>2, <2>2 DEF Sets
    <3> QED BY <1>3, <2>1, <2>2, <3>1, MatchesSome
  <2>3. CASE u \notin Released(g, set)
    <3>1. k'.state[u] = k.state[u]
      BY <1>2, <2>3 DEF Sets
    <3> QED BY <1>3, <2>1, <2>3, <3>1
  <2> QED BY <2>2, <2>3
<1> QED BY <1>3, <1>4, <1>5 DEF FlagInv, ReleasedInv

LEMMA AwaitsKeepsFlags ==
  ASSUME FlagInv, ObjInv, NEW t \in Thread, NEW g \in Group,
         NEW wanted \in SUBSET Flag, NEW how \in Modes, Awaits(t, g, wanted, how)
  PROVE  /\ FlagInv'
         /\ ReleasedInv /\ wanted # {} /\ pc'[t] \notin InTimedWait => ReleasedInv'
<1>1. /\ mask \in [Thread -> SUBSET Flag] /\ mode \in [Thread -> Modes \cup {"PENDING"}]
      /\ mask' = [mask EXCEPT ![t] = wanted] /\ mode' = [mode EXCEPT ![t] = how]
      /\ flags' = flags /\ k'.state[t] = "BLOCKED" /\ pendOn'[t] = g
      /\ ~Matches(wanted, how, flags[g])
  BY DEF FlagInv, Awaits
<1>2. ASSUME NEW u \in Thread, u # t
      PROVE  /\ pc'[u] = pc[u] /\ pendOn'[u] = pendOn[u] /\ k'.state[u] = k.state[u]
             /\ mask'[u] = mask[u] /\ mode'[u] = mode[u]
  BY <1>1, <1>2 DEF Awaits, MovedAlone
<1>3. mask'[t] = wanted /\ mode'[t] = how
  BY <1>1
<1>4. FlagInv'
  <2>1. /\ flags' \in [Group -> SUBSET Flag] /\ mask' \in [Thread -> SUBSET Flag]
        /\ mode' \in [Thread -> Modes \cup {"PENDING"}]
    BY <1>1 DEF FlagInv
  <2>2. ASSUME NEW u \in Thread, pendOn'[u] \in Group, k'.state[u] = "BLOCKED"
        PROVE  ~Matches(mask'[u], mode'[u], flags'[pendOn'[u]])
    <3>1. CASE u = t
      BY <1>1, <1>3, <3>1
    <3>2. CASE u # t
      BY <1>1, <1>2, <2>2, <3>2 DEF FlagInv
    <3> QED BY <3>1, <3>2
  <2> QED BY <2>1, <2>2 DEF FlagInv
<1>5. ASSUME ReleasedInv, wanted # {}, pc'[t] \notin InTimedWait PROVE ReleasedInv'
  BY <1>1, <1>2, <1>3, <1>5 DEF ReleasedInv
<1> QED BY <1>4, <1>5

\* A wait that is over, or the timeout of one, leaves the flags and the other
\* waiters alone.
LEMMA FlagsReturnKeepsFlags ==
  ASSUME KernelAssumption, EventFlagAssumption, ObjInv, FlagInv, NEW t \in Thread, FlagsReturn(t)
  PROVE  FlagInv' /\ (ReleasedInv => ReleasedInv')
<1>1. /\ Same /\ MovedAlone(t) /\ pendOn'[t] = NoList
      /\ mask' = [mask EXCEPT ![t] = {}] /\ mode' = [mode EXCEPT ![t] = "PENDING"]
      /\ flags' = flags
  BY PendEndsMoves DEF FlagsReturn
<1>2. /\ mask \in [Thread -> SUBSET Flag] /\ mode \in [Thread -> Modes \cup {"PENDING"}]
      /\ NoList \notin Group
  BY DEF FlagInv, KernelAssumption, EventFlagAssumption
<1>3. ASSUME NEW u \in Thread, pendOn'[u] \in Group
      PROVE  /\ pc'[u] = pc[u] /\ pendOn'[u] = pendOn[u] /\ k'.state[u] = k.state[u]
             /\ mask'[u] = mask[u] /\ mode'[u] = mode[u]
  <2>1. u # t
    BY <1>1, <1>2, <1>3
  <2> QED BY <1>1, <1>2, <2>1 DEF Same, MovedAlone
<1>4. FlagInv'
  <2>1. mask' \in [Thread -> SUBSET Flag] /\ mode' \in [Thread -> Modes \cup {"PENDING"}]
    BY <1>1, <1>2
  <2> QED BY <1>1, <1>3, <2>1 DEF FlagInv
<1> QED BY <1>3, <1>4 DEF ReleasedInv

LEMMA FlagWaitExpiresKeepsFlags ==
  ASSUME KernelAssumption, SemaphoresAssumption, ObjectsAssumption, EventFlagAssumption, ObjInv,
         FlagInv, NEW t \in Thread, FlagWaitExpires(t)
  PROVE  FlagInv' /\ ~ReleasedInv
<1>1. /\ pc[t] \in InTimedWait /\ k'.state[t] # "BLOCKED" /\ Alone(t)
      /\ mask' = [mask EXCEPT ![t] = {}] /\ mode' = mode /\ flags' = flags /\ pendOn' = pendOn
  BY WaitExpiresKeeps DEF FlagWaitExpires, WaitExpires
<1>2. mask \in [Thread -> SUBSET Flag]
  BY DEF FlagInv
<1>3. FlagInv'
  <2>1. mask' \in [Thread -> SUBSET Flag]
    BY <1>1, <1>2
  <2>2. ASSUME NEW u \in Thread, pendOn'[u] \in Group, k'.state[u] = "BLOCKED"
        PROVE  ~Matches(mask'[u], mode'[u], flags'[pendOn'[u]])
    <3>1. u # t /\ k.state[u] = "BLOCKED" /\ mask'[u] = mask[u]
      BY <1>1, <1>2, <2>2 DEF Alone
    <3> QED BY <1>1, <2>2, <3>1 DEF FlagInv
  <2> QED BY <1>1, <2>1, <2>2 DEF FlagInv
<1>4. ~ReleasedInv
  BY <1>1 DEF ReleasedInv, FlagWaitExpires
<1> QED BY <1>3, <1>4

LEMMA ClearKeepsFlags ==
  ASSUME FlagInv, NEW t, NEW g \in Group, NEW old, CallClear(t, g, old)
  PROVE  FlagInv' /\ (ReleasedInv => ReleasedInv')
<1>1. /\ flags' = [flags EXCEPT ![g] = @ \ old] /\ mask' = mask /\ mode' = mode
      /\ k' = k /\ pc' = pc /\ pendOn' = pendOn
  BY DEF CallClear, allVars
<1>2. flags \in [Group -> SUBSET Flag]
  BY DEF FlagInv
<1>3. flags' \in [Group -> SUBSET Flag] /\ \A h \in Group : flags'[h] \subseteq flags[h]
  BY <1>1, <1>2
<1>4. ASSUME NEW u \in Thread, pendOn[u] \in Group, k.state[u] = "BLOCKED"
      PROVE  ~Matches(mask[u], mode[u], flags'[pendOn[u]])
  <2>1. ~Matches(mask[u], mode[u], flags[pendOn[u]])
    BY <1>4 DEF FlagInv
  <2> QED BY <1>3, <1>4, <2>1, MatchesMore
<1>5. FlagInv'
  BY <1>1, <1>3, <1>4 DEF FlagInv
<1> QED BY <1>1, <1>5 DEF ReleasedInv

\* A step about other objects: a thread that it leaves BLOCKED was so before.
LEMMA OthersKeepFlags ==
  ASSUME FlagInv, UNCHANGED flagVars, Minding(Group)
  PROVE  FlagInv' /\ ({"Stop", "Exit"} \cap Calls = {} /\ ReleasedInv => ReleasedInv')
<1>1. flags' = flags /\ mask' = mask /\ mode' = mode
  BY DEF flagVars
<1>2. ASSUME NEW u \in Thread, pendOn'[u] \in Group
      PROVE  /\ Passing(u) /\ pendOn'[u] = pendOn[u] /\ pc'[u] = pc[u]
             /\ k'.state[u] = "BLOCKED" => k.state[u] = "BLOCKED"
  BY <1>2 DEF Minding, Passing, Departs
<1>3. FlagInv'
  BY <1>1, <1>2 DEF FlagInv
<1>4. ASSUME {"Stop", "Exit"} \cap Calls = {}, ReleasedInv, NEW u \in Thread, pendOn'[u] \in Group
      PROVE  /\ pc'[u] \notin InTimedWait /\ mask'[u] # {}
             /\ k'.state[u] # "BLOCKED" => mode'[u] = "PENDING"
  <2>1. /\ pc[u] \notin InTimedWait /\ mask[u] # {}
        /\ k.state[u] # "BLOCKED" => mode[u] = "PENDING"
    BY <1>2, <1>4 DEF ReleasedInv
  <2>2. Departs(k', k, u)
    BY <1>2, <1>4, <2>1 DEF Passing
  <2>3. k'.state[u] # "BLOCKED" => k.state[u] # "BLOCKED"
    BY <1>4, <2>2 DEF Departs
  <2> QED BY <1>1, <1>2, <1>4, <2>1, <2>3
<1> QED BY <1>3, <1>4 DEF ReleasedInv

\* Both invariants go on, the second one as long as nobody gives up a wait.
FlagsKept ==
  /\ FlagInv'
  /\ {"Stop", "Exit", "TimedWaitFlags"} \cap Calls = {} /\ ReleasedInv => ReleasedInv'

LEMMA EveryStepKeepsFlags ==
  ASSUME KernelAssumption, SemaphoresAssumption, SleepAssumption, NotifyAssumption,
         EventFlagAssumption, MutexAssumption, MailboxAssumption, MessageAssumption,
         ObjectsAssumption, "Init" \notin Calls, ObjInv, FrameInv, FlagInv, ObjectsNext
  PROVE  FlagsKept
<1>1. ASSUME NEW t \in Thread, NEW g \in Group, NEW m \in (SUBSET Flag) \ {{}},
             CallSet(t, g, m) \/ CallClear(t, g, m)
      PROVE  FlagsKept
  <2>1. m \subseteq Flag
    OBVIOUS
  <2> QED BY <1>1, <2>1, SetKeepsFlags, ClearKeepsFlags DEF CallSet, FlagsKept
<1>2. ASSUME NEW g \in Group, NEW m \in (SUBSET Flag) \ {{}}, InterruptSets(g, m) PROVE FlagsKept
  <2>1. m \subseteq Flag
    OBVIOUS
  <2> QED BY <1>2, <2>1, SetKeepsFlags DEF InterruptSets, FlagsKept
<1>3. ASSUME UNCHANGED <<allVars, flagVars>> PROVE FlagsKept
  <2>1. k' = k /\ pc' = pc /\ pendOn' = pendOn /\ flags' = flags /\ mask' = mask /\ mode' = mode
    BY <1>3 DEF allVars, flagVars
  <2> QED BY <2>1 DEF FlagInv, ReleasedInv, FlagsKept
<1>4. ASSUME NEW t \in Thread, NEW g \in Group, NEW m \in (SUBSET Flag) \ {{}}, NEW how \in Modes,
             CallWaitFlags(t, g, m, how)
      PROVE  FlagsKept
  <2>1. Running(t) /\ pc[t] = "run" /\ WaitFlags(t, g, m, how, k, "pend") /\ Frames(k, t, "pend")
    BY <1>4, NoFrameTimer DEF CallWaitFlags, Calling, ObjInv
  <2>2. \/ UNCHANGED <<allVars, flagVars>>
        \/ Awaits(t, g, m, how) /\ pc'[t] = "pend"
    BY <2>1, WaitFlagsMoves
  <2>3. CASE Awaits(t, g, m, how) /\ pc'[t] = "pend"
    BY <2>3, AwaitsKeepsFlags DEF InTimedWait, FlagsKept
  <2> QED BY <1>3, <2>2, <2>3
<1>5. ASSUME NEW t \in Thread, NEW g \in Group, NEW m \in (SUBSET Flag) \ {{}}, NEW how \in Modes,
             NEW ticks \in WaitTicks, CallTimedWaitFlags(t, g, m, how, ticks)
      PROVE  FlagsKept
  <2> DEFINE a == TimerAdd(k, WaitTimer(t), ticks)
  <2>1. /\ Running(t) /\ pc[t] = "run" /\ WaitFlags(t, g, m, how, a, "timed")
        /\ a = TimerAdd(k, WaitTimer(t), ticks) /\ "TimedWaitFlags" \in Calls
    BY <1>5 DEF CallTimedWaitFlags, Calling
  <2> HIDE DEF a
  <2>2. Outside(t)
    BY <2>1 DEF Outside, Plain, Where, InWait, Waiting, Yielding, Enabling
  <2>3. Frames(a, t, "timed")
    BY <2>1, <2>2, CallerHere, TimedFrame DEF InTimedWait
  <2>4. \/ UNCHANGED <<allVars, flagVars>>
        \/ Awaits(t, g, m, how) /\ pc'[t] = "timed"
    BY <2>1, <2>3, WaitFlagsMoves
  <2>5. CASE Awaits(t, g, m, how)
    BY <2>1, <2>5, AwaitsKeepsFlags DEF FlagsKept
  <2> QED BY <1>3, <2>4, <2>5
<1>6. ASSUME NEW t \in Thread, FlagsReturn(t) \/ FlagWaitExpires(t) PROVE FlagsKept
  BY <1>6, FlagsReturnKeepsFlags, FlagWaitExpiresKeepsFlags DEF FlagsKept
<1>7. ASSUME NEW t \in Thread, FlagStep(t) PROVE FlagsKept
  BY <1>1, <1>4, <1>5, <1>6, <1>7 DEF FlagStep
<1>8. ASSUME FlagInterrupt PROVE FlagsKept
  BY <1>2, <1>8 DEF FlagInterrupt
<1>9. CASE UNCHANGED flagVars /\ Minding(Group)
  BY <1>9, OthersKeepFlags DEF FlagsKept
<1>10. FlagSide
  BY EveryStep DEF Steps, Sides
<1> QED BY <1>6, <1>7, <1>8, <1>9, <1>10 DEF FlagSide

LEMMA FlagsStart ==
  ASSUME KernelAssumption, EventFlagAssumption, ObjectsInit
  PROVE  FlagInv /\ ReleasedInv
<1>1. /\ flags = [g \in Group |-> {}] /\ mask = [t \in Thread |-> {}]
      /\ mode = [t \in Thread |-> "PENDING"] /\ pendOn = [t \in Thread |-> NoList]
  BY DEF ObjectsInit, FlagInit, SleepInit, SemInit
<1>2. NoList \notin Group
  BY DEF KernelAssumption, EventFlagAssumption
<1> QED BY <1>1, <1>2 DEF FlagInv, ReleasedInv

LEMMA FlagsStutter ==
  ASSUME FlagInv, UNCHANGED all
  PROVE  FlagInv' /\ (ReleasedInv => ReleasedInv')
<1>1. k' = k /\ pc' = pc /\ pendOn' = pendOn /\ flags' = flags /\ mask' = mask /\ mode' = mode
  BY DEF all, everyVar, allVars, semVars, objectVars, flagVars
<1> QED BY <1>1 DEF FlagInv, ReleasedInv

\* No waiter is left behind: whichever threads and handlers set and clear flags,
\* wherever a waiter is in the list of its group, whatever its timeout and
\* whichever calls of other objects come in between, no thread is BLOCKED for
\* flags that are set.
THEOREM FlagInvariance ==
  ASSUME "Init" \notin Calls
  PROVE  ObjectsSpec => []FlagInv
<1> USE KernelAssumption, SemaphoresAssumption, SleepAssumption, NotifyAssumption,
        EventFlagAssumption, MutexAssumption, MailboxAssumption, MessageAssumption,
        ObjectsAssumption
<1>1. ObjectsInit => FlagInv
  BY FlagsStart
<1>2. ObjInv /\ FrameInv /\ FlagInv /\ [ObjectsNext]_all => FlagInv'
  BY EveryStepKeepsFlags, FlagsStutter DEF FlagsKept
<1> QED BY <1>1, <1>2, ObjectsInvariance, PTL DEF ObjectsSpec

THEOREM FlagsNotMissed ==
  ASSUME "Init" \notin Calls
  PROVE  ObjectsSpec => []NobodyMissesFlags
<1>1. ASSUME ObjInv, FlagInv, NEW g \in Group, NEW t \in ToSet(k.list[g])
      PROVE  ~Matches(mask[t], mode[t], flags[g])
  <2>1. Good(k) /\ g \in BlockList /\ k.list \in [ListId -> Seq(Thread)] /\ g \in ListId
    BY <1>1, EventFlagAssumption DEF ObjInv, Good, KernelState, ListId, EventFlagAssumption
  <2>2. t \in Thread
    BY <2>1 DEF ToSet
  <2>3. k.state[t] = "BLOCKED" /\ k.where[t] = g
    BY <1>1, <2>1, <2>2, BlockedLists, KernelAssumption
  <2>4. pendOn[t] = g
    BY <1>1, <2>2, <2>3 DEF ObjInv, Placed
  <2> QED BY <1>1, <2>2, <2>3, <2>4 DEF FlagInv
<1>2. ObjInv /\ FlagInv => NobodyMissesFlags
  BY <1>1 DEF NobodyMissesFlags
<1> QED BY <1>2, ObjectsInvariance, FlagInvariance, PTL

\* A thread that a Set has released has flags to return when it runs, for waits
\* without a timeout of threads that are neither stopped nor exit: 0 would tell
\* the caller of an error or a timeout.
THEOREM FlagsForReleased ==
  ASSUME {"Init", "Stop", "Exit", "TimedWaitFlags"} \cap Calls = {}
  PROVE  ObjectsSpec => []ReleasedWithFlags
<1> USE KernelAssumption, SemaphoresAssumption, SleepAssumption, NotifyAssumption,
        EventFlagAssumption, MutexAssumption, MailboxAssumption, MessageAssumption,
        ObjectsAssumption
<1>1. ObjectsInit => ReleasedInv
  BY FlagsStart
<1>2. ObjInv /\ FrameInv /\ FlagInv /\ ReleasedInv /\ [ObjectsNext]_all => ReleasedInv'
  BY EveryStepKeepsFlags, FlagsStutter DEF FlagsKept
<1>3. ASSUME ObjInv, ReleasedInv, NEW t \in Thread, pendOn[t] \in Group,
             t \notin ToSet(k.list[pendOn[t]])
      PROVE  mode[t] = "PENDING" /\ mask[t] # {}
  <2>1. Good(k) /\ pendOn[t] \in BlockList /\ Placed(t)
    BY <1>3 DEF ObjInv, EventFlagAssumption
  <2>2. ~(k.state[t] = "BLOCKED" /\ k.where[t] = pendOn[t])
    BY <1>3, <2>1, BlockedLists
  <2> QED BY <1>3, <2>1, <2>2 DEF ReleasedInv, Placed
<1>4. ObjInv /\ ReleasedInv => ReleasedWithFlags
  BY <1>3 DEF ReleasedWithFlags
<1>5. ObjectsSpec => [](ObjInv /\ FrameInv /\ FlagInv)
  <2>1. "Init" \notin Calls
    OBVIOUS
  <2> QED BY <2>1, ObjectsInvariance, FlagInvariance, PTL
<1> QED BY <1>1, <1>2, <1>4, <1>5, PTL DEF ObjectsSpec

-----------------------------------------------------------------------------
(* Sleep: what the functions of the kernel do to the timers of sleeping      *)
(* threads.  All but the first pass of Process and the calls that are about  *)
(* such a timer leave them as they are.                                      *)

TimerFields == {"timers", "left", "callback", "inTimer"}

\* What there has to be for a timer to be kept.
Shape(s) ==
  TimerFields \subseteq DOMAIN s /\ s.timers \in Seq(Timer) /\ DOMAIN s.left = Timer

\* Timer x is as it was.
TimerKept(d, s, x) ==
  /\ x \in ToSet(d.timers) <=> x \in ToSet(s.timers)
  /\ d.left[x] = s.left[x] /\ (x \in d.callback <=> x \in s.callback)

\* The timers of the threads are as they were.
Steady(d, s) ==
  /\ Shape(d) /\ d.inTimer = s.inTimer
  /\ \A t \in Thread : TimerKept(d, s, SleepTimer(t))

\* No timer has been touched.
Untimed(d, s) ==
  /\ TimerFields \subseteq DOMAIN d
  /\ d.timers = s.timers /\ d.left = s.left /\ d.callback = s.callback /\ d.inTimer = s.inTimer

LEMMA GoodShape ==
  ASSUME NEW s, Good(s)
  PROVE  Shape(s)
BY DEF Good, KernelState, Shape, TimerFields

LEMMA UntimedSteady ==
  ASSUME NEW s, Shape(s), NEW d, Untimed(d, s)
  PROVE  Steady(d, s)
BY DEF Shape, Untimed, Steady, TimerKept

LEMMA SteadyOn ==
  ASSUME NEW s, NEW c, Steady(c, s), NEW d, Steady(d, c)
  PROVE  Steady(d, s)
BY DEF Steady, TimerKept

LEMMA SteadyShape ==
  ASSUME NEW s, NEW d, Steady(d, s)
  PROVE  Shape(d)
BY DEF Steady

\* The same for functions that have to do with lists only.
LEMMA UntimedOn ==
  ASSUME NEW s, NEW c, Untimed(c, s), NEW d, Untimed(d, c)
  PROVE  Untimed(d, s)
BY DEF Untimed

LEMMA LinkUntimed ==
  ASSUME NEW s, TimerFields \subseteq DOMAIN s, NEW l, NEW t, NEW d, d = LinkThread(s, l, t)
  PROVE  Untimed(d, s)
BY DEF LinkThread, Untimed, TimerFields

LEMMA UnlinkUntimed ==
  ASSUME NEW s, TimerFields \subseteq DOMAIN s, NEW l, NEW t, NEW d, d = UnlinkThread(s, l, t)
  PROVE  Untimed(d, s)
BY DEF UnlinkThread, Untimed, TimerFields

LEMMA MoveUntimed ==
  ASSUME NEW s, TimerFields \subseteq DOMAIN s, NEW l, NEW m, NEW t,
         NEW d, d = LinkThread(UnlinkThread(s, l, t), m, t)
  PROVE  Untimed(d, s)
<1> DEFINE c == UnlinkThread(s, l, t)
<1>1. Untimed(c, s) /\ d = LinkThread(c, m, t)
  BY UnlinkUntimed
<1> HIDE DEF c
<1>2. Untimed(d, c)
  BY <1>1, LinkUntimed DEF Untimed
<1> QED BY <1>1, <1>2, UntimedOn

LEMMA BlockUntimed ==
  ASSUME NEW s, TimerFields \subseteq DOMAIN s, NEW t, NEW b,
         NEW d, d = Block(s, t, b) \/ d = BlockPriority(s, t, b)
  PROVE  Untimed(d, s)
<1> DEFINE c == UnlinkThread(s, s.prio[t], t)
<1>1. Untimed(c, s)
  BY UnlinkUntimed
<1>2. d = Block(s, t, b) => \E l : d = [c EXCEPT !.list = l, !.where[t] = b, !.state[t] = "BLOCKED"]
  BY DEF Block, SchedulerRemove
<1>3. d = BlockPriority(s, t, b) =>
        \E l : d = [c EXCEPT !.list = l, !.where[t] = b, !.state[t] = "BLOCKED"]
  BY DEF BlockPriority, SchedulerRemove
<1> HIDE DEF c
<1>4. PICK l : d = [c EXCEPT !.list = l, !.where[t] = b, !.state[t] = "BLOCKED"]
  BY <1>2, <1>3
<1>5. Untimed(d, c)
  BY <1>1, <1>4 DEF Untimed, TimerFields
<1> QED BY <1>1, <1>5, UntimedOn

LEMMA UnBlockUntimed ==
  ASSUME NEW s, TimerFields \subseteq DOMAIN s, NEW t, NEW d, d = UnBlock(s, t)
  PROVE  Untimed(d, s)
<1>1. CASE d = [s EXCEPT !.fault = TRUE]
  BY <1>1 DEF Untimed, TimerFields
<1>2. CASE d # [s EXCEPT !.fault = TRUE]
  <2> DEFINE a == UnlinkThread(s, UnlinkedFrom(s, t), t)
             c == LinkThread(a, a.prio[t], t)
  <2>1. d = [c EXCEPT !.where[t] = s.owner[t], !.state[t] = "READY"]
    BY <1>2 DEF UnBlock, SchedulerAdd
  <2>2. Untimed(c, s)
    BY MoveUntimed
  <2> HIDE DEF c
  <2>3. Untimed(d, c)
    BY <2>1, <2>2 DEF Untimed, TimerFields
  <2> QED BY <2>2, <2>3, UntimedOn
<1> QED BY <1>1, <1>2

LEMMA ScheduleUntimed ==
  ASSUME NEW s, TimerFields \subseteq DOMAIN s, NEW d, d = Schedule(s)
  PROVE  Untimed(d, s)
BY DEF Schedule, Untimed, TimerFields

LEMMA CallbackUntimed ==
  ASSUME NEW s, TimerFields \subseteq DOMAIN s, NEW d, d = QuantumCallback(s)
  PROVE  Untimed(d, s)
BY DEF QuantumCallback, Rotate, Untimed, TimerFields

\* A timer that is linked or unlinked leaves the others as they are.
LEMMA TimerAddKeeps ==
  ASSUME NEW s, Shape(s), NEW x \in Timer, NEW n, NEW d, d = TimerAdd(s, x, n)
  PROVE  /\ Shape(d) /\ d.inTimer = s.inTimer /\ \A y \in Timer \ {x} : TimerKept(d, s, y)
         /\ x \in ToSet(d.timers) /\ d.left[x] = n /\ x \notin d.callback
<1>1. /\ TimerFields \subseteq DOMAIN d /\ d.timers = Append(s.timers, x)
      /\ d.left = [s.left EXCEPT ![x] = n] /\ d.callback = s.callback \ {x} /\ d.inTimer = s.inTimer
  BY DEF TimerAdd, Shape, TimerFields
<1>2. s.timers \in Seq(Timer) /\ DOMAIN s.left = Timer
  BY DEF Shape
<1>3. ToSet(d.timers) = ToSet(s.timers) \cup {x}
  BY <1>1, <1>2, AppendMembers
<1>4. ASSUME NEW y \in Timer \ {x} PROVE TimerKept(d, s, y)
  BY <1>1, <1>2, <1>3 DEF TimerKept
<1> QED BY <1>1, <1>2, <1>3, <1>4 DEF Shape

LEMMA TimerRemoveKeeps ==
  ASSUME NEW s, Shape(s), NEW x \in Timer, NEW d, d = TimerRemove(s, x)
  PROVE  Shape(d) /\ d.inTimer = s.inTimer /\ \A y \in Timer \ {x} : TimerKept(d, s, y)
<1>1. CASE x \notin ToSet(s.timers)
  <2>1. d = s
    BY <1>1 DEF TimerRemove
  <2> QED BY <2>1 DEF TimerKept
<1>2. CASE x \in ToSet(s.timers)
  <2>1. /\ TimerFields \subseteq DOMAIN d /\ d.timers = ListRemove(s.timers, x)
        /\ d.left = [s.left EXCEPT ![x] = 0] /\ d.callback = s.callback \ {x} /\ d.inTimer = s.inTimer
    BY <1>2 DEF TimerRemove, Shape, TimerFields
  <2>2. s.timers \in Seq(Timer) /\ DOMAIN s.left = Timer
    BY DEF Shape
  <2>3. d.timers \in Seq(Timer)
    BY <1>2, <2>1, <2>2, ListRemoveElements
  <2>4. ASSUME NEW y \in Timer \ {x} PROVE TimerKept(d, s, y)
    <3>1. y \in ToSet(d.timers) <=> y \in ToSet(s.timers)
      BY <1>2, <2>1, <2>2, ListRemoveOthers
    <3> QED BY <2>1, <2>2, <3>1 DEF TimerKept
  <2> QED BY <2>1, <2>2, <2>3, <2>4 DEF Shape
<1> QED BY <1>1, <1>2

\* What the timers of threads are no part of.
NotOfThread(x) == x \in Timer /\ \A t \in Thread : x # SleepTimer(t)

LEMMA TimerAddSteady ==
  ASSUME SemaphoresAssumption, ObjectsAssumption,
         NEW s, Shape(s), NEW x, NotOfThread(x), NEW n, NEW d, d = TimerAdd(s, x, n)
  PROVE  Steady(d, s)
<1>1. \A t \in Thread : SleepTimer(t) \in Timer \ {x}
  BY OwnTimers DEF NotOfThread
<1>2. Shape(d) /\ d.inTimer = s.inTimer /\ \A y \in Timer \ {x} : TimerKept(d, s, y)
  BY TimerAddKeeps DEF NotOfThread
<1> QED BY <1>1, <1>2 DEF Steady

LEMMA TimerRemoveSteady ==
  ASSUME SemaphoresAssumption, ObjectsAssumption,
         NEW s, Shape(s), NEW x, NotOfThread(x), NEW d, d = TimerRemove(s, x)
  PROVE  Steady(d, s)
<1>1. \A t \in Thread : SleepTimer(t) \in Timer \ {x}
  BY OwnTimers DEF NotOfThread
<1>2. Shape(d) /\ d.inTimer = s.inTimer /\ \A y \in Timer \ {x} : TimerKept(d, s, y)
  BY TimerRemoveKeeps DEF NotOfThread
<1> QED BY <1>1, <1>2 DEF Steady

LEMMA QuantumSteady ==
  ASSUME SemaphoresAssumption, ObjectsAssumption, NEW s, Shape(s),
         NEW d, d = QuantumRemove(s) \/ \E t : d = QuantumAdd(s, t)
  PROVE  Steady(d, s)
<1>0. NotOfThread(QuantumTimer)
  BY OwnTimers DEF NotOfThread, Timer
<1>1. CASE d = s
  BY <1>1 DEF Steady, TimerKept
<1>2. CASE d = [s EXCEPT !.qAdd = TRUE]
  <2>1. Untimed(d, s)
    BY <1>2 DEF Untimed, Shape, TimerFields
  <2> QED BY <2>1, UntimedSteady
<1>3. CASE d = [TimerRemove(s, QuantumTimer) EXCEPT !.qActive = FALSE]
  <2> DEFINE c == TimerRemove(s, QuantumTimer)
  <2>1. Steady(c, s)
    BY <1>0, TimerRemoveSteady
  <2> HIDE DEF c
  <2>2. d = [c EXCEPT !.qActive = FALSE]
    BY <1>3 DEF c
  <2>3. Untimed(d, c) /\ Shape(c)
    BY <2>1, <2>2 DEF Steady, Untimed, Shape, TimerFields
  <2> QED BY <2>1, <2>3, UntimedSteady, SteadyOn
<1>4. ASSUME NEW t,
             d = [TimerAdd(s, QuantumTimer, QuantumTicks) EXCEPT !.qActive = TRUE, !.qOwner = t]
      PROVE  Steady(d, s)
  <2> DEFINE c == TimerAdd(s, QuantumTimer, QuantumTicks)
  <2>1. Steady(c, s)
    BY <1>0, TimerAddSteady
  <2> HIDE DEF c
  <2>2. d = [c EXCEPT !.qActive = TRUE, !.qOwner = t]
    BY <1>4 DEF c
  <2>3. Untimed(d, c) /\ Shape(c)
    BY <2>1, <2>2 DEF Steady, Untimed, Shape, TimerFields
  <2> QED BY <2>1, <2>3, UntimedSteady, SteadyOn
<1>5. CASE d = QuantumRemove(s)
  BY <1>1, <1>3, <1>5 DEF QuantumRemove
<1>6. ASSUME NEW t, d = QuantumAdd(s, t) PROVE Steady(d, s)
  BY <1>1, <1>2, <1>4, <1>6 DEF QuantumAdd
<1> QED BY <1>5, <1>6

LEMMA SwitchSteady ==
  ASSUME SemaphoresAssumption, ObjectsAssumption, NEW s, Shape(s), NEW d, d = SwitchToNext(s)
  PROVE  Steady(d, s)
<1> DEFINE a == QuantumRemove(s)
           c == QuantumAdd(a, s.next)
<1>1. Steady(a, s)
  BY QuantumSteady
<1>2. d = [c EXCEPT !.pendsv = TRUE] /\ \E t : c = QuantumAdd(a, t)
  BY DEF SwitchToNext
<1> HIDE DEF a, c
<1>3. Steady(c, a)
  BY <1>1, <1>2, SteadyShape, QuantumSteady
<1>4. Steady(c, s)
  BY <1>1, <1>3, SteadyOn
<1>5. Untimed(d, c) /\ Shape(c)
  BY <1>2, <1>4 DEF Steady, Untimed, Shape, TimerFields
<1> QED BY <1>4, <1>5, UntimedSteady, SteadyOn

LEMMA YieldSteady ==
  ASSUME SemaphoresAssumption, ObjectsAssumption, NEW s, Shape(s), NEW d, d = Yield(s)
  PROVE  Steady(d, s)
<1> DEFINE c == Schedule(s)
<1>1. Untimed(c, s)
  BY ScheduleUntimed DEF Shape
<1>2. d = [s EXCEPT !.queued = TRUE] \/ d = c \/ d = SwitchToNext(c)
  BY DEF Yield
<1> HIDE DEF c
<1>3. Steady(c, s)
  BY <1>1, UntimedSteady
<1>4. CASE d = [s EXCEPT !.queued = TRUE]
  <2>1. Untimed(d, s)
    BY <1>4 DEF Untimed, Shape, TimerFields
  <2> QED BY <2>1, UntimedSteady
<1>5. CASE d = SwitchToNext(c)
  <2>1. Steady(d, c)
    BY <1>3, <1>5, SteadyShape, SwitchSteady
  <2> QED BY <1>3, <2>1, SteadyOn
<1> QED BY <1>2, <1>3, <1>4, <1>5

\* A call of the kernel that touches no timer, and the Yield after it.
LEMMA MayYieldSteady ==
  ASSUME SemaphoresAssumption, ObjectsAssumption, NEW s, NEW a, Steady(a, s),
         NEW d, MayYield(d, a)
  PROVE  Steady(d, s)
<1>1. CASE d = a
  BY <1>1
<1>2. CASE d = Yield(a)
  <2>1. Steady(d, a)
    BY <1>2, SteadyShape, YieldSteady
  <2> QED BY <2>1, SteadyOn
<1> QED BY <1>1, <1>2 DEF MayYield

LEMMA SetSchedulerSteady ==
  ASSUME SemaphoresAssumption, ObjectsAssumption, NEW s, Shape(s), NEW e,
         NEW d, d = SetScheduler(s, e)
  PROVE  Steady(d, s)
<1> DEFINE c == [s EXCEPT !.enabled = e]
           q == [c EXCEPT !.queued = FALSE]
<1>1. Untimed(c, s) /\ Untimed(q, s)
  BY DEF Untimed, Shape, TimerFields
<1>2. d = c \/ MayYield(d, q)
  BY DEF SetScheduler, MayYield
<1> HIDE DEF c, q
<1>3. Steady(c, s) /\ Steady(q, s)
  BY <1>1, UntimedSteady
<1> QED BY <1>2, <1>3, MayYieldSteady

LEMMA PostSteady ==
  ASSUME SemaphoresAssumption, ObjectsAssumption, NEW s, Shape(s), NEW b,
         NEW d, d = PostAndYield(s, b)
  PROVE  Steady(d, s)
<1> DEFINE a == UnBlock(s, Head(s.list[b]))
<1>1. Untimed(a, s)
  BY UnBlockUntimed DEF Shape
<1>2. MayYield(d, a)
  BY DEF PostAndYield, MayYield
<1> HIDE DEF a
<1>3. Steady(a, s)
  BY <1>1, UntimedSteady
<1> QED BY <1>2, <1>3, MayYieldSteady

\* Nor does a walk over a list, however long it is.
LEMMA EachUntimed ==
  ASSUME NEW s, TimerFields \subseteq DOMAIN s, NEW b, s.list[b] \in Seq(Thread), NEW who,
         NEW d, d = UnBlockEach(s, b, who)
  PROVE  Untimed(d, s)
<1> DEFINE q == s.list[b]
<1>0. q \in Seq(Thread) /\ d = UnBlockList(s, q, who)
  BY DEF UnBlockEach, UnBlockList
<1> HIDE DEF q
<1> DEFINE n == Len(q)
<1>1. PICK g : /\ g[0] = s /\ g[n] = d
               /\ \A i \in 1 .. n : g[i] = UnBlockOne(g[i - 1], q[i], who)
  BY <1>0, FoldSteps
<1>2. n \in Nat
  BY <1>0
<1> HIDE DEF n
<1> DEFINE Reached(i) == Untimed(g[i], s)
<1>3. Reached(0)
  BY <1>1 DEF Untimed
<1>4. ASSUME NEW i \in 1 .. n, Reached(i - 1) PROVE Reached(i)
  <2>1. PICK a : a = g[i - 1]
    OBVIOUS
  <2>2. PICK t : t = q[i]
    OBVIOUS
  <2>3. Untimed(a, s)
    BY <1>4, <2>1
  <2>4. g[i] = UnBlockOne(a, t, who)
    BY <1>1, <2>1, <2>2
  <2>5. g[i] = a \/ g[i] = UnBlock(a, t)
    BY <2>4 DEF UnBlockOne
  <2>6. CASE g[i] = a
    BY <2>3, <2>6
  <2>7. CASE g[i] = UnBlock(a, t)
    <3>1. TimerFields \subseteq DOMAIN a
      BY <2>3 DEF Untimed
    <3>2. Untimed(g[i], a)
      BY <2>7, <3>1, UnBlockUntimed
    <3> QED BY <2>3, <3>2, UntimedOn
  <2> QED BY <2>5, <2>6, <2>7
<1> HIDE DEF Reached
<1>5. Reached(n)
  <2> DEFINE R == OpToRel(<, Nat)
             Missed == {i \in 0 .. n : ~Reached(i)}
  <2> SUFFICES ASSUME Missed # {} PROVE FALSE
    BY <1>2
  <2>1. IsWellFoundedOn(R, Nat)
    BY NatLessThanWellFounded
  <2>2. Missed \subseteq Nat
    BY <1>2
  <2>3. PICK x \in Missed : \A y \in Missed : ~(<<y, x>> \in R)
    <3> HIDE DEF R, Missed
    <3> QED BY <2>1, <2>2, WFMin
  <2>4. x \in 0 .. n /\ ~Reached(x)
    OBVIOUS
  <2>5. x # 0
    <3> HIDE DEF Missed
    <3> QED BY <1>3, <2>4
  <2>6. x \in 1 .. n /\ x - 1 \in 0 .. n
    <3> HIDE DEF Missed
    <3> QED BY <1>2, <2>4, <2>5
  <2>7. <<x - 1, x>> \in R
    <3> HIDE DEF Missed
    <3> QED BY <1>2, <2>6 DEF OpToRel
  <2>8. x - 1 \notin Missed
    <3> HIDE DEF R, Missed
    <3> QED BY <2>3, <2>7
  <2>9. Reached(x - 1)
    BY <2>6, <2>8
  <2> HIDE DEF Missed
  <2> QED BY <1>4, <2>4, <2>6, <2>9
<1> QED BY <1>1, <1>5 DEF Reached

LEMMA EachSteady ==
  ASSUME SemaphoresAssumption, ObjectsAssumption, Good(k), NEW b \in BlockList, NEW who,
         NEW d, MayYield(d, UnBlockEach(k, b, who))
  PROVE  Steady(d, k)
<1> DEFINE a == UnBlockEach(k, b, who)
<1>1. Shape(k) /\ k.list[b] \in Seq(Thread)
  BY GoodShape DEF Good, KernelState, ListId
<1>2. Untimed(a, k)
  BY <1>1, EachUntimed DEF Shape
<1>3. MayYield(d, a)
  OBVIOUS
<1> HIDE DEF a
<1>4. Steady(a, k)
  BY <1>1, <1>2, UntimedSteady
<1> QED BY <1>3, <1>4, MayYieldSteady

LEMMA StartSteady ==
  ASSUME SemaphoresAssumption, ObjectsAssumption, NEW s, Shape(s), NEW u, NEW d, d = Start(s, u)
  PROVE  Steady(d, s)
<1> DEFINE c == LinkThread(UnlinkThread(s, StopList, u), UnlinkThread(s, StopList, u).prio[u], u)
           a == [c EXCEPT !.owner[u] = s.prio[u], !.where[u] = s.prio[u], !.state[u] = "READY"]
           r == QuantumRemove(a)
           q == QuantumAdd(r, u)
<1>1. Untimed(c, s)
  BY MoveUntimed DEF Shape
<1>2. d = a \/ d = Yield(q)
  BY DEF Start, SchedulerAdd
<1>3. q = QuantumAdd(r, u) /\ r = QuantumRemove(a)
  OBVIOUS
<1> HIDE DEF q, r
<1>4. Untimed(a, c)
  <2> HIDE DEF c
  <2> QED BY <1>1 DEF Untimed, TimerFields
<1> HIDE DEF a, c
<1>5. Steady(a, s)
  BY <1>1, <1>4, UntimedOn, UntimedSteady
<1>6. Steady(r, a)
  BY <1>3, <1>5, SteadyShape, QuantumSteady
<1>7. Steady(q, r)
  BY <1>3, <1>6, SteadyShape, QuantumSteady
<1>8. Steady(q, s)
  BY <1>5, <1>6, <1>7, SteadyOn
<1>9. MayYield(d, a) \/ MayYield(d, q)
  BY <1>2 DEF MayYield
<1> QED BY <1>5, <1>8, <1>9, MayYieldSteady

LEMMA SetPrioritySteady ==
  ASSUME SemaphoresAssumption, ObjectsAssumption, NEW s, Shape(s), NEW u, NEW p,
         NEW d, d = SetPriority(s, u, p)
  PROVE  Steady(d, s)
<1> DEFINE a == UnlinkThread(s, s.prio[u], u)
           b == [a EXCEPT !.prio[u] = p, !.curPrio[u] = p]
           m == LinkThread(b, p, u)
           c == Schedule(m)
<1>1. d = m \/ d = SwitchToNext(c) \/ d = [m EXCEPT !.queued = TRUE]
  BY DEF SetPriority, SchedulerRemove
<1>2. Untimed(a, s)
  BY UnlinkUntimed DEF Shape
<1>3. m = LinkThread(b, p, u) /\ c = Schedule(m)
  OBVIOUS
<1> HIDE DEF c, m
<1>4. Untimed(b, a)
  <2> HIDE DEF a
  <2> QED BY <1>2 DEF Untimed, TimerFields
<1> HIDE DEF a, b
<1>5. Untimed(b, s)
  BY <1>2, <1>4, UntimedOn
<1>6. Untimed(m, b)
  BY <1>3, <1>5, LinkUntimed DEF Untimed
<1>7. Untimed(c, m)
  BY <1>3, <1>6, ScheduleUntimed DEF Untimed
<1>8. Steady(m, s) /\ Steady(c, s)
  BY <1>5, <1>6, <1>7, UntimedOn, UntimedSteady
<1>9. CASE d = SwitchToNext(c)
  <2>1. Steady(d, c)
    BY <1>8, <1>9, SteadyShape, SwitchSteady
  <2> QED BY <1>8, <2>1, SteadyOn
<1>10. CASE d = [m EXCEPT !.queued = TRUE]
  <2>1. Untimed(d, m) /\ Shape(m)
    BY <1>8, <1>10 DEF Steady, Untimed, Shape, TimerFields
  <2> QED BY <1>8, <2>1, UntimedSteady, SteadyOn
<1> QED BY <1>1, <1>8, <1>9, <1>10

\* A thread blocks, with a timer on its stack or without.
LEMMA BlockSteady ==
  ASSUME SemaphoresAssumption, ObjectsAssumption, Shape(k), NEW t \in Thread, NEW b,
         NEW a, a = k \/ \E n : a = TimerAdd(k, WaitTimer(t), n),
         NEW c, c = Block(a, t, b) \/ c = BlockPriority(a, t, b), NEW d, MayYield(d, c)
  PROVE  Steady(d, k)
<1>0. NotOfThread(WaitTimer(t))
  BY OwnTimers DEF NotOfThread
<1>1. Steady(a, k)
  <2>1. CASE a = k
    BY <2>1 DEF Steady, TimerKept
  <2>2. ASSUME NEW n, a = TimerAdd(k, WaitTimer(t), n) PROVE Steady(a, k)
    BY <1>0, <2>2, TimerAddSteady
  <2> QED BY <2>1, <2>2
<1>2. Shape(a)
  BY <1>1, SteadyShape
<1>3. Untimed(c, a)
  BY <1>2, BlockUntimed DEF Shape
<1>4. Steady(c, k)
  BY <1>1, <1>2, <1>3, UntimedSteady, SteadyOn
<1> QED BY <1>4, MayYieldSteady

-----------------------------------------------------------------------------
(* The steps that are not about a Sleep *)

\* The timers of sleeping threads, the tick among them, are as they were.
Rests == Steady(k', k)

LEMMA SameRests ==
  ASSUME ObjInv, k' = k
  PROVE  Rests
BY GoodShape DEF ObjInv, Rests, Steady, TimerKept

LEMMA UntimedRests ==
  ASSUME ObjInv, Untimed(k', k)
  PROVE  Rests
BY GoodShape, UntimedSteady DEF ObjInv, Rests

LEMMA YieldRests ==
  ASSUME SemaphoresAssumption, ObjectsAssumption, ObjInv, k' = Yield(k)
  PROVE  Rests
BY GoodShape, YieldSteady DEF ObjInv, Rests

LEMMA SchedulerRests ==
  ASSUME SemaphoresAssumption, ObjectsAssumption, ObjInv, NEW e, k' = SetScheduler(k, e)
  PROVE  Rests
BY GoodShape, SetSchedulerSteady DEF ObjInv, Rests

LEMMA PostByRests ==
  ASSUME ObjInv, NEW t, NEW s, PostBy(t, s)
  PROVE  Rests
<1>1. CASE k' = k
  BY <1>1, SameRests
<1>2. CASE \E u : k' = UnBlock(k, u)
  <2>1. PICK u : k' = UnBlock(k, u)
    BY <1>2
  <2>2. TimerFields \subseteq DOMAIN k
    BY GoodShape DEF ObjInv, Shape
  <2>3. Untimed(k', k)
    BY <2>1, <2>2, UnBlockUntimed
  <2> QED BY <2>3, UntimedRests
<1> QED BY <1>1, <1>2 DEF PostBy

LEMMA PostInsideRests ==
  ASSUME SemaphoresAssumption, ObjectsAssumption, ObjInv, NEW s, PostInside(s)
  PROVE  Rests
<1>1. k' = k \/ k' = PostAndYield(k, s)
  BY DEF PostInside
<1>2. CASE k' = PostAndYield(k, s)
  BY <1>2, GoodShape, PostSteady DEF ObjInv, Rests
<1> QED BY <1>1, <1>2, SameRests

\* A wait that blocks, and one that does not have to.
LEMMA WaitRests ==
  ASSUME SemaphoresAssumption, ObjectsAssumption, ObjInv, NEW t \in Thread, NEW s, NEW to,
         Pend(t, s, to) \/ \E ticks : TimedPend(t, s, ticks, to)
  PROVE  Rests
<1>1. CASE k' = k
  BY <1>1, SameRests
<1>2. ASSUME NEW a, a = k \/ (\E n : a = TimerAdd(k, WaitTimer(t), n)),
             k' = Yield(BlockPriority(a, t, s))
      PROVE  Rests
  <2>1. PICK c : c = BlockPriority(a, t, s)
    OBVIOUS
  <2>2. MayYield(k', c)
    BY <1>2, <2>1 DEF MayYield
  <2>3. Shape(k)
    BY GoodShape DEF ObjInv
  <2> QED BY <1>2, <2>1, <2>2, <2>3, BlockSteady DEF Rests
<1>3. \/ k' = k
      \/ k' = Yield(BlockPriority(k, t, s))
      \/ \E ticks : k' = Yield(BlockPriority(TimerAdd(k, WaitTimer(t), ticks), t, s))
  BY DEF Pend, TimedPend, Take, Wait
<1> QED BY <1>1, <1>2, <1>3

LEMMA PendEndsRests ==
  ASSUME SemaphoresAssumption, ObjectsAssumption, ObjInv, NEW t \in Thread, NEW to, PendEnds(t, to)
  PROVE  Rests
<1>1. CASE k' = k
  BY <1>1, SameRests
<1>2. CASE k' = TimerRemove(k, WaitTimer(t))
  <2>1. NotOfThread(WaitTimer(t)) /\ Shape(k)
    BY OwnTimers, GoodShape DEF NotOfThread, ObjInv
  <2> QED BY <1>2, <2>1, TimerRemoveSteady DEF Rests
<1> QED BY <1>1, <1>2 DEF PendEnds

LEMMA SemRests ==
  ASSUME SemaphoresAssumption, ObjectsAssumption, ObjInv, NEW t \in Thread, SemThreadStep(t)
  PROVE  Rests
BY PostByRests, WaitRests, PendEndsRests
   DEF SemThreadStep, CallPost, CallPend, CallTimedPend, PendReturns

LEMMA YieldBlockedRests ==
  ASSUME SemaphoresAssumption, ObjectsAssumption, ObjInv, NEW t, YieldBlocked(t)
  PROVE  Rests
BY YieldRests DEF YieldBlocked

LEMMA NotifyRests ==
  ASSUME SemaphoresAssumption, NotifyAssumption, ObjectsAssumption, ObjInv,
         NEW t \in Thread, NotifyStep(t)
  PROVE  Rests
<1>1. ASSUME NEW n \in Note, CallSignal(t, n) PROVE Rests
  <2>1. n \in BlockList /\ Good(k) /\ MayYield(k', UnBlockEach(k, n, Thread))
    BY <1>1 DEF NotifyAssumption, CallSignal, SignalAll, MayYield, ObjInv
  <2> QED BY <2>1, EachSteady DEF Rests
<1>2. ASSUME NEW n, NEW a, a = k \/ (\E m : a = TimerAdd(k, WaitTimer(t), m)), k' = Block(a, t, n)
      PROVE  Rests
  <2>1. MayYield(k', k')
    BY DEF MayYield
  <2>2. Shape(k)
    BY GoodShape DEF ObjInv
  <2> QED BY <1>2, <2>1, <2>2, BlockSteady DEF Rests
<1>3. ASSUME NEW n, CallWait(t, n) PROVE Rests
  BY <1>2, <1>3 DEF CallWait, BlockOn
<1>4. ASSUME NEW n, NEW ticks, CallTimedWait(t, n, ticks) PROVE Rests
  BY <1>2, <1>4 DEF CallTimedWait, BlockOn
<1>5. ASSUME YieldBlocked(t) \/ PendEnds(t, "run") PROVE Rests
  BY <1>5, YieldBlockedRests, PendEndsRests
<1> QED BY <1>1, <1>3, <1>4, <1>5 DEF NotifyStep

LEMMA SignalRests ==
  ASSUME SemaphoresAssumption, NotifyAssumption, ObjectsAssumption, ObjInv, NotifyInterrupt
  PROVE  Rests
<1>1. PICK n \in Note : InterruptSignals(n)
  BY DEF NotifyInterrupt
<1>2. n \in BlockList /\ Good(k) /\ MayYield(k', UnBlockEach(k, n, Thread))
  BY <1>1 DEF NotifyAssumption, InterruptSignals, SignalAll, MayYield, ObjInv
<1> QED BY <1>2, EachSteady DEF Rests

LEMMA SetRests ==
  ASSUME SemaphoresAssumption, EventFlagAssumption, ObjectsAssumption, ObjInv,
         NEW g \in Group, NEW new, Set(g, new)
  PROVE  Rests
<1>1. k' = k \/ \E who : k' = Yield(UnBlockEach(k, g, who))
  BY DEF Set
<1>2. ASSUME NEW who, k' = Yield(UnBlockEach(k, g, who)) PROVE Rests
  <2>1. g \in BlockList /\ Good(k) /\ MayYield(k', UnBlockEach(k, g, who))
    BY <1>2 DEF EventFlagAssumption, MayYield, ObjInv
  <2> QED BY <2>1, EachSteady DEF Rests
<1> QED BY <1>1, <1>2, SameRests

LEMMA WaitFlagsRests ==
  ASSUME SemaphoresAssumption, ObjectsAssumption, ObjInv, NEW t \in Thread, NEW g, NEW wanted,
         NEW how, NEW a, a = k \/ (\E n : a = TimerAdd(k, WaitTimer(t), n)), NEW where,
         WaitFlags(t, g, wanted, how, a, where)
  PROVE  Rests
<1>1. k' = k \/ k' = Yield(BlockPriority(a, t, g))
  BY DEF WaitFlags, allVars
<1>2. CASE k' = Yield(BlockPriority(a, t, g))
  <2>1. PICK c : c = BlockPriority(a, t, g)
    OBVIOUS
  <2>2. MayYield(k', c)
    BY <1>2, <2>1 DEF MayYield
  <2>3. Shape(k)
    BY GoodShape DEF ObjInv
  <2> QED BY <2>1, <2>2, <2>3, BlockSteady DEF Rests
<1> QED BY <1>1, <1>2, SameRests

LEMMA FlagRests ==
  ASSUME SemaphoresAssumption, EventFlagAssumption, ObjectsAssumption, ObjInv,
         NEW t \in Thread, FlagStep(t)
  PROVE  Rests
<1>1. ASSUME NEW g \in Group, NEW m, CallSet(t, g, m) PROVE Rests
  BY <1>1, SetRests DEF CallSet
<1>2. ASSUME NEW g \in Group, NEW m, CallClear(t, g, m) PROVE Rests
  BY <1>2, SameRests DEF CallClear, allVars
<1>3. ASSUME NEW g \in Group, NEW m, NEW how, CallWaitFlags(t, g, m, how) PROVE Rests
  BY <1>3, WaitFlagsRests DEF CallWaitFlags
<1>4. ASSUME NEW g \in Group, NEW m, NEW how, NEW ticks, CallTimedWaitFlags(t, g, m, how, ticks)
      PROVE  Rests
  <2>1. PICK a : a = TimerAdd(k, WaitTimer(t), ticks)
    OBVIOUS
  <2>2. WaitFlags(t, g, m, how, a, "timed")
    BY <1>4, <2>1 DEF CallTimedWaitFlags
  <2> QED BY <2>1, <2>2, WaitFlagsRests
<1>5. ASSUME FlagsReturn(t) PROVE Rests
  BY <1>5, PendEndsRests DEF FlagsReturn
<1> QED BY <1>1, <1>2, <1>3, <1>4, <1>5 DEF FlagStep

\* Inheritance.
LEMMA InheritRests ==
  ASSUME SemaphoresAssumption, ObjectsAssumption, ObjInv, NEW who, NEW p,
         k' = SetScheduler(InheritPriority(k, who, p), TRUE)
  PROVE  Rests
<1>1. PICK a : a = InheritPriority(k, who, p)
  OBVIOUS
<1>2. Shape(k)
  BY GoodShape DEF ObjInv
<1>3. Untimed(a, k)
  BY <1>1, <1>2 DEF InheritPriority, Untimed, Shape, TimerFields
<1>4. Steady(a, k)
  BY <1>2, <1>3, UntimedSteady
<1>5. k' = SetScheduler(a, TRUE)
  BY <1>1
<1>6. Steady(k', a)
  BY <1>4, <1>5, SteadyShape, SetSchedulerSteady
<1> QED BY <1>4, <1>6, SteadyOn DEF Rests

\* The steps of Release.
LEMMA RestoreSteady ==
  ASSUME SemaphoresAssumption, ObjectsAssumption, ObjInv, NEW t \in Thread, NEW a,
         a = k \/ a = SetPriority(k, t, k.prio[t])
  PROVE  Steady(a, k)
<1>1. Shape(k)
  BY GoodShape DEF ObjInv
<1>2. CASE a = k
  BY <1>1, <1>2 DEF Steady, TimerKept
<1>3. CASE a = SetPriority(k, t, k.prio[t])
  BY <1>1, <1>3, SetPrioritySteady
<1> QED BY <1>2, <1>3

LEMMA ChecksRests ==
  ASSUME SemaphoresAssumption, ObjectsAssumption, ObjInv, NEW t \in Thread, ReleaseChecks(t)
  PROVE  Rests
<1>1. PICK a : /\ a = k \/ a = SetPriority(k, t, k.prio[t])
               /\ k' = a \/ k' = SetScheduler(a, TRUE)
  BY DEF ReleaseChecks, ReleaseEnds
<1>2. Steady(a, k)
  BY <1>1, RestoreSteady
<1>3. CASE k' = a
  BY <1>2, <1>3 DEF Rests
<1>4. CASE k' = SetScheduler(a, TRUE)
  <2>1. Steady(k', a)
    BY <1>2, <1>4, SteadyShape, SetSchedulerSteady
  <2> QED BY <1>2, <2>1, SteadyOn DEF Rests
<1> QED BY <1>1, <1>3, <1>4

LEMMA PassRests ==
  ASSUME SemaphoresAssumption, ObjectsAssumption, ObjInv, NEW t \in Thread, WakeNextUnBlocks(t)
  PROVE  Rests
<1>1. Shape(k)
  BY GoodShape DEF ObjInv
<1>2. PICK a : \/ a = [k EXCEPT !.fault = TRUE] /\ k' = a
               \/ (\E u : a = UnBlock(k, u)) /\ k' = SetScheduler(a, TRUE)
  BY DEF WakeNextUnBlocks, ReleaseEnds
<1>3. Untimed(a, k)
  <2>1. CASE a = [k EXCEPT !.fault = TRUE]
    BY <1>1, <2>1 DEF Untimed, Shape, TimerFields
  <2>2. CASE \E u : a = UnBlock(k, u)
    BY <1>1, <2>2, UnBlockUntimed DEF Shape
  <2> QED BY <1>2, <2>1, <2>2
<1>4. Steady(a, k)
  BY <1>1, <1>3, UntimedSteady
<1>5. CASE k' = a
  BY <1>4, <1>5 DEF Rests
<1>6. CASE k' = SetScheduler(a, TRUE)
  <2>1. Steady(k', a)
    BY <1>4, <1>6, SteadyShape, SetSchedulerSteady
  <2> QED BY <1>4, <2>1, SteadyOn DEF Rests
<1> QED BY <1>2, <1>5, <1>6

LEMMA MutexRests ==
  ASSUME SemaphoresAssumption, ObjectsAssumption, ObjInv, NEW t \in Thread, MutexStep(t)
  PROVE  Rests
<1>1. ASSUME NEW m, CallClaim(t, m) \/ CallTimedClaim(t, m) \/ CallRelease(t, m) PROVE Rests
  <2>1. \E e : k' = SetScheduler(k, e)
    BY <1>1 DEF CallClaim, CallTimedClaim, ClaimBegins, CallRelease
  <2> QED BY <2>1, SchedulerRests
<1>2. ASSUME ClaimSucceeds(t) \/ ReleaseCounts(t) PROVE Rests
  <2>1. \E e : k' = SetScheduler(k, e)
    BY <1>2 DEF ClaimSucceeds, ReleaseCounts
  <2> QED BY <2>1, SchedulerRests
<1>3. ASSUME ClaimBlocks(t) PROVE Rests
  <2>1. PICK a : (a = k \/ \E n : a = TimerAdd(k, WaitTimer(t), n)) /\ k' = BlockPriority(a, t, pendOn[t])
    BY <1>3 DEF ClaimBlocks
  <2>2. MayYield(k', k') /\ Shape(k)
    BY GoodShape DEF MayYield, ObjInv
  <2> QED BY <2>1, <2>2, BlockSteady DEF Rests
<1>4. ASSUME ClaimInherits(t) PROVE Rests
  <2>1. \/ k' = SetScheduler(k, TRUE)
        \/ \E who, p : k' = SetScheduler(InheritPriority(k, who, p), TRUE)
    BY <1>4 DEF ClaimInherits
  <2> QED BY <2>1, SchedulerRests, InheritRests
<1>5. ASSUME ClaimReturns(t) \/ YieldBlocked(t) PROVE Rests
  BY <1>5, PendEndsRests, YieldBlockedRests DEF ClaimReturns
<1>6. ASSUME WakeNextChooses(t) PROVE Rests
  BY <1>6, SameRests DEF WakeNextChooses
<1> QED BY <1>1, <1>2, <1>3, <1>4, <1>5, <1>6, ChecksRests, PassRests DEF MutexStep

LEMMA TrySendRests ==
  ASSUME SemaphoresAssumption, ObjectsAssumption, ObjInv, NEW t, NEW f, NEW again,
         TrySend(t, f, again)
  PROVE  Rests
<1>1. PICK off : off = SetScheduler(k, FALSE)
  OBVIOUS
<1>2. Steady(off, k)
  BY <1>1, GoodShape, SetSchedulerSteady DEF ObjInv
<1>3. k' = off \/ k' = SetScheduler(off, f.sched)
  BY <1>1 DEF TrySend
<1>4. CASE k' = SetScheduler(off, f.sched)
  <2>1. Steady(k', off)
    BY <1>2, <1>4, SteadyShape, SetSchedulerSteady
  <2> QED BY <1>2, <2>1, SteadyOn DEF Rests
<1> QED BY <1>2, <1>3, <1>4 DEF Rests

LEMMA BoxRests ==
  ASSUME SemaphoresAssumption, ObjectsAssumption, ObjInv, NEW t \in Thread, BoxStep(t)
  PROVE  Rests
<1>1. ASSUME NEW b, NEW end, CallSend(t, b, end) \/ CallReceive(t, b, end) PROVE Rests
  BY <1>1, TrySendRests, WaitRests DEF CallSend, CallReceive
<1>2. ASSUME NEW b, NEW end, NEW ticks,
             CallTimedSend(t, b, end, ticks) \/ CallTimedReceive(t, b, end, ticks)
      PROVE  Rests
  BY <1>2, TrySendRests, WaitRests DEF CallTimedSend, CallTimedReceive
<1>3. ASSUME SendWaits(t) \/ SendRetries(t) PROVE Rests
  BY <1>3, TrySendRests, WaitRests DEF SendWaits, SendRetries
<1>4. ASSUME SendWakes(t) \/ ReceiveWakes(t) PROVE Rests
  BY <1>4, PendEndsRests DEF SendWakes, ReceiveWakes
<1>5. ASSUME SendPosts(t) \/ ReceivePosts(t) PROVE Rests
  BY <1>5, PostByRests DEF SendPosts, ReceivePosts
<1>6. ASSUME SendCopies(t) \/ ReceiveTakes(t) \/ ReceiveCopies(t) PROVE Rests
  BY <1>6, SchedulerRests DEF SendCopies, ReceiveTakes, ReceiveCopies
<1> QED BY <1>1, <1>2, <1>3, <1>4, <1>5, <1>6 DEF BoxStep

LEMMA MessageRests ==
  ASSUME SemaphoresAssumption, ObjectsAssumption, ObjInv, NEW t \in Thread, MessageStep(t)
  PROVE  Rests
<1>1. ASSUME CallPop(t) \/ \E x : CallPush(t, x) PROVE Rests
  BY <1>1, SameRests DEF CallPop, CallPush, allVars
<1>2. ASSUME NEW q, NEW x, CallSendMessage(t, q, x) PROVE Rests
  BY <1>2, PostInsideRests DEF CallSendMessage
<1>3. ASSUME NEW q, CallReceiveMessage(t, q) PROVE Rests
  BY <1>3, WaitRests DEF CallReceiveMessage
<1>4. ASSUME NEW q, NEW ticks, CallTimedReceiveMessage(t, q, ticks) PROVE Rests
  BY <1>4, WaitRests DEF CallTimedReceiveMessage
<1>5. ASSUME MessageWakes(t) PROVE Rests
  BY <1>5, PendEndsRests DEF MessageWakes
<1>6. ASSUME MessagePops(t) PROVE Rests
  <2>1. CASE k' = k
    BY <2>1, SameRests
  <2>2. CASE k' = [k EXCEPT !.fault = TRUE]
    <3>1. Untimed(k', k)
      BY <2>2, GoodShape DEF ObjInv, Shape, Untimed, TimerFields
    <3> QED BY <3>1, UntimedRests
  <2> QED BY <1>6, <2>1, <2>2 DEF MessagePops
<1> QED BY <1>1, <1>2, <1>3, <1>4, <1>5, <1>6 DEF MessageStep

\* What the interrupts do, but for the pass that counts down and the end of
\* Process, which is no longer inside it.
LEMMA ExpiryRests ==
  ASSUME SemaphoresAssumption, ObjectsAssumption, ObjInv, NEW t \in Thread, WaitExpires(t)
  PROVE  Rests
<1>1. PICK d : d = UnBlock(k, t)
  OBVIOUS
<1>2. PICK y : y = IF Preempts(d, t) THEN Yield(d) ELSE d
  OBVIOUS
<1>3. k' = TimerRemove(y, WaitTimer(t)) /\ MayYield(y, d)
  BY <1>1, <1>2 DEF WaitExpires, MayYield
<1>4. Shape(k)
  BY GoodShape DEF ObjInv
<1>5. Steady(d, k)
  BY <1>1, <1>4, UnBlockUntimed, UntimedSteady DEF Shape
<1>6. Steady(y, k)
  BY <1>3, <1>5, MayYieldSteady
<1>7. NotOfThread(WaitTimer(t))
  BY OwnTimers DEF NotOfThread
<1>8. Steady(k', y)
  BY <1>3, <1>6, <1>7, SteadyShape, TimerRemoveSteady
<1> QED BY <1>6, <1>8, SteadyOn DEF Rests

LEMMA QuantumRests ==
  ASSUME SemaphoresAssumption, ObjectsAssumption, ObjInv, QuantumExpires
  PROVE  Rests
<1>1. PICK d : d = QuantumCallback(k)
  OBVIOUS
<1>2. k' = TimerRemove(d, QuantumTimer)
  BY <1>1 DEF QuantumExpires
<1>3. Shape(k)
  BY GoodShape DEF ObjInv
<1>4. Steady(d, k)
  BY <1>1, <1>3, CallbackUntimed, UntimedSteady DEF Shape
<1>5. NotOfThread(QuantumTimer)
  BY OwnTimers DEF NotOfThread, Timer
<1>6. Steady(k', d)
  BY <1>2, <1>4, <1>5, SteadyShape, TimerRemoveSteady
<1> QED BY <1>4, <1>6, SteadyOn DEF Rests

LEMMA SwitchRests ==
  ASSUME ObjInv, PendSV
  PROVE  Rests
<1>1. Untimed(k', k)
  BY GoodShape DEF ObjInv, PendSV, Shape, Untimed, TimerFields
<1> QED BY <1>1, UntimedRests

\* The timer of thread u is off the list, those of the others are as they were.
TakesOff(u) ==
  /\ k'.inTimer = k.inTimer /\ SleepTimer(u) \notin ToSet(k'.timers)
  /\ \A t \in Thread \ {u} : TimerKept(k', k, SleepTimer(t))

LEMMA TimerFreed ==
  ASSUME SemaphoresAssumption, ObjectsAssumption, NEW u \in Thread, NEW c, Steady(c, k),
         k' = TimerRemove(c, SleepTimer(u)), SleepTimer(u) \notin ToSet(k'.timers)
  PROVE  TakesOff(u)
<1>1. Shape(c) /\ c.inTimer = k.inTimer /\ \A t \in Thread : TimerKept(c, k, SleepTimer(t))
  BY DEF Steady
<1>2. \A t \in Thread : SleepTimer(t) \in Timer /\ (t # u => SleepTimer(t) # SleepTimer(u))
  BY OwnTimers
<1>3. /\ k'.inTimer = c.inTimer
      /\ \A y \in Timer \ {SleepTimer(u)} : TimerKept(k', c, y)
  BY <1>1, <1>2, TimerRemoveKeeps
<1> QED BY <1>1, <1>2, <1>3 DEF TakesOff, TimerKept

\* A thread that is stopped or ended.
LEMMA DetachUntimed ==
  ASSUME NEW s, TimerFields \subseteq DOMAIN s, NEW u, NEW d, d = Detach(s, u)
  PROVE  Untimed(d, s)
<1>1. d = s \/ \E l : d = UnlinkThread(s, l, u)
  BY DEF Detach, SchedulerRemove
<1>2. CASE d = s
  BY <1>2 DEF Untimed
<1> QED BY <1>1, <1>2, UnlinkUntimed

LEMMA StopFrees ==
  ASSUME KernelAssumption, SemaphoresAssumption, ObjectsAssumption, ObjInv,
         NEW t, NEW u \in Thread, CallStop(t, u)
  PROVE  TakesOff(u)
<1> DEFINE a == Detach(k, u)
           b == LinkThread(a, StopList, u)
           c == [b EXCEPT !.owner[u] = StopList, !.where[u] = StopList, !.state[u] = "STOP"]
<1>0. /\ Good(k) /\ Shape(k) /\ u # Idle /\ k.state[u] \in {"READY", "BLOCKED"} /\ k' = Stop(k, u)
  BY GoodShape DEF ObjInv, CallStop, MayLeave
<1>1. SleepTimer(u) \notin ToSet(k'.timers)
  BY <1>0, StopFacts
<1>2. k' = TimerRemove(c, SleepTimer(u))
  BY <1>0 DEF Stop
<1>3. Untimed(a, k)
  BY <1>0, DetachUntimed DEF Shape
<1>4. b = LinkThread(a, StopList, u)
  OBVIOUS
<1> HIDE DEF a
<1>5. Untimed(b, a)
  BY <1>3, <1>4, LinkUntimed DEF Untimed
<1> HIDE DEF b
<1>6. Untimed(c, b)
  BY <1>5 DEF Untimed, TimerFields
<1> HIDE DEF c
<1>7. Steady(c, k)
  BY <1>0, <1>3, <1>5, <1>6, UntimedOn, UntimedSteady
<1> QED BY <1>1, <1>2, <1>7, TimerFreed

LEMMA ExitFrees ==
  ASSUME KernelAssumption, SemaphoresAssumption, ObjectsAssumption, ObjInv,
         NEW t, NEW u \in Thread, CallExit(t, u)
  PROVE  TakesOff(u)
<1> DEFINE b == Detach(k, u)
           c == [b EXCEPT !.owner[u] = NoList, !.where[u] = NoList, !.state[u] = "EXIT",
                          !.prio[u]  = 0,      !.curPrio[u] = 0]
<1>0. /\ Good(k) /\ Shape(k) /\ u # Idle /\ k.state[u] \in {"READY", "BLOCKED"} /\ k' = Exit(k, u)
  BY GoodShape DEF ObjInv, CallExit, MayLeave
<1>1. SleepTimer(u) \notin ToSet(k'.timers)
  BY <1>0, ExitFacts
<1>2. k' = TimerRemove(c, SleepTimer(u))
  BY <1>0 DEF Exit
<1>3. Untimed(b, k)
  BY <1>0, DetachUntimed DEF Shape
<1> HIDE DEF b
<1>4. Untimed(c, b)
  BY <1>3 DEF Untimed, TimerFields
<1> HIDE DEF c
<1>5. Steady(c, k)
  BY <1>0, <1>3, <1>4, UntimedOn, UntimedSteady
<1> QED BY <1>1, <1>2, <1>5, TimerFreed

LEMMA ThreadFrees ==
  ASSUME KernelAssumption, SemaphoresAssumption, ObjectsAssumption, ObjInv, "Init" \notin Calls,
         NEW t \in Thread, ThreadStep(t)
  PROVE  \/ Rests
         \/ \E u \in Thread : TakesOff(u) /\ ("Stop" \in Calls \/ "Exit" \in Calls)
<1>0. Shape(k)
  BY GoodShape DEF ObjInv
<1>1. ASSUME NEW u \in Thread, CallStart(t, u) PROVE Rests
  BY <1>0, <1>1, StartSteady DEF CallStart, Rests
<1>2. ASSUME NEW u \in Thread, CallStop(t, u) \/ CallExit(t, u)
      PROVE  TakesOff(u) /\ ("Stop" \in Calls \/ "Exit" \in Calls)
  <2>1. TakesOff(u)
    BY <1>2, StopFrees, ExitFrees
  <2> QED BY <1>2, <2>1 DEF CallStop, CallExit, Calling
<1>3. ASSUME NEW u \in Thread, CallInit(t, u) PROVE FALSE
  BY <1>3 DEF CallInit, Calling
<1>4. ASSUME NEW u \in Thread, NEW p, CallSetPriority(t, u, p) PROVE Rests
  BY <1>0, <1>4, SetPrioritySteady DEF CallSetPriority, Rests
<1>5. ASSUME NEW e, CallSetScheduler(t, e) PROVE Rests
  BY <1>5, SchedulerRests DEF CallSetScheduler
<1>6. ASSUME CallYield(t) \/ FinishCall(t) PROVE Rests
  BY <1>6, YieldRests DEF CallYield, FinishCall
<1> QED BY <1>1, <1>2, <1>3, <1>4, <1>5, <1>6 DEF ThreadStep

\* ThreadSleepCallback.
LEMMA SleepExpiresFrees ==
  ASSUME KernelAssumption, SemaphoresAssumption, SleepAssumption, ObjectsAssumption, ObjInv,
         NEW u \in Thread, SleepExpires(u)
  PROVE  TakesOff(u)
<1>1. PICK c : (c = k \/ (k.list[Nap[u]] # <<>> /\ c = PostAndYield(k, Nap[u])))
               /\ k' = TimerRemove(c, SleepTimer(u))
  BY DEF SleepExpires
<1>2. Good(k) /\ Shape(k) /\ SleepTimer(u) \in Timer /\ Nap[u] \in BlockList
  BY GoodShape, OwnTimers, OwnNaps DEF ObjInv
<1>3. Good(c) /\ Steady(c, k)
  <2>1. CASE c = k
    BY <1>2, <2>1 DEF Steady, TimerKept
  <2>2. CASE k.list[Nap[u]] # <<>> /\ c = PostAndYield(k, Nap[u])
    <3>1. PICK y \in BOOLEAN : y <=> pc[k.current] \in Yielding
      OBVIOUS
    <3>2. PICK h \in BOOLEAN : h <=> pc[k.current] \in Enabling
      OBVIOUS
    <3>3. Dispatches(k, y, h)
      BY <3>1, <3>2 DEF ObjInv, Dispatches
    <3>4. Good(c)
      BY <1>2, <2>2, <3>3, PostWakes DEF Wakes
    <3> QED BY <1>2, <2>2, <3>4, PostSteady
  <2> QED BY <1>1, <2>1, <2>2
<1>4. SleepTimer(u) \notin ToSet(k'.timers)
  BY <1>1, <1>2, <1>3, TimerGone
<1> QED BY <1>1, <1>3, <1>4, TimerFreed

\* The end of Process.
LEMMA TickEndKeeps ==
  ASSUME SemaphoresAssumption, ObjectsAssumption, ObjInv, TickEnd
  PROVE  /\ ~k'.inTimer /\ ToSet(k.timers) \cap k.callback = {}
         /\ \A t \in Thread : TimerKept(k', k, SleepTimer(t))
<1> DEFINE d == [k EXCEPT !.inTimer = FALSE]
           y == Yield(d)
           e == IF d.qAdd THEN [y EXCEPT !.qAdd = FALSE] ELSE d
<1>0. Shape(k)
  BY GoodShape DEF ObjInv
<1>1. ToSet(k.timers) \cap k.callback = {} /\ k' = [e EXCEPT !.due = e.pendsv]
  BY DEF TickEnd
<1>2. /\ Shape(d) /\ ~d.inTimer
      /\ d.timers = k.timers /\ d.left = k.left /\ d.callback = k.callback
  BY <1>0 DEF Shape, TimerFields
<1>3. y = Yield(d) /\ (e = d \/ e = [y EXCEPT !.qAdd = FALSE])
  OBVIOUS
<1> HIDE DEF d, e
<1>4. Steady(y, d)
  BY <1>2, <1>3, YieldSteady
<1> HIDE DEF y
<1>5. Steady(e, d)
  <2>1. CASE e = d
    BY <1>2, <2>1 DEF Steady, TimerKept
  <2>2. CASE e = [y EXCEPT !.qAdd = FALSE]
    <3>1. Untimed(e, y) /\ Shape(y)
      BY <1>4, <2>2 DEF Steady, Shape, Untimed, TimerFields
    <3> QED BY <1>4, <3>1, UntimedSteady, SteadyOn
  <2> QED BY <1>3, <2>1, <2>2
<1>6. Untimed(k', e) /\ Shape(e)
  BY <1>1, <1>5 DEF Steady, Shape, Untimed, TimerFields
<1>7. Steady(k', d)
  BY <1>5, <1>6, UntimedSteady, SteadyOn
<1>8. ~k'.inTimer /\ \A t \in Thread : TimerKept(k', d, SleepTimer(t))
  BY <1>2, <1>7 DEF Steady
<1> QED BY <1>1, <1>2, <1>8 DEF TimerKept

\* The pass that counts down.
LEMMA TickBeginCounts ==
  ASSUME SemaphoresAssumption, ObjectsAssumption, ObjInv, TickBegin, NEW t \in Thread
  PROVE  LET x == SleepTimer(t)
         IN  /\ ~k.inTimer /\ k'.inTimer /\ k'.timers = k.timers
             /\ x \in ToSet(k.timers) =>
                  /\ k'.left[x] = IF k.left[x] = 0 THEN MaxTimeLeft ELSE k.left[x] - 1
                  /\ x \in k'.callback <=> x \in k.callback \/ k'.left[x] = 0
<1> DEFINE x == SleepTimer(t)
<1>0. k \in KernelState /\ x \in Timer
  BY OwnTimers DEF ObjInv, Good
<1>1. \E l : /\ l = [y \in Timer |-> IF y \notin ToSet(k.timers) THEN k.left[y]
                                      ELSE IF k.left[y] = 0 THEN MaxTimeLeft ELSE k.left[y] - 1]
             /\ k' = [k EXCEPT !.inTimer  = TRUE, !.left = l,
                               !.callback = @ \cup {y \in ToSet(k.timers) : l[y] = 0}]
  BY DEF TickBegin
<1>2. /\ ~k.inTimer /\ k'.inTimer /\ k'.timers = k.timers
      /\ k'.left = [y \in Timer |-> IF y \notin ToSet(k.timers) THEN k.left[y]
                                    ELSE IF k.left[y] = 0 THEN MaxTimeLeft ELSE k.left[y] - 1]
      /\ k'.callback = k.callback \cup {y \in ToSet(k.timers) : k'.left[y] = 0}
  BY <1>0, <1>1 DEF TickBegin, KernelState
<1> HIDE DEF x
<1>3. x \in ToSet(k.timers) =>
        /\ k'.left[x] = IF k.left[x] = 0 THEN MaxTimeLeft ELSE k.left[x] - 1
        /\ x \in k'.callback <=> x \in k.callback \/ k'.left[x] = 0
  BY <1>0, <1>2
<1> QED BY <1>2, <1>3 DEF x

\* No thread begins to sleep.
NobodyNods == \A u \in Thread : Sleeping(u)' => Sleeping(u)

\* A step of t to a place that is not in Sleep.
StaysAwake(t) == pc' = pc \/ \E at : at # "sleep" /\ pc' = [pc EXCEPT ![t] = at]

LEMMA AwakeOfSem ==
  ASSUME NEW t, SemThreadStep(t)
  PROVE  StaysAwake(t)
BY DEF SemThreadStep, CallPost, CallPend, CallTimedPend, PendReturns, PostBy, Pend, TimedPend,
       Take, Wait, PendEnds, StaysAwake

LEMMA AwakeOfNotify ==
  ASSUME NEW t, NotifyStep(t)
  PROVE  StaysAwake(t)
BY DEF NotifyStep, CallSignal, CallWait, CallTimedWait, BlockOn, PendEnds, YieldBlocked, StaysAwake

LEMMA AwakeOfFlags ==
  ASSUME NEW t, FlagStep(t)
  PROVE  StaysAwake(t)
<1>1. ASSUME NEW g, NEW m, CallSet(t, g, m) \/ CallClear(t, g, m) PROVE StaysAwake(t)
  BY <1>1 DEF CallSet, Set, CallClear, allVars, StaysAwake
<1>2. ASSUME NEW g, NEW m, NEW how, NEW a, NEW where, where # "sleep",
             WaitFlags(t, g, m, how, a, where)
      PROVE  StaysAwake(t)
  <2>1. pc' = pc \/ pc' = [pc EXCEPT ![t] = where]
    BY <1>2 DEF WaitFlags, allVars
  <2> QED BY <1>2, <2>1 DEF StaysAwake
<1>3. ASSUME NEW g, NEW m, NEW how, CallWaitFlags(t, g, m, how) PROVE StaysAwake(t)
  BY <1>2, <1>3 DEF CallWaitFlags
<1>4. ASSUME NEW g, NEW m, NEW how, NEW ticks, CallTimedWaitFlags(t, g, m, how, ticks)
      PROVE  StaysAwake(t)
  BY <1>2, <1>4 DEF CallTimedWaitFlags
<1>5. ASSUME FlagsReturn(t) PROVE StaysAwake(t)
  BY <1>5 DEF FlagsReturn, PendEnds, StaysAwake
<1> QED BY <1>1, <1>3, <1>4, <1>5 DEF FlagStep

LEMMA AwakeOfMutex ==
  ASSUME NEW t, MutexStep(t)
  PROVE  StaysAwake(t)
<1>1. ASSUME NEW m \in Mutexes, CallClaim(t, m) \/ CallTimedClaim(t, m) \/ CallRelease(t, m)
      PROVE  StaysAwake(t)
  BY <1>1 DEF CallClaim, CallTimedClaim, ClaimBegins, CallRelease, StaysAwake
<1>2. ASSUME ClaimSucceeds(t) \/ ReleaseCounts(t) PROVE StaysAwake(t)
  BY <1>2 DEF ClaimSucceeds, ReleaseCounts, Leave, StaysAwake
<1>3. ASSUME ClaimBlocks(t) \/ ClaimInherits(t) PROVE StaysAwake(t)
  BY <1>3 DEF ClaimBlocks, ClaimInherits, StaysAwake
<1>4. ASSUME ClaimReturns(t) \/ YieldBlocked(t) PROVE StaysAwake(t)
  BY <1>4 DEF ClaimReturns, PendEnds, YieldBlocked, StaysAwake
<1>5. ASSUME ReleaseChecks(t) \/ WakeNextChooses(t) \/ WakeNextUnBlocks(t) PROVE StaysAwake(t)
  <2>1. \/ pc' = pc
        \/ \E at \in {"run", "yield", "wake", "unblock"} : pc' = [pc EXCEPT ![t] = at]
    BY <1>5 DEF ReleaseChecks, WakeNextChooses, WakeNextUnBlocks, ReleaseEnds, Leave
  <2> QED BY <2>1 DEF StaysAwake
<1> QED BY <1>1, <1>2, <1>3, <1>4, <1>5 DEF MutexStep

LEMMA AwakeOfBox ==
  ASSUME NEW t, BoxStep(t)
  PROVE  StaysAwake(t)
<1>1. ASSUME NEW f, NEW again, TrySend(t, f, again) PROVE StaysAwake(t)
  BY <1>1 DEF TrySend, StaysAwake
<1>2. ASSUME NEW b, NEW end, CallSend(t, b, end) \/ CallReceive(t, b, end) PROVE StaysAwake(t)
  BY <1>1, <1>2 DEF CallSend, CallReceive, Pend, Take, Wait, StaysAwake
<1>3. ASSUME NEW b, NEW end, NEW ticks,
             CallTimedSend(t, b, end, ticks) \/ CallTimedReceive(t, b, end, ticks)
      PROVE  StaysAwake(t)
  BY <1>1, <1>3 DEF CallTimedSend, CallTimedReceive, TimedPend, Take, Wait, StaysAwake
<1>4. ASSUME SendWaits(t) \/ SendWakes(t) \/ SendCopies(t) PROVE StaysAwake(t)
  BY <1>4 DEF SendWaits, SendWakes, SendCopies, PendEnds, TimedPend, Take, Wait, StaysAwake
<1>5. ASSUME SendRetries(t) PROVE StaysAwake(t)
  BY <1>1, <1>5 DEF SendRetries
<1>6. ASSUME SendPosts(t) \/ ReceivePosts(t) PROVE StaysAwake(t)
  BY <1>6 DEF SendPosts, ReceivePosts, PostBy, StaysAwake
<1>7. ASSUME ReceiveWakes(t) \/ ReceiveTakes(t) \/ ReceiveCopies(t) PROVE StaysAwake(t)
  BY <1>7 DEF ReceiveWakes, ReceiveTakes, ReceiveCopies, PendEnds, StaysAwake
<1> QED BY <1>2, <1>3, <1>4, <1>5, <1>6, <1>7 DEF BoxStep

LEMMA AwakeOfMessage ==
  ASSUME NEW t, MessageStep(t)
  PROVE  StaysAwake(t)
BY DEF MessageStep, CallPop, CallPush, CallSendMessage, PostInside, CallReceiveMessage,
       CallTimedReceiveMessage, Pend, TimedPend, Take, Wait, MessageWakes, MessagePops,
       PendEnds, allVars, StaysAwake

\* A step that is about waits of other kinds.
LEMMA AwakeNods ==
  ASSUME SemaphoresAssumption, SleepAssumption, ObjInv, NEW t \in Thread, StaysAwake(t),
         NEW B, Elsewhere(B), B \cap Naps = {}
  PROVE  NobodyNods
<1> SUFFICES ASSUME NEW u \in Thread, Sleeping(u)' PROVE Sleeping(u)
  BY DEF NobodyNods
<1>1. pc \in [Thread -> Where]
  BY DEF ObjInv
<1>2. CASE pc'[u] = "sleep"
  BY <1>1, <1>2 DEF StaysAwake, Sleeping
<1>3. CASE pc'[u] = "pend" /\ pendOn'[u] = Nap[u]
  <2>1. pendOn'[u] \in BlockList /\ pendOn'[u] \notin B
    BY <1>3, OwnNaps
  <2>2. Untouched(u)
    BY <2>1 DEF Elsewhere
  <2> QED BY <1>3, <2>2 DEF Untouched, Sleeping
<1> QED BY <1>2, <1>3 DEF Sleeping

LEMMA SameNods ==
  ASSUME pc' = pc, pendOn' = pendOn
  PROVE  NobodyNods
BY DEF NobodyNods, Sleeping

\* What every step is to the threads that sleep.
NapSide ==
  \/ Rests /\ NobodyNods /\ Clock
  \/ /\ \E u \in Thread : TakesOff(u) /\ ("Stop" \in Calls \/ "Exit" \in Calls)
     /\ NobodyNods /\ Clock
  \/ (TickBegin \/ TickEnd) /\ NobodyNods /\ Clock
  \/ \E u \in Thread : SleepExpires(u)
  \/ \E u \in Thread : \/ \E ms \in SleepMs : CallSleep(u, ms)
                       \/ \E us \in SleepUs : CallUSleep(u, us)

LEMMA EveryNap ==
  ASSUME KernelAssumption, SemaphoresAssumption, SleepAssumption, NotifyAssumption,
         EventFlagAssumption, MutexAssumption, MailboxAssumption, MessageAssumption,
         ObjectsAssumption, "Init" \notin Calls, ObjInv, FrameInv, ObjectsNext
  PROVE  NapSide
<1>14. MailInv /\ WakeInv
  BY DEF FrameInv
<1>0. /\ Shared \cap Naps = {} /\ Note \cap Naps = {} /\ Group \cap Naps = {}
      /\ Mutexes \cap Naps = {} /\ BoxSems \cap Naps = {} /\ QueueSems \cap Naps = {}
  <2>1. Naps \subseteq Sem \ Shared
    BY DEF Naps, SleepAssumption
  <2> QED BY <2>1, Kinds DEF NotifyAssumption
<1>1. ASSUME BeginPass \/ SwitchContext PROVE NapSide
  <2>1. pc' = pc /\ pendOn' = pendOn /\ Clock
    BY <1>1 DEF BeginPass, SwitchContext, TickBegin, PendSV, semVars
  <2> QED BY <1>1, <2>1, SameNods, SwitchRests DEF NapSide, BeginPass, SwitchContext
<1>2. ASSUME PassGoesOn PROVE NapSide
  <2>1. CASE (QuantumExpires \/ TickEnd) /\ UNCHANGED semVars /\ Clock
    <3>1. pc' = pc /\ pendOn' = pendOn
      BY <2>1 DEF QuantumExpires, TickEnd, semVars
    <3> QED BY <2>1, <3>1, SameNods, QuantumRests DEF NapSide
  <2>2. CASE (\E t \in Thread : WaitExpires(t)) /\ Clock
    <3>1. pc' = pc /\ pendOn' = pendOn
      BY <2>2 DEF WaitExpires
    <3> QED BY <2>2, <3>1, SameNods, ExpiryRests DEF NapSide
  <2>3. CASE \E t \in Thread : SleepExpires(t)
    BY <2>3 DEF NapSide
  <2> QED BY <1>2, <2>1, <2>2, <2>3 DEF PassGoesOn, FlagWaitExpires
<1>3. ASSUME OtherInterrupt PROVE NapSide
  <2>1. CASE \E s \in Shared : InterruptPosts(s)
    <3>1. PICK s : PostInside(s)
      BY <2>1 DEF InterruptPosts
    <3> QED BY <1>3, <3>1, SameNods, PostInsideRests DEF NapSide, OtherInterrupt, PostInside
  <2>2. CASE NotifyInterrupt
    <3>1. pc' = pc /\ pendOn' = pendOn
      BY <2>2 DEF NotifyInterrupt, InterruptSignals, semVars
    <3> QED BY <1>3, <2>2, <3>1, SameNods, SignalRests DEF NapSide, OtherInterrupt
  <2>3. CASE FlagInterrupt
    <3>1. PICK g \in Group : \E m : Set(g, m)
      BY <2>3 DEF FlagInterrupt, InterruptSets
    <3>2. pc' = pc /\ pendOn' = pendOn
      BY <3>1 DEF Set, semVars
    <3> QED BY <1>3, <3>1, <3>2, SameNods, SetRests DEF NapSide, OtherInterrupt
  <2> QED BY <1>3, <2>1, <2>2, <2>3 DEF OtherInterrupt
<1>4. ASSUME NEW t \in Thread, ThreadStep(t), UNCHANGED semVars, Clock PROVE NapSide
  <2>1. /\ pc[t] \in {"run", "yield"} /\ \E at \in {"run", "yield"} : pc' = [pc EXCEPT ![t] = at]
        /\ pendOn' = pendOn
    BY <1>4, ThreadStepKeeps DEF semVars
  <2>2. pc \in [Thread -> Where]
    BY DEF ObjInv
  <2>3. NobodyNods
    BY <2>1, <2>2 DEF NobodyNods, Sleeping
  <2> QED BY <1>4, <2>3, ThreadFrees DEF NapSide
<1>5. ASSUME NEW t \in Thread, SleepStep(t) PROVE NapSide
  <2>1. CASE SleepPends(t)
    <3>1. Rests /\ Clock
      BY <2>1, WaitRests DEF SleepPends
    <3>2. /\ pc[t] = "sleep" /\ (\E at : pc' = [pc EXCEPT ![t] = at])
          /\ (pendOn' = pendOn \/ \E s : pendOn' = [pendOn EXCEPT ![t] = s])
      BY <2>1 DEF SleepPends, Pend, Take, Wait
    <3>3. pc \in [Thread -> Where] /\ pendOn \in [Thread -> BlockList \cup {NoList}]
      BY DEF ObjInv
    <3>4. NobodyNods
      BY <3>2, <3>3 DEF NobodyNods, Sleeping
    <3> QED BY <3>1, <3>4 DEF NapSide
  <2>2. CASE SleepReturns(t)
    <3>1. Rests /\ Clock
      BY <2>2, PendEndsRests DEF SleepReturns
    <3>2. pc' = [pc EXCEPT ![t] = "run"] /\ pendOn' = [pendOn EXCEPT ![t] = NoList]
      BY <2>2 DEF SleepReturns, PendEnds
    <3>3. pc \in [Thread -> Where] /\ pendOn \in [Thread -> BlockList \cup {NoList}]
      BY DEF ObjInv
    <3>4. NobodyNods
      BY <3>2, <3>3 DEF NobodyNods, Sleeping
    <3> QED BY <3>1, <3>4 DEF NapSide
  <2> QED BY <1>5, <2>1, <2>2 DEF SleepStep, NapSide
<1>6. ASSUME NEW t \in Thread, Clock, Rests, StaysAwake(t), NEW B, Elsewhere(B), B \cap Naps = {}
      PROVE  NapSide
  BY <1>6, AwakeNods DEF NapSide
<1>7. ASSUME NEW t \in Thread, Clock, SemThreadStep(t) PROVE NapSide
  BY <1>0, <1>6, <1>7, SemStepKeeps, SemRests, AwakeOfSem
<1>8. ASSUME NEW t \in Thread, Clock, NotifyStep(t) PROVE NapSide
  BY <1>0, <1>6, <1>8, NotifyStepKeeps, NotifyRests, AwakeOfNotify
<1>9. ASSUME NEW t \in Thread, Clock, FlagStep(t) PROVE NapSide
  BY <1>0, <1>6, <1>9, FlagStepKeeps, FlagRests, AwakeOfFlags
<1>10. ASSUME NEW t \in Thread, Clock, MutexStep(t) PROVE NapSide
  BY <1>0, <1>6, <1>10, <1>14, MutexStepKeeps, MutexRests, AwakeOfMutex
<1>11. ASSUME NEW t \in Thread, Clock, BoxStep(t) PROVE NapSide
  BY <1>0, <1>6, <1>11, <1>14, BoxStepKeeps, BoxRests, AwakeOfBox
<1>12. ASSUME NEW t \in Thread, Clock, MessageStep(t) PROVE NapSide
  BY <1>0, <1>6, <1>12, MessageStepKeeps, MessageRests, AwakeOfMessage
<1>13. ASSUME NEW t \in Thread, ObjectsThreadStep(t) PROVE NapSide
  BY <1>4, <1>5, <1>7, <1>8, <1>9, <1>10, <1>11, <1>12, <1>13 DEF ObjectsThreadStep
<1> QED BY <1>1, <1>2, <1>3, <1>13 DEF ObjectsNext

-----------------------------------------------------------------------------
(* A Sleep is neither too long nor too short *)

\* Sleep and USleep up to their wait.
LEMMA SleepBegins ==
  ASSUME SemaphoresAssumption, ObjectsAssumption, NapInv, ObjInv, NEW u \in Thread,
         NEW us \in Nat, NEW ticks, BeginSleep(u, us, ticks)
  PROVE  /\ k'.inTimer = k.inTimer /\ \A t \in Thread \ {u} : TimerKept(k', k, SleepTimer(t))
         /\ SleepTimer(u) \in ToSet(k'.timers) /\ k'.left[SleepTimer(u)] = ticks
         /\ SleepTimer(u) \notin k'.callback
         /\ asked' \in [Thread -> Nat] /\ asked'[u] = us
         /\ elapsed' \in [Thread -> 0 .. MaxElapsed] /\ elapsed'[u] = 0
         /\ \A t \in Thread \ {u} : /\ asked'[t] = asked[t] /\ elapsed'[t] = elapsed[t]
                                    /\ Sleeping(t)' => Sleeping(t)
<1>1. SleepTimer(u) \in Timer /\ \A t \in Thread \ {u} : SleepTimer(t) \in Timer \ {SleepTimer(u)}
  BY OwnTimers
<1>2. Shape(k) /\ k' = TimerAdd(k, SleepTimer(u), ticks)
  BY GoodShape DEF ObjInv, BeginSleep
<1>3. /\ k'.inTimer = k.inTimer /\ \A t \in Thread \ {u} : TimerKept(k', k, SleepTimer(t))
      /\ SleepTimer(u) \in ToSet(k'.timers) /\ k'.left[SleepTimer(u)] = ticks
      /\ SleepTimer(u) \notin k'.callback
  BY <1>1, <1>2, TimerAddKeeps
<1>4. 0 \in 0 .. MaxElapsed
  BY SleepAssumption DEF SleepAssumption
<1>5. /\ asked' = [asked EXCEPT ![u] = us] /\ asked \in [Thread -> Nat]
      /\ elapsed' = [elapsed EXCEPT ![u] = 0] /\ elapsed \in [Thread -> 0 .. MaxElapsed]
  BY DEF BeginSleep, NapInv
<1>6. /\ asked' \in [Thread -> Nat] /\ asked'[u] = us
      /\ elapsed' \in [Thread -> 0 .. MaxElapsed] /\ elapsed'[u] = 0
      /\ \A t \in Thread \ {u} : asked'[t] = asked[t] /\ elapsed'[t] = elapsed[t]
  BY <1>4, <1>5
<1>7. ASSUME NEW t \in Thread \ {u}, Sleeping(t)' PROVE Sleeping(t)
  <2>1. pc' = [pc EXCEPT ![u] = "sleep"] /\ pendOn' = pendOn /\ pc \in [Thread -> Where]
    BY DEF BeginSleep, ObjInv
  <2>2. pc'[t] = pc[t]
    BY <2>1
  <2> QED BY <1>7, <2>1, <2>2 DEF Sleeping
<1> QED BY <1>3, <1>6, <1>7

\* What Sleep and USleep make of the time they are asked for.
LEMMA TicksAsked ==
  ASSUME NEW ms \in Nat, NEW us \in Nat
  PROVE  /\ 1000 * ms \in Nat /\ MsToTicks(ms) \in Nat /\ MsToTicks(ms) # 0
         /\ 1000 * (MsToTicks(ms) - 1) <= 1000 * ms
         /\ UsToTicks(us) \in Nat /\ 1000 * (UsToTicks(us) - 1) <= us
         /\ us # 0 => UsToTicks(us) # 0
BY DEF MsToTicks, UsToTicks

\* A linked timer is that of a thread that sleeps.
LEMMA LinkedSleeps ==
  ASSUME ObjInv', NEW t \in Thread, SleepTimer(t) \in ToSet(k'.timers)
  PROVE  Sleeping(t)'
BY DEF ObjInv, Placed, Napping, Sleeping

\* The history variables.
LEMMA ClockTyped ==
  ASSUME SleepAssumption, NapInv, Clock
  PROVE  /\ asked' \in [Thread -> Nat] /\ elapsed' \in [Thread -> 0 .. MaxElapsed]
         /\ \A t \in Thread : Sleeping(t)' =>
              /\ asked'[t] = asked[t]
              /\ elapsed'[t] = IF k'.inTimer /\ ~k.inTimer /\ elapsed[t] < MaxElapsed
                               THEN elapsed[t] + 1 ELSE elapsed[t]
<1>1. asked \in [Thread -> Nat] /\ elapsed \in [Thread -> 0 .. MaxElapsed] /\ MaxElapsed \in Nat
  BY DEF NapInv, SleepAssumption
<1>2. /\ asked' = [t \in Thread |-> IF Sleeping(t)' THEN asked[t] ELSE 0]
      /\ elapsed' = [t \in Thread |->
           IF ~Sleeping(t)' THEN 0
           ELSE IF k'.inTimer /\ ~k.inTimer /\ elapsed[t] < MaxElapsed THEN elapsed[t] + 1
           ELSE elapsed[t]]
  BY DEF Clock
<1>3. asked' \in [Thread -> Nat]
  BY <1>1, <1>2
<1>4. ASSUME NEW t \in Thread PROVE elapsed'[t] \in 0 .. MaxElapsed
  <2>1. elapsed[t] \in 0 .. MaxElapsed
    BY <1>1
  <2>2. elapsed[t] < MaxElapsed => elapsed[t] + 1 \in 0 .. MaxElapsed
    BY <1>1, <2>1
  <2> QED BY <1>1, <1>2, <2>1, <2>2
<1>5. elapsed' \in [Thread -> 0 .. MaxElapsed]
  BY <1>2, <1>4
<1> QED BY <1>2, <1>3, <1>5

\* A timer that a step leaves as it is, or takes off the list.
LEMMA KeptStands ==
  ASSUME NEW t, NapStands(t), NEW x, x = SleepTimer(t),
         TimerKept(k', k, x) \/ x \notin ToSet(k'.timers),
         k'.inTimer = k.inTimer \/ x \notin k.callback \/ x \notin ToSet(k'.timers),
         x \in ToSet(k'.timers) => asked'[t] = asked[t]
  PROVE  NapStands(t)'
BY DEF NapStands, TimerKept

LEMMA NapKept ==
  ASSUME KernelAssumption, SemaphoresAssumption, SleepAssumption, ObjectsAssumption,
         ObjInv, ObjInv', NapInv, NapSide, 0 \notin SleepUs
  PROVE  NapInv'
<1>0. \A t \in Thread : NapStands(t)
  BY DEF NapInv
<1>1. ASSUME Clock PROVE /\ asked' \in [Thread -> Nat] /\ elapsed' \in [Thread -> 0 .. MaxElapsed]
                         /\ \A t \in Thread : SleepTimer(t) \in ToSet(k'.timers) => asked'[t] = asked[t]
  BY <1>1, ClockTyped, LinkedSleeps
<1>2. CASE Rests /\ Clock
  <2>1. ASSUME NEW t \in Thread PROVE NapStands(t)'
    <3>1. TimerKept(k', k, SleepTimer(t)) /\ k'.inTimer = k.inTimer
      BY <1>2 DEF Rests, Steady
    <3> QED BY <1>0, <1>1, <1>2, <3>1, KeptStands
  <2> QED BY <1>1, <1>2, <2>1 DEF NapInv
<1>3. ASSUME NEW u \in Thread, TakesOff(u),
             asked' \in [Thread -> Nat] /\ elapsed' \in [Thread -> 0 .. MaxElapsed],
             \A t \in Thread : SleepTimer(t) \in ToSet(k'.timers) => asked'[t] = asked[t]
      PROVE  NapInv'
  <2>1. ASSUME NEW t \in Thread PROVE NapStands(t)'
    <3>1. /\ TimerKept(k', k, SleepTimer(t)) \/ SleepTimer(t) \notin ToSet(k'.timers)
          /\ k'.inTimer = k.inTimer
      BY <1>3 DEF TakesOff
    <3> QED BY <1>0, <1>3, <3>1, KeptStands
  <2> QED BY <1>3, <2>1 DEF NapInv
<1>4. CASE TickEnd /\ Clock
  <2>1. ASSUME NEW t \in Thread PROVE NapStands(t)'
    <3>1. TimerKept(k', k, SleepTimer(t)) /\ ToSet(k.timers) \cap k.callback = {}
      BY <1>4, TickEndKeeps
    <3>2. SleepTimer(t) \notin k.callback \/ SleepTimer(t) \notin ToSet(k'.timers)
      BY <3>1 DEF TimerKept
    <3> QED BY <1>0, <1>1, <1>4, <3>1, <3>2, KeptStands
  <2> QED BY <1>1, <1>4, <2>1 DEF NapInv
<1>5. CASE TickBegin /\ Clock
  <2>1. ASSUME NEW t \in Thread PROVE NapStands(t)'
    <3>1. PICK x : x = SleepTimer(t)
      OBVIOUS
    <3>2. /\ ~k.inTimer /\ k'.inTimer /\ k'.timers = k.timers
          /\ x \in ToSet(k.timers) =>
               /\ k'.left[x] = IF k.left[x] = 0 THEN MaxTimeLeft ELSE k.left[x] - 1
               /\ x \in k'.callback <=> x \in k.callback \/ k'.left[x] = 0
      BY <1>5, <3>1, TickBeginCounts
    <3>3. CASE x \in ToSet(k.timers)
      <4>1. /\ 1000 * (k.left[x] - 1) <= asked[t] /\ (k.left[x] = 0 <=> x \in k.callback)
            /\ x \notin k.callback
        BY <1>0, <3>1, <3>2, <3>3 DEF NapStands
      <4>2. k.left[x] \in Nat /\ asked[t] \in Nat /\ asked'[t] = asked[t]
        <5>1. k.left \in [Timer -> Nat] /\ x \in Timer
          BY <3>1, OwnTimers DEF ObjInv, Good, KernelState
        <5>2. asked \in [Thread -> Nat]
          BY DEF NapInv
        <5>3. x \in ToSet(k'.timers)
          BY <3>2, <3>3
        <5>4. asked'[t] = asked[t]
          BY <1>1, <1>5, <3>1, <5>3
        <5> QED BY <5>1, <5>2, <5>4
      <4>3. k'.left[x] = k.left[x] - 1 /\ (x \in k'.callback <=> k'.left[x] = 0)
        BY <3>2, <3>3, <4>1
      <4>4. 1000 * (k'.left[x] - 1) <= asked'[t]
        <5>1. PICK n \in Nat : n = k.left[x]
          BY <4>2
        <5>2. PICK a \in Nat : a = asked[t]
          BY <4>2
        <5>3. 1000 * (n - 1) <= a
          BY <4>1, <5>1, <5>2
        <5>4. 1000 * ((n - 1) - 1) <= a
          BY <5>3
        <5> QED BY <4>2, <4>3, <5>1, <5>2, <5>4
      <4> QED BY <3>1, <3>2, <4>3, <4>4 DEF NapStands
    <3>4. CASE x \notin ToSet(k.timers)
      BY <3>1, <3>2, <3>4 DEF NapStands
    <3> QED BY <3>3, <3>4
  <2> QED BY <1>1, <1>5, <2>1 DEF NapInv
<1>6. ASSUME NEW u \in Thread, SleepExpires(u) PROVE NapInv'
  <2>1. asked' = asked /\ elapsed' = elapsed
    BY <1>6 DEF SleepExpires, sleepVars
  <2> QED BY <1>3, <1>6, <2>1, SleepExpiresFrees DEF NapInv
<1>7. ASSUME NEW u \in Thread, NEW us \in Nat, NEW ticks \in Nat, BeginSleep(u, us, ticks),
             ticks # 0, 1000 * (ticks - 1) <= us
      PROVE  NapInv'
  <2>1. /\ k'.inTimer = k.inTimer /\ \A t \in Thread \ {u} : TimerKept(k', k, SleepTimer(t))
        /\ SleepTimer(u) \in ToSet(k'.timers) /\ k'.left[SleepTimer(u)] = ticks
        /\ SleepTimer(u) \notin k'.callback
        /\ asked' \in [Thread -> Nat] /\ asked'[u] = us
        /\ elapsed' \in [Thread -> 0 .. MaxElapsed]
        /\ \A t \in Thread \ {u} : asked'[t] = asked[t]
    BY <1>7, SleepBegins
  <2>2. ASSUME NEW t \in Thread \ {u} PROVE NapStands(t)'
    BY <1>0, <2>1, KeptStands
  <2>3. NapStands(u)'
    BY <1>7, <2>1 DEF NapStands
  <2> QED BY <2>1, <2>2, <2>3 DEF NapInv
<1>8. ASSUME NEW u \in Thread, NEW ms \in SleepMs, CallSleep(u, ms) PROVE NapInv'
  <2>1. ms \in Nat
    BY DEF SleepAssumption
  <2>2. 1000 * ms \in Nat /\ MsToTicks(ms) \in Nat /\ MsToTicks(ms) # 0
        /\ 1000 * (MsToTicks(ms) - 1) <= 1000 * ms
    BY <2>1, TicksAsked
  <2> QED BY <1>7, <1>8, <2>2 DEF CallSleep
<1>9. ASSUME NEW u \in Thread, NEW us \in SleepUs, CallUSleep(u, us) PROVE NapInv'
  <2>1. us \in Nat /\ us # 0
    BY DEF SleepAssumption
  <2>2. UsToTicks(us) \in Nat /\ UsToTicks(us) # 0 /\ 1000 * (UsToTicks(us) - 1) <= us
    BY <2>1, TicksAsked
  <2> QED BY <1>7, <1>9, <2>1, <2>2 DEF CallUSleep
<1> QED BY <1>1, <1>2, <1>3, <1>4, <1>5, <1>6, <1>8, <1>9 DEF NapSide

\* The ticks seen and to come, while SysTick does not begin a pass.
LEMMA RestKept ==
  ASSUME NEW t, NEW x, x = SleepTimer(t), TimerKept(k', k, x)
  PROVE  ToGo(t)' = ToGo(t)
BY DEF ToGo, TimerKept

LEMMA RestKeeps ==
  ASSUME KernelAssumption, SemaphoresAssumption, SleepAssumption, ObjectsAssumption,
         ObjInv, ObjInv', NapInv, RestInv, NapSide, 0 \notin SleepUs,
         \A ms \in SleepMs : 1000 * ms \notin SleepUs, "Stop" \notin Calls, "Exit" \notin Calls
  PROVE  RestInv'
<1> SUFFICES ASSUME NEW t \in Thread, NEW ms \in SleepMs, Sleeping(t)', asked'[t] = 1000 * ms
             PROVE  elapsed'[t] + ToGo(t)' > ms
  BY DEF RestInv
<1> DEFINE x == SleepTimer(t)
<1>0. /\ ms \in Nat /\ MaxElapsed \in Nat /\ MaxElapsed > ms
      /\ k.left[x] \in Nat /\ k'.left[x] \in Nat /\ elapsed[t] \in 0 .. MaxElapsed
  <2>1. k.left \in [Timer -> Nat] /\ k'.left \in [Timer -> Nat] /\ x \in Timer
    <3>1. k \in KernelState /\ k' \in KernelState
      BY DEF ObjInv, Good
    <3>2. x \in Timer
      BY OwnTimers
    <3> QED BY <3>1, <3>2 DEF KernelState
  <2>2. ms \in Nat /\ MaxElapsed \in Nat /\ MaxElapsed > ms
    BY DEF SleepAssumption
  <2>3. elapsed \in [Thread -> 0 .. MaxElapsed]
    BY DEF NapInv
  <2> QED BY <2>1, <2>2, <2>3
<1>1. ASSUME Clock, NobodyNods
      PROVE  /\ elapsed[t] + ToGo(t) > ms
             /\ elapsed'[t] = IF k'.inTimer /\ ~k.inTimer /\ elapsed[t] < MaxElapsed
                              THEN elapsed[t] + 1 ELSE elapsed[t]
  <2>1. Sleeping(t)
    BY <1>1 DEF NobodyNods
  <2> QED BY <1>1, <2>1, ClockTyped DEF RestInv
<1>2. CASE Rests /\ NobodyNods /\ Clock
  <2>1. TimerKept(k', k, x) /\ k'.inTimer = k.inTimer
    BY <1>2 DEF Rests, Steady
  <2> QED BY <1>1, <1>2, <2>1, RestKept
<1>3. CASE TickEnd /\ NobodyNods /\ Clock
  <2>1. TimerKept(k', k, x) /\ ~k'.inTimer
    BY <1>3, TickEndKeeps
  <2> QED BY <1>1, <1>3, <2>1, RestKept
<1>4. CASE TickBegin /\ NobodyNods /\ Clock
  <2>1. /\ ~k.inTimer /\ k'.inTimer /\ k'.timers = k.timers
        /\ x \in ToSet(k.timers) =>
             k'.left[x] = IF k.left[x] = 0 THEN MaxTimeLeft ELSE k.left[x] - 1
    BY <1>4, TickBeginCounts
  <2>2. /\ elapsed[t] + ToGo(t) > ms
        /\ elapsed'[t] = IF elapsed[t] < MaxElapsed THEN elapsed[t] + 1 ELSE elapsed[t]
    BY <1>1, <1>4, <2>1
  <2>3. ToGo(t) \in Nat /\ ToGo(t)' \in Nat
    BY <1>0 DEF ToGo
  <2>4. ToGo(t)' >= ToGo(t) - 1
    <3> HIDE DEF x
    <3>1. ToGo(t) = IF x \in ToSet(k.timers) THEN k.left[x] ELSE 0
      BY DEF ToGo, x
    <3>2. ToGo(t)' = IF x \in ToSet(k'.timers) THEN k'.left[x] ELSE 0
      BY DEF ToGo, x
    <3> QED BY <1>0, <2>1, <2>3, <3>1, <3>2
  <2>5. PICK e \in 0 .. MaxElapsed : e = elapsed[t]
    BY <1>0
  <2>6. PICK g \in Nat : g = ToGo(t)
    BY <2>3
  <2>7. PICK h \in Nat : h = ToGo(t)'
    BY <2>3
  <2>8. /\ e + g > ms /\ h >= g - 1
        /\ elapsed'[t] = IF e < MaxElapsed THEN e + 1 ELSE e
    BY <2>2, <2>4, <2>5, <2>6, <2>7
  <2>9. (IF e < MaxElapsed THEN e + 1 ELSE e) + h > ms
    BY <1>0, <2>8
  <2> QED BY <2>7, <2>8, <2>9
<1>5. ASSUME NEW u \in Thread, SleepExpires(u) PROVE elapsed'[t] + ToGo(t)' > ms
  <2>1. pc' = pc /\ pendOn' = pendOn /\ asked' = asked /\ elapsed' = elapsed
    BY <1>5 DEF SleepExpires, sleepVars
  <2>2. Sleeping(t) /\ asked[t] = 1000 * ms
    BY <2>1 DEF Sleeping
  <2>3. elapsed[t] + ToGo(t) > ms
    BY <2>2 DEF RestInv
  <2>4. ToGo(t)' = ToGo(t)
    <3>1. CASE t # u
      BY <1>5, <3>1, SleepExpiresFrees, RestKept DEF TakesOff
    <3>2. CASE t = u
      <4>1. x \notin ToSet(k'.timers)
        BY <1>5, <3>2, SleepExpiresFrees DEF TakesOff
      <4>2. x \in ToSet(k.timers) /\ x \in k.callback
        BY <1>5, <3>2, ExpiringLinked DEF SleepExpires, Expiring
      <4>3. k.left[x] = 0
        BY <4>2 DEF NapInv, NapStands
      <4> QED BY <4>1, <4>2, <4>3 DEF ToGo
    <3> QED BY <3>1, <3>2
  <2> QED BY <2>1, <2>3, <2>4
<1>6. ASSUME NEW u \in Thread, NEW us \in Nat, NEW ticks, BeginSleep(u, us, ticks), t # u
      PROVE  elapsed'[t] + ToGo(t)' > ms
  <2>1. /\ TimerKept(k', k, x) /\ asked'[t] = asked[t] /\ elapsed'[t] = elapsed[t]
        /\ Sleeping(t)' => Sleeping(t)
    BY <1>6, SleepBegins
  <2>2. ToGo(t)' = ToGo(t)
    BY <2>1, RestKept
  <2>3. elapsed[t] + ToGo(t) > ms
    BY <2>1 DEF RestInv
  <2> QED BY <2>1, <2>2, <2>3
<1>7. ASSUME NEW u \in Thread, NEW n \in SleepMs, CallSleep(u, n)
      PROVE  elapsed'[t] + ToGo(t)' > ms
  <2>1. n \in Nat /\ 1000 * n \in Nat /\ BeginSleep(u, 1000 * n, MsToTicks(n))
    BY <1>7, TicksAsked DEF SleepAssumption, CallSleep
  <2>2. CASE t = u
    <3>1. /\ x \in ToSet(k'.timers) /\ k'.left[x] = MsToTicks(n)
          /\ asked'[t] = 1000 * n /\ elapsed'[t] = 0
      BY <2>1, <2>2, SleepBegins
    <3>2. n = ms
      BY <1>0, <2>1, <3>1
    <3>3. ToGo(t)' = ms + 1
      BY <3>1, <3>2 DEF ToGo, MsToTicks
    <3> QED BY <1>0, <3>1, <3>3
  <2> QED BY <1>6, <2>1, <2>2
<1>8. ASSUME NEW u \in Thread, NEW us \in SleepUs, CallUSleep(u, us)
      PROVE  elapsed'[t] + ToGo(t)' > ms
  <2>1. us \in Nat /\ BeginSleep(u, us, UsToTicks(us))
    BY <1>8 DEF SleepAssumption, CallUSleep
  <2>2. CASE t = u
    <3>1. asked'[t] = us
      BY <2>1, <2>2, SleepBegins
    <3> QED BY <3>1
  <2> QED BY <1>6, <2>1, <2>2
<1> QED BY <1>2, <1>3, <1>4, <1>5, <1>7, <1>8 DEF NapSide

LEMMA NapStart ==
  ASSUME SleepAssumption, ObjectsInit
  PROVE  NapInv /\ RestInv
<1>1. /\ ToSet(k.timers) = {} /\ pc = [t \in Thread |-> "run"]
      /\ asked = [t \in Thread |-> 0] /\ elapsed = [t \in Thread |-> 0]
  BY DEF ObjectsInit, SleepInit, SemInit, Init, InitState, ToSet
<1>2. 0 \in 0 .. MaxElapsed
  BY DEF SleepAssumption
<1>3. \A t \in Thread : ~Sleeping(t)
  BY <1>1 DEF Sleeping
<1> QED BY <1>1, <1>2, <1>3 DEF NapInv, NapStands, RestInv

LEMMA NapStutter ==
  ASSUME NapInv, UNCHANGED all
  PROVE  NapInv' /\ (RestInv => RestInv')
BY DEF all, everyVar, allVars, vars, semVars, sleepVars, NapInv, NapStands, RestInv, ToGo, Sleeping

\* What the timers of sleeping threads have to do with what they asked for,
\* whatever the other threads, SysTick and the other interrupts do meanwhile.
\* (USleep(0) starts a timer that has nothing to count.)
THEOREM NapInvariance ==
  ASSUME "Init" \notin Calls, 0 \notin SleepUs
  PROVE  ObjectsSpec => []NapInv
<1> USE KernelAssumption, SemaphoresAssumption, SleepAssumption, NotifyAssumption,
        EventFlagAssumption, MutexAssumption, MailboxAssumption, MessageAssumption,
        ObjectsAssumption
<1>1. ObjectsInit => NapInv
  BY NapStart
<1>2. ObjInv /\ FrameInv /\ ObjInv' /\ NapInv /\ [ObjectsNext]_all => NapInv'
  BY EveryNap, NapKept, NapStutter
<1>3. "Init" \notin Calls
  OBVIOUS
<1>4. ObjectsSpec => [](ObjInv /\ FrameInv)
  BY <1>3, ObjectsInvariance
<1> QED BY <1>1, <1>2, <1>4, PTL DEF ObjectsSpec

\* A Sleep does not last longer than it was asked to, and the tick for the
\* running millisecond.
THEOREM NobodyOversleeps ==
  ASSUME "Init" \notin Calls, 0 \notin SleepUs
  PROVE  ObjectsSpec => []NeverOversleeps
<1>1. NapInv => NeverOversleeps
  BY DEF NapInv, NapStands, NeverOversleeps
<1>2. "Init" \notin Calls /\ 0 \notin SleepUs
  OBVIOUS
<1>3. ObjectsSpec => []NapInv
  BY <1>2, NapInvariance
<1> QED BY <1>1, <1>3, PTL

\* Nor does it end early, unless the thread is stopped or ended meanwhile: its
\* last tick but one comes when the time it was asked for is over.  (A Sleep is
\* told from a USleep by what was asked for.)
THEOREM NobodyWakesEarly ==
  ASSUME "Init" \notin Calls, "Stop" \notin Calls, "Exit" \notin Calls, 0 \notin SleepUs,
         \A ms \in SleepMs : 1000 * ms \notin SleepUs
  PROVE  ObjectsSpec => SleepsLongEnough
<1> DEFINE WakesInTime == \A t \in Thread, ms \in SleepMs :
                     Sleeping(t) /\ asked[t] = 1000 * ms /\ pc'[t] = "run" => elapsed[t] - 1 >= ms
<1> USE KernelAssumption, SemaphoresAssumption, SleepAssumption, NotifyAssumption,
        EventFlagAssumption, MutexAssumption, MailboxAssumption, MessageAssumption,
        ObjectsAssumption
<1>1. ObjectsInit => RestInv
  BY NapStart
<1>2. ObjInv /\ FrameInv /\ ObjInv' /\ NapInv /\ RestInv /\ [ObjectsNext]_all => RestInv'
  BY EveryNap, RestKeeps, NapStutter
<1>3. ASSUME ObjInv, FrameInv, ObjInv', NapInv, RestInv, ObjectsNext PROVE WakesInTime
  <2> SUFFICES ASSUME NEW t \in Thread, NEW ms \in SleepMs, Sleeping(t), asked[t] = 1000 * ms,
                      pc'[t] = "run"
               PROVE  elapsed[t] - 1 >= ms
    OBVIOUS
  <2>0. NapSide
    BY <1>3, EveryNap
  <2>1. pc[t] # "run" /\ ~Sleeping(t)'
    BY DEF Sleeping
  <2>2. SleepTimer(t) \notin ToSet(k'.timers)
    BY <1>3, <2>1, LinkedSleeps
  <2>3. SleepTimer(t) \notin ToSet(k.timers)
    <3>1. CASE Rests
      BY <2>2, <3>1 DEF Rests, Steady, TimerKept
    <3>2. CASE TickEnd
      BY <1>3, <2>2, <3>2, TickEndKeeps DEF TimerKept
    <3>3. CASE TickBegin \/ \E u \in Thread : SleepExpires(u)
      BY <2>1, <3>3 DEF TickBegin, SleepExpires
    <3>4. ASSUME NEW u \in Thread, NEW us, NEW ticks, BeginSleep(u, us, ticks) PROVE FALSE
      <4>1. pc' = [pc EXCEPT ![u] = "sleep"] /\ pc \in [Thread -> Where]
        BY <1>3, <3>4 DEF BeginSleep, ObjInv
      <4> QED BY <2>1, <4>1
    <3> QED BY <2>0, <3>1, <3>2, <3>3, <3>4 DEF NapSide, CallSleep, CallUSleep
  <2>4. ToGo(t) = 0
    BY <2>3 DEF ToGo
  <2>5. elapsed[t] + 0 > ms
    BY <1>3, <2>4 DEF RestInv
  <2>6. elapsed[t] \in Nat /\ ms \in Nat
    BY <1>3 DEF NapInv, SleepAssumption
  <2> QED BY <2>5, <2>6
<1>4. ObjInv /\ FrameInv /\ ObjInv' /\ NapInv /\ RestInv /\ [ObjectsNext]_all => [WakesInTime]_everyVar
  <2>1. UNCHANGED all => UNCHANGED everyVar
    BY DEF all
  <2> QED BY <1>3, <2>1
<1>5. "Init" \notin Calls /\ 0 \notin SleepUs
  OBVIOUS
<1>6. ObjectsSpec => [](ObjInv /\ FrameInv) /\ []NapInv
  BY <1>5, ObjectsInvariance, NapInvariance
<1>7. ObjectsSpec => []RestInv
  BY <1>1, <1>2, <1>6, PTL DEF ObjectsSpec
<1>8. ObjectsSpec => [][WakesInTime]_everyVar
  BY <1>4, <1>6, <1>7, PTL DEF ObjectsSpec
<1> QED BY <1>8 DEF SleepsLongEnough

==============================================================================
