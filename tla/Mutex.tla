--------------------------------- MODULE Mutex ---------------------------------
(***************************************************************************)
(* Mutexes with priority inheritance: Claim without and with a timeout,    *)
(* recursive claims, Release.                                              *)
(*                                                                         *)
(* Claim and Release keep other threads out by disabling the scheduler,    *)
(* not interrupts: SysTick runs between any two of the steps below, and    *)
(* its callbacks may unblock the very threads they deal with.  Within a    *)
(* step the interrupts are taken to come before or after it.               *)
(***************************************************************************)
EXTENDS Semaphore

CONSTANTS
  Mutexes,     \* the Mutex objects
  MaxRecurse   \* bound of m_u8Recurse; 255 in the code

\* A null m_pclOwner is no thread.
ASSUME MutexAssumption ==
  /\ Mutexes \subseteq BlockList /\ Mutexes \cap Sem = {} /\ MaxRecurse \in Nat
  /\ NoList \notin Thread

VARIABLES
  lock,    \* the fields of every mutex
  held,    \* history: the threads whose Claim has returned true, until they Release
  waking   \* what the Release of a thread has in its frame
mutexVars == <<lock, held, waking>>

Lock == [ ready   : BOOLEAN,                  \* m_bReady
          owner   : Thread \cup {NoList},     \* m_pclOwner
          recurse : 0 .. MaxRecurse,          \* m_u8Recurse
          maxPri  : Prio ]                    \* m_u8MaxPri

Free == [ready |-> TRUE, owner |-> NoList, recurse |-> 0, maxPri |-> 0]

\* pclChosenOne and bSchedule of Release.
Wakings == [chosen : Thread \cup {NoList}, schedule : BOOLEAN]
Waking(chosen, schedule) == [chosen |-> chosen, schedule |-> schedule]
NotWaking == Waking(NoList, FALSE)

MutexInit ==
  /\ lock = [m \in Mutexes |-> Free]
  /\ held = [m \in Mutexes |-> {}]
  /\ waking = [t \in Thread |-> NotWaking]

-----------------------------------------------------------------------------
(* Claim *)

\* Claim must not be called with the scheduler disabled, nor by an owner that
\* has claimed the mutex as often as it can be counted.
ClaimBegins(t, m, where) ==
  /\ t # Idle /\ k.enabled
  /\ lock[m].owner = t => lock[m].recurse < MaxRecurse
  /\ k' = SetScheduler(k, FALSE)
  /\ pc' = [pc EXCEPT ![t] = where]
  /\ pendOn' = [pendOn EXCEPT ![t] = m]
  /\ UNCHANGED <<value, expired, posts, mutexVars>>

CallClaim(t, m)      == Calling(t, "Claim") /\ ClaimBegins(t, m, "claim")
CallTimedClaim(t, m) == Calling(t, "TimedClaim") /\ ClaimBegins(t, m, "claimT")

InMutexCall(t, where) == Running(t) /\ pc[t] \in where /\ pendOn[t] \in Mutexes

\* The call of t is over but for the Yield, if there is one.
Leave(t, to) ==
  /\ pc' = [pc EXCEPT ![t] = to]
  /\ pendOn' = [pendOn EXCEPT ![t] = NoList]
  /\ UNCHANGED <<value, expired, posts>>

\* A free mutex is taken, the caller's own is counted.
ClaimSucceeds(t) ==
  /\ InMutexCall(t, {"claim", "claimT"})
  /\ LET m == pendOn[t]
     IN  /\ \/ /\ lock[m].ready
               /\ lock' = [lock EXCEPT ![m] = [ready |-> FALSE, owner |-> t,
                                               recurse |-> 0, maxPri |-> k.prio[t]]]
            \/ /\ ~lock[m].ready /\ lock[m].owner = t
               /\ lock' = [lock EXCEPT ![m].recurse = @ + 1]
         /\ held' = [held EXCEPT ![m] = @ \cup {t}]
  /\ k' = SetScheduler(k, TRUE)
  /\ Leave(t, "run")
  /\ UNCHANGED waking

\* Anybody else's is waited for.
ClaimBlocks(t) ==
  /\ InMutexCall(t, {"claim", "claimT"})
  /\ LET m == pendOn[t]
     IN  /\ ~lock[m].ready /\ lock[m].owner # t
         /\ \/ /\ pc[t] = "claim"
               /\ k' = BlockPriority(k, t, m)
               /\ pc' = [pc EXCEPT ![t] = "inherit"]
               /\ UNCHANGED expired
            \/ /\ pc[t] = "claimT"
               /\ \E ticks \in WaitTicks :
                    k' = BlockPriority(TimerAdd(k, WaitTimer(t), ticks), t, m)
               /\ pc' = [pc EXCEPT ![t] = "inheritT"]
               /\ expired' = [expired EXCEPT ![t] = FALSE]
  /\ UNCHANGED <<value, pendOn, posts, mutexVars>>

\* Thread::InheritPriority of the threads in who.  A READY thread stays on the
\* ready list it is on.
InheritPriority(s, who, p) ==
  [s EXCEPT !.owner   = [t \in Thread |-> IF t \in who THEN p ELSE @[t]],
            !.curPrio = [t \in Thread |-> IF t \in who THEN p ELSE @[t]]]

\* The owner, and everybody who waits, is given the highest priority.
ClaimInherits(t) ==
  /\ InMutexCall(t, {"inherit", "inheritT"})
  /\ LET m     == pendOn[t]
         heirs == ToSet(k.list[m]) \cup {lock[m].owner}
     IN  IF lock[m].maxPri <= k.prio[t]
         THEN /\ lock' = [lock EXCEPT ![m].maxPri = k.prio[t]]
              /\ k' = SetScheduler(InheritPriority(k, heirs, k.prio[t]), TRUE)
         ELSE UNCHANGED lock /\ k' = SetScheduler(k, TRUE)
  /\ pc' = [pc EXCEPT ![t] = IF @ = "inherit" THEN "block" ELSE "blockT"]
  /\ UNCHANGED <<semVars, held, waking>>

\* Claim returns true if the wait did not time out.
ClaimReturns(t) ==
  /\ pendOn[t] \in Mutexes /\ PendEnds(t, "run")
  /\ held' = IF TimedOut(t) THEN held ELSE [held EXCEPT ![pendOn[t]] = @ \cup {t}]
  /\ UNCHANGED <<lock, waking>>

-----------------------------------------------------------------------------
(* Release *)

CallRelease(t, m) ==
  /\ Calling(t, "Release")
  /\ k.enabled /\ t \in held[m]
  /\ k' = SetScheduler(k, FALSE)
  /\ pc' = [pc EXCEPT ![t] = "release"]
  /\ pendOn' = [pendOn EXCEPT ![t] = m]
  /\ UNCHANGED <<value, expired, posts, mutexVars>>

\* A mutex claimed more than once is only counted down.
ReleaseCounts(t) ==
  /\ InMutexCall(t, {"release"})
  /\ lock[pendOn[t]].recurse > 0
  /\ lock' = [lock EXCEPT ![pendOn[t]].recurse = @ - 1]
  /\ k' = SetScheduler(k, TRUE)
  /\ Leave(t, "run")
  /\ UNCHANGED <<held, waking>>

\* A Release is over: the caller yields if there is a reason to.
ReleaseEnds(t, data, schedule) ==
  /\ k' = SetScheduler(data, TRUE)
  /\ held' = [held EXCEPT ![pendOn[t]] = @ \ {t}]
  /\ waking' = [waking EXCEPT ![t] = NotWaking]
  /\ Leave(t, IF schedule THEN "yield" ELSE "run")

\* The last Release restores the caller's priority.  If nobody waits then, the
\* mutex is free; otherwise somebody is to be woken.
ReleaseChecks(t) ==
  /\ InMutexCall(t, {"release"})
  /\ LET m        == pendOn[t]
         restores == k.curPrio[t] # k.prio[t]
         restored == IF restores THEN SetPriority(k, t, k.prio[t]) ELSE k
     IN  /\ lock[m].recurse = 0
         /\ \/ /\ k.list[m] = <<>>
               /\ lock' = [lock EXCEPT ![m] = Free]
               /\ ReleaseEnds(t, restored, restores)
            \/ /\ k.list[m] # <<>>
               /\ k' = restored
               /\ waking' = [waking EXCEPT ![t] = Waking(NoList, restores)]
               /\ pc' = [pc EXCEPT ![t] = "wake"]
               /\ UNCHANGED <<semVars, lock, held>>

HighestWaiter(s, m) == IF s.list[m] = <<>> THEN NoList ELSE Head(s.list[m])

\* WakeNext looks at the list again: a timeout may have emptied it.
WakeNextChooses(t) ==
  /\ InMutexCall(t, {"wake"})
  /\ waking' = [waking EXCEPT ![t].chosen = HighestWaiter(k, pendOn[t])]
  /\ pc' = [pc EXCEPT ![t] = "unblock"]
  /\ UNCHANGED <<k, semVars, lock, held>>

\* Mutants: a Release with waiters frees the mutex; the woken thread is not
\* noted as the owner.
PassOnFrees(m, chosen) == Free
PassOnKeepsOwner(m, chosen) == lock[m]

PassOn(m, chosen) == [lock[m] EXCEPT !.owner = chosen]

\* It unblocks the chosen one, which a timeout may have made ready meanwhile, and
\* hands the mutex over to it.
WakeNextUnBlocks(t) ==
  /\ InMutexCall(t, {"unblock"})
  /\ LET m      == pendOn[t]
         chosen == waking[t].chosen
         woken  == UnBlock(k, chosen)
     IN  \/ /\ chosen = NoList
            /\ k' = [k EXCEPT !.fault = TRUE]
            /\ UNCHANGED <<pc, semVars, mutexVars>>
         \/ /\ chosen # NoList
            /\ lock' = [lock EXCEPT ![m] = PassOn(m, chosen)]
            /\ ReleaseEnds(t, woken, waking[t].schedule \/ Preempts(woken, chosen))

MutexStep(t) ==
  \/ \E m \in Mutexes : CallClaim(t, m) \/ CallTimedClaim(t, m) \/ CallRelease(t, m)
  \/ ClaimSucceeds(t) \/ ClaimBlocks(t) \/ ClaimInherits(t) \/ ClaimReturns(t)
  \/ pendOn[t] \in Mutexes /\ YieldBlocked(t) /\ UNCHANGED mutexVars
  \/ ReleaseCounts(t) \/ ReleaseChecks(t) \/ WakeNextChooses(t) \/ WakeNextUnBlocks(t)

-----------------------------------------------------------------------------
(* Properties *)

\* Mutual exclusion: however claims, timeouts and releases interleave, two
\* threads are never both told that they have claimed a mutex.
MutualExclusion ==
  \A m \in Mutexes : \A t, u \in held[m] : t = u

\* Where a Claim that has to wait is, until it returns.
ClaimWaits == {"inherit", "inheritT", "block", "blockT", "pend", "timed"}

\* How the Claim thread t is inside stands.
ClaimPhase(t) ==
  IF pendOn[t] \notin Mutexes \/ pc[t] \notin ClaimWaits THEN "idle"
  ELSE IF t \in ToSet(k.list[pendOn[t]]) THEN "waiting"
  ELSE IF pc[t] \in InTimedWait /\ expired[t] THEN "expired" ELSE "granted"

Ownership == INSTANCE MutexSpec WITH
  Mutex <- Mutexes,
  None  <- NoList,
  owner <- [m \in Mutexes |-> lock[m].owner],
  depth <- [m \in Mutexes |-> lock[m].recurse],
  phase <- [t \in Thread |-> ClaimPhase(t)],
  on    <- [t \in Thread |-> IF ClaimPhase(t) = "idle" THEN NoList ELSE pendOn[t]]

\* Every mutex does what its interface promises: it has one owner, it is handed
\* to a thread that waits and stays that thread's, and none that is free has
\* threads waiting for it.
KeepsLock == Ownership!Spec

\* No priority inversion: while a thread waits for a mutex whose owner could
\* run, no thread of a lower priority than the waiter keeps the CPU from the
\* owner.
NoInversion ==
  Settled => \A m \in Mutexes : \A w \in ToSet(k.list[m]) :
    LET o == lock[m].owner
    IN  k.state[o] = "READY" /\ o # k.current => k.prio[k.current] >= k.prio[w]

=============================================================================
