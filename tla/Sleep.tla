--------------------------------- MODULE Sleep ---------------------------------
(***************************************************************************)
(* Thread::Sleep and Thread::USleep: the caller links its m_clTimer, then, *)
(* in a critical section of its own, pends a semaphore on its stack that   *)
(* the timer's callback posts.  SysTick, other threads and even the timer  *)
(* itself may come between the two.                                        *)
(***************************************************************************)
EXTENDS Semaphore

CONSTANTS
  Nap,        \* the clSemaphore in the frame of each thread's Sleep
  SleepMs,    \* the arguments of Sleep
  SleepUs,    \* the arguments of USleep
  MaxElapsed  \* bound of the history variable elapsed

ASSUME SleepAssumption ==
  /\ Nap \in [Thread -> Sem \ Shared] /\ IsInjective(Nap)
  /\ \A t \in Thread : MaxValue[Nap[t]] = 1
  /\ SleepMs \subseteq Nat /\ SleepUs \subseteq Nat
  /\ MaxElapsed \in Nat
  /\ \A ms \in SleepMs : MaxElapsed > ms

VARIABLES
  asked,    \* history: the time a thread asked to sleep, in us
  elapsed   \* history: the ticks since then, up to MaxElapsed
sleepVars == <<asked, elapsed>>
everyVar  == <<allVars, sleepVars>>

\* Mutants: no tick, or two ticks, for the millisecond the call is made in.
MsExactly(ms) == ms
MsGenerous(ms) == ms + 2

\* SysTick comes once per millisecond, at any time within it.
MsToTicks(ms) == ms + 1
UsToTicks(us) == (us + 999) \div 1000

Sleeping(t) == pc[t] = "sleep" \/ (pc[t] = "pend" /\ pendOn[t] = Nap[t])

\* The history variables count while a thread is inside Sleep or USleep.
Clock ==
  /\ asked' = [t \in Thread |-> IF Sleeping(t)' THEN asked[t] ELSE 0]
  /\ elapsed' = [t \in Thread |->
       IF ~Sleeping(t)' THEN 0
       ELSE IF k'.inTimer /\ ~k.inTimer /\ elapsed[t] < MaxElapsed THEN elapsed[t] + 1
       ELSE elapsed[t]]

BeginSleep(t, us, ticks) ==
  /\ t # Idle /\ k.enabled
  /\ k' = TimerAdd(k, SleepTimer(t), ticks)
  /\ pc' = [pc EXCEPT ![t] = "sleep"]
  /\ value' = [value EXCEPT ![Nap[t]] = 0]
  /\ asked' = [asked EXCEPT ![t] = us]
  /\ elapsed' = [elapsed EXCEPT ![t] = 0]
  /\ UNCHANGED <<pendOn, expired, posts>>

CallSleep(t, ms)  == Calling(t, "Sleep") /\ BeginSleep(t, 1000 * ms, MsToTicks(ms))
CallUSleep(t, us) == Calling(t, "USleep") /\ BeginSleep(t, us, UsToTicks(us))

\* clSemaphore.Pend(): it returns at once if the timer was faster.
SleepPends(t) ==
  /\ Running(t)
  /\ pc[t] = "sleep"
  /\ Pend(t, Nap[t], "run")
  /\ Clock

SleepReturns(t) == pendOn[t] = Nap[t] /\ PendEnds(t, "run") /\ Clock

\* Mutant: the callback posts only if nobody waits yet.
SleepCounted(t) ==
  /\ Expiring(SleepTimer(t))
  /\ k' = TimerRemove(k, SleepTimer(t))
  /\ value' = IF k.list[Nap[t]] = <<>> THEN [value EXCEPT ![Nap[t]] = 1] ELSE value
  /\ UNCHANGED <<pc, pendOn, expired, posts, sleepVars>>

\* ThreadSleepCallback posts the semaphore of the owner.
SleepExpires(t) ==
  /\ Expiring(SleepTimer(t))
  /\ \/ Count(Nap[t]) /\ k' = TimerRemove(k, SleepTimer(t))
     \/ /\ k.list[Nap[t]] # <<>>
        /\ k' = TimerRemove(PostAndYield(k, Nap[t]), SleepTimer(t))
        /\ Posted(Nap[t]) /\ UNCHANGED value
  /\ UNCHANGED <<pc, pendOn, expired, sleepVars>>

-----------------------------------------------------------------------------
SleepInit ==
  /\ SemInit
  /\ asked = [t \in Thread |-> 0]
  /\ elapsed = [t \in Thread |-> 0]

SleepStep(t) ==
  \/ \E ms \in SleepMs : CallSleep(t, ms)
  \/ \E us \in SleepUs : CallUSleep(t, us)
  \/ SleepPends(t) \/ SleepReturns(t)

-----------------------------------------------------------------------------
(* Properties *)

\* Sleep(ms) lasts at least as long as it was asked to.  n ticks have been seen
\* in at least n - 1 milliseconds.  (USleep does not count the running tick.)
SleepsLongEnough ==
  [][\A t \in Thread, ms \in SleepMs : Sleeping(t) /\ asked[t] = 1000 * ms /\ pc'[t] = "run"
       => elapsed[t] - 1 >= ms]_everyVar

\* The timer of a sleeping thread never has more to count than was asked for
\* (and one tick for the millisecond the call was made in).
NeverOversleeps ==
  \A t \in Thread : SleepTimer(t) \in ToSet(k.timers)
    => 1000 * (k.left[SleepTimer(t)] - 1) <= asked[t]

\* A sleeping thread is woken (unless the kernel has followed a null pointer).
SleepEnds ==
  \A t \in Thread : (Sleeping(t) /\ k.state[t] = "BLOCKED")
                      ~> k.state[t] # "BLOCKED" \/ k.fault

=============================================================================
