------------------------------- MODULE Semaphore -------------------------------
(***************************************************************************)
(* Counting semaphores on top of the scheduler: Pend without and with a    *)
(* timeout, Post from a thread and from an interrupt handler, and the      *)
(* timer callback that ends a wait.                                        *)
(*                                                                         *)
(* A Pend that has to wait is two critical sections of the same thread,    *)
(* with a context switch at the end of the first.  Everything can happen   *)
(* in between, and what the thread then reports is read from m_bExpired.   *)
(***************************************************************************)
EXTENDS Kernel

CONSTANTS
  Sem,        \* the semaphores
  Shared,     \* those the application uses; the others are local to a call
  InitValue,  \* m_u16Value set by Semaphore::Init; 0 in the local ones
  MaxValue,   \* m_u16MaxValue of each semaphore
  WaitTicks   \* the timeouts used, in ticks (MSECONDS_TO_TICKS of them)

ASSUME SemaphoresAssumption ==
  /\ Shared \subseteq Sem /\ Sem \subseteq BlockList
  /\ MaxValue \in [Sem -> Nat \ {0}]
  /\ InitValue \in Nat /\ \A s \in Shared : InitValue <= MaxValue[s]
  /\ WaitTicks \subseteq Nat \ {0}
  /\ \A t \in Thread : WaitTimer(t) # QuantumTimer

VARIABLES
  value,    \* m_u16Value of every semaphore
  pendOn,   \* the blocking object whose wait a thread has on its stack
  expired,  \* Thread::m_bExpired
  posts     \* history: successful Posts of each shared semaphore, modulo 2
semVars == <<value, pendOn, expired, posts>>
allVars == <<k, pc, value, pendOn, expired, posts>>

-----------------------------------------------------------------------------
(* Blocking objects *)

Block(s, t, b) ==
  LET d == SchedulerRemove(s, t)
  IN  [d EXCEPT !.list[b]  = ListAdd(@, t),
                !.where[t] = b,
                !.state[t] = "BLOCKED"]

BlockPriority(s, t, b) ==
  LET d == SchedulerRemove(s, t)
  IN  [d EXCEPT !.list[b]  = ListAddPriority(@, t, d.curPrio),
                !.where[t] = b,
                !.state[t] = "BLOCKED"]

\* Mutant: the thread is made ready and stays on the blocking object's list.
UnBlockLinked(s, t) ==
  [SchedulerAdd(s, t) EXCEPT !.where[t] = s.owner[t], !.state[t] = "READY"]

\* Remove unlinks thread t from its neighbours whatever list it is called for,
\* but it only moves the head and the tail of that list.  A ready list survives
\* the loss of t to another list's Remove if t is alone on it, or inside it.
Survives(list, t) == list = <<t>> \/ (t \in ToSet(list) /\ t \notin {Head(list), Last(list)})

\* The list t is unlinked from: the one m_pclCurrent points to, if t is on it.
UnlinkedFrom(s, t) == IF t \in ToSet(s.list[s.where[t]]) THEN s.where[t] ELSE s.prio[t]

\* UnBlock takes the thread off the list m_pclCurrent points to, whatever list
\* that is, and makes it ready.
UnBlock(s, t) ==
  IF \/ s.where[t] = NoList
     \/ t \notin ToSet(s.list[s.where[t]]) /\ ~Survives(s.list[s.prio[t]], t)
  THEN [s EXCEPT !.fault = TRUE]
  ELSE [SchedulerAdd(UnlinkThread(s, UnlinkedFrom(s, t), t), t) EXCEPT
          !.where[t] = s.owner[t], !.state[t] = "READY"]

\* A walk over the list of b that unblocks those of its threads that are in who.
UnBlockEach(s, b, who) ==
  FoldLeft(LAMBDA d, t : IF t \in who THEN UnBlock(d, t) ELSE d, s, s.list[b])

\* Mutant: a woken thread never preempts.
PreemptsNever(s, t) == FALSE

\* The woken thread may run at once: its priority is at least the current one's.
Preempts(s, t) == s.curPrio[t] >= s.curPrio[s.current]

-----------------------------------------------------------------------------
(* Threads *)

Posted(s) == posts' = [x \in Shared |-> IF x = s THEN 1 - posts[x] ELSE posts[x]]

\* Mutant: the maximum is not looked at.
CountOn(s) ==
  /\ k.list[s] = <<>>
  /\ value' = [value EXCEPT ![s] = @ + 1] /\ Posted(s)

\* Post with nobody waiting; Post of a full semaphore returns false.
Count(s) ==
  /\ k.list[s] = <<>>
  /\ \/ value[s] < MaxValue[s] /\ value' = [value EXCEPT ![s] = @ + 1] /\ Posted(s)
     \/ value[s] >= MaxValue[s] /\ UNCHANGED <<value, posts>>

\* What is left of the call of t, if anything, is the Yield after the post.
PostBy(t, s) ==
  /\ \/ Count(s) /\ UNCHANGED k /\ pc' = [pc EXCEPT ![t] = "run"]
     \/ /\ k.list[s] # <<>>
        /\ LET waiter == Head(k.list[s])
           IN  /\ k' = UnBlock(k, waiter)
               /\ pc' = [pc EXCEPT ![t] = IF Preempts(k', waiter) THEN "yield" ELSE "run"]
        /\ Posted(s) /\ UNCHANGED value
  /\ UNCHANGED <<pendOn, expired>>

CallPost(t, s) == Calling(t, "Post") /\ PostBy(t, s)

\* Block the running thread on s: what Pend_i does when the count is zero.  The
\* idle thread never blocks, and nobody blocks with the scheduler disabled.
Wait(t, s, data, where) ==
  /\ t # Idle /\ k.enabled
  /\ value[s] = 0
  /\ k' = Yield(BlockPriority(data, t, s))
  /\ pc' = [pc EXCEPT ![t] = where]
  /\ pendOn' = [pendOn EXCEPT ![t] = s]
  /\ UNCHANGED <<value, posts>>

\* Mutants: a Pend takes no token; it takes every token there is.
TakeKeeps(t, s) ==
  /\ value[s] # 0
  /\ UNCHANGED <<k, value, pendOn, expired, posts>>
TakeAll(t, s) ==
  /\ value[s] # 0
  /\ value' = [value EXCEPT ![s] = 0]
  /\ UNCHANGED <<k, pendOn, expired, posts>>

Take(t, s) ==
  /\ value[s] # 0
  /\ value' = [value EXCEPT ![s] = @ - 1]
  /\ UNCHANGED <<k, pendOn, expired, posts>>

\* A Pend that finds a token goes on at once, one that waits goes on there later.
Pend(t, s, to) ==
  \/ Take(t, s) /\ pc' = [pc EXCEPT ![t] = to]
  \/ Wait(t, s, k, "pend") /\ UNCHANGED expired

TimedPend(t, s, ticks, to) ==
  \/ Take(t, s) /\ pc' = [pc EXCEPT ![t] = to]
  \/ /\ Wait(t, s, TimerAdd(k, WaitTimer(t), ticks), "timed")
     /\ expired' = [expired EXCEPT ![t] = FALSE]

CallPend(t, s) == Calling(t, "Pend") /\ Pend(t, s, "run")
CallTimedPend(t, s, ticks) == Calling(t, "TimedPend") /\ TimedPend(t, s, ticks, "run")

\* What a timed wait returns is GetExpired() == 0.
TimedOut(t) == pc[t] = "timed" /\ expired[t]

\* Mutant: the timer on the stack is not stopped.
PendForgetsTimer(t, to) ==
  /\ Running(t)
  /\ pc[t] \in {"pend", "timed"}
  /\ pc' = [pc EXCEPT ![t] = to]
  /\ pendOn' = [pendOn EXCEPT ![t] = NoList]
  /\ UNCHANGED <<k, value, expired, posts>>

\* The thread runs again: a timed wait stops its timer first.
PendEnds(t, to) ==
  /\ Running(t)
  /\ pc[t] \in {"pend", "timed"}
  /\ k' = IF pc[t] = "timed" THEN TimerRemove(k, WaitTimer(t)) ELSE k
  /\ pc' = [pc EXCEPT ![t] = to]
  /\ pendOn' = [pendOn EXCEPT ![t] = NoList]
  /\ UNCHANGED <<value, expired, posts>>

PendReturns(t) == pendOn[t] \in Shared /\ PendEnds(t, "run")

\* The Yield of a wait that blocked its caller in a critical section of its own.
YieldBlocked(t) ==
  /\ Running(t)
  /\ pc[t] \in {"block", "blockT"}
  /\ k' = Yield(k)
  /\ pc' = [pc EXCEPT ![t] = IF @ = "block" THEN "pend" ELSE "timed"]
  /\ UNCHANGED semVars

-----------------------------------------------------------------------------
(* Interrupt handlers *)

\* Post in a handler: the Yield is part of the handler.
PostAndYield(s, b) ==
  LET waiter == Head(s.list[b])
      d      == UnBlock(s, waiter)
  IN  IF Preempts(d, waiter) THEN Yield(d) ELSE d

\* Post inside a critical section of the caller, or in a handler.
PostInside(s) ==
  /\ \/ Count(s) /\ UNCHANGED k
     \/ k.list[s] # <<>> /\ k' = PostAndYield(k, s) /\ Posted(s) /\ UNCHANGED value
  /\ UNCHANGED <<pc, pendOn, expired>>

\* An interrupt other than SysTick posts s.  It may come between two callbacks
\* of SysTick, which has one of the lowest priorities.
InterruptPosts(s) ==
  /\ "InterruptPost" \in Calls
  /\ ~k.fault
  /\ PostInside(s)

\* Mutant: the callback notes that time is up and wakes nobody.
WaitNoted(t) ==
  /\ Expiring(WaitTimer(t))
  /\ k' = TimerRemove(k, WaitTimer(t))
  /\ expired' = [expired EXCEPT ![t] = TRUE]
  /\ UNCHANGED <<pc, value, pendOn, posts>>

\* TimedSemaphore_Callback; the one-shot timer is unlinked when it returns.
WaitExpires(t) ==
  /\ Expiring(WaitTimer(t))
  /\ LET d == UnBlock(k, t)
         y == IF Preempts(d, t) THEN Yield(d) ELSE d
     IN  k' = TimerRemove(y, WaitTimer(t))
  /\ expired' = [expired EXCEPT ![t] = TRUE]
  /\ UNCHANGED <<pc, value, pendOn, posts>>

-----------------------------------------------------------------------------
SemInit ==
  /\ Init
  /\ value = [s \in Sem |-> IF s \in Shared THEN InitValue ELSE 0]
  /\ pendOn = [t \in Thread |-> NoList]
  /\ expired = [t \in Thread |-> FALSE]
  /\ posts = [s \in Shared |-> 0]

SemThreadStep(t) ==
  \/ \E s \in Shared : CallPost(t, s) \/ CallPend(t, s)
  \/ \E s \in Shared, ticks \in WaitTicks : CallTimedPend(t, s, ticks)
  \/ PendReturns(t)

SemInterrupt ==
  \/ \E s \in Shared : InterruptPosts(s)
  \/ \E t \in Thread : WaitExpires(t)

SemNext ==
  \/ Next /\ UNCHANGED semVars
  \/ \E t \in Thread : SemThreadStep(t)
  \/ SemInterrupt

SemSpec == SemInit /\ [][SemNext]_allVars

-----------------------------------------------------------------------------
(* Properties *)

\* How the Pend thread t is inside stands.
Phase(t) ==
  IF pc[t] \notin {"pend", "timed"} THEN "idle"
  ELSE IF t \in ToSet(k.list[pendOn[t]]) THEN "waiting"
  ELSE IF pc[t] = "timed" /\ expired[t] THEN "expired"
  ELSE "granted"

Promise == INSTANCE SemaphoreSpec WITH
  Sem   <- Shared,
  NoSem <- NoList,
  count <- [s \in Shared |-> value[s]],
  phase <- [t \in Thread |-> IF pendOn[t] \in Shared THEN Phase(t) ELSE "idle"],
  on    <- [t \in Thread |-> IF pendOn[t] \in Shared THEN pendOn[t] ELSE NoList]

\* Every semaphore does what its interface promises: a Pend that returns true
\* took a token that a Post or Init put there, one that returns false took
\* none, and no token is lost or made up.
KeepsPromise == Promise!Spec

\* The thread Post wakes is the one with the highest priority.
HighestFirst ==
  \A s \in Sem : \A t \in ToSet(k.list[s]) :
    k.curPrio[t] <= k.curPrio[Head(k.list[s])]

\* A Timer on a thread's stack is linked only while the thread is inside the
\* timed wait whose frame holds it, before or after its Yield.
InTimedWait == {"timed", "blockT", "inheritT"}
NoDanglingTimer ==
  \A t \in Thread : WaitTimer(t) \in ToSet(k.timers) => pc[t] \in InTimedWait

=============================================================================
