----------------------------- MODULE SemaphoreSpec -----------------------------
(***************************************************************************)
(* What the counting semaphores promise their callers                      *)
(* (public/ksemaphore.h), without ready lists, timers or a scheduler.      *)
(***************************************************************************)
EXTENDS Integers

CONSTANTS Thread, Sem, NoSem, InitValue, MaxValue

VARIABLES
  count,   \* the tokens of each semaphore that nobody holds
  phase,   \* "idle", or how the Pend a thread is inside stands
  on,      \* the semaphore of that Pend
  posts    \* the number of tokens ever posted, modulo 2: tells a step that
           \* posts from one that does not
vars == <<count, phase, on, posts>>

Init ==
  /\ count = [s \in Sem |-> InitValue]
  /\ phase = [t \in Thread |-> "idle"]
  /\ on = [t \in Thread |-> NoSem]
  /\ posts = [s \in Sem |-> 0]

Posted(s) == posts' = [posts EXCEPT ![s] = 1 - @]

Move(t, from, to) ==
  /\ phase[t] = from
  /\ phase' = [phase EXCEPT ![t] = to]

\* Pend with a token to take returns at once; without one it waits.
Take(t, s) ==
  /\ phase[t] = "idle" /\ count[s] > 0
  /\ count' = [count EXCEPT ![s] = @ - 1]
  /\ UNCHANGED <<phase, on, posts>>
Wait(t, s) ==
  /\ Move(t, "idle", "waiting") /\ count[s] = 0
  /\ on' = [on EXCEPT ![t] = s]
  /\ UNCHANGED <<count, posts>>

\* Post hands its token to a waiting thread, or keeps it if nobody waits.
Grant(t) ==
  /\ Move(t, "waiting", "granted")
  /\ Posted(on[t])
  /\ UNCHANGED <<count, on>>
Keep(s) ==
  /\ \A t \in Thread : ~(phase[t] = "waiting" /\ on[t] = s)
  /\ count[s] < MaxValue[s]
  /\ count' = [count EXCEPT ![s] = @ + 1]
  /\ Posted(s)
  /\ UNCHANGED <<phase, on>>

\* Only a thread that still waits can time out.  Pend then returns false; a
\* granted Pend returns true.
Expire(t) == Move(t, "waiting", "expired") /\ UNCHANGED <<count, on, posts>>
Return(t) ==
  /\ \E from \in {"granted", "expired"} : Move(t, from, "idle")
  /\ on' = [on EXCEPT ![t] = NoSem]
  /\ UNCHANGED <<count, posts>>

Next ==
  \/ \E s \in Sem : Keep(s) \/ \E t \in Thread : Take(t, s) \/ Wait(t, s)
  \/ \E t \in Thread : Grant(t) \/ Expire(t) \/ Return(t)

Spec == Init /\ [][Next]_vars

=============================================================================
