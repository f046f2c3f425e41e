------------------------------- MODULE MutexSpec -------------------------------
(***************************************************************************)
(* What the mutexes promise their callers (public/mutex.h): one owner at a *)
(* time, which may claim again; a released mutex goes to a thread that     *)
(* waits for it, if there is one.                                          *)
(***************************************************************************)
EXTENDS Naturals

CONSTANTS Thread, Mutex, None

VARIABLES
  owner,   \* the thread each mutex belongs to
  depth,   \* how often the owner has claimed it again
  phase,   \* "idle", or how the Claim a thread is inside stands
  on       \* the mutex of that Claim
vars == <<owner, depth, phase, on>>

Init ==
  /\ owner = [m \in Mutex |-> None] /\ depth = [m \in Mutex |-> 0]
  /\ phase = [t \in Thread |-> "idle"] /\ on = [t \in Thread |-> None]

Waiting(m) == {t \in Thread : phase[t] = "waiting" /\ on[t] = m}

Claim(t, m) ==
  /\ phase[t] = "idle"
  /\ \/ /\ owner[m] = None /\ owner' = [owner EXCEPT ![m] = t]
        /\ UNCHANGED <<depth, phase, on>>
     \/ /\ owner[m] = t /\ depth' = [depth EXCEPT ![m] = @ + 1]
        /\ UNCHANGED <<owner, phase, on>>
     \/ /\ owner[m] \notin {None, t}
        /\ phase' = [phase EXCEPT ![t] = "waiting"] /\ on' = [on EXCEPT ![t] = m]
        /\ UNCHANGED <<owner, depth>>

\* Each Release undoes one Claim of the owner.  The last one frees the mutex
\* or hands it to a thread that waits.
Release(t, m) ==
  /\ owner[m] = t /\ phase[t] = "idle"
  /\ \/ /\ depth[m] > 0 /\ depth' = [depth EXCEPT ![m] = @ - 1]
        /\ UNCHANGED <<owner, phase, on>>
     \/ /\ depth[m] = 0 /\ Waiting(m) = {}
        /\ owner' = [owner EXCEPT ![m] = None] /\ UNCHANGED <<depth, phase, on>>
     \/ /\ depth[m] = 0
        /\ \E w \in Waiting(m) : /\ owner' = [owner EXCEPT ![m] = w]
                                 /\ phase' = [phase EXCEPT ![w] = "granted"]
        /\ UNCHANGED <<depth, on>>

\* Only a thread that still waits can time out; its Claim returns false.
Expire(t) ==
  /\ phase[t] = "waiting" /\ phase' = [phase EXCEPT ![t] = "expired"]
  /\ UNCHANGED <<owner, depth, on>>
Return(t) ==
  /\ phase[t] \in {"granted", "expired"}
  /\ phase' = [phase EXCEPT ![t] = "idle"] /\ on' = [on EXCEPT ![t] = None]
  /\ UNCHANGED <<owner, depth>>

Next ==
  \/ \E t \in Thread, m \in Mutex : Claim(t, m) \/ Release(t, m)
  \/ \E t \in Thread : Expire(t) \/ Return(t)

Spec == Init /\ [][Next]_vars

=============================================================================
