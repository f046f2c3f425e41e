------------------------------- MODULE NotifySpec -------------------------------
(***************************************************************************)
(* What the notification objects promise their callers (public/notify.h):  *)
(* a Wait ends when the object is signalled, and a Signal wakes the thread *)
(* of the highest priority that waits.  The interface does not say whether *)
(* others wake with it; a Signal is remembered for nobody who does not     *)
(* wait.                                                                   *)
(***************************************************************************)
EXTENDS Naturals

CONSTANTS Thread, Note, None

VARIABLES
  phase,   \* "idle", or how the Wait a thread is inside stands
  on,      \* the object of that Wait
  rank     \* the current priority of every thread, for others to change
vars == <<phase, on>>

Init == phase = [t \in Thread |-> "idle"] /\ on = [t \in Thread |-> None]

Wait(t, n) ==
  /\ phase[t] = "idle"
  /\ phase' = [phase EXCEPT ![t] = "waiting"] /\ on' = [on EXCEPT ![t] = n]

Waiters(n) == {t \in Thread : phase[t] = "waiting" /\ on[t] = n}

\* None of those left waiting has a higher priority than all who are told.
Signal(n) ==
  \E told \in SUBSET Waiters(n) :
    /\ \A t \in Waiters(n) : \E u \in told : rank[t] <= rank[u]
    /\ phase' = [t \in Thread |-> IF t \in told THEN "told" ELSE phase[t]]
    /\ UNCHANGED on

Expire(t) ==
  /\ phase[t] = "waiting"
  /\ phase' = [phase EXCEPT ![t] = "expired"] /\ UNCHANGED on

Return(t) ==
  /\ phase[t] \in {"told", "expired"}
  /\ phase' = [phase EXCEPT ![t] = "idle"] /\ on' = [on EXCEPT ![t] = None]

Next ==
  \/ \E n \in Note : Signal(n) \/ \E t \in Thread : Wait(t, n)
  \/ \E t \in Thread : Expire(t) \/ Return(t)

Spec == Init /\ [][Next]_vars

=============================================================================
