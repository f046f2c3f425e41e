--------------------------------- MODULE Notify ---------------------------------
(***************************************************************************)
(* Notification objects: Wait without and with a timeout, Signal from a    *)
(* thread and from an interrupt handler.  Wait links its caller on the     *)
(* object in one critical section and yields in another: a Signal in       *)
(* between finds a thread that is BLOCKED and still has the CPU.           *)
(***************************************************************************)
EXTENDS Semaphore

CONSTANT Note   \* the Notify objects

ASSUME NotifyAssumption == Note \subseteq BlockList /\ Note \cap Sem = {}

\* Mutant: only the head of the list is woken, which is in order of arrival.
SignalHead(s, n) == IF s.list[n] = <<>> THEN s ELSE UnBlock(s, Head(s.list[n]))

\* Signal unblocks the head until the list is empty.
SignalAll(s, n) == UnBlockEach(s, n, Thread)

\* Does one of the threads that Signal wakes outrank the running one?
Reschedules(s, n) == \E t \in ToSet(s.list[n]) : Preempts(s, t)

CallSignal(t, n) ==
  /\ Calling(t, "Signal")
  /\ k' = SignalAll(k, n)
  /\ pc' = IF Reschedules(k, n) THEN [pc EXCEPT ![t] = "yield"] ELSE pc
  /\ UNCHANGED semVars

InterruptSignals(n) ==
  /\ "InterruptSignal" \in Calls
  /\ ~k.fault
  /\ LET d == SignalAll(k, n)
     IN  k' = IF Reschedules(k, n) THEN Yield(d) ELSE d
  /\ UNCHANGED <<pc, semVars>>

\* The first critical section of Wait; Semaphore!YieldBlocked is the second.
BlockOn(t, n, data, where) ==
  /\ t # Idle /\ k.enabled
  /\ k' = Block(data, t, n)
  /\ pc' = [pc EXCEPT ![t] = where]
  /\ pendOn' = [pendOn EXCEPT ![t] = n]
  /\ UNCHANGED <<value, posts>>

CallWait(t, n) ==
  /\ Calling(t, "Wait")
  /\ BlockOn(t, n, k, "block")
  /\ UNCHANGED expired

CallTimedWait(t, n, ticks) ==
  /\ Calling(t, "TimedWait")
  /\ BlockOn(t, n, TimerAdd(k, WaitTimer(t), ticks), "blockT")
  /\ expired' = [expired EXCEPT ![t] = FALSE]

NotifyStep(t) ==
  \/ \E n \in Note : CallSignal(t, n) \/ CallWait(t, n)
  \/ \E n \in Note, ticks \in WaitTicks : CallTimedWait(t, n, ticks)
  \/ pendOn[t] \in Note /\ (YieldBlocked(t) \/ PendEnds(t, "run"))

NotifyInterrupt == \E n \in Note : InterruptSignals(n)

-----------------------------------------------------------------------------
(* Properties *)

\* How the Wait thread t is inside stands.
WaitPhase(t) ==
  IF pendOn[t] \notin Note THEN "idle"
  ELSE IF t \in ToSet(k.list[pendOn[t]]) THEN "waiting"
  ELSE IF pc[t] \in InTimedWait /\ expired[t] THEN "expired" ELSE "told"

Told == INSTANCE NotifySpec WITH
  None  <- NoList,
  phase <- [t \in Thread |-> WaitPhase(t)],
  on    <- [t \in Thread |-> IF pendOn[t] \in Note THEN pendOn[t] ELSE NoList],
  rank  <- k.curPrio

\* A Wait ends only when its object is signalled, and a Signal ends the Wait of
\* the highest priority thread that is inside one, wherever in it that thread
\* is.  (The code ends every Wait that stands; the interface does not say so.)
SignalsReachHighest == Told!Spec

=============================================================================
