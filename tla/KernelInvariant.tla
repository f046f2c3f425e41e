----------------------------- MODULE KernelInvariant -----------------------------
(***************************************************************************)
(* The inductive invariant of the scheduler.  The invariants of module     *)
(* Kernel follow from it but are not inductive: StrictPriority says        *)
(* nothing while a switch is pending or the scheduler is disabled, so it   *)
(* does not say that the pending switch goes to the right thread, nor that *)
(* a reschedule is owed when the scheduler is enabled again.               *)
(***************************************************************************)
EXTENDS Kernel

\* The list a thread is on.
Loc(s) ==
  [t \in Thread |-> CASE s.state[t] = "READY"   -> s.prio[t]
                      [] s.state[t] = "BLOCKED" -> s.where[t]
                      [] s.state[t] = "STOP"    -> StopList
                      [] OTHER                  -> NoList]

\* The lists hold exactly the threads that loc puts there, each once.
ListsAt(s, loc) ==
  \A l \in ListId : /\ IsInjective(s.list[l])
                    /\ ToSet(s.list[l]) = {t \in Thread : loc[t] = l}

MapAt(s) == s.map = {p \in Prio : s.list[p] # <<>>}

TimersAt(s) ==
  /\ IsInjective(s.timers)
  /\ QuantumTimer \in ToSet(s.timers) => s.qActive

\* The part of the inductive invariant that is about the data of the kernel.
Good(s) ==
  /\ s \in KernelState
  /\ ListsAt(s, Loc(s))
  /\ MapAt(s)
  /\ TimersAt(s)
  /\ s.state[Idle] = "READY"
  /\ \A t \in Thread : s.state[t] = "BLOCKED" => s.where[t] \in BlockList

\* No thread runs with a priority inherited through a mutex.
Uninherited(s) == s.curPrio = s.prio

\* t is READY and no READY thread has a higher priority.
Top(s, t) ==
  /\ s.state[t] = "READY"
  /\ \A u \in Thread : s.state[u] = "READY" => s.prio[u] <= s.prio[t]

\* The thread that will run next is READY: the one that runs now, unless it is
\* about to yield, or the one the pending switch dispatches.  With the scheduler
\* disabled it is the one that runs now, unless that one is about to enable the
\* scheduler, which performs what was queued.
Dispatches(s, yielding, enabling) ==
  /\ s.pendsv => s.enabled /\ s.state[s.next] = "READY"
  /\ ~s.pendsv => yielding \/ s.state[s.current] = "READY"
  /\ ~s.enabled => enabling \/ s.state[s.current] = "READY"
  /\ s.enabled => ~s.queued

\* The data is consistent, and the thread that will run next is one that may:
\* the current one when it is running and no switch is pending, or the one the
\* pending switch dispatches.  With the scheduler disabled the current thread
\* keeps running, and a reschedule is owed if it no longer should.
Scheduled(s, running) ==
  /\ Good(s) /\ Uninherited(s)
  /\ s.pendsv => s.enabled /\ Top(s, s.next)
  /\ s.enabled /\ ~s.pendsv /\ running => Top(s, s.current)
  /\ ~s.enabled => /\ running /\ ~s.pendsv /\ s.state[s.current] = "READY"
                   /\ s.queued \/ Top(s, s.current)
  /\ s.enabled => ~s.queued

\* The scheduling decision the kernel has made is right at every step of every
\* handler and call: consistent lists, map and quantum timer, and the next
\* thread to run (now, by the pending PendSV or by the queued schedule) is a
\* READY one of the highest priority.
IInv ==
  /\ Scheduled(k, pc[k.current] = "run")
  /\ pc \in [Thread -> {"run", "yield"}]

=============================================================================
