------------------------------- MODULE EventFlag -------------------------------
(***************************************************************************)
(* Event flag groups: Wait for any or for all of some flags, without and   *)
(* with a timeout, Set from a thread and from an interrupt handler, Clear. *)
(* Each call is one critical section, its Yield included; what a waiter    *)
(* asked for, and what it was given, share one field of the thread.        *)
(***************************************************************************)
EXTENDS Semaphore

CONSTANTS
  Group,   \* the EventFlag objects
  Flag,    \* the bits of a mask
  Modes    \* the EventFlagOperation_t values used in Wait

AllModes == {"ALL", "ALL_CLEAR"}
AnyModes == {"ANY", "ANY_CLEAR"}

ASSUME EventFlagAssumption ==
  Group \subseteq BlockList /\ Group \cap Sem = {} /\ Modes \subseteq AllModes \cup AnyModes

VARIABLES
  flags,   \* m_u16SetMask of every group
  mask,    \* Thread::m_u16FlagMask: what a waiter wants, then what it got
  mode     \* Thread::m_eFlagMode; "PENDING" once a Set has released the thread
flagVars == <<flags, mask, mode>>

FlagInit ==
  /\ flags = [g \in Group |-> {}]
  /\ mask = [t \in Thread |-> {}] /\ mode = [t \in Thread |-> "PENDING"]

Matches(wanted, how, set) ==
  \/ how \in AllModes /\ wanted \subseteq set
  \/ how \in AnyModes /\ wanted \cap set # {}

\* A match returns at once (without clearing anything); otherwise the caller
\* blocks and yields in the same critical section.
WaitFlags(t, g, wanted, how, data, where) ==
  \/ Matches(wanted, how, flags[g]) /\ UNCHANGED <<allVars, flagVars>>
  \/ /\ ~Matches(wanted, how, flags[g])
     /\ t # Idle /\ k.enabled
     /\ mask' = [mask EXCEPT ![t] = wanted] /\ mode' = [mode EXCEPT ![t] = how]
     /\ k' = Yield(BlockPriority(data, t, g))
     /\ pc' = [pc EXCEPT ![t] = where]
     /\ pendOn' = [pendOn EXCEPT ![t] = g]
     /\ expired' = IF where = "timed" THEN [expired EXCEPT ![t] = FALSE] ELSE expired
     /\ UNCHANGED <<value, posts, flags>>

CallWaitFlags(t, g, wanted, how) ==
  Calling(t, "WaitFlags") /\ WaitFlags(t, g, wanted, how, k, "pend")

CallTimedWaitFlags(t, g, wanted, how, ticks) ==
  /\ Calling(t, "TimedWaitFlags")
  /\ WaitFlags(t, g, wanted, how, TimerAdd(k, WaitTimer(t), ticks), "timed")

\* Mutants: the walk ends before the tail; every waiter is released, whatever it
\* waits for.
ReleasedButTail(g, set) ==
  IF k.list[g] = <<>> THEN {}
  ELSE {t \in ToSet(Front(k.list[g])) : Matches(mask[t], mode[t], set)}
ReleasedNext(g, set) == {t \in ToSet(k.list[g]) : mask[t] # {}}

\* The waiters whose condition the flags in set satisfy.
Released(g, set) == {t \in ToSet(k.list[g]) : Matches(mask[t], mode[t], set)}

\* Set releases the waiters that match, in list order, and clears those of the
\* new flags that a released waiter wanted cleared.
Set(g, new) ==
  LET set      == flags[g] \cup new
      released == Released(g, set)
      clearing == {t \in released : mode[t] \in {"ALL_CLEAR", "ANY_CLEAR"}}
  IN  /\ flags' = [flags EXCEPT ![g] = set \ UNION {mask[t] \cap new : t \in clearing}]
      /\ mask' = [t \in Thread |-> IF t \in released THEN mask[t] \cap set ELSE mask[t]]
      /\ mode' = [t \in Thread |-> IF t \in released THEN "PENDING" ELSE mode[t]]
      /\ k' = IF released = {} THEN k ELSE Yield(UnBlockEach(k, g, released))
      /\ UNCHANGED <<pc, semVars>>

CallSet(t, g, new) == Calling(t, "Set") /\ Set(g, new)

InterruptSets(g, new) ==
  /\ "InterruptSet" \in Calls
  /\ ~k.fault
  /\ Set(g, new)

CallClear(t, g, old) ==
  /\ Calling(t, "Clear")
  /\ flags' = [flags EXCEPT ![g] = @ \ old]
  /\ UNCHANGED <<allVars, mask, mode>>

\* Wait returns the mask; what the thread keeps of it is dead.
FlagsReturn(t) ==
  /\ pendOn[t] \in Group /\ PendEnds(t, "run")
  /\ mask' = [mask EXCEPT ![t] = {}] /\ mode' = [mode EXCEPT ![t] = "PENDING"]
  /\ UNCHANGED flags

\* TimedEventFlag_Callback: a wait that times out returns 0.
FlagWaitExpires(t) ==
  /\ pendOn[t] \in Group /\ WaitExpires(t)
  /\ mask' = [mask EXCEPT ![t] = {}]
  /\ UNCHANGED <<flags, mode>>

FlagStep(t) ==
  \/ \E g \in Group, m \in (SUBSET Flag) \ {{}} :
       \/ CallSet(t, g, m) \/ CallClear(t, g, m)
       \/ \E how \in Modes : \/ CallWaitFlags(t, g, m, how)
                             \/ \E ticks \in WaitTicks : CallTimedWaitFlags(t, g, m, how, ticks)
  \/ FlagsReturn(t)

FlagInterrupt == \E g \in Group, m \in (SUBSET Flag) \ {{}} : InterruptSets(g, m)

-----------------------------------------------------------------------------
(* Properties *)

\* No thread is left waiting for flags that are set: neither a Set, wherever
\* the thread is in the list, nor the flags another waiter clears, nor a
\* timeout can separate a waiter from its condition.
NobodyMissesFlags ==
  \A g \in Group : \A t \in ToSet(k.list[g]) : ~Matches(mask[t], mode[t], flags[g])

\* A thread that a Set has released and that has not run yet still holds flags
\* to return: 0 means an error or a timeout.
ReleasedWithFlags ==
  \A t \in Thread : pendOn[t] \in Group /\ t \notin ToSet(k.list[pendOn[t]])
    => mode[t] = "PENDING" /\ mask[t] # {}

=============================================================================
