------------------------------- MODULE TimerList -------------------------------
(***************************************************************************)
(* The software timers of an application: Timer::Start and Stop, called by *)
(* threads and by the callbacks themselves, and the two passes of          *)
(* TimerList::Process.  The second pass walks the list while the callbacks *)
(* it makes add timers to it and take timers off it, the timer it stands   *)
(* at included.                                                            *)
(*                                                                         *)
(* The list is the sequence from its head to its tail (LinkList is the     *)
(* pointer level).  The flags and counts of a timer that is not linked are *)
(* dead: Start sets them; they are kept at zero.                           *)
(***************************************************************************)
EXTENDS ThreadList

CONSTANTS
  Timer,      \* the Timer objects
  Interval,   \* the intervals used, in ticks
  Null        \* a null Timer pointer

ASSUME TimerListAssumption == Null \notin Timer /\ Interval \subseteq Nat \ {0}

VARIABLES
  linked,     \* the timer list, head first
  active,     \* TIMERLIST_FLAG_ACTIVE
  callback,   \* TIMERLIST_FLAG_CALLBACK
  oneShot,    \* TIMERLIST_FLAG_ONE_SHOT
  interval,   \* m_u32Interval
  left,       \* m_u32TimeLeft
  node,       \* pclNode of the second pass
  at,         \* "thread", or in SysTick: "scan" between callbacks, "call" in one
  cut         \* history: a callback of this tick stopped its own timer
vars == <<linked, active, callback, oneShot, interval, left, node, at, cut>>

Init ==
  /\ linked = <<>> /\ active = {} /\ callback = {} /\ oneShot = {}
  /\ interval = [x \in Timer |-> 0] /\ left = [x \in Timer |-> 0]
  /\ node = Null /\ at = "thread" /\ cut = FALSE

Linked == ToSet(linked)

\* GetNext: null at the tail, and for a timer that is not linked.
GetNext(x) ==
  IF x \notin Linked \/ x = Last(linked) THEN Null ELSE linked[Position(linked, x) + 1]

-----------------------------------------------------------------------------
(* Start and Stop, from a thread or from the callback that runs *)

\* A timer that is linked must be stopped before it is started again.
Start(x, repeats, ticks) ==
  /\ at \in {"thread", "call"}
  /\ x \notin Linked
  /\ linked' = Append(linked, x)
  /\ active' = active \cup {x}
  /\ oneShot' = IF repeats THEN oneShot ELSE oneShot \cup {x}
  /\ interval' = [interval EXCEPT ![x] = ticks] /\ left' = [left EXCEPT ![x] = ticks]
  /\ UNCHANGED <<callback, node, at, cut>>

Unlink(x) ==
  /\ linked' = IF x \in Linked THEN ListRemove(linked, x) ELSE linked
  /\ active' = active \ {x} /\ callback' = callback \ {x} /\ oneShot' = oneShot \ {x}
  /\ interval' = [interval EXCEPT ![x] = 0] /\ left' = [left EXCEPT ![x] = 0]

Stop(x) ==
  /\ at \in {"thread", "call"}
  /\ x \in Linked
  /\ Unlink(x)
  /\ cut' = (cut \/ (at = "call" /\ x = node))
  /\ UNCHANGED <<node, at>>

-----------------------------------------------------------------------------
(* TimerList::Process *)

Expires(x) == x \in active /\ left[x] = 1

\* Mutant: a repeating timer is not given its interval again.
FirstPassOnce ==
  /\ at = "thread"
  /\ left' = [x \in Timer |-> IF x \notin active THEN left[x] ELSE left[x] - 1]
  /\ callback' = callback \cup {x \in active : Expires(x)}
  /\ active' = {x \in active : ~(Expires(x) /\ x \in oneShot)}
  /\ node' = IF linked = <<>> THEN Null ELSE Head(linked)
  /\ at' = "scan" /\ cut' = FALSE
  /\ UNCHANGED <<linked, oneShot, interval>>

\* Every active timer counts.  One that expires is flagged, and is wound up
\* again or, if it is a one-shot timer, deactivated.
FirstPass ==
  /\ at = "thread"
  /\ left' = [x \in Timer |-> IF x \notin active THEN left[x]
                              ELSE IF Expires(x) /\ x \notin oneShot THEN interval[x]
                              ELSE left[x] - 1]
  /\ callback' = callback \cup {x \in active : Expires(x)}
  /\ active' = {x \in active : ~(Expires(x) /\ x \in oneShot)}
  /\ node' = IF linked = <<>> THEN Null ELSE Head(linked)
  /\ at' = "scan" /\ cut' = FALSE
  /\ UNCHANGED <<linked, oneShot, interval>>

\* The nodes of the rest of the second pass.
Ahead == IF node = Null THEN <<>> ELSE SubSeq(linked, Position(linked, node), Len(linked))

\* The walk stops at the next flagged timer and calls it.
CallNext ==
  /\ at = "scan"
  /\ \E x \in ToSet(Ahead) \cap callback :
       /\ \A y \in ToSet(Ahead) \cap callback : Position(linked, x) <= Position(linked, y)
       /\ node' = x
  /\ at' = "call"
  /\ UNCHANGED <<linked, active, callback, oneShot, interval, left, cut>>

\* Mutant: the one-shot timer is not taken off the list.
ReturnLinked ==
  /\ at = "call"
  /\ node' = GetNext(node) /\ callback' = callback \ {node}
  /\ at' = "scan"
  /\ UNCHANGED <<linked, active, oneShot, interval, left, cut>>

\* Mutant: GetNext is asked after the one-shot timer is unlinked.
ReturnLost ==
  /\ at = "call"
  /\ node' = IF node \in oneShot THEN Null ELSE GetNext(node)
  /\ \/ node \in oneShot /\ Unlink(node)
     \/ node \notin oneShot /\ callback' = callback \ {node}
                            /\ UNCHANGED <<linked, active, oneShot, interval, left>>
  /\ at' = "scan"
  /\ UNCHANGED cut

\* Mutant: the flag of a repeating timer is not cleared.
ReturnFlagged ==
  /\ at = "call"
  /\ node' = GetNext(node)
  /\ \/ node \in oneShot /\ Unlink(node)
     \/ node \notin oneShot /\ UNCHANGED <<linked, active, callback, oneShot, interval, left>>
  /\ at' = "scan"
  /\ UNCHANGED cut

\* The callback is over: the flag is cleared, the walk moves on, and a
\* one-shot timer is taken off the list.
CallReturns ==
  /\ at = "call"
  /\ node' = GetNext(node)
  /\ \/ node \in oneShot /\ Unlink(node)
     \/ node \notin oneShot /\ callback' = callback \ {node}
                            /\ UNCHANGED <<linked, active, oneShot, interval, left>>
  /\ at' = "scan"
  /\ UNCHANGED cut

PassEnds ==
  /\ at = "scan"
  /\ ToSet(Ahead) \cap callback = {}
  /\ node' = Null /\ at' = "thread"
  /\ UNCHANGED <<linked, active, callback, oneShot, interval, left, cut>>

Next ==
  \/ \E x \in Timer : Stop(x)
  \/ \E x \in Timer, repeats \in BOOLEAN, ticks \in Interval : Start(x, repeats, ticks)
  \/ FirstPass \/ CallNext \/ CallReturns \/ PassEnds

SafeSpec == Init /\ [][Next]_vars

\* SysTick comes again and again, its handler and the callbacks end.
Fairness ==
  WF_vars(FirstPass) /\ WF_vars(CallNext) /\ WF_vars(CallReturns) /\ WF_vars(PassEnds)

Spec == SafeSpec /\ Fairness

-----------------------------------------------------------------------------
(* Properties *)

\* Types; a timer never has more to count than its interval.
TypeOK ==
  /\ linked \in Seq(Timer) /\ IsInjective(linked)
  /\ active \subseteq Linked /\ callback \subseteq Linked /\ oneShot \subseteq Linked
  /\ interval \in [Timer -> {0} \cup Interval]
  /\ left \in [Timer -> Nat] /\ \A x \in Timer : left[x] <= interval[x]
  /\ at \in {"thread", "scan", "call"} /\ cut \in BOOLEAN
  /\ node \in Timer \cup {Null} /\ (at = "scan" /\ node # Null => node \in Linked)

\* A tick calls every timer that has expired, whatever the callbacks start and
\* stop, unless one of them stopped its own timer: that ends the pass.
AllCalled == at = "thread" /\ ~cut => callback = {}

\* A linked timer counts down or is about to be called: no timer stays on the
\* list that will never expire again.
NoDeadTimer == \A x \in Linked : x \in active \/ x \in callback

\* The inductive invariant: what the flags, the counts and the place of the
\* walk have to do with each other.
NotBefore(x, y) == Position(linked, x) <= Position(linked, y)

TimerInv ==
  /\ TypeOK
  /\ active = Linked \ {x \in oneShot : left[x] = 0}
  /\ \A x \in Linked \ oneShot : left[x] > 0
  /\ NoDeadTimer
  /\ AllCalled
  /\ at = "call" => node \in Timer /\ (cut \/ node \in Linked)
  /\ at # "thread" /\ ~cut => \A x \in callback : node # Null /\ NotBefore(node, x)

\* Each timer keeps its own time and is called once per expiry, a one-shot
\* timer once, although they share one list that changes under the walk.
Timers == INSTANCE TimerSpec WITH
  armed   <- Linked,
  period  <- interval,
  owed    <- IF at = "call" THEN callback \ {node} ELSE callback,
  None    <- Null,
  calling <- IF at = "call" THEN node ELSE Null
ImplementsTimers == Timers!Spec

\* A timer that is started and not stopped is called, again and again if it
\* repeats: a pass that ends early is late for the timers behind, not the end.
IsCalled == \A x \in Timer : x \in Linked ~> (at = "call" /\ node = x) \/ x \notin Linked

=============================================================================
