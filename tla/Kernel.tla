--------------------------------- MODULE Kernel ---------------------------------
(***************************************************************************)
(* The scheduler of the Mark3 kernel: threads, the ready lists and their   *)
(* priority map, the quantum timer, the timer interrupt and the deferred   *)
(* context switch.                                                         *)
(*                                                                         *)
(* The machine has one CPU.  A critical section (CS_ENTER .. CS_EXIT)      *)
(* masks every interrupt, so it is one atomic step.  Between two critical  *)
(* sections SysTick may run.  A context switch is only requested (PendSV   *)
(* is pended): it happens when interrupts are enabled and no other handler *)
(* runs, and SysTick, which has the higher priority, goes first.           *)
(*                                                                         *)
(* One kernel call usually changes the kernel's data several times before  *)
(* it leaves its critical section.  The data is one record k, and the      *)
(* kernel's functions are operators from k to the next k.                  *)
(***************************************************************************)
EXTENDS ThreadList, FiniteSets

CONSTANTS
  Thread,         \* the Thread objects of the application
  Idle,           \* the thread that never blocks, stops or exits
  Main,           \* the thread main() starts before Kernel::Start
  InitPriority,   \* the priority each thread is given in Thread::Init
  NumPriorities,  \* KERNEL_NUM_PRIORITIES
  QuantumTicks,   \* MSECONDS_TO_TICKS(THREAD_QUANTUM_DEFAULT)
  MaxTimeLeft,    \* the value uint32_t TimeLeft takes when 0 is decremented
  Calls,          \* the kernel calls the application makes
  StopList,       \* Scheduler::m_clStopList
  NoList,         \* a null ThreadList pointer
  QuantumTimer,   \* Quantum::m_clQuantumTimer
  BlockList       \* the m_clBlockList of every blocking object

Prio == 0 .. NumPriorities - 1

ASSUME KernelAssumption ==
  /\ IsFiniteSet(Thread)
  /\ Idle \in Thread /\ Main \in Thread /\ Idle # Main
  /\ NumPriorities \in Nat \ {0}
  /\ InitPriority \in [Thread -> Prio]
  /\ InitPriority[Idle] = 0 /\ InitPriority[Main] > 0
  /\ QuantumTicks \in Nat \ {0}
  /\ MaxTimeLeft \in Nat
  /\ StopList \notin Prio /\ NoList \notin Prio /\ BlockList \cap Prio = {}
  /\ StopList # NoList /\ StopList \notin BlockList /\ NoList \notin BlockList

ListId == Prio \cup {StopList} \cup BlockList

\* Every thread has its m_clTimer (Sleep) and, while it is inside a timed
\* blocking call, a Timer on its own stack.
SleepTimer(t) == <<"sleep", t>>
WaitTimer(t)  == <<"wait", t>>
Timer == {QuantumTimer} \cup {SleepTimer(t) : t \in Thread}
                        \cup {WaitTimer(t) : t \in Thread}

VARIABLES
  k,   \* the kernel's data, a record (see KernelState)
  pc   \* where each thread is: "run" in application code, or inside a call
vars == <<k, pc>>

KernelState ==
  [ list     : [ListId -> Seq(Thread)],          \* every ThreadList
    map      : SUBSET Prio,                      \* Scheduler::m_clPrioMap
    where    : [Thread -> ListId \cup {NoList}], \* Thread::m_pclCurrent
    owner    : [Thread -> ListId \cup {NoList}], \* Thread::m_pclOwner
    prio     : [Thread -> Prio],                 \* Thread::m_uXPriority
    curPrio  : [Thread -> Prio],                 \* Thread::m_uXCurPriority
    state    : [Thread -> {"READY", "BLOCKED", "STOP", "EXIT"}],
    current  : Thread,                           \* g_pclCurrent
    next     : Thread,                           \* g_pclNext
    enabled  : BOOLEAN,                          \* Scheduler::m_bEnabled
    queued   : BOOLEAN,                          \* Scheduler::m_bQueuedSchedule
    pendsv   : BOOLEAN,                          \* PendSV is pending
    due      : BOOLEAN,                          \* ... and let a SysTick pass
    inTimer  : BOOLEAN,                          \* Quantum::m_bInTimer: in SysTick
    timers   : Seq(Timer),                       \* TimerScheduler::m_clTimerList
    left     : [Timer -> Nat],                   \* Timer::m_u32TimeLeft
    callback : SUBSET Timer,                     \* TIMERLIST_FLAG_CALLBACK is set
    qActive  : BOOLEAN,                          \* Quantum::m_bActive
    qOwner   : Thread,                           \* m_clQuantumTimer.m_pclOwner
    qAdd     : BOOLEAN,                          \* bAddQuantumTimer
    fault    : BOOLEAN ]                         \* a null pointer was used, or a list is broken

-----------------------------------------------------------------------------
(* Thread lists and the scheduler *)

LinkThread(s, l, t) ==
  [s EXCEPT !.list[l] = ListAdd(@, t),
            !.map     = IF l \in Prio THEN @ \cup {l} ELSE @]

\* Mutant: the bit is cleared without a look at what is left on the list.
UnlinkClears(s, l, t) ==
  [s EXCEPT !.list[l] = ListRemove(@, t), !.map = @ \ {l}]

UnlinkThread(s, l, t) ==
  LET rest == ListRemove(s.list[l], t)
  IN  [s EXCEPT !.list[l] = rest,
                !.map     = IF l \in Prio /\ rest = <<>> THEN @ \ {l} ELSE @]

SchedulerAdd(s, t)    == LinkThread(s, s.prio[t], t)
SchedulerRemove(s, t) == UnlinkThread(s, s.prio[t], t)

HighestPriority(s) == CHOOSE p \in s.map : \A q \in s.map : q <= p

Schedule(s) == [s EXCEPT !.next = Head(s.list[HighestPriority(s)])]

-----------------------------------------------------------------------------
(* Timers and the thread quantum *)

\* TimerList::Add of a timer whose flags were just set to ONE_SHOT.
TimerAdd(s, x, ticks) ==
  [s EXCEPT !.timers = Append(@, x), !.left[x] = ticks, !.callback = @ \ {x}]

\* TimerList::Remove; no effect on a timer that is not on the list.  The flags
\* and the count of a timer that left the list are dead: they are set again
\* before or by the next Add.
TimerRemove(s, x) ==
  IF x \in ToSet(s.timers)
  THEN [s EXCEPT !.timers = ListRemove(@, x), !.left[x] = 0, !.callback = @ \ {x}]
  ELSE s

\* Mutant: marks the timer inactive and leaves it on the timer list.
QuantumForgets(s) == [s EXCEPT !.qActive = FALSE]

QuantumRemove(s) ==
  IF s.qActive THEN [TimerRemove(s, QuantumTimer) EXCEPT !.qActive = FALSE] ELSE s

QuantumAdd(s, t) ==
  IF s.qActive THEN s
  ELSE IF s.inTimer THEN [s EXCEPT !.qAdd = TRUE]
  ELSE IF Len(s.list[s.where[t]]) > 1
       THEN [TimerAdd(s, QuantumTimer, QuantumTicks) EXCEPT !.qActive = TRUE,
                                                            !.qOwner  = t]
       ELSE s

\* The next thread is about to change: give it a fresh quantum, pend PendSV.
SwitchToNext(s) ==
  [QuantumAdd(QuantumRemove(s), s.next) EXCEPT !.pendsv = TRUE]

\* Mutant: yields although the scheduler is disabled.
YieldAlways(s) ==
  LET d == Schedule(s) IN IF d.next = d.current THEN d ELSE SwitchToNext(d)

Yield(s) ==
  IF ~s.enabled THEN [s EXCEPT !.queued = TRUE]
  ELSE LET d == Schedule(s)
       IN  IF d.next = d.current THEN d ELSE SwitchToNext(d)

\* Mutant: enables the scheduler and drops the schedule that was queued.
SetSchedulerDrops(s, enable) ==
  [s EXCEPT !.enabled = enable, !.queued = IF enable THEN FALSE ELSE @]

SetScheduler(s, enable) ==
  LET d == [s EXCEPT !.enabled = enable]
  IN  IF enable /\ s.queued THEN Yield([d EXCEPT !.queued = FALSE]) ELSE d

\* Mutant: asks for a new quantum without moving the list on.
RotateNothing(s, l) == [s EXCEPT !.qAdd = TRUE]

\* The list moves on by one thread, and a fresh quantum is asked for.
Rotate(s, l) == [s EXCEPT !.qAdd = TRUE, !.list[l] = PivotForward(@)]

\* QuantumCallback, called with the owner of the quantum timer.
QuantumCallback(s) ==
  LET t == s.qOwner
      l == s.where[t]
  IN  IF s.prio[t] < s.prio[s.current] THEN s
      ELSE IF l = NoList THEN [s EXCEPT !.fault = TRUE]
      ELSE IF Len(s.list[l]) > 1 THEN Rotate(s, l) ELSE s

-----------------------------------------------------------------------------
(* Thread control *)

\* Mutant: the started thread is left on the stop list.
StartLinkedTwice(s, u) ==
  [SchedulerAdd(s, u) EXCEPT
     !.owner[u] = s.prio[u], !.where[u] = s.prio[u], !.state[u] = "READY"]

\* Mutant: the priorities are compared the wrong way round.
StartBackwards(s, u) ==
  LET a == [SchedulerAdd(UnlinkThread(s, StopList, u), u) EXCEPT
              !.owner[u] = s.prio[u], !.where[u] = s.prio[u], !.state[u] = "READY"]
  IN  IF a.curPrio[u] > a.curPrio[a.current] THEN a ELSE Yield(a)

Start(s, u) ==
  LET a == [SchedulerAdd(UnlinkThread(s, StopList, u), u) EXCEPT
              !.owner[u] = s.prio[u], !.where[u] = s.prio[u], !.state[u] = "READY"]
  IN  IF a.curPrio[u] < a.curPrio[a.current] THEN a
      ELSE Yield(QuantumAdd(QuantumRemove(a), u))

\* Take a thread off the list it is scheduled or blocked on.
Detach(s, u) ==
  CASE s.state[u] = "READY"   -> SchedulerRemove(s, u)
    [] s.state[u] = "BLOCKED" -> UnlinkThread(s, s.where[u], u)
    [] OTHER                  -> s

Stop(s, u) ==
  TimerRemove([LinkThread(Detach(s, u), StopList, u) EXCEPT
                 !.owner[u] = StopList, !.where[u] = StopList, !.state[u] = "STOP"],
              SleepTimer(u))

Exit(s, u) ==
  TimerRemove([Detach(s, u) EXCEPT
                 !.owner[u] = NoList, !.where[u] = NoList, !.state[u] = "EXIT",
                 !.prio[u]  = 0,      !.curPrio[u] = 0],
              SleepTimer(u))

\* Thread::Init of a thread object that has exited.
ThreadInit(s, u) ==
  LinkThread([s EXCEPT !.prio[u]  = InitPriority[u], !.curPrio[u] = InitPriority[u],
                !.owner[u] = InitPriority[u], !.where[u]   = StopList,
                !.state[u] = "STOP"], StopList, u)

\* Mutant: lowering the running thread's own priority does not reschedule.
SetPriorityRaises(s, u, p) ==
  LET moved == LinkThread([SchedulerRemove(s, u) EXCEPT !.prio[u] = p, !.curPrio[u] = p], p, u)
  IN  IF p <= s.prio[s.current] THEN moved ELSE Yield(moved)

\* Thread::SetPriority, called inside a critical section as its contract asks.
SetPriority(s, u, p) ==
  LET reschedule == s.current = u \/ p > s.prio[s.current]
      moved == LinkThread([SchedulerRemove(s, u) EXCEPT !.prio[u] = p, !.curPrio[u] = p], p, u)
  IN  IF ~reschedule THEN moved
      ELSE IF s.enabled THEN SwitchToNext(Schedule(moved))
      ELSE [moved EXCEPT !.queued = TRUE]

-----------------------------------------------------------------------------
(* Initial state: main() has initialised every thread, started Idle and     *)
(* Main, and Kernel::Start has dispatched Main.                             *)

InitState(stopped) ==
  LET started == {Idle, Main}
      home == [t \in Thread |-> IF t \in started THEN InitPriority[t] ELSE StopList]
  IN [ list     |-> [l \in ListId |->
                       IF l = StopList THEN stopped
                       ELSE IF l = InitPriority[Main] THEN <<Main>>
                       ELSE IF l = 0 THEN <<Idle>> ELSE <<>>],
       map      |-> {0, InitPriority[Main]},
       where    |-> home,
       owner    |-> InitPriority,
       prio     |-> InitPriority,
       curPrio  |-> InitPriority,
       state    |-> [t \in Thread |-> IF t \in started THEN "READY" ELSE "STOP"],
       current  |-> Main,
       next     |-> Main,
       enabled  |-> TRUE,
       queued   |-> FALSE,
       pendsv   |-> FALSE,
       due      |-> FALSE,
       inTimer  |-> FALSE,
       timers   |-> <<>>,
       left     |-> [x \in Timer |-> 0],
       callback |-> {},
       qActive  |-> FALSE,
       qOwner   |-> Main,
       qAdd     |-> FALSE,
       fault    |-> FALSE ]

Init ==
  /\ \E stopped \in SetToSeqs(Thread \ {Idle, Main}) : k = InitState(stopped)
  /\ pc = [t \in Thread |-> "run"]

-----------------------------------------------------------------------------
(* What the running thread does *)

\* Thread t has the CPU: no handler runs and no switch is pending.
Running(t) == k.current = t /\ ~k.pendsv /\ ~k.inTimer /\ ~k.fault

Calling(t, call) == Running(t) /\ pc[t] = "run" /\ call \in Calls

CallStart(t, u) ==
  /\ Calling(t, "Start")
  /\ k.state[u] = "STOP"
  /\ k' = Start(k, u)
  /\ UNCHANGED pc

\* The last thing Stop and Exit do, outside their critical section, is to
\* yield when a thread stopped itself.
YieldIfSelf(t, u) == pc' = IF t = u THEN [pc EXCEPT ![t] = "yield"] ELSE pc

\* Stopping or ending oneself is blocking, which must not be done with the
\* scheduler disabled.
MayLeave(t, u) ==
  /\ u # Idle
  /\ k.state[u] \in {"READY", "BLOCKED"}
  /\ t = u => k.enabled

CallStop(t, u) ==
  /\ Calling(t, "Stop")
  /\ MayLeave(t, u)
  /\ k' = Stop(k, u)
  /\ YieldIfSelf(t, u)

CallExit(t, u) ==
  /\ Calling(t, "Exit")
  /\ MayLeave(t, u)
  /\ k' = Exit(k, u)
  /\ YieldIfSelf(t, u)

CallInit(t, u) ==
  /\ Calling(t, "Init")
  /\ k.state[u] = "EXIT"
  /\ k' = ThreadInit(k, u)
  /\ pc' = [pc EXCEPT ![u] = "run"]

CallSetPriority(t, u, p) ==
  /\ Calling(t, "SetPriority")
  /\ u # Idle
  /\ k.state[u] = "READY"
  /\ k' = SetPriority(k, u, p)
  /\ UNCHANGED pc

CallSetScheduler(t, enable) ==
  /\ Calling(t, "SetScheduler")
  /\ k' = SetScheduler(k, enable)
  /\ UNCHANGED pc

CallYield(t) ==
  /\ Calling(t, "Yield")
  /\ k' = Yield(k)
  /\ UNCHANGED pc

\* The Yield at the end of a call whose critical section is over.
FinishCall(t) ==
  /\ Running(t)
  /\ pc[t] = "yield"
  /\ k' = Yield(k)
  /\ pc' = [pc EXCEPT ![t] = "run"]

ThreadStep(t) ==
  \/ \E u \in Thread : \/ CallStart(t, u) \/ CallStop(t, u)
                       \/ CallExit(t, u) \/ CallInit(t, u)
  \/ \E u \in Thread, p \in Prio : CallSetPriority(t, u, p)
  \/ \E enable \in BOOLEAN : CallSetScheduler(t, enable)
  \/ CallYield(t)
  \/ FinishCall(t)

-----------------------------------------------------------------------------
(* What the interrupt handlers do *)

\* Mutant: a timer expires when its count is below zero.
TickLate ==
  /\ ~k.inTimer /\ ~k.fault /\ ~k.due
  /\ LET linked == ToSet(k.timers)
         left   == [x \in Timer |-> IF x \in linked THEN k.left[x] - 1 ELSE k.left[x]]
     IN  k' = [k EXCEPT !.inTimer  = TRUE,
                        !.left     = left,
                        !.callback = @ \cup {x \in linked : left[x] < 0}]
  /\ UNCHANGED pc

\* SysTick_Handler enters TimerList::Process: the first pass counts down.
\* A SysTick that is pending together with PendSV is served first, but the
\* next one is a period (1 ms) away: a pending PendSV lets one pass at most.
TickBegin ==
  /\ ~k.inTimer /\ ~k.fault /\ ~k.due
  /\ LET linked == ToSet(k.timers)
         left   == [x \in Timer |-> IF x \notin linked THEN k.left[x]
                                    ELSE IF k.left[x] = 0 THEN MaxTimeLeft
                                    ELSE k.left[x] - 1]
     IN  k' = [k EXCEPT !.inTimer  = TRUE,
                        !.left     = left,
                        !.callback = @ \cup {x \in linked : left[x] = 0}]
  /\ UNCHANGED pc

\* The second pass visits the list in order.  x is the node it stops at next.
Expiring(x) ==
  /\ k.inTimer /\ ~k.fault
  /\ \E i \in DOMAIN k.timers :
       /\ k.timers[i] = x
       /\ x \in k.callback
       /\ \A j \in 1 .. i - 1 : k.timers[j] \notin k.callback

QuantumExpires ==
  /\ Expiring(QuantumTimer)
  /\ k' = TimerRemove(QuantumCallback(k), QuantumTimer)
  /\ UNCHANGED pc

\* Process is over; Quantum::UpdateTimer yields if a callback asked for it.
TickEnd ==
  /\ k.inTimer /\ ~k.fault
  /\ ToSet(k.timers) \cap k.callback = {}
  /\ LET d == [k EXCEPT !.inTimer = FALSE]
         e == IF d.qAdd THEN [Yield(d) EXCEPT !.qAdd = FALSE] ELSE d
     IN  k' = [e EXCEPT !.due = e.pendsv]
  /\ UNCHANGED pc

PendSV ==
  /\ k.pendsv /\ ~k.inTimer /\ ~k.fault
  /\ k' = [k EXCEPT !.current = k.next, !.pendsv = FALSE, !.due = FALSE]
  /\ UNCHANGED pc

Interrupt == TickBegin \/ QuantumExpires \/ TickEnd \/ PendSV

Next == (\E t \in Thread : ThreadStep(t)) \/ Interrupt

Spec == Init /\ [][Next]_vars

-----------------------------------------------------------------------------
(* Properties *)

TypeOK == k \in KernelState /\ pc \in [Thread -> {"run", "yield"}]

\* The list a thread's state says it is on: the ready list of its base
\* priority, a block list, the stop list, or none after Exit.
OnItsList(t, l) ==
  CASE k.state[t] = "READY"   -> l = k.prio[t]
    [] k.state[t] = "BLOCKED" -> l \in BlockList /\ l = k.where[t]
    [] k.state[t] = "STOP"    -> l = StopList
    [] k.state[t] = "EXIT"    -> FALSE

\* A thread is on exactly the one list its state calls for, once.  This is
\* what the intrusive next/prev pointers of a thread can represent at all: a
\* second membership overwrites the first and loses other threads.
OnOneList ==
  \A l \in ListId :
    /\ \A t \in Thread : t \in ToSet(k.list[l]) <=> OnItsList(t, l)
    /\ IsInjective(k.list[l])

\* The priority map Schedule trusts has a bit for exactly the ready lists
\* that hold a thread; a stale bit makes Schedule dispatch a null head, a
\* missing one starves a level.
MapMatchesLists == k.map = {p \in Prio : k.list[p] # <<>>}

\* The thread that runs next, now or by the pending switch, is READY and no
\* READY thread has a higher priority.
SchedulesTop(s) ==
  LET t == IF s.pendsv THEN s.next ELSE s.current
  IN  s.state[t] = "READY" /\ \A u \in Thread : s.state[u] = "READY" => s.prio[u] <= s.prio[t]

\* A reschedule asked for while the scheduler is disabled survives every call,
\* callback and interrupt until the scheduler is enabled again, and the very
\* step that enables it performs it: the CPU stays with, or is handed to, a
\* READY thread of the highest priority, even if the calls that asked for it
\* are long over.
PerformsReschedule ==
  [][k.queued => IF k'.enabled THEN ~k'.queued /\ SchedulesTop(k') ELSE k'.queued]_vars

\* Application code is executing, between two kernel calls.
Settled == ~k.pendsv /\ ~k.inTimer /\ ~k.fault /\ k.enabled /\ pc[k.current] = "run"

\* Strict priority scheduling: whenever application code executes with the
\* scheduler enabled, it is the code of a READY thread and no READY thread
\* has a higher priority.
StrictPriority ==
  Settled => /\ k.state[k.current] = "READY"
             /\ \A t \in Thread : k.state[t] = "READY" => k.prio[t] <= k.prio[k.current]

\* While the scheduler is disabled the running thread keeps the CPU, whatever
\* the timer interrupt and the calls of that thread do.
DisabledKeepsCPU == [][~k.enabled => k'.current = k.current]_vars

\* The quantum timer is linked at most once and only while Quantum::m_bActive
\* says so; a second Add would cut the timer list behind it.
QuantumTimerOnce ==
  /\ \A i, j \in DOMAIN k.timers : k.timers[i] = k.timers[j] => i = j
  /\ QuantumTimer \in ToSet(k.timers) => k.qActive

\* The kernel never follows a null list pointer.
NoFault == ~k.fault

\* A thread that can run is one of the READY threads of the highest priority.
AtTop(t) == k.enabled /\ k.state[t] = "READY" /\ k.prio[t] = HighestPriority(k)

\* Round robin: a thread at the top either gets the CPU or stops being at the
\* top, however long the threads it shares the priority with compute.
RoundRobin == \A t \in Thread : AtTop(t) ~> (k.current = t \/ ~AtTop(t))

\* The hardware delivers SysTick for ever and every handler ends.  A thread in
\* the middle of a call is held up by the ticks and the threads that preempt
\* it, but it continues whenever it is given the CPU: strong fairness.
\* Application code is not assumed to do anything.
Fairness ==
  /\ WF_vars(TickBegin) /\ WF_vars(QuantumExpires) /\ WF_vars(TickEnd)
  /\ WF_vars(PendSV)
  /\ \A t \in Thread : SF_vars(FinishCall(t))

FairSpec == Spec /\ Fairness

=============================================================================
