-------------------------------- MODULE Objects --------------------------------
(***************************************************************************)
(* The kernel with everything a thread can wait for: semaphores, sleep,    *)
(* notifications, event flags, mutexes, mailboxes and message queues share *)
(* the threads, the ready lists, the timer list and the one m_bExpired,    *)
(* m_pclCurrent and stack timer each thread has.                           *)
(***************************************************************************)
EXTENDS Sleep, Notify, EventFlag, Mutex, Mailbox, MessageQueue

\* Every object is one of its own, and so is the semaphore in it.
ASSUME ObjectsAssumption ==
  /\ Note \cap Group = {} /\ Note \cap Mutexes = {} /\ Group \cap Mutexes = {}
  /\ IsInjective(RecvSem) /\ IsInjective(SendSem) /\ IsInjective(QueueSem)
  /\ \A b, c \in Box : RecvSem[b] # SendSem[c]
  /\ \A b \in Box, q \in Queue : RecvSem[b] # QueueSem[q] /\ SendSem[b] # QueueSem[q]
  /\ \A t \in Thread, b \in Box : Nap[t] # RecvSem[b] /\ Nap[t] # SendSem[b]
  /\ \A t \in Thread, q \in Queue : Nap[t] # QueueSem[q]
  /\ \A t \in Thread : SleepTimer(t) # QuantumTimer

objectVars == <<flagVars, mutexVars, boxVars, messageVars>>
all        == <<everyVar, objectVars>>

ObjectsInit ==
  SleepInit /\ FlagInit /\ MutexInit /\ BoxInit /\ MessageInit

\* SysTick_Handler: the pass over the timer list begins, calls what has expired
\* and ends.  The timeout callback of event flags is their own.
BeginPass == TickBegin /\ UNCHANGED semVars /\ Clock /\ UNCHANGED objectVars
PassGoesOn ==
  \/ /\ QuantumExpires \/ TickEnd
     /\ UNCHANGED semVars /\ Clock /\ UNCHANGED objectVars
  \/ /\ \E t \in Thread : pendOn[t] \notin Group /\ WaitExpires(t)
     /\ Clock /\ UNCHANGED objectVars
  \/ (\E t \in Thread : SleepExpires(t)) /\ UNCHANGED objectVars
  \/ /\ \E t \in Thread : FlagWaitExpires(t)
     /\ Clock /\ UNCHANGED <<mutexVars, boxVars, messageVars>>

SwitchContext == PendSV /\ UNCHANGED semVars /\ Clock /\ UNCHANGED objectVars

\* Any other interrupt.
OtherInterrupt ==
  /\ \/ ((\E s \in Shared : InterruptPosts(s)) \/ NotifyInterrupt) /\ UNCHANGED objectVars
     \/ FlagInterrupt /\ UNCHANGED <<mutexVars, boxVars, messageVars>>
  /\ Clock

\* The running thread.
ObjectsThreadStep(t) ==
  \/ ThreadStep(t) /\ UNCHANGED semVars /\ Clock /\ UNCHANGED objectVars
  \/ (SemThreadStep(t) \/ NotifyStep(t)) /\ Clock /\ UNCHANGED objectVars
  \/ SleepStep(t) /\ UNCHANGED objectVars
  \/ FlagStep(t) /\ Clock /\ UNCHANGED <<mutexVars, boxVars, messageVars>>
  \/ MutexStep(t) /\ Clock /\ UNCHANGED <<flagVars, boxVars, messageVars>>
  \/ BoxStep(t) /\ Clock /\ UNCHANGED <<flagVars, mutexVars, messageVars>>
  \/ MessageStep(t) /\ Clock /\ UNCHANGED <<flagVars, mutexVars, boxVars>>

ObjectsNext ==
  \/ BeginPass \/ PassGoesOn \/ SwitchContext \/ OtherInterrupt
  \/ \E t \in Thread : ObjectsThreadStep(t)

ObjectsSpec == ObjectsInit /\ [][ObjectsNext]_all

-----------------------------------------------------------------------------
(* Properties *)

Where ==
  {"run", "yield", "pend", "timed", "sleep", "block", "blockT",
   "claim", "claimT", "inherit", "inheritT", "release", "wake", "unblock",
   "full", "retry", "copyIn", "sent", "take", "copyOut", "taken", "pop"}

ObjectsTypeOK ==
  /\ k \in KernelState /\ pc \in [Thread -> Where]
  /\ DOMAIN value = Sem /\ \A s \in Sem : value[s] \in 0 .. MaxValue[s]
  /\ pendOn \in [Thread -> BlockList \cup {NoList}]
  /\ expired \in [Thread -> BOOLEAN] /\ posts \in [Shared -> 0 .. 1]
  /\ elapsed \in [Thread -> 0 .. MaxElapsed]
  /\ flags \in [Group -> SUBSET Flag] /\ mask \in [Thread -> SUBSET Flag]
  /\ mode \in [Thread -> Modes \cup {"PENDING"}]
  /\ lock \in [Mutexes -> Lock] /\ held \in [Mutexes -> SUBSET Thread]
  /\ waking \in [Thread -> Wakings]
  /\ ring \in [Box -> Ring]
  /\ queue \in [Queue -> Seq(Message)] /\ hand \in [Thread -> SUBSET Message]

\* A READY thread whose m_pclCurrent names another list than the ready list it
\* is on.  A mutex leads it astray: InheritPriority leaves a READY owner where it
\* is and tells a waiter to go, when it is unblocked, to a list of the inherited
\* priority, while Scheduler::Add puts it on that of its own.
Astray(t) == k.state[t] = "READY" /\ k.where[t] # k.prio[t]

\* A Release that has chosen nobody to wake: the last waiter has timed out since
\* it found the list not empty.
ChoosesNobody(t) == pc[t] = "unblock" /\ waking[t].chosen = NoList

\* Whatever objects are mixed, and whichever of a wake-up, a timeout and an
\* interrupt comes first, a thread is on exactly the one list its state calls
\* for.  The only ways in which a list breaks, or a null pointer is used, are
\* that a thread already READY is unblocked while it is astray, and a Release
\* that wakes nobody.
SoundLists == OnOneList /\ (k.fault => \E t \in Thread : Astray(t) \/ ChoosesNobody(t))

\* Priority scheduling with inheritance: whenever application code executes with
\* the scheduler enabled, it is the code of a READY thread and no READY thread
\* has a higher priority than the effective one of that thread.
EffectivePriority ==
  Settled => /\ k.state[k.current] = "READY"
             /\ \A t \in Thread : k.state[t] = "READY" => k.prio[t] <= k.curPrio[k.current]

\* A timed wait, whatever it is for, does not block for ever.
TimedWaitEnds ==
  \A t \in Thread : (pc[t] = "timed" /\ k.state[t] = "BLOCKED")
                      ~> k.state[t] # "BLOCKED" \/ k.fault

\* The hardware delivers SysTick for ever and makes a pending switch, and a pass
\* over the timer list, which calls each callback at most once, comes to its end.
ObjectsFairness ==
  WF_k(TickBegin) /\ WF_k(PendSV) /\ []<>(~k.inTimer \/ k.fault)

=============================================================================
