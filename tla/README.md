# A verification of the Mark3 kernel

The repository boots one operating system on the STM32F746: Mark3, the C++
real-time kernel under `src/f9_os/src/mark3`, which `f9_os/src/main.c` starts
through `mark3_init()`. This directory holds TLA+ modules of its kernel (linked
lists, scheduler, quantum timer, tick interrupt, software timers, and everything
a thread can wait for: semaphores, sleep, notifications, event flags, mutexes,
mailboxes, message queues), the TLC configurations that check them, and TLAPS
proofs about the lists and their pointers, the scheduler, the timers and all the
objects threads wait for, sleep included. File names below are relative to
`src/f9_os/src/mark3/kernel` unless they start with `src/`.

    tlc -config kernel_calls.cfg MCKernel      # any configuration of the table below
    tlapm KernelProofs.tla                     # the proofs

`PROJECT.json` maps every definition to the source lines it models and lists
the runs, the hazards, and for each property a mutant (an operator marked
`Mutant` beside the definition it replaces) that the property rejects.

## 1. The system

### What runs

A single Cortex-M7 core. Threads have a fixed priority between 0 and
`KERNEL_NUM_PRIORITIES - 1` (8 levels); the idle thread is at 0. Threads of one
priority share it round robin by a quantum timer (4 ms). SysTick interrupts
every millisecond and walks the timer list. A context switch is only requested
(PendSV is pended) and happens when no other handler runs. Kernel code protects
its data with `CS_ENTER`/`CS_EXIT`, which mask all interrupts, or by disabling
the scheduler (`Scheduler::SetScheduler(false)`), which keeps the running thread
on the CPU but lets interrupts in.

### Components

| Component | Its state | Its operations | Talks to |
|---|---|---|---|
| Linked lists (`ll.cpp`, `threadlist.cpp`) | intrusive `next`/`prev` in each node, `head`/`tail` per list, a priority bitmap bit per ready list | Add, AddPriority, Remove, PivotForward, PivotBackward, InsertNodeBefore, HighestWaiter | everything |
| Scheduler (`scheduler.cpp`, `priomap.cpp`) | a ready list per priority, the stop list, the priority map, `g_pclCurrent`, `g_pclNext`, `m_bEnabled`, `m_bQueuedSchedule` | Schedule, Add, Remove, SetScheduler, QueueScheduler | threads, quantum |
| Threads (`thread.cpp`) | state, base and current priority, `m_pclCurrent`, `m_pclOwner`, a timer for Sleep, `m_bExpired` | Init, Start, Stop, Exit, Yield, SetPriority, InheritPriority, Sleep, USleep | scheduler, timers, semaphores |
| Quantum (`quantum.cpp`) | one timer, `m_bActive`, `m_bInTimer`, `bAddQuantumTimer` | AddThread, RemoveThread, UpdateTimer, its callback | timers, threads |
| Timers (`timer.cpp`, `timerlist.cpp`) | a doubly linked list of timers, each with flags, interval, time left, callback | Start, Stop, Add, Remove, Process (two passes) | SysTick, callbacks of all of the above |
| Semaphore and blocking object (`ksemaphore.cpp`, `blocking.cpp`) | count, maximum, a list of blocked threads ordered by priority | Pend, timed Pend, Post, WakeNext, Block, BlockPriority, UnBlock, timeout callback | threads, timers, scheduler |
| Interrupt port (`target/`) | PendSV and SysTick pending bits, BASEPRI/PRIMASK | SysTick_Handler, PendSV_Handler, Trigger, StartThreads | timers, quantum, scheduler |
| Mutex (`mutex.cpp`) | owner, recursion count, inherited priority | Claim, timed Claim, Release, WakeNext, timeout callback | threads, scheduler, timers |
| Event flags (`eventflag.cpp`) | 16 flags, each waiter's mask and mode | Wait, timed Wait, Set, Clear | as above |
| Notification (`notify.cpp`) | a list of waiters | Signal, Wait, timed Wait | as above |
| Messages, mailbox (`message.cpp`, `mailbox.cpp`) | queues, free counts, head and tail of the ring | Send, Receive and their timed forms | semaphores |
| Drivers, profiling, tracing, atomics, auto allocation | registries and counters | instrumentation | none of the above |
| Libraries (`../libs`) | heap blocks, stream buffers, GUI state | allocators, streamer | semaphores, mutexes |

The rest of the repository is not part of the running system. `.cproject` (line
252) excludes `scm`, `f9`, `cmd`, `xx6`, `xv6cpp`, `v6mini`, `v6minicpp` and
`sos` from the build, and two of Mark3's own unit tests; `mimix_cpp` and `os` are
compiled but nothing starts them. `cube`, `stm32f746g-disco_hal_lib` and
`test_neo` are vendor code and other applications.

### What is hard, and what must hold

* **Interrupts between two critical sections of one call.** `Stop` and `Exit`
  leave their critical section and then yield; `Sleep` links its timer and then
  pends; a timed `Pend` blocks, is switched out, and later stops its timer. The
  tick, its timer callbacks, a pended switch and other interrupts come in
  between, and they look at `g_pclCurrent`, at `m_pclCurrent` of some thread, at
  the quantum flags. *Must hold:* every thread is on exactly the list its state
  calls for; the next thread to run is a READY one of the highest priority;
  nothing dereferences a null list.
* **Postponed work.** A schedule queued while the scheduler is disabled, a
  quantum asked for by a callback in SysTick, a PendSV that is pending while
  more happens. *Must hold:* it is done, exactly once, with up to date data.
* **Time racing an answer.** A timeout callback and a Post in either order.
  *Must hold:* the caller is told what happened and no token is lost; stack
  timers never outlive their frame; every timed wait ends.
* **Two representations of one fact.** The priority map and the ready lists;
  `m_bActive` and the timer list; the intrusive pointers and the abstract list.
* **Progress.** Threads of one priority take turns even when they only compute;
  sleeping threads wake, not early and not late.
* **A walk over a list that changes.** The callbacks `Process` makes start and
  stop timers of the list it walks; `Set` unblocks members of the list it walks.
  *Must hold:* nobody is passed over or visited twice.
* **One call in several critical sections.** A mailbox moves a free count, two
  indices and two semaphores in four of them and copies in between; `Receive` of
  a message queue pends and pops in two. *Must hold:* a token always finds its
  letter, a letter keeps its token, nobody touches a slot that is being copied.
* **Exclusion by the scheduler only.** `Claim`, `Release` and the mailbox copies
  keep other threads out by disabling the scheduler, but not SysTick, whose
  timeout callbacks unblock the threads they deal with. *Must hold:* one owner,
  which is a thread that was told so.

## 2. The modules

| Module | Models |
|---|---|
| `ThreadList` | The list operations as operators on sequences (head first): what `Add` (which pivots), `Remove`, `AddPriority` and the pivots compute. |
| `ThreadLists` | Abstract specification: a set of lists changed by those operators. |
| `LinkList` | The same calls on `next`, `prev`, `head`, `tail`, assignment by assignment, for circular and for double (timer) lists; refines `ThreadLists`. |
| `TimerSpec` | Abstract specification of timers: each keeps its own time and is owed one callback per expiry. |
| `TimerList` | `Timer::Start`/`Stop` and the two passes of `TimerList::Process`, with callbacks that start and stop timers; refines `TimerSpec`. |
| `Kernel` | Scheduler, priority map, threads, quantum, timer list, SysTick, PendSV. |
| `KernelInvariant` | The inductive invariant of `Kernel`. |
| `Semaphore` | Extends `Kernel`: `Block`, `BlockPriority`, `UnBlock`; semaphores, timed waits, Post from threads and interrupts. |
| `SemaphoreSpec` | Abstract specification of semaphores as `public/ksemaphore.h` describes them: counts and waiting callers, no scheduler. |
| `Sleep` | `Sleep` and `USleep`, with history variables for the time that passed. |
| `Notify`, `NotifySpec` | Notification objects; a signal reaches at least the highest-priority thread inside a Wait, and only such threads. |
| `EventFlag` | Event flag groups: four modes, timed waits, `Set` from threads and interrupts. |
| `Mutex`, `MutexSpec` | Mutexes with recursion, inheritance and timed claims; one owner, handed over to one who waits. |
| `Mailbox`, `MailboxSpec` | The ring of slots with its two semaphores; a bounded sequence of letters, in which every Send and Receive works at the end it is for. |
| `MessageQueue` | The global pool and the queues, each with its semaphore. |
| `Objects` | The composition: every object above on one kernel, one timer list, one set of threads. |
| `ObjectsInvariant` | The inductive invariants of `Objects`. |
| `ThreadListProofs`, `LinkListProofs`, `TimerListProofs` | Proofs about sequences, the pointers, the timers. |
| `KernelProofs` | Proofs about the scheduler (`Spec`) and semaphores (`SemSpec`). |
| `ObjectsProofs`, `MutexProofs`, `WaitProofs`, `MailboxProofs` | Proofs about `ObjectsSpec`: the kernel under all objects; mutexes, event flags and sleep; message queues, semaphores and notifications; mailboxes. |
| `MC*` | Small instances: priorities as functions on model values. |

`Sleep`, `Notify`, `EventFlag`, `Mutex`, `Mailbox` and `MessageQueue` each extend
`Semaphore`, and `Objects` extends them all. The objects interact through the
kernel record and through what a thread has only one of: its `m_bExpired`, its
`m_pclCurrent`, its place in one wait. That is why they are checked composed.

### State and atomicity

The kernel's data is one record `k`, with a field per variable of the source
(`KernelState` names each). A kernel function is an operator from `k` to the
next `k`, because one call changes the data several times before it leaves its
critical section, and functions call each other. `pc` says where each thread is:
in application code, or between two critical sections of a call.

* A critical section is one atomic step: it masks every interrupt. So `Start`,
  `Post`, `Yield` are one step, `Stop` of the caller itself is two (the section,
  then `FinishCall` for the `Yield` at line 190 of `thread.cpp`), a `Pend` that
  waits is two (`Wait`, `PendEnds`), `Sleep` is three (`BeginSleep`,
  `SleepPends`, `SleepReturns`), and a `Wait` on a notification, which blocks in one
  section and yields in another, is three (`BlockOn`, `YieldBlocked`, `PendEnds`).
* `pendOn` names the object whose wait a thread has on its stack, `expired` is
  `m_bExpired`, and `WaitTimer(t)` is the `Timer` in the frame of a timed wait,
  whatever object it is for: a thread is inside one wait at a time.
* `Claim` runs with the scheduler disabled and interrupts enabled. It is cut where
  the kernel's data is changed: `SetScheduler(0)`; take the mutex, count it, or
  arm the timer and block; inherit and `SetScheduler(1)`; `Yield`; return. Between
  any two of these SysTick may run. `Release` is cut likewise: `SetScheduler(0)`;
  restore the priority and look at the list (`ReleaseChecks`, line 264 of
  `mutex.cpp`); choose the thread to wake (`WakeNextChooses`, line 85); unblock it, make it the
  owner and `SetScheduler(1)` (`WakeNextUnBlocks`, lines 88-91); `Yield`. `waking` is
  what it has in its frame meanwhile. A timeout may so come after the list was found
  not empty, and after a thread was chosen. Inside one step interrupts are taken to
  come before or after it.
* `UnBlock` (`blocking.cpp` 79) removes a thread from the list `m_pclCurrent` names,
  whether it is on it or not. `Remove` unlinks a node from its neighbours and moves
  only the head and tail of the list it is called for. So if the thread is on its ready
  list instead, alone or neither first nor last, the call goes on and does what it
  should; otherwise a list is left with a head or tail that is not on it (`Survives`),
  and the model sets `fault`.
* A mailbox `Send` is: claim a slot (`TrySend`), copy (`SendCopies`), post
  (`SendPosts`), and for a full box with a timeout wait once and try again
  (`SendWaits`, `SendWakes`, `SendRetries`). `Receive` is pend, release the slot
  (`ReceiveTakes`), copy (`ReceiveCopies`), post. A copy is one step of its own:
  any other thread that could touch the slot would come before it.
* A walk inside one critical section (`Set`, `Signal`) is one step; the walk of
  `Process` calls back, so `TimerList` has a step for each callback and lets any
  `Start` or `Stop` come while it runs. `FirstPass`, `CallNext`, `CallReturns`,
  `PassEnds` are the handler; `node` is its `pclNode`.
* SysTick is several steps: `TickBegin` is the first pass of
  `TimerList::Process`, then one step per expired timer in list order
  (`QuantumExpires`, `WaitExpires`, `SleepExpires`, `FlagWaitExpires`), then `TickEnd`, which is
  `Quantum::UpdateTimer`. No thread runs in between.
* SysTick has priority 14 and PendSV 15: a pending switch happens when SysTick
  is over. A SysTick that is pending at the same moment is served first, the
  following one is a millisecond away. The field `due` says that a tick has gone
  by, and keeps a second one from delaying the switch.
* `InterruptPosts`, `InterruptSignals` and `InterruptSets` are interrupt handlers of
  the application or a driver. Each is one step and may come wherever no critical section
  is in progress: between the pending of a switch and the switch, and between
  two callbacks of SysTick, which has a low priority (`kerneltimer.cpp` 59).
* `Init` is the state after `Kernel::Start` has dispatched the first thread: the
  idle thread and one more are started, the others initialised in any order.
* A null list pointer that is followed, or a list whose head or tail is left behind,
  sets `fault`, after which no step is possible. What the hardware does then (a read of
  low memory, a HardFault, threads that are lost) is not modelled.

### What callers are assumed to do

The guards of the `Call...` actions beyond "t has the CPU" are the interface's
conditions. `Start` is called for stopped threads. `Stop` and `Exit` are called
for READY or BLOCKED threads, not for the idle thread. `SetPriority` is called
for READY threads and inside a critical section, which `public/thread.h` line 239
makes the caller's duty. `Init` is called again only for a thread that exited.
Nobody blocks with the scheduler disabled, and the idle thread never blocks.
A mutex is released by the thread whose `Claim` returned true, as the assertion
at `mutex.cpp` 243 demands, and claimed no more often than it can be counted; a
message is pushed or sent by the thread that holds it; mailboxes are used by
threads only; a timer that is linked is stopped before it is started again.
Otherwise threads do anything, including nothing, in any order.

Beyond these conditions, and outside the runs, the code is fragile. Some cases, the first three of
which can be seen by changing a configuration:

* Stopping and starting a thread inside a `Pend`: the call returns as if it had
  a token. Stopping one inside a timed `Pend`: its stack timer starts it again.
  (Add `"Stop"` to `Calls` of `sem_wake_order`, or of `sem_timeout_race`, and
  check `KeepsPromise`.)
* Stopping a thread between the two halves of `Sleep`: `Stop` removes the timer
  and the thread, once restarted, sleeps for ever. (`"Stop"` in `objects_timed`.)
* `useCONDS_TO_TICKS` (`public/timer.h` line 72) does not add the running tick as
  its millisecond sibling does, so `USleep(1000)` may return at once, and it
  gives 0 for `USleep(0)`, which the first pass of `Process` counts down to
  2^32 - 1 ticks. (`SleepUs = {1000}` or `{0}` in `objects_timed`.) For this reason `SleepsLongEnough` is checked for `Sleep` only.

* `Claim` and `Release` end with `SetScheduler(true)` whatever it was before
  (`mutex.cpp` 139, 157, 199, 281): called with the scheduler disabled they enable it.
* Starting a linked timer clears its node first (`timerlist.cpp` 72), which cuts
  off the timers behind it.
* A timer stopped by its own callback ends the pass, because `GetNext` of a cleared
  node is null: the timers behind it are called one tick late (`AllCalled` says
  exactly when, `IsCalled` that they are called).
* A one-shot timer its own callback restarts is taken off when the callback returns
  (`timerlist.cpp` 220-231); `TimerSpec!Return` states it.
* The CLEAR modes of event flags clear nothing when the flags are set at the call,
  and otherwise only bits that the releasing `Set` has just set (`eventflag.cpp` 238,
  256).
* `Signal` wakes every waiter (`notify.cpp` 79-94), where `notify.h` 49-51 says that
  only the highest-priority one wakes. `NotifySpec` promises what both agree on, that
  the highest-priority waiter is among those who wake, and leaves the others open.
  A timed `Wait` returns before it sets its flag to true (`notify.cpp` 131-140,
  `notify.h` 77-78).

### Data left out

Stacks, contexts, names, entry points, profiling and the values threads compute.
Priorities, ticks and counts are unbounded integers in the model. The one
overflow the kernel can meet, 0 - 1 in a `uint32_t TimeLeft`, gives
`MaxTimeLeft`. In `Kernel` the timer flags are reduced to `callback`: the kernel's
own timers are one-shot and their callbacks start none; `TimerList` has all flags.
A letter in a mailbox is the thread that sent it, a mask a set of flags. Every thread has the default
quantum. The tickless timer, the atomics and the idle hook are compiled out in
`public/mark3cfg.h`.

## 3. The runs

Run `x` is configuration `x.cfg` of `MCLinkList` (`link_list`), `MCTimerList`
(`timer_list`), `MCKernel` (`kernel_*`), `MCSemaphore` (`sem_*`) or `MCObjects`
(`objects_*`, `mutex_inversion`).

| Run | Question, instance, and what it shows |
|---|---|
| `link_list` | Do the pointers implement lists? Four nodes with priorities 1, 2, 2, 3 on circular and double lists, every sequence of calls: `ImplementsLists` (each call does what its operator says to its list and nothing to the others), `UnlinkSafe` (what `SAFE_UNLINK`, compiled out, would check). |
| `timer_list` | Does each timer keep its own time although they share a list? Three timers, one-shot and repeating, intervals of 1 and 2 ticks, started and stopped by threads and callbacks: `ImplementsTimers` (refinement), `AllCalled`, `NoDeadTimer`, the inductive invariant `TimerInv`, and `IsCalled` under fairness. |
| `kernel_calls` | Is the scheduling decision right under every call? Idle, Main and one more thread, three priorities, quantum of 2 ticks, all calls. `OnOneList`, `MapMatchesLists`, `StrictPriority`, `QuantumTimerOnce`, `DisabledKeepsCPU`, `PerformsReschedule` (a reschedule that is queued is not dropped: the step that enables the scheduler leaves the CPU with, or pends the switch to, a thread of the highest ready priority) and the inductive invariant `IInv`. |
| `kernel_round_robin` | Do three threads of one priority that may compute for ever all get the CPU? `RoundRobin` under `FairSpec`, while they start, stop and yield. |
| `objects_untimed` | Do the objects keep their promises when only threads use them? `KeepsPromise`, `SignalsReachHighest`, `KeepsLock`, `KeepsLetters` (refinements of the four abstract specifications), `NobodyMissesFlags`, `ReleasedWithFlags`, a letter for every token and a token for every letter and message (`LetterForToken`, `NoLetterForgotten`, `NoMessageForgotten`), and strict priority with inheritance (`EffectivePriority`). |
| `objects_timed` | Timed waits raced by threads and by interrupts: `SoundLists` (each thread is on the one list its state calls for, and a list breaks in two ways only, see Deadlock), `NoDanglingTimer`; `MutualExclusion`, `KeepsLetters`, `LetterForToken`, `MessageForToken`, `NobodyMissesFlags` hold whichever comes first; `SleepsLongEnough`, `NeverOversleeps`; every timed wait and every sleep ends (`TimedWaitEnds`, `SleepEnds`). |

**Which objects together.** The objects of a behaviour are chosen in its initial
state: `using` is a member of the constant `Together`, and no step changes what is
not in it (`Unused`). So one run has behaviours with each kind of object alone and
with the pairs that meet in the code by what they block with: a mutex and a
notification (`BlockPriority` with inheritance beside `Block`), flags and a
notification, sleep and a mutex, sleep and a notification. All kinds at once would
be the product of state spaces whose steps commute.

**Bounds.** Two threads of one priority and a third level are enough for every
comparison the scheduler makes (below, same, above) and for a list on which a
pivot matters; round robin and the untimed objects have three threads beside the
idle thread, so that a list can have a middle. `kernel_calls` starts with Main and
another thread at one priority, and `SetPriority` moves both over all three levels.
A quantum of two ticks lets a thread be switched out before and at its end.
Timeouts of two ticks (`WaitTicks`) can expire before, after and in the same tick
as the quantum. A maximum count of 1 or 2 is reached and refused. Two lists of a
kind suffice for the link list because each operation touches one and the question
is whether it disturbs another; four nodes, because `AddPriority` treats head,
middle and tail differently. Three timers leave one before and one behind the timer
whose callback runs. `Capacity` 2 makes head and tail of a ring differ, meet and
wrap, at both ends (`Ends`); the timed box has one slot, so that it is full at once,
and is used by three threads, the idle thread (which never blocks) being the third.
Two flags tell ANY from ALL. `MaxRecurse` 1 is one recursive claim; 255 in the code
is guarded by an assertion. `MaxElapsed` saturates a history variable above every
sleep asked for. `posts`, the history of successful Posts, is kept modulo 2: a
refinement only has to tell a step that posts from one that does not.
`objects_untimed` has the modes ANY and ALL_CLEAR, `objects_timed` ANY_CLEAR: one
that clears and one that does not, for any and for all.

**Fairness.** The hardware delivers SysTick for ever, and handlers end. In `Kernel`
and `TimerList` this is weak fairness of each step of the handler and of `PendSV`.
`ObjectsFairness` says the same in another form, because TLC takes very long over
`ENABLED` of a dozen callbacks: weak fairness of `TickBegin` and `PendSV`, and a
pass that has begun ends (`[]<>(~k.inTimer \/ k.fault)`); the pass does nothing but
call each flagged timer once, so this is no more than weak fairness of its steps.
A thread in the middle of a kernel call goes on whenever it has the CPU, but it may
lose the CPU again and again, so in `FairSpec` the steps that finish a call are
strongly fair. Application code is never assumed to do anything, in particular not
to yield. `TimedWaitEnds` and `SleepEnds` need only the handlers.

**Deadlock** is not checked in `kernel_calls` and `objects_timed`, where `fault` ends
the behaviour. In `objects_timed` this happens in two ways, and `SoundLists` says
that there is no third:

* A thread that is READY already is unblocked while it is *astray*: its `m_pclCurrent`
  names another ready list than the one it is on. `Release` has granted it the mutex or
  chosen it, its timeout unblocks it as well, and inheritance by a third thread has
  meanwhile told it to go to a list of the inherited priority while
  `Scheduler::Add` uses its own (`mutex.cpp` 71, `blocking.cpp` 79,
  `thread.cpp` 413). If the thread is first or last of several on its ready list,
  that list is broken.
* A `Release` *chooses nobody*: the last waiter times out after line 264 of
  `mutex.cpp` has found the list not empty and before line 85 asks for
  its head, and line 88 follows the null pointer.

### Disagreements between the code and what it says

Six runs end in a counterexample.

| Run | What it shows |
|---|---|
| `kernel_exit_quantum` | `Exit` of the running thread clears `m_pclCurrent` (`thread.cpp` 222) and yields after its critical section. If the quantum timer of that thread expires in between, `QuantumCallback` (`quantum.cpp` 66-69) passes its priority test and follows the null pointer. The comment at `thread.cpp` 226-230 was written for exactly this window. |
| `kernel_disabled_quantum` | A quantum that expires while the scheduler is disabled pivots the list and queues a Yield. The Yield that enabling performs can find the running thread at the head again, does not renew the quantum, and `m_bActive` stays set: no thread of that priority is rotated in any more (`thread.cpp` 337, `quantum.cpp` 90). `scheduler.h` 34-36 promises progress. |
| `sem_timeout_race` | A tick that expires a waiter's timer after a Post has woken it sets `m_bExpired` all the same (`ksemaphore.cpp` 62): `Pend` reports a timeout and the token is lost (`ksemaphore.h` 112-113). |
| `sem_interrupt_wake` | `WakeNext` compares with `g_pclCurrent` (`ksemaphore.cpp` 94). Between the Yield of a blocking thread and PendSV that is the blocked thread; an interrupt that wakes a thread of lower priority than the blocked one, but of higher priority than the one about to run, does not yield. Strict priority is lost until the next schedule (`scheduler.h` 29-30). |
| `mutex_inversion` | `InheritPriority` (`thread.cpp` 411-415) sets the owner's `m_pclOwner` and priority and leaves it, when READY, on the ready list of its old priority, where `Schedule` finds it. Main owns a mutex, t1 of priority 3 waits for it, and t2 of priority 2 keeps the CPU from Main: the inversion the comment at `mutex.cpp` 178-180 sets out to prevent. The priority counts again once the owner has been blocked and woken. |
| `sem_wake_order` | `AddPriority` never compares with the tail (`threadlist.cpp` 86): a third waiter is inserted in front of a tail of higher priority (`threadlist.h` 92-93, `ksemaphore.h` 70). |

The passing runs avoid these windows openly: `StrictPriority` and `EffectivePriority`
are checked without interrupt Posts, `KeepsPromise`, `KeepsLock`, `SignalsReachHighest`,
`ReleasedWithFlags`, `NoLetterForgotten` and `NoMessageForgotten` without timeouts
(with them each fails in the way of `sem_timeout_race`: the callbacks of `Notify`,
`EventFlag` and `Mutex` set `m_bExpired` as unconditionally as the semaphore's),
`RoundRobin` without `SetScheduler`, and `kernel_calls` lets the null pointer end
the run. `EffectivePriority` compares the base priority of those who are ready with
the effective one of who runs; `NoInversion` is the stronger statement that fails.

## 4. The proofs

`ThreadListProofs` proves what the list operators return: `ListAdd` of a new
thread and `ListRemove` of a present one give a sequence over the same type,
without repetition, with exactly one element more or less; `PivotForward` keeps
length and elements; inserting anywhere in a list (`InsertFacts`) adds one element.

`KernelProofs` proves, for any finite set of threads, any number of priorities,
any quantum and any set of calls, from `KernelAssumption` (there is an idle
thread at priority 0 and another thread above it; list names are distinct; the
quantum is positive):

* `Invariance`: `Spec => []IInv`.
* `TypeCorrect`, `ListsConsistent` (`OnOneList`), `MapConsistent`,
  `StrictPriorityHolds`, `QuantumTimerLinkedOnce`.
* `DisabledKeeps` and `ReschedulePerformed`: the action properties `DisabledKeepsCPU`
  and `PerformsReschedule`.

**The inductive invariant.** `StrictPriority` speaks of the moments at which
application code runs with the scheduler enabled. Nothing in it says that the
thread a pending PendSV will dispatch is the right one, that a thread which
stopped itself still owes a Yield, or that a reschedule is queued when the
scheduler is disabled, so it is not preserved by `PendSV`, `FinishCall` or
`SetScheduler`. `IInv` adds just these (`Scheduled` in `KernelInvariant`):

* `Good`: types; the lists hold exactly the threads whose state says so, each
  once; the map agrees with the ready lists; the timer list has no timer twice
  and the quantum timer only when it is active; the idle thread is READY (which
  is why `Schedule` always finds a list).
* `Uninherited`: `m_uXCurPriority` equals `m_uXPriority`, while there is no mutex.
* `pendsv` implies the scheduler is enabled and `next` is at the top.
* enabled, no switch pending, and not about to yield: the current thread is at
  the top.
* disabled: the current thread is running, READY, no switch is pending, and
  either a reschedule is queued or it is at the top anyway.
* enabled implies nothing is queued.

The argument goes function by function: each operator of `Kernel` has a lemma
saying what it keeps of `Good` and of who is at the top (`LinkFacts`,
`UnlinkFacts`, `QuantumAddFacts`, `ScheduleFacts`, `YieldFacts`, ...), each call a
lemma saying that it re-establishes `Scheduled` (`StartScheduled`,
`SetPriorityScheduled`, ...), and `NextIInv` collects one step per action.
`QuantumAdd` needs `qActive` to be tied to the timer list; without that conjunct
the quantum timer could be linked twice.

`PerformsReschedule` says two things of every step that begins with the scheduler
disabled and a reschedule queued: the step keeps both, or it enables the scheduler and
then the thread that runs, or the one a pending switch dispatches, is at the top.
Each operator has a lemma that it keeps what is owed (`Owed`), and
`SetScheduler(true)` one that it performs it (`Performed`), by the Yield it makes; an
operator that only cleared the flag would fail the latter.

`KernelProofs` also proves about `SemSpec`, for any semaphores and timeouts as well
(`SemaphoresAssumption`), and any calls but one (`"Init" \notin Calls`):

* `SemInvariance`: `SemSpec => []SemInv`.
* `SemListsConsistent` (`OnOneList`), `SemMapConsistent`, `SemReschedulePerformed`
  (`PerformsReschedule`), and
  `NoTimerDangles` (`NoDanglingTimer`).

`IInv` is not kept by semaphores: its claim that the next thread is at the top is what
`sem_interrupt_wake` refutes. `SemInv` keeps `Good` and replaces that claim by a weaker
one (`Dispatches`): the thread that runs, or that a pending switch dispatches, is READY,
unless the running thread stopped itself and is about to yield. This much is needed,
because blocking takes the caller off a ready list, where it must be. Every call finds
its caller READY (`CallerReady`), blocking ends with a Yield that finds another thread
(`YieldDispatches`), and waking makes a thread READY and changes nothing else that
matters (`UnBlockDispatches`). The order in which `AddPriority` queues does not matter
here, only that it adds one thread (`ListAddPriorityFacts`, `InsertPositionRange`).
`NoDanglingTimer` is a conjunct of `SemInv` because the timer of a timed `Pend` may only
be added when it is not linked, which is so because its thread is in application code.
`Init` is excluded because a thread that exits inside a timed `Pend` leaves the timer
linked, and becomes one in application code when it is initialised again. `SemInv` was
model-checked on a small instance before the proof.

`TimerListProofs` proves, for any set of timers and any positive intervals
(`TimerListAssumption`):

* `TimerInvariance`: `Spec => []TimerInv`; from it `TimersTypeCorrect`,
  `EveryExpiryCalled` (`AllCalled`) and `NoTimerDead` (`NoDeadTimer`).
* `TimersImplemented`: `Spec => ImplementsTimers`, the refinement of `TimerSpec`.

`AllCalled` speaks of the end of a pass. `TimerInv` adds what holds inside one: every
flagged timer is at or behind the node the walk stands at (unless a callback has
stopped its own timer, `cut`). That is preserved because `Add` links at the tail
(`AppendKeepsPlaces`), because `Remove` keeps the order of the others
(`RemoveKeepsOrder`), and because `GetNext` is read after the callback and before
the one-shot timer is removed (`GetNextFacts`). The refinement needs the other new
conjunct: a linked timer is inactive exactly when it is a one-shot timer with
nothing left to count.

`LinkListProofs` proves, for any finite set of nodes, any priorities and any lists of
both kinds (`LinkListAssumption`):

* `LinkInvariance`: `Spec => []LinkInv`; from it `PointersTypeCorrect` (`TypeOK`) and
  `UnlinksAreSafe` (`UnlinkSafe`).
* `ListsImplemented`: `Spec => ImplementsLists`: the assignments to `next`, `prev`,
  `head` and `tail` do what the operators of `ThreadList` say.

The mapped value of a list is what one reads off by following `next` from the head
(`Walk`). `LinkInv` says what makes this a list: the walk is a sequence without
repetition of nodes that belong to the list, each linked to its neighbours both ways
(`Linked`, and `Chained` for the circular ones between head and tail), and no node is on
two. Conversely a sequence so linked is what the walk reads (`PathExists`, `PathPasses`,
`ReadingIs`); the library's induction theorems cannot be instantiated, so these argue
from a least counterexample. Each call then has one lemma, which names the sequence the
new pointers chain (`AddBecomes`, `AddPriorityBecomes`, `ForwardBecomes`,
`BackwardBecomes`, `DeleteBecomes`, `DoubleAddBecomes`, `DoubleRemoveBecomes`), and
`EachCall` collects them. `AddPriority` needs one more argument, that its loop
over the pointers ends where `InsertPosition` counts to in the sequence (`StopExists`,
`StopIs`, `StopsBefore`).

**All objects together.** `ObjectsProofs` and the three modules that extend it prove about
`ObjectsSpec`, the composition, for any finite set of threads, any objects of each kind,
timeouts, priorities, capacities and calls, from the assumptions the modules state
(`KernelAssumption`, `SemaphoresAssumption`, `SleepAssumption`, `NotifyAssumption`,
`EventFlagAssumption`, `MutexAssumption`, `MailboxAssumption`, `MessageAssumption`,
`ObjectsAssumption`: names are distinct, capacities are positive). A theorem excludes the
calls named in its last column and no others; "no Stop" in particular stands for: no
thread is stopped while it is inside a blocking call, which the model can only say of
all threads.

| Theorem | Of | States | Excludes |
|---|---|---|---|
| `ObjectsInvariance` | `ObjectsProofs` | `[](ObjInv /\ FrameInv)` | Init |
| `NoFrameTimerDangles`, `ObjectsMapConsistent`, `ObjectsReschedulePerformed` | | `NoDanglingTimer`, `MapMatchesLists`, `PerformsReschedule` | Init |
| `LockInvariance`, `MutualExclusionHolds` | `MutexProofs` | `[]LockInv`, `MutualExclusion` | Init, Stop |
| `LockKept` | | `KeepsLock`: refines `MutexSpec` | Init, Stop, Exit, TimedClaim |
| `FlagInvariance`, `FlagsNotMissed` | | `[]FlagInv`, `NobodyMissesFlags` | Init |
| `FlagsForReleased` | | `ReleasedWithFlags` | Init, Stop, Exit, TimedWaitFlags |
| `NapInvariance`, `NobodyOversleeps` | | `[]NapInv`, `NeverOversleeps`, if `0 \notin SleepUs` | Init |
| `NobodyWakesEarly` | | `SleepsLongEnough`, if `0 \notin SleepUs` | Init, Stop, Exit |
| `QueueInvariance`, `MessageThere` | `WaitProofs` | `[](QueueInv /\ TokenInv)`, `MessageForToken` | Init, Stop, Exit |
| `MessagesRemembered` | | `NoMessageForgotten` | Init, Stop, Exit, TimedReceiveMessage |
| `PromiseKept` | | `KeepsPromise`: refines `SemaphoreSpec` | Init, Stop, Exit, TimedPend |
| `SignalsReach` | | `SignalsReachHighest`: refines `NotifySpec` | Init, Stop, Exit, TimedWait |
| `BoxInvariance`, `LetterThere` | `MailboxProofs` | `[](BoxInv /\ SpentInv /\ StampInv)`, `LetterForToken` | Init, Stop, Exit |
| `LettersRemembered` | | `NoLetterForgotten` | Init, Stop, Exit, TimedReceive |
| `LettersKept` | | `KeepsLetters`: refines `MailboxSpec` | Init, Stop, Exit |

Each exclusion is a way the code itself breaks the property, not a convenience:

* `Init` of a thread that exited inside a timed call: its stack timer is still linked.
* `Stop`, and `Start` after it, of a thread inside a blocking call, and `Exit` inside
  one: the call returns as if it had succeeded, or never (section 2).
* The timed form of the object's own call, where a theorem excludes it: a tick that
  expires the timer after the answer has come loses the token, the mutex, the letter or
  the flags (`sem_timeout_race`). The timed calls of all *other* objects stay in; and
  the theorems that keep their own timed calls in (`MutualExclusionHolds`,
  `MessageThere`, `LetterThere`, `LettersKept`, `FlagsNotMissed`) say what survives it.

**The invariant `ObjInv`.** `Good` is the consistency of the kernel's data; inheritance
only costs it the claim that `m_uXCurPriority` equals `m_uXPriority` (`Uninherited`,
which `IInv` adds). `Dispatches` says what thread the CPU goes to next, as in `SemInv`.
`Placed` ties each thread's state, list and timers to the place it has reached in its
call: BLOCKED only inside a wait and on the list of the object of that wait, a wait timer
linked only inside a timed wait, the thread's own timer only while it naps. `FrameInv`
is about frames: which mailbox a thread in a mailbox call has in it (`MailInv`); and that
a thread inside `Release` has the CPU with the scheduler disabled, and that the one it
has chosen was waiting and has not run since, whatever ticks have come (`WakeInv`).

**The argument.** Forty actions times ten invariants is too much to prove one by one, so
the proof is cut twice. For `ObjInv`, a step is about one thread and leaves the others
where they are (`Alone`), or makes waiters of one object READY, and each kind is one
lemma. For the objects, `Elsewhere(B)` says that a step has nothing to do with the waits
for objects outside `B`, and `EveryStep` puts every action on one of a few sides
(`MutexSide`, `FlagSide`, `BoxSide`, `QueueSide`, ...), each of which leaves the
variables and the waits of all other objects alone (`Minding`) or only passes a waiter
on (`Passing`). So a proof about mutexes looks at
the dozen actions of `Mutex` and at what the tick, `Stop` and dispatching do to a waiter.

* **Mutexes.** `MutualExclusion` says nothing of a thread that was made the owner while it
  still waits, so `LockInv` adds it (`ClaimStands`): a Claim that has waited and is over
  has the mutex, unless its timeout came first; one that is about to look can still count
  it. Only the fact that a waiter has left the list when it is granted the mutex, which is
  `Placed`, makes `WakeNext` give it to one thread.
* **Event flags.** `FlagInv`: nobody is BLOCKED for flags that are set. A `Set` is a walk
  over a list of any length (`UnBlockEach`, a fold); what it does is proved by induction
  over the set of those it releases (`FoldWakes`, `EachWakes`).
* **Message queues.** A token may be in the semaphore or on its way with a receiver that
  has been woken and has not run (`Holds`); `TokenInv` counts both against the length of
  the queue, and `MessagesApart` keeps every message in one place so that a send does add
  one. `TokenInv` is one half of the equality, `MessageInv` the other; a timeout keeps
  the first and loses the second.
* **Mailboxes.** `BoxInv`: head, tail and free count of the ring agree (`Fits`), and a
  slot is copied only by the thread that has the CPU with the scheduler disabled. Tokens
  and threads that bear one are counted as with queues (`StampInv`, `LetterInv`). The
  letters of a ring are a sequence read off between tail and head (`Letters`); that
  claiming or freeing a slot at either end adds or removes its first or last element is
  arithmetic modulo the capacity (`SpotSteps`, `SpotsDiffer`, `LettersIn`).
* **Sleep.** A tick counts a sleeper's timer down and flags it at zero, and only later in
  the same tick does its callback wake the sleeper. `NapInv` relates the ticks the sleeper
  has seen to the count that is left, and says that a count of zero is met only between
  the two; `RestInv` adds that the ticks seen and those to come exceed the milliseconds
  asked for. `EveryNap` goes through all actions once: each leaves the timers of sleepers
  as they are (`Steady`), takes one off the list (`TakesOff`), is the begin or the end of
  a tick, or begins a sleep. `0 \notin SleepUs` because a count of zero wraps around
  (section 2); the last theorem is about `Sleep`, not `USleep`, so it also asks that no two
  of the constants stand for the same time.
* **Refinements.** For each abstract specification, a step of an object's action is the
  abstract step of the same name or a stutter, and every other action is a stutter
  because it leaves the mapped variables alone. What a caller "has" in the abstract
  state is computed from its place, its object and its state (`PhaseFrom` in
  `MutexProofs`), so the refinement needs that a waiter is woken only with a grant:
  `PatientInv`, `PendInv`, `ToldInv` say that no timed wait is under way that could end
  otherwise. `LettersKept` needs no such thing and includes timeouts.

All these invariants were model-checked on small instances before they were proved.


**Left to TLC.** Liveness under fairness (`RoundRobin`, `IsCalled`, `TimedWaitEnds`,
`SleepEnds`) and anything about ENABLED, which the prover does not handle.
`ObjectsTypeOK`: its parts are conjuncts of the proved invariants, but no theorem states
it whole. `EffectivePriority`, and `SoundLists` of the composition. The violation
runs.

## 5. Not modelled, and what could follow

* Interrupts inside the steps that block in `Claim` (`ClaimBlocks`, `ClaimInherits`):
  between the fields of one mutex, or in the middle of `InheritPriority`. In
  `Release`, interrupts between the `Remove` and the `Add` of `SetPriority`
  (`thread.cpp` 378-381), which it calls outside a critical section.
* Mailboxes used from interrupt handlers: a receiving handler could count a slot
  free that is being read. The interface does not offer it.
* `Stop`, `Exit` and `SetPriority` of a thread inside a blocking call (section 2 says
  what happens), `SetQuantum`, `Panic`.
* An interval of 0 and other wrap-around of ticks.
* The fixed heap and the streamer of `../libs`, which use no kernel state.

Not planned: the GUI and graphics libraries, drivers and instrumentation (no
interaction with the scheduler), register save and restore (assembler), the xv6
port and the other kernels in the tree, which are not part of the build, and the
vendor code, which makes up nearly all of the repository's lines.
