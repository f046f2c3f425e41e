--------------------------- MODULE ObjectsInvariant ---------------------------
(***************************************************************************)
(* The inductive invariant of the kernel with all its blocking objects:    *)
(* what the lists, the timers and the place each thread has reached in its *)
(* call have to do with each other.                                        *)
(***************************************************************************)
EXTENDS Objects, KernelInvariant

\* Places in a call where the thread has given up the READY state, or may have,
\* and still has the CPU.
Enabling == {"inherit", "inheritT"}
Yielding == {"yield", "block", "blockT"} \cup Enabling

\* Where a thread is while it is BLOCKED, and where a wait is on its stack.
Waiting == {"pend", "timed", "block", "blockT", "inherit", "inheritT"}
InWait  == Waiting \cup {"claim", "claimT", "release", "wake", "unblock"}

\* The m_clTimer of a thread is linked from Sleep to the end of its wait.
Napping(t) ==
  \/ pc[t] = "sleep" /\ value[Nap[t]] = 0
  \/ pc[t] = "pend" /\ pendOn[t] = Nap[t] /\ k.state[t] = "BLOCKED"

\* What thread t waits for, the list it is on and the timers of its frame go
\* together with the place it has reached in its call.
Placed(t) ==
  /\ pendOn[t] # NoList <=> pc[t] \in InWait
  /\ k.state[t] = "BLOCKED" => pendOn[t] = k.where[t] /\ pc[t] \in Waiting
  /\ WaitTimer(t) \in ToSet(k.timers) => pc[t] \in InTimedWait
  /\ SleepTimer(t) \in ToSet(k.timers) => Napping(t)

ObjInv ==
  /\ Good(k)
  /\ Dispatches(k, pc[k.current] \in Yielding, pc[k.current] \in Enabling)
  /\ pc \in [Thread -> Where]
  /\ value \in [Sem -> Nat] /\ expired \in [Thread -> BOOLEAN]
  /\ pendOn \in [Thread -> BlockList \cup {NoList}]
  /\ pc[Idle] \notin {"claim", "claimT"}
  /\ \A t \in Thread : Placed(t)

\* Where a Send or a Receive of a mailbox needs its frame.
Mailing == {"full", "retry", "copyIn", "sent", "take", "copyOut", "taken"}

\* A thread inside a call of a mailbox has that mailbox in its frame, and so has
\* one that waits for a semaphore of the mailbox.
Suits(f, place, on) ==
  /\ DOMAIN f = DOMAIN NoFrame
  /\ f.box \in Box \cup {NoList} /\ f.sched \in BOOLEAN /\ f.ticks \in WaitTicks \cup {0}
  /\ place \in Mailing => f.box \in Box
  /\ place = "full" => f.ticks \in WaitTicks
  /\ \A b \in Box : on \in {RecvSem[b], SendSem[b]} => f.box = b

MailInv ==
  DOMAIN mail = Thread /\ \A t \in Thread : Suits(mail[t], pc[t], pendOn[t])

\* A thread inside a Release has the CPU and has disabled the scheduler.
Releasing == {"release", "wake", "unblock"}
Occupies(t) ==
  pc[t] \in Releasing => t = k.current /\ ~k.enabled /\ pendOn[t] \in Mutexes

\* The thread it is about to wake was waiting for the mutex, and has not run since.
ChosenWaits(t) ==
  LET h == waking[t].chosen
  IN  pc[t] = "unblock" /\ h # NoList
        => h # t /\ pendOn[h] = pendOn[t] /\ pc[h] \in Waiting

WakeInv ==
  waking \in [Thread -> Wakings] /\ \A t \in Thread : Occupies(t) /\ ChosenWaits(t)

\* What a thread has in the frame of a call.
FrameInv == MailInv /\ WakeInv

-----------------------------------------------------------------------------
(* Semaphores and notifications *)

\* While no Pend has a timeout, one that stands is in its second critical section.
PendInv ==
  /\ posts \in [Shared -> 0 .. 1]
  /\ \A t \in Thread : pendOn[t] \in Shared => pc[t] = "pend"

\* While no Wait has one, it is before its Yield or after it.
ToldInv == \A t \in Thread : pendOn[t] \in Note => pc[t] \in {"block", "pend"}

-----------------------------------------------------------------------------
(* Mutexes *)

Owns(t, m) == ~lock[m].ready /\ lock[m].owner = t

\* A Claim that is about to look at the mutex can still count it; one that has
\* waited and is over has the mutex, unless it has timed out or its thread has
\* exited.  Only a thread that has claimed the mutex is inside a Release.
ClaimStands(t) ==
  pendOn[t] \in Mutexes =>
    /\ pc[t] \in {"claim", "claimT"} /\ Owns(t, pendOn[t])
         => lock[pendOn[t]].recurse < MaxRecurse
    /\ pc[t] \in Releasing => t \in held[pendOn[t]]
    /\ pc[t] \in {"wake", "unblock"} => lock[pendOn[t]].recurse = 0
    /\ pc[t] \in Waiting => \/ k.state[t] \in {"BLOCKED", "EXIT"}
                            \/ pc[t] \in InTimedWait /\ expired[t]
                            \/ Owns(t, pendOn[t])

\* A thread whose Claim has returned true, and that has not released the mutex,
\* is its owner.
LockInv ==
  /\ lock \in [Mutexes -> Lock] /\ held \in [Mutexes -> SUBSET Thread]
  /\ \A m \in Mutexes : lock[m].ready <=> lock[m].owner = NoList
  /\ \A m \in Mutexes : \A t \in held[m] : Owns(t, m)
  /\ \A t \in Thread : ClaimStands(t)

\* A mutex that is free has not been counted.  While no Claim has a timeout,
\* nobody is inside one that has, and the thread a Release has chosen still waits.
PatientInv ==
  /\ \A m \in Mutexes : lock[m].ready => lock[m].recurse = 0
  /\ \A t \in Thread : pendOn[t] \in Mutexes => pc[t] \notin InTimedWait \cup {"claimT"}
  /\ \A t \in Thread : pc[t] = "unblock" /\ waking[t].chosen # NoList
       => k.state[waking[t].chosen] = "BLOCKED"

-----------------------------------------------------------------------------
(* Event flags *)

\* No thread is BLOCKED for flags that are set.
FlagInv ==
  /\ flags \in [Group -> SUBSET Flag] /\ mask \in [Thread -> SUBSET Flag]
  /\ mode \in [Thread -> Modes \cup {"PENDING"}]
  /\ \A t \in Thread : pendOn[t] \in Group /\ k.state[t] = "BLOCKED"
       => ~Matches(mask[t], mode[t], flags[pendOn[t]])

\* While no wait for flags has a timeout, a thread that waits wants some, and
\* one that is not BLOCKED any more was released by a Set, with flags to return.
ReleasedInv ==
  \A t \in Thread : pendOn[t] \in Group =>
    /\ pc[t] \notin InTimedWait /\ mask[t] # {}
    /\ k.state[t] # "BLOCKED" => mode[t] = "PENDING"

-----------------------------------------------------------------------------
(* Message queues *)

\* Thread t has a token of queue q: it is about to take a message, or its Pend
\* has been granted and it has not run since.
Holds(t, q) == from[t] = q /\ k.state[t] # "BLOCKED" /\ ~TimedOut(t)
Holders(q)  == {t \in Thread : Holds(t, q)}
Tokens(q)   == value[QueueSem[q]] + Cardinality(Holders(q))

\* A thread inside a Receive waits for the semaphore of its queue, or takes a
\* message of that queue.  A timeout leaves nobody BLOCKED.
Receiving(t) ==
  /\ from[t] \in Queue <=> pc[t] = "pop" \/ \E q \in Queue : pendOn[t] = QueueSem[q]
  /\ \A q \in Queue : pendOn[t] = QueueSem[q] =>
       /\ from[t] = q /\ pc[t] \in {"pend", "timed"}
       /\ k.state[t] = "BLOCKED" => ~TimedOut(t)

\* Message x is in the pool, in a queue or in a thread's hand, once.
Once(x) ==
  /\ x \in ToSet(pool) => /\ \A q \in Queue : x \notin ToSet(queue[q])
                          /\ \A t \in Thread : x \notin hand[t]
  /\ \A q, r \in Queue : x \in ToSet(queue[q]) /\ x \in ToSet(queue[r]) => q = r
  /\ \A q \in Queue, t \in Thread : x \in ToSet(queue[q]) => x \notin hand[t]
  /\ \A t, u \in Thread : x \in hand[t] /\ x \in hand[u] => t = u

MessagesApart ==
  /\ pool \in Seq(Message) /\ queue \in [Queue -> Seq(Message)]
  /\ hand \in [Thread -> SUBSET Message]
  /\ IsInjective(pool) /\ \A q \in Queue : IsInjective(queue[q])
  /\ \A x \in Message : Once(x)

QueueInv ==
  /\ MessagesApart
  /\ from \in [Thread -> Queue \cup {NoList}] /\ \A t \in Thread : Receiving(t)

\* A token stands for a message.
TokenInv == \A q \in Queue : Tokens(q) <= Len(queue[q])

\* While no Receive has a timeout, a message has a token.
MessageInv ==
  /\ \A q \in Queue : Len(queue[q]) <= Tokens(q)
  /\ \A t \in Thread : from[t] \in Queue => pc[t] \notin InTimedWait

-----------------------------------------------------------------------------
(* Mailboxes *)

\* The head of a ring is as far from its tail as there are slots in use.
Fits(r) == r \in Ring /\ r.head = (r.tail + (Capacity - r.free)) % Capacity

Mail == [box : Box \cup {NoList}, end : {"head", "tail"}, ticks : WaitTicks \cup {0},
         sched : BOOLEAN, slot : Slot, letter : Thread \cup {NoList}]

\* The slot last claimed at an end of a ring, and the one last made free.
LastClaimed(r, end) == IF end = "tail" THEN After(r.tail) ELSE r.head
LastFreed(r, end)   == IF end = "tail" THEN r.tail ELSE After(r.head)

\* A thread that copies has the CPU and the scheduler disabled, and copies to the
\* slot last claimed at its end of the ring, or from the one last made free.
CopyStands(t) ==
  LET f == mail[t]
      r == ring[f.box]
  IN  /\ pc[t] \in {"copyIn", "copyOut"} => t = k.current /\ ~k.enabled
      /\ pc[t] = "copyIn"  => r.free < Capacity /\ f.slot = LastClaimed(r, f.end)
      /\ pc[t] = "copyOut" => r.free > 0 /\ f.slot = LastFreed(r, f.end)

\* A thread that waits for a letter is in a Pend; a timeout leaves nobody BLOCKED.
Collects(t) ==
  \A b \in Box : pendOn[t] = RecvSem[b] => /\ pc[t] \in {"pend", "timed"}
                                           /\ k.state[t] = "BLOCKED" => ~TimedOut(t)

BoxInv ==
  /\ ring \in [Box -> Ring] /\ \A b \in Box : Fits(ring[b])
  /\ mail \in [Thread -> Mail]
  /\ \A t \in Thread : CopyStands(t) /\ Collects(t)
  /\ \A t \in Thread : pc[t] # "taken" => mail[t].letter = NoList

\* A frame is left when its Send or its Receive ends.
InBoxCall(t) == pc[t] \in Mailing \/ \E b \in Box : pendOn[t] \in {RecvSem[b], SendSem[b]}
SpentInv == \A t \in Thread : mail[t].box # NoList => InBoxCall(t)

\* Thread t has put a letter into the box that no token stands for yet, or has a
\* token for one that it has not taken out yet.
Bears(t, b) ==
  \/ mail[t].box = b /\ pc[t] \in {"take", "copyOut", "sent"}
  \/ pendOn[t] = RecvSem[b] /\ k.state[t] # "BLOCKED" /\ ~TimedOut(t)
Bearers(b) == {t \in Thread : Bears(t, b)}
Stamps(b)  == value[RecvSem[b]] + Cardinality(Bearers(b))

\* A token, or a thread that will post or has taken one, stands for a letter.
StampInv == \A b \in Box : Stamps(b) <= Len(Letters(b))

\* While no Receive has a timeout, a letter has a token or such a thread.
LetterInv ==
  /\ \A b \in Box : Len(Letters(b)) <= Stamps(b)
  /\ \A t \in Thread, b \in Box : pendOn[t] = RecvSem[b] => pc[t] \notin InTimedWait

-----------------------------------------------------------------------------
(* Sleep *)

\* The timer of a sleeping thread has no more to count than was asked for, and
\* the tick for the running millisecond; SysTick calls it back when its count is
\* zero, and counts no further.
NapStands(t) ==
  LET x == SleepTimer(t)
  IN  x \in ToSet(k.timers) => /\ 1000 * (k.left[x] - 1) <= asked[t]
                               /\ k.left[x] = 0 <=> x \in k.callback
                               /\ x \in k.callback => k.inTimer

NapInv ==
  /\ asked \in [Thread -> Nat] /\ elapsed \in [Thread -> 0 .. MaxElapsed]
  /\ \A t \in Thread : NapStands(t)

\* What a thread has still to sleep: nothing once its timer is off the list.
ToGo(t) == IF SleepTimer(t) \in ToSet(k.timers) THEN k.left[SleepTimer(t)] ELSE 0

\* The ticks of a Sleep, seen and to come, are more than it was asked for.
RestInv ==
  \A t \in Thread, ms \in SleepMs :
    Sleeping(t) /\ asked[t] = 1000 * ms => elapsed[t] + ToGo(t) > ms

=============================================================================
