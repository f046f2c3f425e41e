-------------------------------- MODULE Mailbox --------------------------------
(***************************************************************************)
(* Mailboxes: Send and Receive at the head or the tail of a ring of slots, *)
(* without and with a timeout.  Each box has two semaphores of its own: one *)
(* counts the letters, one notes that a slot has become free.              *)
(*                                                                         *)
(* A slot is claimed in a critical section and copied to after it, with    *)
(* only the scheduler disabled.  Mailboxes are used by threads only.       *)
(***************************************************************************)
EXTENDS Semaphore

CONSTANTS
  Box,        \* the Mailbox objects
  Capacity,   \* m_u16Count
  Ends,       \* the ends used, of "head" and "tail"
  RecvSem,    \* m_clRecvSem of each box
  SendSem     \* m_clSendSem of each box

ASSUME MailboxAssumption ==
  /\ Capacity \in Nat \ {0} /\ Ends \subseteq {"head", "tail"} /\ NoList \notin Box
  /\ RecvSem \in [Box -> Sem \ Shared] /\ SendSem \in [Box -> Sem \ Shared]
  /\ \A b \in Box : MaxValue[RecvSem[b]] = Capacity /\ MaxValue[SendSem[b]] = 1

VARIABLES
  ring,   \* the head, tail, free count and slots of every box
  mail    \* what each thread's Send or Receive has in its frame
boxVars == <<ring, mail>>

Slot == 0 .. Capacity - 1

\* A letter is the thread that sent it.  NoList is an empty slot or no letter.
Ring == [head : Slot, tail : Slot, free : 0 .. Capacity, slots : [Slot -> Thread \cup {NoList}]]

\* ticks is 0 for a call without a timeout.
Frame(b, end, ticks) ==
  [box |-> b, end |-> end, ticks |-> ticks, sched |-> TRUE, slot |-> 0, letter |-> NoList]
NoFrame == Frame(NoList, "head", 0)

BoxInit ==
  /\ ring = [b \in Box |-> [head |-> 0, tail |-> 0, free |-> Capacity,
                            slots |-> [i \in Slot |-> NoList]]]
  /\ mail = [t \in Thread |-> NoFrame]

After(i)  == (i + 1) % Capacity
Before(i) == (i + Capacity - 1) % Capacity

\* The head points at the last letter, the tail at the slot before the first.
ClaimSlot(r, end) ==
  IF end = "tail" THEN [r EXCEPT !.free = @ - 1, !.tail = Before(@)]
                  ELSE [r EXCEPT !.free = @ - 1, !.head = After(@)]
\* Mutant: the tail moves before it is used.
ClaimedMoved(r, end) == IF end = "tail" THEN Before(r.tail) ELSE After(r.head)
ClaimedSlot(r, end) == IF end = "tail" THEN r.tail ELSE After(r.head)

FreeSlot(r, end) ==
  IF end = "tail" THEN [r EXCEPT !.free = @ + 1, !.tail = After(@)]
                  ELSE [r EXCEPT !.free = @ + 1, !.head = Before(@)]
ReleasedSlot(r, end) == IF end = "tail" THEN After(r.tail) ELSE r.head

-----------------------------------------------------------------------------
(* Send *)

\* Copying: the scheduler is disabled.  A full box ends a Send without a
\* timeout, and one that has waited; any other Send goes on to wait.
TrySend(t, f, again) ==
  LET b   == f.box
      off == SetScheduler(k, FALSE)
  IN  \/ /\ ring[b].free > 0
         /\ ring' = [ring EXCEPT ![b] = ClaimSlot(@, f.end)]
         /\ mail' = [mail EXCEPT ![t] = [f EXCEPT !.slot = ClaimedSlot(ring[b], f.end)]]
         /\ k' = off
         /\ pc' = [pc EXCEPT ![t] = "copyIn"]
         /\ UNCHANGED semVars
      \/ /\ ring[b].free = 0
         /\ k' = SetScheduler(off, f.sched)
         /\ IF f.ticks > 0 /\ ~again
            THEN pc' = [pc EXCEPT ![t] = "full"] /\ mail' = [mail EXCEPT ![t] = f]
            ELSE pc' = [pc EXCEPT ![t] = "run"] /\ mail' = [mail EXCEPT ![t] = NoFrame]
         /\ UNCHANGED <<semVars, ring>>

CallSend(t, b, end) ==
  /\ Calling(t, "Send")
  /\ TrySend(t, [Frame(b, end, 0) EXCEPT !.sched = k.enabled], FALSE)
CallTimedSend(t, b, end, ticks) ==
  /\ Calling(t, "TimedSend") /\ t # Idle /\ k.enabled
  /\ TrySend(t, Frame(b, end, ticks), FALSE)

\* The Send waits for the other semaphore, once, and tries again.
SendWaits(t) ==
  /\ Running(t) /\ pc[t] = "full"
  /\ TimedPend(t, SendSem[mail[t].box], mail[t].ticks, "retry")
  /\ UNCHANGED boxVars
SendWakes(t) ==
  /\ \E b \in Box : pendOn[t] = SendSem[b]
  /\ PendEnds(t, "retry")
  /\ UNCHANGED boxVars
SendRetries(t) == Running(t) /\ pc[t] = "retry" /\ TrySend(t, mail[t], TRUE)

SendCopies(t) ==
  /\ Running(t) /\ pc[t] = "copyIn"
  /\ ring' = [ring EXCEPT ![mail[t].box].slots[mail[t].slot] = t]
  /\ k' = SetScheduler(k, mail[t].sched)
  /\ pc' = [pc EXCEPT ![t] = "sent"]
  /\ UNCHANGED <<semVars, mail>>

SendPosts(t) ==
  /\ Running(t) /\ pc[t] = "sent"
  /\ PostBy(t, RecvSem[mail[t].box])
  /\ mail' = [mail EXCEPT ![t] = NoFrame]
  /\ UNCHANGED ring

-----------------------------------------------------------------------------
(* Receive *)

CallReceive(t, b, end) ==
  /\ Calling(t, "Receive")
  /\ Pend(t, RecvSem[b], "take")
  /\ mail' = [mail EXCEPT ![t] = Frame(b, end, 0)]
  /\ UNCHANGED ring
CallTimedReceive(t, b, end, ticks) ==
  /\ Calling(t, "TimedReceive")
  /\ TimedPend(t, RecvSem[b], ticks, "take")
  /\ mail' = [mail EXCEPT ![t] = Frame(b, end, ticks)]
  /\ UNCHANGED ring

\* Mutant: what Pend returns is not looked at.
ReceiveWakesAnyway(t) ==
  /\ mail[t].box \in Box /\ pendOn[t] = RecvSem[mail[t].box]
  /\ PendEnds(t, "take")
  /\ UNCHANGED boxVars

\* The Pend is over; a Receive that timed out returns false.
ReceiveWakes(t) ==
  /\ mail[t].box \in Box /\ pendOn[t] = RecvSem[mail[t].box]
  /\ PendEnds(t, IF TimedOut(t) THEN "run" ELSE "take")
  /\ mail' = IF TimedOut(t) THEN [mail EXCEPT ![t] = NoFrame] ELSE mail
  /\ UNCHANGED ring

\* Mutant: other threads run while the letter is copied.
ReceiveTakesOpen(t) ==
  /\ Running(t) /\ pc[t] = "take"
  /\ LET f == mail[t]
     IN  /\ ring' = [ring EXCEPT ![f.box] = FreeSlot(@, f.end)]
         /\ mail' = [mail EXCEPT ![t].slot = ReleasedSlot(ring[f.box], f.end)]
  /\ pc' = [pc EXCEPT ![t] = "copyOut"]
  /\ UNCHANGED <<k, semVars>>

\* The slot counts as free before it is copied from.
ReceiveTakes(t) ==
  /\ Running(t) /\ pc[t] = "take"
  /\ LET f == mail[t]
     IN  /\ ring' = [ring EXCEPT ![f.box] = FreeSlot(@, f.end)]
         /\ mail' = [mail EXCEPT ![t].slot = ReleasedSlot(ring[f.box], f.end),
                                 ![t].sched = k.enabled]
  /\ k' = SetScheduler(k, FALSE)
  /\ pc' = [pc EXCEPT ![t] = "copyOut"]
  /\ UNCHANGED semVars

ReceiveCopies(t) ==
  /\ Running(t) /\ pc[t] = "copyOut"
  /\ mail' = [mail EXCEPT ![t].letter = ring[mail[t].box].slots[mail[t].slot]]
  /\ k' = SetScheduler(k, mail[t].sched)
  /\ pc' = [pc EXCEPT ![t] = "taken"]
  /\ UNCHANGED <<semVars, ring>>

\* Receive tells a sender about the free slot, whether or not one waits.
ReceivePosts(t) ==
  /\ Running(t) /\ pc[t] = "taken"
  /\ PostBy(t, SendSem[mail[t].box])
  /\ mail' = [mail EXCEPT ![t] = NoFrame]
  /\ UNCHANGED ring

BoxStep(t) ==
  \/ \E b \in Box, end \in Ends :
       \/ CallSend(t, b, end) \/ CallReceive(t, b, end)
       \/ \E ticks \in WaitTicks : CallTimedSend(t, b, end, ticks) \/ CallTimedReceive(t, b, end, ticks)
  \/ SendWaits(t) \/ SendWakes(t) \/ SendRetries(t) \/ SendCopies(t) \/ SendPosts(t)
  \/ ReceiveWakes(t) \/ ReceiveTakes(t) \/ ReceiveCopies(t) \/ ReceivePosts(t)

-----------------------------------------------------------------------------
(* Properties *)

In(b, where) == {t \in Thread : pc[t] = where /\ mail[t].box = b}

\* The slots from the first to the last one behind the tail.
Between(r, first, last) ==
  [i \in 1 .. last - first + 1 |-> r.slots[(r.tail + first - 1 + i) % Capacity]]

Writes(b, end) == \E t \in In(b, "copyIn") : mail[t].end = end
Reads(b, end)  == \E t \in In(b, "copyOut") : mail[t].end = end

\* The letters in the box: those between tail and head, less one whose slot is
\* claimed and not yet written, and one whose slot is free and not yet read.
Letters(b) ==
  LET n == Capacity - ring[b].free
  IN  Between(ring[b],
        IF Writes(b, "tail") THEN 2     ELSE IF Reads(b, "tail") THEN 0     ELSE 1,
        IF Writes(b, "head") THEN n - 1 ELSE IF Reads(b, "head") THEN n + 1 ELSE n)

\* The end at which the Send or the Receive of t has yet to put or take its letter.
EndFor(t) ==
  IF mail[t].box = NoList \/ pc[t] \in {"sent", "taken"} THEN NoList ELSE mail[t].end

Deque == INSTANCE MailboxSpec WITH
  None    <- NoList,
  letters <- [b \in Box |-> Letters(b)],
  got     <- [t \in Thread |-> mail[t].letter],
  side    <- [t \in Thread |-> EndFor(t)]

\* A mailbox is a bounded sequence of letters: whatever the order in which
\* senders and receivers claim, copy and are preempted, no letter is lost,
\* doubled, overwritten, torn, received from an empty box, or put in or taken
\* out at another end than the one the call is for.
KeepsLetters == Deque!Spec

\* Those that a token has been given to and that have not taken their letter.
Coming(b) ==
  Cardinality(In(b, "take") \cup In(b, "copyOut"))
    + Cardinality({t \in Thread : pendOn[t] = RecvSem[b] /\ Phase(t) = "granted"})

\* Every receiver that has a token finds a letter: Receive looks at no count of
\* its own before it moves the head.
LetterForToken ==
  \A b \in Box : value[RecvSem[b]] + Coming(b) <= Len(Letters(b))

\* No letter is forgotten in a box: each one has its token, or a receiver or
\* its sender is on the way.
NoLetterForgotten ==
  \A b \in Box : Len(Letters(b)) <= value[RecvSem[b]] + Coming(b) + Cardinality(In(b, "sent"))

=============================================================================
