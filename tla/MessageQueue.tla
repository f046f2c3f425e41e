------------------------------ MODULE MessageQueue ------------------------------
(***************************************************************************)
(* Message queues and the global pool their messages come from.  A queue   *)
(* has a semaphore of its own that counts its messages; Receive waits for  *)
(* it and takes the message in a critical section of its own.              *)
(***************************************************************************)
EXTENDS Semaphore

CONSTANTS
  Queue,      \* the MessageQueue objects
  Message,    \* the messages of the pool
  QueueSem    \* m_clSemaphore of each queue

ASSUME MessageAssumption ==
  /\ IsFiniteSet(Message) /\ NoList \notin Queue
  /\ QueueSem \in [Queue -> Sem \ Shared]
  /\ \A q \in Queue : MaxValue[QueueSem[q]] = Cardinality(Message)

VARIABLES
  pool,    \* GlobalMessagePool::m_clList
  queue,   \* m_clLinkList of each queue
  hand,    \* the messages each thread has popped or received
  from     \* the queue of the Receive a thread is inside
messageVars == <<pool, queue, hand, from>>

MessageInit ==
  /\ pool = SetToSeq(Message)
  /\ queue = [q \in Queue |-> <<>>]
  /\ hand = [t \in Thread |-> {}] /\ from = [t \in Thread |-> NoList]

\* GlobalMessagePool::Pop of an empty pool returns null.
CallPop(t) ==
  /\ Calling(t, "Pop")
  /\ pool # <<>>
  /\ hand' = [hand EXCEPT ![t] = @ \cup {Head(pool)}]
  /\ pool' = Tail(pool)
  /\ UNCHANGED <<allVars, queue, from>>

CallPush(t, x) ==
  /\ Calling(t, "Push") /\ x \in hand[t]
  /\ hand' = [hand EXCEPT ![t] = @ \ {x}]
  /\ pool' = Append(pool, x)
  /\ UNCHANGED <<allVars, queue, from>>

\* The post, and the Yield in it, are inside the critical section of Send.
CallSendMessage(t, q, x) ==
  /\ Calling(t, "SendMessage") /\ x \in hand[t]
  /\ hand' = [hand EXCEPT ![t] = @ \ {x}]
  /\ queue' = [queue EXCEPT ![q] = Append(@, x)]
  /\ PostInside(QueueSem[q])
  /\ UNCHANGED <<pool, from>>

CallReceiveMessage(t, q) ==
  /\ Calling(t, "ReceiveMessage")
  /\ Pend(t, QueueSem[q], "pop")
  /\ from' = [from EXCEPT ![t] = q]
  /\ UNCHANGED <<pool, queue, hand>>

CallTimedReceiveMessage(t, q, ticks) ==
  /\ Calling(t, "TimedReceiveMessage")
  /\ TimedPend(t, QueueSem[q], ticks, "pop")
  /\ from' = [from EXCEPT ![t] = q]
  /\ UNCHANGED <<pool, queue, hand>>

\* Mutant: what Pend returns is not looked at.
MessageWakesAnyway(t) ==
  /\ from[t] \in Queue /\ pendOn[t] = QueueSem[from[t]]
  /\ PendEnds(t, "pop")
  /\ UNCHANGED messageVars

\* A Receive that times out returns null.
MessageWakes(t) ==
  /\ from[t] \in Queue /\ pendOn[t] = QueueSem[from[t]]
  /\ PendEnds(t, IF TimedOut(t) THEN "run" ELSE "pop")
  /\ from' = IF TimedOut(t) THEN [from EXCEPT ![t] = NoList] ELSE from
  /\ UNCHANGED <<pool, queue, hand>>

\* The head of the queue is removed without a look whether there is one.
MessagePops(t) ==
  /\ Running(t) /\ pc[t] = "pop"
  /\ LET q == from[t]
     IN  IF queue[q] = <<>>
         THEN k' = [k EXCEPT !.fault = TRUE] /\ UNCHANGED <<queue, hand>>
         ELSE /\ hand' = [hand EXCEPT ![t] = @ \cup {Head(queue[q])}]
              /\ queue' = [queue EXCEPT ![q] = Tail(@)]
              /\ UNCHANGED k
  /\ pc' = [pc EXCEPT ![t] = "run"]
  /\ from' = [from EXCEPT ![t] = NoList]
  /\ UNCHANGED <<semVars, pool>>

MessageStep(t) ==
  \/ CallPop(t) \/ \E x \in Message : CallPush(t, x)
  \/ \E q \in Queue :
       \/ \E x \in Message : CallSendMessage(t, q, x)
       \/ CallReceiveMessage(t, q)
       \/ \E ticks \in WaitTicks : CallTimedReceiveMessage(t, q, ticks)
  \/ MessageWakes(t) \/ MessagePops(t)

-----------------------------------------------------------------------------
(* Properties *)

\* The tokens of a queue, and the receivers that hold one.
Claims(q) ==
  value[QueueSem[q]]
    + Cardinality({t \in Thread : from[t] = q /\ (pc[t] = "pop" \/ Phase(t) = "granted")})

\* Receive never takes the head of an empty queue, whichever receivers and
\* senders come between its Pend and its critical section.
MessageForToken == \A q \in Queue : Claims(q) <= Len(queue[q])

\* No message stays behind in a queue without a token or a receiver for it.
NoMessageForgotten == \A q \in Queue : Len(queue[q]) <= Claims(q)

=============================================================================
