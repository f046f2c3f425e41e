------------------------------ MODULE MailboxSpec ------------------------------
(***************************************************************************)
(* What a mailbox promises (public/mailbox.h): a bounded sequence of       *)
(* letters.  Every Send puts one letter in, and every Receive takes one    *)
(* out, at the end its caller asks for, or does nothing.                   *)
(***************************************************************************)
EXTENDS Integers, Sequences

CONSTANTS Thread, Box, Capacity, None

VARIABLES
  letters,   \* the letters in each box, from the tail to the head
  got,       \* the letter a thread has just been given
  side       \* the end at which the call of a thread has yet to do its work
vars == <<letters, got, side>>

Init ==
  /\ letters = [b \in Box |-> <<>>]
  /\ got = [t \in Thread |-> None] /\ side = [t \in Thread |-> None]

\* A Send or a Receive begins.
Ask(t, end) ==
  /\ side[t] = None
  /\ side' = [side EXCEPT ![t] = end] /\ got' = [got EXCEPT ![t] = None]
  /\ UNCHANGED letters

\* It ends, or has no work to do any more.
Finish(t) ==
  /\ side' = [side EXCEPT ![t] = None] /\ got' = [got EXCEPT ![t] = None]
  /\ UNCHANGED letters

\* A letter is known by its sender.
Put(t, b) ==
  /\ Len(letters[b]) < Capacity
  /\ \/ side[t] = "head" /\ letters' = [letters EXCEPT ![b] = Append(@, t)]
     \/ side[t] = "tail" /\ letters' = [letters EXCEPT ![b] = <<t>> \o @]
  /\ side' = [side EXCEPT ![t] = None]
  /\ UNCHANGED got

Take(t, b) ==
  /\ letters[b] # <<>> /\ got[t] = None
  /\ LET s == letters[b]
     IN  \/ /\ side[t] = "head" /\ got' = [got EXCEPT ![t] = s[Len(s)]]
            /\ letters' = [letters EXCEPT ![b] = SubSeq(@, 1, Len(@) - 1)]
         \/ /\ side[t] = "tail" /\ got' = [got EXCEPT ![t] = Head(s)]
            /\ letters' = [letters EXCEPT ![b] = Tail(@)]
  /\ side' = [side EXCEPT ![t] = None]

Next ==
  \E t \in Thread : \/ Finish(t) \/ \E end \in {"head", "tail"} : Ask(t, end)
                    \/ \E b \in Box : Put(t, b) \/ Take(t, b)

Spec == Init /\ [][Next]_vars

=============================================================================
