------------------------------- MODULE ThreadList -------------------------------
(***************************************************************************)
(* The lists of threads of the Mark3 kernel (kernel/ll.cpp and             *)
(* kernel/threadlist.cpp) as pure operators.  A CircularLinkList is the    *)
(* sequence read from its head to its tail; module LinkList shows that the *)
(* pointer manipulation in ll.cpp implements these operators for every     *)
(* call that respects their preconditions (a node is added to a list only  *)
(* when it is on none, and removed only from the list it is on).           *)
(***************************************************************************)
EXTENDS Integers, SequencesExt

\* CircularLinkList::PivotForward: the head moves on by one node.
PivotForward(s) == IF s = <<>> THEN s ELSE Append(Tail(s), Head(s))

\* CircularLinkList::PivotBackward: the tail becomes the head.
PivotBackward(s) == IF s = <<>> THEN s ELSE Cons(Last(s), Front(s))

\* ThreadList::Add: link behind the tail, then pivot.  Every addition
\* therefore rotates the list: <<a, b>> becomes <<b, t, a>>.
ListAdd(s, t) == PivotForward(Append(s, t))

Position(s, t) == CHOOSE i \in DOMAIN s : s[i] = t

\* ThreadList::Remove of a node that is on the list.
ListRemove(s, t) == RemoveAt(s, Position(s, t))

\* The node AddPriority inserts before.  The do-while walks from the head and
\* gives up when it reaches the tail, whose priority it does not look at
\* (unless the tail is also the head).
Compared(s) == IF Len(s) = 1 THEN {1} ELSE 1 .. Len(s) - 1

InsertPosition(s, p, pri) ==
  LET lower == {i \in Compared(s) : p > pri[s[i]]}
  IN  IF lower # {} THEN CHOOSE i \in lower : \A j \in lower : i <= j
      ELSE IF Len(s) = 1 THEN 2 ELSE Len(s)

\* ThreadList::AddPriority, with the effective priorities pri.
ListAddPriority(s, t, pri) ==
  IF s = <<>> THEN <<t>> ELSE InsertAt(s, InsertPosition(s, pri[t], pri), t)

=============================================================================
