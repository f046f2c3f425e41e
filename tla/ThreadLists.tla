------------------------------ MODULE ThreadLists ------------------------------
(***************************************************************************)
(* What the kernel's lists promise: every list is a sequence of nodes, and *)
(* each operation changes the one list it is called on, in the way the     *)
(* operators of module ThreadList say.  Module LinkList is the pointer     *)
(* manipulation that implements it.                                        *)
(***************************************************************************)
EXTENDS ThreadList

CONSTANTS
  List,      \* the ThreadList and TimerList objects
  Double,    \* the TimerLists
  Node,      \* the Thread and Timer objects that are linked on them
  Priority   \* Thread::GetCurPriority of each node

VARIABLE lists

Init == lists = [l \in List |-> <<>>]

\* The callers' side of the contract (Kernel!OnOneList shows they keep it).
Free(n) == \A l \in List : n \notin ToSet(lists[l])

Add(l, n) ==
  /\ Free(n)
  /\ lists' = [lists EXCEPT ![l] = ListAdd(@, n)]

AddPriority(l, n) ==
  /\ Free(n)
  /\ lists' = [lists EXCEPT ![l] = ListAddPriority(@, n, Priority)]

Delete(l, n) ==
  /\ n \in ToSet(lists[l])
  /\ lists' = [lists EXCEPT ![l] = ListRemove(@, n)]

Forward(l)  == lists' = [lists EXCEPT ![l] = PivotForward(@)]
Backward(l) == lists' = [lists EXCEPT ![l] = PivotBackward(@)]

\* A timer goes behind the last one; one that is not linked may be removed.
DoubleAdd(l, n) == Free(n) /\ lists' = [lists EXCEPT ![l] = Append(@, n)]

Next ==
  \/ \E l \in List \ Double :
       \/ \E n \in Node : Add(l, n) \/ AddPriority(l, n) \/ Delete(l, n)
       \/ Forward(l) \/ Backward(l)
  \/ \E l \in Double, n \in Node : DoubleAdd(l, n) \/ Delete(l, n)

Spec == Init /\ [][Next]_lists

=============================================================================
