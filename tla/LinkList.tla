-------------------------------- MODULE LinkList --------------------------------
(***************************************************************************)
(* The intrusive lists of the Mark3 kernel at the level of their pointers: *)
(* kernel/ll.cpp (CircularLinkList for the threads, DoubleLinkList for the *)
(* timers) and kernel/threadlist.cpp.                                      *)
(* Each action is one call, which its callers make in a critical section.  *)
(***************************************************************************)
EXTENDS ThreadList

CONSTANTS
  List,       \* the CircularLinkList and DoubleLinkList objects
  Double,     \* those that are DoubleLinkLists
  Node,       \* the LinkListNode objects (the threads and timers)
  NodeOf,     \* the nodes that are used with each list
  Priority,   \* Thread::GetCurPriority of each node
  Null

ASSUME LinkListAssumption ==
  /\ IsFiniteSet(Node) /\ Null \notin Node /\ Priority \in [Node -> Nat]
  /\ Double \subseteq List /\ NodeOf \in [List -> SUBSET Node]
  /\ \A d \in Double, l \in List \ Double : NodeOf[d] \cap NodeOf[l] = {}

VARIABLES
  next, prev,   \* LinkListNode::next, prev
  head, tail    \* LinkList::m_pstHead, m_pstTail
vars == <<next, prev, head, tail>>

Init ==
  /\ next = [n \in Node |-> Null] /\ prev = [n \in Node |-> Null]
  /\ head = [l \in List |-> Null] /\ tail = [l \in List |-> Null]

\* The nodes from the head to the tail along next, what a walk over l visits.
\* A chain that never reaches the tail is no list.
Walk(l) ==
  LET size    == Cardinality(NodeOf[l])
      path[i \in 1 .. size] == IF i = 1 \/ path[i - 1] = Null THEN head[l] ELSE next[path[i - 1]]
      lengths == {i \in 1 .. size : path[i] = tail[l]}
  IN  IF head[l] = Null THEN <<>>
      ELSE IF lengths = {} THEN <<Null>>
      ELSE SubSeq(path, 1, Min(lengths))

Free(n) == \A l \in List : n \notin ToSet(Walk(l))

-----------------------------------------------------------------------------
(* CircularLinkList *)

\* CircularLinkList::Add and the PivotForward of ThreadList::Add: the node is
\* linked between tail and head, then both move on by one.
Add(l, n) ==
  /\ Free(n)
  /\ IF head[l] = Null
     THEN /\ next' = [next EXCEPT ![n] = n] /\ prev' = [prev EXCEPT ![n] = n]
          /\ head' = [head EXCEPT ![l] = n] /\ tail' = [tail EXCEPT ![l] = n]
     ELSE LET linked == [next EXCEPT ![tail[l]] = n, ![n] = head[l]]
          IN  /\ next' = linked
              /\ prev' = [prev EXCEPT ![n] = tail[l], ![head[l]] = n]
              /\ head' = [head EXCEPT ![l] = linked[head[l]]]
              /\ tail' = [tail EXCEPT ![l] = linked[n]]

\* Mutant: removing the only node leaves the tail pointing at it.
DeleteKeepsTail(l, n) ==
  /\ n \in ToSet(Walk(l))
  /\ LET nxt == [next EXCEPT ![prev[n]] = next[n]]
         prv == [prev EXCEPT ![next[n]] = prev[n]]
     IN  /\ head' = [head EXCEPT ![l] = IF @ # n THEN @
                                        ELSE IF tail[l] = n THEN Null ELSE nxt[n]]
         /\ tail' = IF n = tail[l] THEN [tail EXCEPT ![l] = prv[n]] ELSE tail
         /\ next' = [nxt EXCEPT ![n] = Null]
         /\ prev' = [prv EXCEPT ![n] = Null]

\* The head and tail move against the unlinked node's neighbours; a node that
\* was alone keeps its own links.
Delete(l, n) ==
  /\ n \in ToSet(Walk(l))
  /\ IF head[l] = n /\ tail[l] = n
     THEN /\ head' = [head EXCEPT ![l] = Null] /\ tail' = [tail EXCEPT ![l] = Null]
          /\ UNCHANGED <<next, prev>>
     ELSE LET nxt == [next EXCEPT ![prev[n]] = next[n]]
              prv == [prev EXCEPT ![next[n]] = prev[n]]
          IN  /\ head' = IF n = head[l] THEN [head EXCEPT ![l] = nxt[n]] ELSE head
              /\ tail' = IF n = tail[l] THEN [tail EXCEPT ![l] = prv[n]] ELSE tail
              /\ next' = [nxt EXCEPT ![n] = Null]
              /\ prev' = [prv EXCEPT ![n] = Null]

Forward(l) ==
  /\ head[l] # Null
  /\ head' = [head EXCEPT ![l] = next[@]]
  /\ tail' = [tail EXCEPT ![l] = next[@]]
  /\ UNCHANGED <<next, prev>>

Backward(l) ==
  /\ head[l] # Null
  /\ head' = [head EXCEPT ![l] = prev[@]]
  /\ tail' = [tail EXCEPT ![l] = prev[@]]
  /\ UNCHANGED <<next, prev>>

-----------------------------------------------------------------------------
(* ThreadList::AddPriority *)

\* Mutant: the walk stops before an equal priority, not behind it.
StopsEarly(l, p) ==
  LET stop[n \in ToSet(Walk(l))] ==
        IF p >= Priority[n] THEN n
        ELSE IF next[n] = tail[l] THEN tail[l] ELSE stop[next[n]]
  IN  stop[head[l]]

\* The node the do-while stops at: the first of lower priority, or the tail.
StopsAt(l, p) ==
  LET stop[n \in ToSet(Walk(l))] ==
        IF p > Priority[n] THEN n
        ELSE IF next[n] = tail[l] THEN tail[l] ELSE stop[next[n]]
  IN  stop[head[l]]

\* Mutant: the backward pointer of the following node is not updated.
InsertForward(n, at) ==
  /\ next' = [next EXCEPT ![n] = at, ![prev[at]] = n]
  /\ prev' = [prev EXCEPT ![n] = prev[at]]

InsertNodeBefore(n, at) ==
  /\ next' = [next EXCEPT ![n] = at, ![prev[at]] = n]
  /\ prev' = [prev EXCEPT ![n] = prev[at], ![at] = n]

AddPriority(l, n) ==
  IF head[l] = Null THEN Add(l, n)
  ELSE /\ Free(n)
       /\ InsertNodeBefore(n, StopsAt(l, Priority[n]))
       /\ IF Priority[n] > Priority[head[l]]
          THEN /\ head' = [head EXCEPT ![l] = n]
               /\ tail' = [tail EXCEPT ![l] = prev'[n]]
          ELSE /\ tail' = IF next'[n] = head[l] THEN [tail EXCEPT ![l] = n] ELSE tail
               /\ UNCHANGED head

-----------------------------------------------------------------------------
(* DoubleLinkList.  Its nodes are cleared before they are added. *)

Cleared(n) == next[n] = Null /\ prev[n] = Null

DoubleAdd(l, n) ==
  /\ Free(n) /\ Cleared(n)
  /\ tail' = [tail EXCEPT ![l] = n]
  /\ IF head[l] = Null
     THEN head' = [head EXCEPT ![l] = n] /\ UNCHANGED <<next, prev>>
     ELSE /\ next' = [next EXCEPT ![tail[l]] = n]
          /\ prev' = [prev EXCEPT ![n] = tail[l]]
          /\ UNCHANGED head

\* Mutant: the removed node keeps its links.
DoubleRemoveLinked(l, n) ==
  /\ n \in ToSet(Walk(l)) \/ (Free(n) /\ Cleared(n))
  /\ head' = [head EXCEPT ![l] = IF @ = n THEN next[n] ELSE @]
  /\ tail' = [tail EXCEPT ![l] = IF @ = n THEN prev[n] ELSE @]
  /\ next' = [m \in Node |-> IF m = prev[n] THEN next[n] ELSE next[m]]
  /\ prev' = [m \in Node |-> IF m = next[n] THEN prev[n] ELSE prev[m]]

\* A timer may be stopped twice: then the node is cleared and on no list.
DoubleRemove(l, n) ==
  /\ n \in ToSet(Walk(l)) \/ (Free(n) /\ Cleared(n))
  /\ head' = [head EXCEPT ![l] = IF @ = n THEN next[n] ELSE @]
  /\ tail' = [tail EXCEPT ![l] = IF @ = n THEN prev[n] ELSE @]
  /\ next' = [m \in Node |-> IF m = n THEN Null ELSE IF m = prev[n] THEN next[n] ELSE next[m]]
  /\ prev' = [m \in Node |-> IF m = n THEN Null ELSE IF m = next[n] THEN prev[n] ELSE prev[m]]

Next ==
  \/ \E l \in List \ Double :
       \/ \E n \in NodeOf[l] : Add(l, n) \/ AddPriority(l, n) \/ Delete(l, n)
       \/ Forward(l) \/ Backward(l)
  \/ \E l \in Double : \E n \in NodeOf[l] : DoubleAdd(l, n) \/ DoubleRemove(l, n)

Spec == Init /\ [][Next]_vars

-----------------------------------------------------------------------------
(* Properties *)

\* The pointers are nodes or null, and a list without a head has no tail.
TypeOK ==
  /\ next \in [Node -> Node \cup {Null}] /\ prev \in [Node -> Node \cup {Null}]
  /\ head \in [List -> Node \cup {Null}] /\ tail \in [List -> Node \cup {Null}]
  /\ \A l \in List : head[l] = Null <=> tail[l] = Null

\* Every node on a list is linked with its neighbours both ways, in a circular
\* list around the end as well: what SAFE_UNLINK checks before it unlinks a
\* node, and what the unchecked build relies on.
UnlinkSafe ==
  \A l \in List : \A n \in ToSet(Walk(l)) :
    /\ n # Null
    /\ IF l \in Double /\ n = head[l] THEN prev[n] = Null ELSE prev[n] # Null /\ next[prev[n]] = n
    /\ IF l \in Double /\ n = tail[l] THEN next[n] = Null ELSE next[n] # Null /\ prev[next[n]] = n

\* The pointers implement lists of nodes: each call does to the sequence read
\* from head to tail what its ThreadLists action says, and nothing to others.
Lists == INSTANCE ThreadLists WITH lists <- [l \in List |-> Walk(l)]
ImplementsLists == Lists!Spec

=============================================================================
