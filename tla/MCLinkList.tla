------------------------------- MODULE MCLinkList -------------------------------
(* Four threads with three priorities on two lists, or three timers on one. *)
EXTENDS LinkList
CONSTANTS n1, n2, n3, n4, x1, x2, x3, l1, l2, d

Priorities == [n \in Node |-> CASE n = n4 -> 3 [] n \in {n2, n3} -> 2 [] OTHER -> 1]
Uses == [l \in List |-> IF l = d THEN {x1, x2, x3} ELSE {n1, n2, n3, n4}]

\* The two kinds of list share no node: they are explored one at a time.
OneKind == \E kind \in {Double, List \ Double} : \A l \in kind : head[l] = Null
OneKindSpec == Init /\ [][Next /\ OneKind']_vars
=============================================================================
