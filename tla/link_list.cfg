CONSTANTS
  n1 = n1
  n2 = n2
  n3 = n3
  n4 = n4
  x1 = x1
  x2 = x2
  x3 = x3
  l1 = l1
  l2 = l2
  d = d
  Null = Null
  Node = {n1, n2, n3, n4, x1, x2, x3}
  List = {l1, l2, d}
  Double = {d}
  NodeOf <- Uses
  Priority <- Priorities
SPECIFICATION OneKindSpec
INVARIANTS TypeOK UnlinkSafe
PROPERTY ImplementsLists
