CONSTANTS
  x1 = x1
  x2 = x2
  x3 = x3
  Null = Null
  Timer = {x1, x2, x3}
  Interval = {1, 2}
SPECIFICATION Spec
INVARIANTS TypeOK AllCalled NoDeadTimer TimerInv
PROPERTIES ImplementsTimers IsCalled
