CONSTANTS
  Idle = Idle
  Main = Main
  t1 = t1
  t2 = t2
  s1 = s1
  s2 = s2
  StopList = StopList
  NoList = NoList
  QuantumTimer = QuantumTimer
  Thread = {Idle, Main, t1}
  InitPriority <- Pair
  NumPriorities = 3
  QuantumTicks = 2
  MaxTimeLeft = 9
  Calls = {"Start", "Pend", "InterruptPost"}
  Sem <- TwoSems
  Shared <- TwoSems
  BlockList <- TwoSems
  InitValue = 0
  MaxValue <- Limit
  WaitTicks = {}
SPECIFICATION SemSpec
INVARIANT StrictPriority
