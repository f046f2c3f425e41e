CONSTANTS
  Idle = Idle
  Main = Main
  t1 = t1
  t2 = t2
  s1 = s1
  s2 = s2
  StopList = StopList
  NoList = NoList
  QuantumTimer = QuantumTimer
  Thread = {Idle, Main, t1, t2}
  InitPriority <- Falling
  NumPriorities = 4
  QuantumTicks = 2
  MaxTimeLeft = 9
  Calls = {"Start", "Post", "Pend"}
  Sem <- OneSem
  Shared <- OneSem
  BlockList <- OneSem
  InitValue = 0
  MaxValue <- Limit
  WaitTicks = {}
SPECIFICATION SemSpec
INVARIANT HighestFirst
