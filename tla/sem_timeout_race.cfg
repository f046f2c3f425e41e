CONSTANTS
  Idle = Idle
  Main = Main
  t1 = t1
  t2 = t2
  s1 = s1
  s2 = s2
  StopList = StopList
  NoList = NoList
  QuantumTimer = QuantumTimer
  Thread = {Idle, Main, t1}
  InitPriority <- Pair
  NumPriorities = 3
  QuantumTicks = 2
  MaxTimeLeft = 9
  Calls = {"Start", "Post", "TimedPend"}
  Sem <- OneSem
  Shared <- OneSem
  BlockList <- OneSem
  InitValue = 0
  MaxValue <- Limit
  WaitTicks = {2}
SPECIFICATION SemSpec
PROPERTY KeepsPromise
