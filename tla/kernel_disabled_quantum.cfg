CONSTANTS
  Idle = Idle
  Main = Main
  t1 = t1
  t2 = t2
  StopList = StopList
  NoList = NoList
  QuantumTimer = QuantumTimer
  Thread = {Idle, Main, t1}
  InitPriority <- ThreePriority
  NumPriorities = 3
  QuantumTicks = 2
  MaxTimeLeft = 3
  Calls = {"Start", "SetScheduler"}
  BlockList = {}
SPECIFICATION FairSpec
PROPERTY RoundRobin
