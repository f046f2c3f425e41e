CONSTANTS
  Idle = Idle
  Main = Main
  t1 = t1
  t2 = t2
  StopList = StopList
  NoList = NoList
  QuantumTimer = QuantumTimer
  Thread = {Idle, Main, t1}
  InitPriority <- ThreePriority
  NumPriorities = 2
  QuantumTicks = 2
  MaxTimeLeft = 3
  Calls = {"Start", "Exit"}
  BlockList = {}
SPECIFICATION Spec
INVARIANT NoFault
