CONSTANTS
  Idle = Idle
  Main = Main
  t1 = t1
  t2 = t2
  s1 = s1
  n1 = n1
  g1 = g1
  m1 = m1
  b1 = b1
  q1 = q1
  nIdle = nIdle
  nMain = nMain
  na = na
  nb = nb
  rs = rs
  ss = ss
  qs = qs
  x1 = x1
  x2 = x2
  StopList = StopList
  NoList = NoList
  QuantumTimer = QuantumTimer
  NumPriorities = 4
  QuantumTicks = 2
  MaxTimeLeft = 9
  Sem <- Semaphores
  BlockList <- Lists
  InitValue = 0
  MaxValue <- Limits
  Shared = {s1}
  Note = {n1}
  Group = {g1}
  Mutexes = {m1}
  Box = {b1}
  Queue = {q1}
  Message = {x1, x2}
  Nap <- Private
  RecvSem <- Receives
  SendSem <- Sends
  QueueSem <- Counts
  MaxElapsed = 4
  Thread = {Idle, Main, t1, t2}
  InitPriority <- Mixed
  Calls = {"Start", "Yield", "SetScheduler", "Post", "Pend", "Signal", "Wait", "WaitFlags", "Set", "Clear", "Claim", "Release", "Send", "Receive", "Pop", "Push", "SendMessage", "ReceiveMessage"}
  WaitTicks = {}
  Modes = {"ANY", "ALL_CLEAR"}
  Flag = {1, 2}
  MaxRecurse = 1
  SleepMs = {}
  SleepUs = {}
  Together = {{"sem", "t1", "t2"}, {"notify", "t1", "t2"}, {"flags", "t1", "t2"}, {"mutex", "t1", "t2"}, {"queue", "t1", "t2"}, {"mutex", "notify", "t1"}, {"flags", "notify", "t1"}, {"box", "t1"}}
  Capacity = 2
  Ends = {"head", "tail"}
SPECIFICATION MCSpec
INVARIANTS ObjectsTypeOK EffectivePriority NobodyMissesFlags ReleasedWithFlags LetterForToken NoLetterForgotten NoMessageForgotten
PROPERTIES KeepsPromise SignalsReachHighest KeepsLock KeepsLetters
