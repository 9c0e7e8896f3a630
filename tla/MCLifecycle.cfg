SPECIFICATION FairSpec
CONSTANTS
  w1 = w1
  w2 = w2
  Workers <- MCWorkers
  NoOne = NoOne
  Main = Main
  Monitor = Monitor
  Nap = 1
  WaitLimit = 5
  MaxStall = 1
  LastStop = 3
  MaxTime = 8
INVARIANT TypeOK
INVARIANT MonitorWithinLock
INVARIANT ServiceLosesNone
PROPERTY ShutsDown
CHECK_DEADLOCK FALSE
