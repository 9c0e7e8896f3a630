SPECIFICATION Spec
CONSTANTS
  w1 = w1
  w2 = w2
  b1 = b1
  b2 = b2
  b3 = b3
  b4 = b4
  none = none
  start = start
  jump = jump
  Server = Server
  NoOne = NoOne
  Null = Null
  Workers <- TwoWorkers
  Buffers <- FourBlocks
  PostWords <- MCPostWords
  ClientWords <- MCClientWords
  Filter <- MCFilter
  First = none
INVARIANT GetsAreWhole
\* A typeless write ends the process: the system really stops.
CHECK_DEADLOCK FALSE
