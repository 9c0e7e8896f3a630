SPECIFICATION FairSpec
CONSTANTS
  w1 = w1
  w2 = w2
  b1 = b1
  b2 = b2
  b3 = b3
  b4 = b4
  none = none
  start = start
  jump = jump
  Server = Server
  NoOne = NoOne
  Null = Null
  Workers <- OneWorker
  Buffers <- ThreeBlocks
  PostWords <- MCPostWords
  ClientWords <- MCClientWords
  Filter <- MCFilter
  First = none
INVARIANT TypeOK
INVARIANT NothingDangles
INVARIANT RefusedStaysOut
PROPERTY ReadsExact
PROPERTY KeepsRegister
PROPERTY CallsEnd
\* A typeless write ends the process: the system really stops.
CHECK_DEADLOCK FALSE
