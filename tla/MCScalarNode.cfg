SPECIFICATION FairSpec
CONSTANTS
  PostValues <- MCPostValues
  ClientValues <- MCClientValues
  Nothing = Nothing
  p1 = p1
  p2 = p2
  c1 = c1
INVARIANT TypeOK
INVARIANT ReadIsFresh
INVARIANT OnlyOfferedValues
INVARIANT ReadYourWrite
PROPERTY CopiesConverge
PROPERTY KeepsContract
\* A typeless write ends the process: the system really stops.
CHECK_DEADLOCK FALSE
