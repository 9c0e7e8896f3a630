SPECIFICATION Spec
CONSTANTS
  PostValues <- MCPostValues
  ClientValues <- MCClientValues
  Nothing = Nothing
  p1 = p1
  p2 = p2
  c1 = c1
PROPERTY OnlyPostsChange
\* A typeless write ends the process: the system really stops.
CHECK_DEADLOCK FALSE
