SPECIFICATION FairSpec
CONSTANTS
  c1 = c1
  c2 = c2
  p1 = p1
  p2 = p2
  start = start
  jump = jump
  none = none
  accepted = accepted
  pending = pending
  rejected = rejected
  None = none
  Nothing = Nothing
  Clients <- MCClients
  Products <- MCProducts
  Commands <- MCCommands
  Filter <- MCFilter
  ProductAnswers <- MCProductAnswers
  CommandAnswers <- MCCommandAnswers
  Processing <- MCProcessing
INVARIANT TypeOK
INVARIANT ReadsInOrder
PROPERTY ProductReserved
PROPERTY CommandReserved
