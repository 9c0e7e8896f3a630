SPECIFICATION FairSpec
CONSTANTS
  w1 = w1
  w2 = w2
  Workers <- TwoWorkers
  Monitor = Monitor
  NoOne = NoOne
  Statuses <- MCStatuses
  NoStatus = NoStatus
  Timeout = 2
  MaxTime = 4
  MaxGap = 1
  MaxStall = 1
INVARIANT TypeOK
INVARIANT FlagMatchesText
INVARIANT AliveStaysOnline
PROPERTY StampMonotone
PROPERTY SilenceIsShown
