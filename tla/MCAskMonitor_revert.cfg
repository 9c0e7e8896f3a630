SPECIFICATION Spec
CONSTANTS
  w1 = w1
  w2 = w2
  Workers <- OneWorker
  Monitor = Monitor
  NoOne = NoOne
  Statuses <- MCStatuses
  NoStatus = NoStatus
  Timeout = 1
  MaxTime = 6
  MaxGap = 0
  MaxStall = 0
INVARIANT ShowsReport
