SPECIFICATION FairSpec
CONSTANTS
  w1 = w1
  w2 = w2
  Workers <- TwoWorkers
  Refs <- TwoRefs
  Payloads <- AllAnswers
  MaxRetries = 3
  BatchSize = 1
  OperatorTargets <- None
  LookupStatuses <- None
  CallbackStatuses <- None
  Faults <- JustStop
  Columns <- FullSchema
PROPERTIES
  FailedReachTerminal
CHECK_DEADLOCK FALSE
