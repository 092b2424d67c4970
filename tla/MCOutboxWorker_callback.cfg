SPECIFICATION FairSpec
CONSTANTS
  w1 = w1
  w2 = w2
  Workers <- TwoWorkers
  Refs <- TwoRefs
  Payloads <- AllAnswers
  MaxRetries = 3
  BatchSize = 1
  OperatorTargets <- None
  LookupStatuses <- None
  CallbackStatuses <- AllStatuses
  Faults <- None
  Columns <- FullSchema
PROPERTIES
  AcceptedSettles
CHECK_DEADLOCK FALSE
