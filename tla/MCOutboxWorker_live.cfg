SPECIFICATION FairSpec
CONSTANTS
  w1 = w1
  w2 = w2
  Workers <- TwoWorkers
  Refs <- ThreeRefs
  Payloads <- AllAnswers
  MaxRetries = 3
  BatchSize = 2
  OperatorTargets <- AllTargets
  LookupStatuses <- AllStatuses
  CallbackStatuses <- Outcomes
  Faults <- None
  Columns <- FullSchema
INVARIANTS
  NothingStranded
PROPERTIES
  EveryEventResolved
CHECK_DEADLOCK FALSE
