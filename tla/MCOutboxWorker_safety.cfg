SPECIFICATION FairSpec
CONSTANTS
  w1 = w1
  w2 = w2
  Workers <- TwoWorkers
  Refs <- TwoRefs
  Payloads <- AllAnswers
  MaxRetries = 2
  BatchSize = 2
  OperatorTargets <- AllTargets
  LookupStatuses <- AllStatuses
  CallbackStatuses <- AllStatuses
  Faults <- AllFaults
  Columns <- FullSchema
INVARIANTS
  TypeOK
  ExclusiveClaim
  AttemptsCounted
  OutboxAgreesWithLedger
  AuditTrail
PROPERTIES
  FinalIsFinal
  ImplementsLifecycle
  ImplementsQueue
  EveryWaitingRowClaimed
CHECK_DEADLOCK FALSE
