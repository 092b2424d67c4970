SPECIFICATION FairSqlSpec
CONSTANTS
  current = current
  legacy1 = legacy1
  legacy2 = legacy2
  Workers <- AllWorkers
  LegacyWorkers <- OnlyLegacy
  Refs <- OneRef
  Payloads <- AllAnswers
  MaxRetries = 2
  BatchSize = 1
  OperatorTargets <- AllTargets
  LookupStatuses <- AllStatuses
  CallbackStatuses <- AllStatuses
  Faults <- AllFaults
  Columns <- FullSchema
INVARIANTS
  SqlTypeOK
  LockedReadsHold
  NoLockCycle
  OutcomesAgree
  AuditTrail
PROPERTIES
  ImplementsLifecycle
  EveryTransactionEnds
CHECK_DEADLOCK FALSE
