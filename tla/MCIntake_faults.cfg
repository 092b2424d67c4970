SPECIFICATION FairSpec
CONSTANTS
  q1 = q1
  q2 = q2
  q3 = q3
  k1 = k1
  k2 = k2
  Requests <- ThreeRequests
  Keys <- TwoKeys
  Bodies <- AllBodies
  Faults <- AllFaults
INVARIANTS
  TypeOK
  OneRowPerKey
  ResultIsCommitted
  PaymentsAreBacked
PROPERTIES
  EveryRequestAnswered
  ImplementsPromise
CHECK_DEADLOCK FALSE
