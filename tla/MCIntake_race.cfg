SPECIFICATION FairSpec
CONSTANTS
  q1 = q1
  q2 = q2
  q3 = q3
  k1 = k1
  k2 = k2
  Requests <- TwoRequests
  Keys <- OneKey
  Bodies <- OneBody
  Faults <- None
INVARIANTS
  DuplicatesReuseRef
CHECK_DEADLOCK FALSE
