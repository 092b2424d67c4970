SPECIFICATION Spec
CONSTANTS
  q1 = q1
  q2 = q2
  q3 = q3
  q4 = q4
  q5 = q5
  phone1 = phone1
  pin1 = pin1
  pin2 = pin2
  Phones <- OnePhone
  Pins <- TwoPins
  Requests <- FiveRequests
  MaxAttempts = 2
  LockTicks = 2
SYMMETRY Interchangeable
INVARIANTS
  TypeOK
  FailuresCounted
  LockHasItsFailures
  FewWrongAnswers
  PinIsKept
CHECK_DEADLOCK FALSE
