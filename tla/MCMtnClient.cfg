SPECIFICATION FairSpec
CONSTANTS
  startup = startup
  pay = pay
  status = status
  Callers <- AllCallers
  Requesters <- AllRequesters
  Timeout = 2
  Margin = 2
  Lifetimes <- ShortAndLong
  MaxTime = 9
INVARIANTS
  TypeOK
  TokensAreValid
  RefreshesAreSpaced
  WaitIsBounded
PROPERTIES
  EveryCallReturns
CHECK_DEADLOCK FALSE
