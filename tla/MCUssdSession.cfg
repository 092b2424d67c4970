SPECIFICATION Spec
CONSTANTS
  s1 = s1
  s2 = s2
  SessionIds <- TwoSessions
  Inputs <- AnyInput
INVARIANTS
  FinishedFlowIsReset
CHECK_DEADLOCK FALSE
