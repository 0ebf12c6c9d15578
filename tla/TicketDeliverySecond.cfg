SPECIFICATION Spec
CONSTANTS
  flow1 = flow1
  l1 = l1
  l2 = l2
  Flow = flow1
  Loops <- MCLoops
  Kinds <- MCLinear
  MaxAttempts = 2
  MaxVersion = 7
  MaxTickets = 3
  MaxFaults = 1
INVARIANTS
  NoSecondIssue
CHECK_DEADLOCK FALSE
