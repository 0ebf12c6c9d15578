SPECIFICATION MCSpec
CONSTANTS
  h1 = h1
  h2 = h2
  l1 = l1
  a = a
  Handlers <- MCHandlers
  Loops <- MCLoops
  Deciders <- MCDeciders
  NoOne = NoOne
  SingleResume = FALSE
  MaxFaults = 1
  e1 = e1
  p1 = p1
  s1 = s1
  s2 = s2
  NoProc = NoProc
  NoEvent = NoEvent
  NoSlot = NoSlot
INVARIANTS
  ApprovalInv
  VerdictMatchesIncident
  ResumedWithAuthority
  MarkedMeansFinished
PROPERTIES
  AuthorityKept
  ExpiredIsSettled
  FinishedIsMarked
  EventuallyHandedOff
CHECK_DEADLOCK FALSE
