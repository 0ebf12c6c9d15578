SPECIFICATION FairSpec
CONSTANTS
  h1 = h1
  h2 = h2
  l1 = l1
  a = a
  Handlers <- MCHandlers
  Loops <- MCLoops
  Deciders <- MCDeciders
  NoOne = NoOne
  SingleResume = TRUE
  MaxFaults = 1
PROPERTIES
  ExpiryIsResumed
CHECK_DEADLOCK FALSE
