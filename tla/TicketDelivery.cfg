SPECIFICATION FairSpec
CONSTANTS
  flow1 = flow1
  l1 = l1
  l2 = l2
  Flow = flow1
  Loops <- MCLoops
  Kinds <- MCKinds
  MaxAttempts = 2
  MaxVersion = 7
  MaxTickets = 3
  MaxFaults = 2
INVARIANTS
  TypeOK
  OneTicket
  SucceededIsRemote
  FinalsFollowOpen
PROPERTIES
  TicketKept
  DeliveryConcludesInTime
CHECK_DEADLOCK FALSE
