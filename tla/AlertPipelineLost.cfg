SPECIFICATION FairSpec
CONSTANTS
  e1 = e1
  p1 = p1
  p2 = p2
  s1 = s1
  s2 = s2
  Events <- MCEvents
  Procs <- MCOne
  Slots <- MCSlots
  NoProc = NoProc
  NoEvent = NoEvent
  NoSlot = NoSlot
  BatchSize = 1
  MaxPublishAttempts = 2
  MaxStartAttempts = 2
  MaxFaults = 1
  PatientTimers = TRUE
PROPERTIES
  NoLostAlert
CHECK_DEADLOCK FALSE
