SPECIFICATION Spec
CONSTANTS
  e1 = e1
  p1 = p1
  p2 = p2
  s1 = s1
  s2 = s2
  Events <- MCEvents
  Procs <- MCProcs
  Slots <- MCSlots
  NoProc = NoProc
  NoEvent = NoEvent
  NoSlot = NoSlot
  BatchSize = 1
  MaxPublishAttempts = 1
  MaxStartAttempts = 2
  MaxFaults = 1
  PatientTimers = FALSE
SYMMETRY Symmetry
INVARIANTS
  PipelineInv
  RunExcludesDeadLetter
  LedgerVerdictHasCause
  AckIsEarned
PROPERTIES
  OneVerdict
CHECK_DEADLOCK FALSE
