SPECIFICATION FairSpec
CONSTANTS
  w1 = w1
  r1 = r1
  Steppers <- MCSteppers
  Retriers <- MCRetriers
  NumActions = 2
  MaxAttempts = 3
  MaxFaults = 1
  ApprovalOutlives = FALSE
  PatientTimers = FALSE
INVARIANTS
  TypeOK
  ContainmentInv
  ActionMirrorsAttempt
  EffectsInPlanOrder
  CompletedMeansApplied
  ContainedMeansVerified
PROPERTIES
  NoLateEffect
  ContractKept
  ContainedIsClosed
CHECK_DEADLOCK FALSE
