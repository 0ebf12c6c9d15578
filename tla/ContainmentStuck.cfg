SPECIFICATION FairSpec
CONSTANTS
  w1 = w1
  r1 = r1
  Steppers <- MCSteppers
  Retriers <- MCRetriers
  NumActions = 2
  MaxAttempts = 3
  MaxFaults = 1
  ApprovalOutlives = TRUE
  PatientTimers = TRUE
PROPERTIES
  InterruptedIsRecovered
CHECK_DEADLOCK FALSE
