SPECIFICATION IdentityFairSpec
CONSTANTS
  c1 = c1
  c2 = c2
  Callers <- MCCallers
  MaxTries = 2
  MaxReads = 1
  MaxMishaps = 1
PROPERTIES
  UncertainIsSettled
CHECK_DEADLOCK FALSE
