SPECIFICATION Spec
CONSTANTS
  Starts = {s1, s2}
  MaxFaults = 2
  MaxPowerLosses = 1
INVARIANTS StartTypeOK FailedStartCleansUp
PROPERTIES StartSpec
CHECK_DEADLOCK FALSE
