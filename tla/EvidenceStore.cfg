SPECIFICATION ProbeSpec
CONSTANTS
  Runs = {r1}
  Leaves = {l1, l2}
  Requests <- MCRequests
  MaxFaults = 2
  MaxPowerLosses = 2
INVARIANTS ProbeTypeOK PublishedVerifies FailureCleansUp UnsealedIsAFault EndedRunsDoNotBlock
PROPERTIES StoreSpec ProducersEnd
CHECK_DEADLOCK FALSE
