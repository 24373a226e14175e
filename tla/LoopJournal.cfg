SPECIFICATION FairSpec
CONSTANTS
  Writers = {w1, w2}
  Readers = {r1}
  Payloads <- MCPayloads
  First <- MCFirst
  Admissible <- MCAdmissible
  NULL = NULL
  MaxCalls = 2
  MaxFaults = 2
  MaxPowerLosses = 1
  e1 = e1  e2 = e2  v = v  c = c  p = p  s1 = s1
INVARIANTS TypeOK ChainAccepted RecordedOnce ReadsAcknowledged
PROPERTIES LogSpec LockGivenUp
CHECK_DEADLOCK FALSE
