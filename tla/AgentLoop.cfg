SPECIFICATION Spec
CONSTANTS
  Budget = 5
  Evidence = {1, 2, 3, 4, trade, both, causal, broken, passing}
  RequiredIds = {v1, v2}
  Cases = {c}
  Signatures = {s1}
  Paths = {p}
  ProtectedPaths = {}
  OutsidePaths = {}
  Kinds = {"wrong-value", "causality"}
  Metrics = {0, 1, 2, 3, 4}
  NULL = NULL
  Manifest <- MCManifest
  Diagnoses <- MCDiagnoses
  Improvements <- MCImprovements
  RetryEvidence = {2}
  Reasons = {"human-escalation", "non-improving-retry", "causality"}
  MaxTime = 0
  v1 = v1  v2 = v2  c = c  p = p  s1 = s1
  trade = trade  both = both  causal = causal  broken = broken  passing = passing
INVARIANTS TypeOK AttemptCountsRetries BoundedHistory EvidenceUsedOnce PassingCasesKept RepairsImprove
PROPERTY AppendOnly
CHECK_DEADLOCK FALSE
