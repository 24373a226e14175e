SPECIFICATION CliSpec
CONSTANTS
  Budget = 2
  Evidence = {e6}
  RequiredIds = {v1, v2}
  Cases = {c}
  Signatures = {s1, s2}
  Paths = {p}
  ProtectedPaths = {}
  OutsidePaths = {}
  Kinds = {"wrong-value", "causality"}
  Metrics = {0, 1, 2}
  NULL = NULL
  Manifest <- MCManifest
  Diagnoses = {}
  Improvements = {}
  RetryEvidence = {}
  Reasons = {"human-escalation"}
  AskedStops = {"human-escalation"}
  MaxTime = 0
  Callers = {lib1}
  Shape <- MCShape
  Requests <- MixedRequests
  v1 = v1  v2 = v2  c = c  p = p  s1 = s1  s2 = s2
  e1 = e1  e2 = e2  e3 = e3  e4 = e4  e5 = e5  e6 = e6
  lib1 = lib1  lib2 = lib2  cli = cli
INVARIANT MandatoryFailuresStop
CHECK_DEADLOCK FALSE
