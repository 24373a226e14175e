SPECIFICATION Spec
CONSTANTS
  TierOrder <- MCTierOrder
  Paths <- MCPaths
  Below <- MCBelow
  Events <- MCEvents
  Registries = {"as-is", "edited"}
  PolicyPath = "ci-tier-policy.json"
  RegistryPath = "required-checks.json"
  Candidates <- MCCandidates
  Bases <- MCBases
INVARIANTS CiTypeOK PlannersAgree PublishedCoversRequired ReceiptSawCandidate
PROPERTY ProtectedChangesReviewed
CHECK_DEADLOCK FALSE
