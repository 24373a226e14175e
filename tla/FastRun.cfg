SPECIFICATION FairSpec
CONSTANTS
  Limit = 1
  PipeSize = 1
  ReadSize = 2
  MaxOutput <- MCMaxOutput
  Checks <- MCChecks
  MaxChunks = 2
INVARIANTS FastTypeOK CandidateSeen PassMeansAllRan ProductFailIsEarned OutputFaithful
PROPERTIES RunEnds PipesDrained
CHECK_DEADLOCK FALSE
