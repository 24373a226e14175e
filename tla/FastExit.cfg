SPECIFICATION Spec
CONSTANTS
  Limit = 1
  PipeSize = 1
  ReadSize = 2
  MaxOutput <- MCMaxOutput
  Checks <- MCChecks
  MaxChunks = 2
INVARIANT ExitsAsDocumented
CHECK_DEADLOCK FALSE
