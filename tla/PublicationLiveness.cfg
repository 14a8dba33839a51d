CONSTANTS
  Window = 1
  MaxBytes = 2
  MaxChunk = 2
  MaxFrame = 1
  OldBytes = 0
  MaxFaults = 1
  Overlap = FALSE
  GraceEnds = TRUE
  ListOutcomes = {TRUE}
SPECIFICATION FairSpec
CHECK_DEADLOCK FALSE
PROPERTIES
  ExitedIsClosed
  OutputBecomesDurable
