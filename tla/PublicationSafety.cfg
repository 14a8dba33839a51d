CONSTANTS
  Window = 1
  MaxBytes = 3
  MaxChunk = 2
  MaxFrame = 1
  OldBytes = 1
  MaxFaults = 1
  Overlap = TRUE
  GraceEnds = TRUE
  ListOutcomes = {TRUE, FALSE}
SPECIFICATION Spec
CHECK_DEADLOCK FALSE
INVARIANTS
  StreamIntegrity
  NoByteForgotten
  CloseAfterAll
  OnlyReplacementIsUnrecoverable
