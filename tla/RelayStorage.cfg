CONSTANTS
  Byte = {0, 1}
  Payloads <- ShortFrames
  Subs = {}
  Sessions = {p1, p2}
  Loaders = {l1}
  Capacities = {1, 2}
  MaxUnacked = 2
  QueueMessages = 1
  QueueBytes = 1
  ChunkBytes = 1
  MaxOffset = 3
  MaxFaults = 1
SPECIFICATION Spec
INVARIANTS
  RingIsNewestSuffix
  StoredIsConsistent
  DurabilityInv
  CheckpointInsertable
PROPERTIES
  DirtyBytesStay
  AckedBytesSurvive
  ImplementsOutputLog
SYMMETRY Tasks
