CONSTANTS
  Byte = {0, 1}
  Payloads <- ShortFrames
  Subs = {s1}
  Sessions = {p1}
  Loaders = {l1, l2}
  Capacities = {2}
  MaxUnacked = 2
  QueueMessages = 2
  QueueBytes = 2
  ChunkBytes = 1
  MaxOffset = 3
  MaxFaults = 1
SPECIFICATION Spec
INVARIANTS
  MirrorIsFaithful
  CloseComesLast
  NoFalseAck
  OnlyStaleLoadReopens
SYMMETRY Tasks
