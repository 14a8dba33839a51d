CONSTANTS
  Byte = {0}
  Payloads <- SingleBytes
  Subs = {s1}
  Sessions = {p1}
  Loaders = {l1}
  Capacities = {2}
  MaxUnacked = 2
  QueueMessages = 2
  QueueBytes = 2
  ChunkBytes = 1
  MaxOffset = 2
  MaxFaults = 1
SPECIFICATION FairSpec
PROPERTIES
  AcceptedIsAcked
  CloseCompletes
  SubscriberCatchesUp
