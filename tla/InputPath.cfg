CONSTANTS
  Mirrors = {m1, m2}
  MaxSequence = 2
  MaxResizes = 1
  MaxConns = 2
  Channel = 1
  EventQueue = 1
  NoticeQueue = 1
SPECIFICATION InputFairSpec
CHECK_DEADLOCK FALSE
INVARIANT InputIntegrity
PROPERTY AcceptedIsRead
