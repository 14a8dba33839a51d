CONSTANTS
  Calls = {c1, c2}
  Keys = {k1, k2}
  Nobody = Nobody
  None = None
  MaxPending = 1
  Channel = 1
  Inbox = 1
  MaxConns = 2
  Shells = {s1, s2}
SPECIFICATION OpenFairSpec
CHECK_DEADLOCK FALSE
INVARIANTS
  NeverNeither
  NoDanglingWaiter
  AnswerIsGenuine
PROPERTIES
  TableDrains
