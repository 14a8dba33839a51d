CONSTANTS
  Calls = {c1, c2}
  Keys = {k1}
  Nobody = Nobody
  None = None
  MaxPending = 1
  Channel = 1
  Inbox = 1
  MaxConns = 1
  Shells = {s1, s2}
SPECIFICATION OpenSpec
CHECK_DEADLOCK FALSE
INVARIANT LateAnswerIsFound
