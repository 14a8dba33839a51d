CONSTANTS
  Requests = {r1, r2}
  Challenges = {h1, h2}
  Tickets = {k1}
  MaxTokens = 1
  MaxKeys = 3
  MaxTime = 3
  ChallengeTTL = 1
  TicketTTL = 1
  TokenTTL = 1
  Skew = 1
  Kept = 1
  Overlap = 1
  Rotation = 0
SPECIFICATION AuthSpec
CHECK_DEADLOCK FALSE
INVARIANTS
  TokenLivesOut
  RevokedIsRefused
  SingleUse
