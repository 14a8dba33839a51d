CONSTANTS
  Conns = {c1, c2}
  V2 = {c1}
  NoConn = NoConn
  Grace = 1
  MayRevoke = TRUE
  MayShutDown = TRUE
SPECIFICATION FairSpec
CHECK_DEADLOCK FALSE
INVARIANTS
  SlotIsHeld
  CapabilityIsOwn
PROPERTIES
  ServingKeepsSlot
  RevokedEnds
  ReplacedEnds
  OutageCloses
