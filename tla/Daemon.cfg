CONSTANTS
  Tabs = {t1, t2}
  Stops = {q1}
  MaxDaemons = 3
  Attempts = 8
  MaxCrashes = 1
  RemoteOpen = FALSE
SPECIFICATION FairSpec
CHECK_DEADLOCK FALSE
INVARIANT OneServer
PROPERTIES
  MirrorComesBack
