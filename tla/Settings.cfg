CONSTANTS
  Instances = {i1}
  Operators = {p1, p2}
  Cli = cli
  Configs = {"plain", "tls"}
  MaxRev = 3
  MaxFaults = 1
SPECIFICATION SettingsFairSpec
CHECK_DEADLOCK FALSE
PROPERTIES
  NoLostUpdate
  Convergence
  ListenerFollows
