\* A signal between fork () and the assignment of its result.
SPECIFICATION ProgramSpec
CONSTANTS
  s1 = s1
  Sup = {s1}
  MAX_HUB_RESTARTS = 3
  ip1 = ip1
  Ip = {ip1}
  NoIp = noip
  IO_TIMEOUT = 3
CHECK_DEADLOCK FALSE
INVARIANTS NoHubLeft
