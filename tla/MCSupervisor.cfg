\* The hub program on a computer whose network comes and goes.  Everything may come to
\* an end here: no deadlock check.
SPECIFICATION ProgramSpec
CONSTANTS
  s1 = s1
  Sup = {s1}
  MAX_HUB_RESTARTS = 3
  ip1 = ip1
  Ip = {ip1}
  NoIp = noip
  IO_TIMEOUT = 3
CHECK_DEADLOCK FALSE
INVARIANTS SupervisorTypeOK OneHubEach NoKnownHubLeft BreakerCountsDeaths UdpTypeOK SearchedToTheEnd
PROPERTIES HubServesAgain ImplementsSupervisor
