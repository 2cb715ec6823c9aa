\* Two devices that are renamed, configured, disabled and closed; then trouble
\* begins: requests to disabled devices, refused sends, crashes.
SPECIFICATION ListenerSpec
CONSTANTS
  a1 = a1  d1 = d1  d2 = d2  i1 = i1  i2 = i2  i3 = i3
  Manager = manager
  App = {a1}  Addr = {a1}
  Id = {i1, i2, i3}
  Dev <- TwoDevs  AppOf <- TwoAppOf  DevSeq <- TwoSeq  FirstId <- TwoIds
  Configurable = {d1}
  Interval = {0}
  ConfMinutes = {1}
  DefaultInterval = 1
  ConfigInterval = 1
  DiscoveryInterval = 1
  Minute = 1
  MaxDelay = 1
  MaxAge = 1
  QueueLen = 3
  Lossy = FALSE
  World <- Anything
  NewIdOf <- TwoNewId
  Trouble = TRUE
INVARIANTS DeviceTypeOK KeptHeartbeatIsCurrent ListedAreEnabled
