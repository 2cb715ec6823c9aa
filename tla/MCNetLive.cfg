\* Liveness under losses and crashes: two devices of one application, one
\* goodbye for both of them.
SPECIFICATION FairSpec
CONSTANTS
  a1 = a1  a2 = a2  d1 = d1  d2 = d2  i1 = i1  i2 = i2
  Manager = manager
  App = {a1}  Addr = {a1}  Local = {a1}
  Id = {i1, i2}
  Dev <- TwoDevs  AppOf <- TwoAppOf  DevSeq <- TwoSeq  FirstId <- TwoIds
  Configurable = {}
  Interval = {}
  ConfMinutes = {}
  DefaultInterval = 1
  ConfigInterval = 1
  DiscoveryInterval = 1
  Minute = 1
  MaxDelay = 0
  MaxAge = 4
  QueueLen = 2
  Lossy = TRUE
  SweepPolls = 1
  Traffic = {}
  NewId <- TwoNewId
  RetuneLive = FALSE
  HubDies = TRUE
  AppDies = TRUE
  Prompt = TRUE
PROPERTIES HubIsFound Reregistered Forgotten
