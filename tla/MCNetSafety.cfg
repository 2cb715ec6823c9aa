\* Timeliness: the clock waits for processes and network, nothing is lost; the
\* device sleeps before it answers, is retuned, renamed and configured.
SPECIFICATION Spec
CONSTANTS
  a1 = a1  a2 = a2  d1 = d1  d2 = d2  i1 = i1  i2 = i2
  Manager = manager
  App = {a1}  Addr = {a1}  Local = {a1}
  Id = {i1, i2}
  Dev <- OneDev  AppOf <- OneAppOf  DevSeq <- OneSeq  FirstId <- OneId
  Configurable = {d1}
  Interval = {3}
  ConfMinutes = {4}
  DefaultInterval = 3
  ConfigInterval = 2
  DiscoveryInterval = 1
  Minute = 2
  MaxDelay = 1
  MaxAge = 19
  QueueLen = 3
  Lossy = FALSE
  SweepPolls = 1
  Traffic <- RequestsAndReconfigure
  NewId <- OneNewId
  RetuneLive = FALSE
  HubDies = FALSE
  AppDies = FALSE
  Prompt = TRUE
INVARIANTS NetTypeOK OnlyTheDeadExpire
