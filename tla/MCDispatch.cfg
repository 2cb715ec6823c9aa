SPECIFICATION Spec
CONSTANTS
  App = {"in", "out"}
  None = None
  Star = Star
  d1 = d1
  d2 = d2
  f1 = f1
  config = config
  sensor = sensor
  u = u
  v = v
  Blank = Blank
  Illegal = Illegal
  Schema = {config, sensor}
  Value = {u, v}
  Word <- Words
  PartMax <- PartMaxima
  Lower <- LowerCase
  Msg <- Sent
  Device = {d1, d2}
  Id <- Ids
  NewPart <- Renamings
  GroupName <- GroupNames
  Func = {f1, "prvConfigHandler"}
  ConfigHandler = "prvConfigHandler"
  Configurations <- Requests
  Cuts <- Layers
  Pattern <- Patterns
  Arrangement <- Arrangements
  ListenerMax = 3
  CallMax = 2
INVARIANTS DispatchTypeOK AsSent WholeIsHeard HeardOnce NobodyMissed
