\* Intervals are below a minute, whole minutes, and two minutes and a half.
SPECIFICATION Spec
CONSTANTS
  i1 = i1  i2 = i2  g1 = g1  u = u  v = v  Blank = Blank
  Instance = {i1, i2, g1}
  Generated = {g1}
  Interval = {1}
  DefaultInterval = 5
  Minute = 2
  Value = {u, v}
  ItemSeq <- Items
  Default <- Defaults
  Reserved = {}
  ItemMax <- ItemMaxima
  ListMax <- ListMaxima
  Lower <- LowerCase
  Loose = {"Y"}
  Body <- Bodies
INVARIANTS ConfigurationTypeOK Restorable NothingMixed EchoChangesNothing ListIsHonest
