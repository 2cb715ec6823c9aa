\* One device and two radio modules; the bridge dies, messages are lost.
SPECIFICATION FairSpec
CONSTANTS
  n1 = n1  p1 = p1  p2 = p2
  Id = {n1}
  BridgeId = bridge
  Everyone = everyone
  Place = {p1, p2}
  NoPlace = noplace
  MaxHop = 1
  AllowLists = {{}, {"request"}}
  Minute = 1
  MaxAge = 2
  QueueLen = 1
  SweepPolls = 1
  Outside <- MCOutside
INVARIANTS BridgeTypeOK OneSlotPerPlace NoReflection
PROPERTIES KnownWhereItIs GhostsGo
