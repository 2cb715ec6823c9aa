\* The bridge program: restarts, a manager, a module that answers late or not at all.
SPECIFICATION FairSpec
CONSTANTS
  p0 = p0  p1 = p1
  Pan = {p0, p1}
  NoPan = nopan
  DefaultPan = p0
  Absent = absent  Malformed = malformed  NoFile = nofile
  Firmware = {"coordinator", "router"}
  LineLen = 2
  TodoLen = 2
  MAX_RESTARTS = 2
INVARIANTS XBeeTypeOK ForcedPanInUse NothingFromOldNetwork

PROPERTIES OpeningEnds BridgeRestarts
