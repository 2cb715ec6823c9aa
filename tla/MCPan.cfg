\* A bridge whose network a manager has changed dies and is started again.
SPECIFICATION FairSpec
CONSTANTS
  p0 = p0  p1 = p1
  Pan = {p0, p1}
  NoPan = nopan
  DefaultPan = p0
  Absent = absent  Malformed = malformed  NoFile = nofile
  Firmware = {"coordinator"}
  LineLen = 1
  TodoLen = 1
  MAX_RESTARTS = 2
PROPERTIES RemoteReachesModule
