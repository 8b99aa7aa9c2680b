SPECIFICATION Spec
CONSTANTS
  w1 = w1  w2 = w2  b1 = b1  b2 = b2  u1 = u1  u2 = u2
  NULL = NULL
  WlanAddr = {w1, w2}
  BrAddr = {}
  Udid = {u1}
  PeerOf <- OnePeer
  MaxFsm = 3
  MaxAuth = 2
  MaxNet = 2
  MaxConnCount = 3
  MaxQueue = 2
  Events = {"discover", "disconnect"}
INVARIANTS LedgerMatchesConnections
PROPERTIES OfflineAfterOnline 
CHECK_DEADLOCK FALSE
SYMMETRY WlanSymmetry
