SPECIFICATION FairSpec
CONSTANTS
  w1 = w1  w2 = w2  b1 = b1  b2 = b2  u1 = u1  u2 = u2
  NULL = NULL
  WlanAddr = {}
  BrAddr = {b1, b2}
  Udid = {u1, u2}
  PeerOf <- TwoPeers
  MaxFsm = 2
  MaxAuth = 2
  MaxNet = 2
  MaxConnCount = 2
  MaxQueue = 1
  Events = {"join", "fail", "leaveType", "untrusted"}
PROPERTIES TypeOfflineNotified  DeadFsmFreed
CHECK_DEADLOCK FALSE
