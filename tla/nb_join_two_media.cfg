SPECIFICATION CooperativeSpec
CONSTANTS
  w1 = w1  w2 = w2  b1 = b1  b2 = b2  u1 = u1  u2 = u2
  NULL = NULL
  WlanAddr = {w1}
  BrAddr = {b1}
  Udid = {u1}
  PeerOf <- OnePeer
  MaxFsm = 2
  MaxAuth = 2
  MaxNet = 1
  MaxConnCount = 2
  MaxQueue = 1
  Events = {"join"}
PROPERTIES JoinAnswered
CHECK_DEADLOCK FALSE
