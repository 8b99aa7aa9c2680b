SPECIFICATION Spec
CONSTANTS
    Parts = {"looper", "listener", "direct", "proxy", "bleconn", "auth", "udp", "udp2", "join",
             "manager", "session", "session2", "setting", "find", "epoll"}
    TsNil = NULL  Pkg = {p1, p2}  Node = {n1}  Accuracy = {10, 11}  Period = {0}  MaxCalls = 2  MaxResults = 2
    CbNil = NULL  CbThread = {t1, t2}  NodeCb = {n1, n2}  SyncCb = {s1}  MaxNodeCb = 2  MaxEvents = 1  MaxOutages = 1
    PoolNil = NULL  Worker = {w1, w2}  PoolUser = {u1, u2}  JobHandle = {h1, h2}  MaxJobs = 2  QueueMaxNum = 1
    NULL = NULL  dl = dl  bl = bl  main = main  t1 = t1  t2 = t2  u1 = u1  u2 = u2  c1 = c1
    c2 = c2  p1 = p1  p2 = p2  n1 = n1  n2 = n2  s1 = s1  s2 = s2  w1 = w1  w2 = w2
    h1 = h1  h2 = h2  a1 = a1  d1 = d1  d2 = d2  e1 = e1  i1 = i1  i2 = i2  sender = sender
PROPERTIES CallsReturn RequestsAnswered WorkDone
