SPECIFICATION Spec
CONSTANTS
    TcpNil = NULL  SessNil = NULL  TcpFd = {f1, f2}  TcpUser = {u1}  ConnMod = {m1}  Ip = {i1}  MaxConnNum = 1
    ServerName = {n1}  PeerDev = {p1}  Thread = {t1, t2}  MaxSessionId = 2  MaxServers = 1  MaxChannels = 1
    NULL = NULL  dl = dl  bl = bl  main = main  t1 = t1  t2 = t2  u1 = u1  u2 = u2  c1 = c1
    c2 = c2  p1 = p1  p2 = p2  n1 = n1  m1 = m1  m2 = m2  k1 = k1  k2 = k2  f1 = f1
    f2 = f2  i1 = i1  i2 = i2  s1 = s1  s2 = s2  d1 = d1  d2 = d2
INVARIANTS DataIntact OutcomesTrue RecordsAgree NothingLeft TypeOK
PROPERTIES ImplementsFifo StepsAllowed
