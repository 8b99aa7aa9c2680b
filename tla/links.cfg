SPECIFICATION Spec
CONSTANTS
    IfAddr = {1, 2}  Extra = {"p2p", "usb"}  MaxRetry = 2  MaxChanges = 5  MaxRefused = 4
    NULL = NULL  t1 = t1  u1 = u1  u2 = u2  c1 = c1  c2 = c2  k1 = k1  k2 = k2  r1 = r1
    r2 = r2  r3 = r3  m1 = m1  m2 = m2  e1 = e1  e2 = e2  a1 = a1  p1 = p1  sender = sender
INVARIANTS DataIntact OutcomesTrue RecordsAgree NothingLeft TypeOK
PROPERTIES StepsAllowed
