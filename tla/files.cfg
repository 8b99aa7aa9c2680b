SPECIFICATION Spec
CONSTANTS
    NumFiles = 2  MaxBlocks = 1  MaxRetry = 0  MaxRecvBlocks = 1  AckRepeats = 1  MaxDones = 1  MaxFaults = 2
    App = {p1, p2}  Asks = {"join", "leave"}  Peer = {1}  Callback = {c1}  Systems = {"standard", "small"}
    MaxAsks = 2  MaxDeaths = 1  BusNil = NULL
    NULL = NULL  c1 = c1  i1 = i1  i2 = i2  p1 = p1  p2 = p2
INVARIANTS DataIntact OutcomesTrue RecordsAgree TypeOK
PROPERTIES PeerKept
