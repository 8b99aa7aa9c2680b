SPECIFICATION BusCenterLiveSpec
CONSTANTS
    App = {p1}
    Asks = {"join", "leave"}
    Peer = {1}
    Callback = {c1}
    Systems = {"standard"}
    MaxDeaths = 0
    MaxAsks = 2
    BusNil = BusNil
PROPERTY ResultDelivered
CHECK_DEADLOCK FALSE
