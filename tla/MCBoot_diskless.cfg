SPECIFICATION Spec
CONSTANTS
    RxCount = 3
    MaxFrames = 1
    Servers <- OneServer
    Options <- MCOptions
    Carried <- WithServerId
    Near <- MCNear
    Far <- MCFar
    Gateway = "gateway"
    SubnetBroadcast = "broadcast"
    Macs <- MCMacs
    ArpCache = 2
    Attempts = 2
    Polls = 1
    Sectors = 2
    MaxExchanges = 1
PROPERTIES
    DhcpAlwaysEnds
CHECK_DEADLOCK FALSE
