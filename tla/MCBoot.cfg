SPECIFICATION Spec
CONSTANTS
    RxCount = 3
    MaxFrames = 4
    Servers <- MCServers
    Options <- MCOptions
    Carried <- MCCarried
    Near <- MCNear
    Far <- MCFar
    Gateway = "gateway"
    SubnetBroadcast = "broadcast"
    Macs <- MCMacs
    ArpCache = 2
    Attempts = 2
    Polls = 1
    Sectors = 2
    MaxExchanges = 1
INVARIANTS
    TypeOK
    RingInStep
    SentToLatest
    LeaseFromAck
PROPERTIES
    DhcpEnds
CHECK_DEADLOCK FALSE
