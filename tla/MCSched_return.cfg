CONSTANTS
    MaxProcs = 3
    MaxPid = 2
    MaxTicks = 4
    SleepMs <- AnySleep
    WakeMod = 7
SPECIFICATION ReturningSpec
INVARIANT ReturnReachesExit
CHECK_DEADLOCK FALSE
