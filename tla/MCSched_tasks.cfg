\* Three tasks beside PID 0, and wake-up times that fit.
CONSTANTS
    MaxProcs = 4
    MaxPid = 3
    MaxTicks = 2
    SleepMs <- ShortSleep
    WakeMod = 4
SPECIFICATION FairSpec
INVARIANTS TypeOK QueueSound RunningIsCurrent OnlyRunnableHasCpu PidUnique
PROPERTIES ExitIsFinal SleepLasts QueuedRuns SleeperResumes ImplementsRoundRobin
