SPECIFICATION Spec
CONSTANTS
    NInodes = 4
    NBlocks = 4
    Ptrs = 2
    PerDir = 1
    PerBlock = 2
    Names <- TwoNames
    Lengths <- ShortLengths
    PowerCuts = TRUE
INVARIANTS
    TypeOK
    BlocksNotShared
    CountsExact
    EntriesLive
    FileReadable
    Synced
    CrashDamage
\* A behaviour ends with the mount after a power cut.
CHECK_DEADLOCK FALSE
