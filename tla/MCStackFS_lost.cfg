SPECIFICATION Spec
CONSTANTS
    NInodes = 4
    NBlocks = 4
    Ptrs = 2
    PerDir = 1
    PerBlock = 2
    Names <- TwoNames
    Lengths <- ShortLengths
    PowerCuts = FALSE
INVARIANTS
    CreatedIsFound
