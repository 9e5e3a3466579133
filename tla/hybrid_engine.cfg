SPECIFICATION FairSpec
CONSTANTS
    TP = 2
    NumBuckets = 2
    MaxAttempts = 2
    LastStep = 3
    FirstUpdate = 2
    Generations <- Twice
    OffloadParam = TRUE
    Configs <- All
CHECK_DEADLOCK FALSE
INVARIANTS
    MemoryIsShared
    TrainerStreamKept
PROPERTIES
    ImplementsOnPolicyLoop
    JobEnds
