SPECIFICATION FairSpec
CONSTANTS
    actor = actor
    critic = critic
    WorldSize = 2
    Models = {actor, critic}
    Keep <- KeepUnevenly
    LastStep = 6
    Order <- ActorFirst
    SaveFreq = 2
    TotalSteps = 3
    MaxRuns = 3
CHECK_DEADLOCK FALSE
INVARIANTS
    NamedIsWhole
    FailsOnlyForTracker
    DiskIsBounded
PROPERTIES
    SavesEnd
