SPECIFICATION Spec
CONSTANTS
    actor = actor
    critic = critic
    WorldSize = 2
    Models = {actor, critic}
    Keep <- KeepTwo
    LastStep = 4
    Order <- ActorFirst
    SaveFreq = 1
    TotalSteps = 2
    MaxRuns = 2
CHECK_DEADLOCK FALSE
INVARIANTS
    RestartNeverFails
