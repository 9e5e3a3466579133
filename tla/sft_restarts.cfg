SPECIFICATION FairSpec
CONSTANTS
    TheModel = net
    WorldSize = 3
    Models = {net}
    Keep <- KeepTwo
    LastStep = 8
    ViaHandler = FALSE
    SourceRanks = {0}
    SaveFreq = 2
    TotalSteps = 5
    MaxRuns = 3
CHECK_DEADLOCK FALSE
INVARIANTS
    NamedIsWhole
    AlwaysResumes
PROPERTIES
    SaveReturns
    ImplementsResumableJob
