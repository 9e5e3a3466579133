SPECIFICATION FairSpec
CONSTANTS
    PromptLens = {1, 2, 3}
    PromptLength = 2
    ResponseLength = 7
    MaxModelLen = 9
    MaxUserTurns = 0
    MaxAssistantTurns = 0
    MaxParallelCalls = 2
    MaxCalls = 3
    ReplyLens = {1, 2, 3}
    Faults = TRUE
CHECK_DEADLOCK FALSE
INVARIANTS
    RowIsTrajectory
    OnlyUsersOverrun
    InstancesLiveWithCalls
PROPERTIES
    LoopEnds
