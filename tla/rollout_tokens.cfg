SPECIFICATION FairSpec
CONSTANTS
    r1 = r1
    r2 = r2
    r3 = r3
    t1 = t1
    t2 = t2
    Reqs = {r1}
    Tools = {t1, t2}
    ToolsOf <- AllTools
    PromptLen <- ShortPrompts
    PromptLength = 2
    ResponseLength = 6
    MaxModelLen = 11
    MaxAssistantTurns = 3
    MaxUserTurns = 1
    Target = 1
    Validate = TRUE
    InteractionOf <- EveryoneInteracts
    CalculateLogProbs = TRUE
    Faults = {"tool", "interaction", "engine"}
    TemplateTokens = 1
    ContentLens = {1, 2, 3}
    ReplyLens = {0, 1, 2}
    CreationLens = {0}
    MaxCalls = 2
INVARIANTS
    EngineBudget
    TurnDiscipline
    RowIsTrajectory
PROPERTIES
    SeenIsKept
