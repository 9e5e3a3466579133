SPECIFICATION FairSpec
CONSTANTS
    r1 = r1
    r2 = r2
    r3 = r3
    t1 = t1
    t2 = t2
    Reqs = {r1, r2, r3}
    Tools = {t1, t2}
    ToolsOf <- PartialTools
    PromptLen <- LongPrompts
    PromptLength = 2
    ResponseLength = 6
    MaxModelLen = 9
    MaxAssistantTurns = 2
    MaxUserTurns = 1
    Target = 2
    Validate = FALSE
    InteractionOf <- SomeInteract
    CalculateLogProbs = FALSE
    Faults = {"tool", "interaction", "engine"}
    TemplateTokens = 0
    ContentLens = {1}
    ReplyLens = {1}
    CreationLens = {0}
    MaxCalls = 2
INVARIANTS
    InstanceLifecycle
    FailuresComeFromOutside
PROPERTIES
    ImplementsBatch
    GenerateEnds
