SPECIFICATION Spec
CONSTANTS
    Modes = {"train", "validate"}
    NumPrompts <- Prompts
    NumRollouts <- PerPrompt
    NumWorkers = 4
    DpRank <- PairRank
    DpSize = 2
    Reports <- PairReport
    Lens <- LensByMode
    Width = 5
    LossTokens <- AllButOne
    LossAggModes = {"token-mean", "seq-mean-token-mean"}
    MaxTokenLen = 5
    MicroBatch = 3
    MiniBatch = 3
CHECK_DEADLOCK FALSE
INVARIANTS
    RowsStayWhole
    LearnedOnce
    RowsWeighAlike
    NeverRaises
