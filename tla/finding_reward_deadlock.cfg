SPECIFICATION FairSpec
CONSTANTS
    NumWorkers = 1
    Sizes = {4}
    Threads = 3
    DpRank <- Pair
    DpSize = 1
    Reports <- PairReport
    Faults = FALSE
CHECK_DEADLOCK FALSE
PROPERTIES
    GenerateEnds
