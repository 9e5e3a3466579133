SPECIFICATION FairSpec
CONSTANTS
    NumWorkers = 2
    Sizes = {4, 6}
    Threads = 3
    DpRank <- ThreeRanks
    DpSize = 3
    Reports <- ThreeReport
    Faults = TRUE
CHECK_DEADLOCK FALSE
INVARIANTS
    OwnScore
PROPERTIES
    GenerateEnds
