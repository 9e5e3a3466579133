SPECIFICATION AdvantageSpec
CONSTANTS
    Batches <- SomeBatches
    NumRanks = 2
    Discounts <- SomeDiscounts
    NormByStd = TRUE
    VarianceFloor <- SomeFloor
CHECK_DEADLOCK FALSE
INVARIANTS
    BalancingIsHarmless
    EstimatorsAgree
    TurnsAreOneEpisode
