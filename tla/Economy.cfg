SPECIFICATION EconomySpec
CONSTANTS
    FactoryType <- Types
    CategoryA <- CatA
    CategoryB <- CatB
    NeedsCoast <- Coast
    NeedsTech <- Tech
    NeedsPort <- Port
    Circumstances <- Moments
    Slots = 4
    Reserved = 2
    Good <- Goods
    Makes <- MadeOf
    BaseOutput <- Outputs
    Throughput = 32768
    BasePrice <- Bases
    FirstPrices <- Begins
    Demands <- Asked
INVARIANTS StatesAreWellBuilt
PROPERTIES PricesFollowSupply PriceSettles
