SPECIFICATION FairSpec
CONSTANTS
    Half = 3
    Unit = {i1, i2, a1}
    Empty = Empty
    Support = {a1}
    DeployTo <- FlanksAndCentre
INVARIANTS ExactlyOnePlace BrokenAreRouted OneRetreatAPass NoGapInFrontOfReinforcements
PROPERTIES BrokenLeavesTheFront EventuallyCompact
