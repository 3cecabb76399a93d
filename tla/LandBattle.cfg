SPECIFICATION Spec
CONSTANTS
    a1 = a1
    a2 = a2
    ag = ag
    d1 = d1
    dg = dg
    Nobody = Nobody
    Unit <- Regiments
    SideOf <- Sides
    Type <- Types
    Men <- Strengths
    Order <- Orders
    Late <- Later
    Columns = 3
    TechFrontage <- Technologies
    Terrain = 0
    Grounds <- Provinces
    Rolls <- Dice
    CasualtyWord = "70"
    LossWord = "6C"
    PendingCasualties = "70"
    PendingLoss = "6C"
    Thresholds <- Limits
    MaxDay = 2
INVARIANTS FireIsSimultaneous TheBillIsPaid ReserveBestFirst OnlyBrokenSidesFall
    RolesDoNotMatter AveragesKeepWithinTheirParts
PROPERTY NobodyGrowsStrongerByLosing
CHECK_DEADLOCK FALSE
