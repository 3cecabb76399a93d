SPECIFICATION Spec
CONSTANTS
    Provinces <- World
    CountryOf <- Countries
    Catalogue <- AllTypes
    TypeOf <- Types
    GroupOf <- Groups
    Religions <- Creeds
    MaxSize = 3
    Fixed = 4
    Half = 29
    Wealth = 7
    InitialPops <- Starts
    Requests = {0, 2, 4}
    MaxMoves = 3
INVARIANTS MoneyConserved MovementsBalance
PROPERTIES PopulationOnlyLostAtCap NobodyRisesByMoving
