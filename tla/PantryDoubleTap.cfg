SPECIFICATION Spec
CONSTANTS
    Requests = {r1, r2}
    MaxMeal = 1
    Need = 1
    MaxLot = 2
    MaxSupply = 2
    MaxCrashes = 0
INVARIANTS
    NoInflation
CHECK_DEADLOCK FALSE
