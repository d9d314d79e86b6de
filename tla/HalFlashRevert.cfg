SPECIFICATION Spec
CONSTANTS
    NumLines = 2
    Values = {0, 1}
    Torn = torn
    Writers = {w1}
    None = none
    Backend = "Flash"
    Revert = TRUE
    MaxWrites = 3
    MaxFails = 0
    MaxCuts = 0
INVARIANTS
    CleanIsDurable
