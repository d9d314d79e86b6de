SPECIFICATION MCSpec
CONSTANTS
    NumLines = 2
    Values = {0, 1}
    Torn = torn
    Writers = {w1, w2}
    None = none
    Backend = "FRAM"
    Revert = TRUE
    MaxWrites = 0
    MaxFails = 0
    MaxCuts = 0
    Params = {"a", "b", "c", "d"}
    Vectors = {"b", "d"}
    Forced = {"c"}
    ParamValues = {0, 1}
    Size = 6
    LineLen = 4
    QueueLen = 1
    MaxSets = 0
    MaxErases = 0
    MaxCrashes = 0
    MaxNodeId = 3
    TwoLines = {}
    Uids <- MCUids
    NoUid <- MCNoUid
    TornUid <- MCTornUid
    Nodes <- MCNodes
    BusOf <- MCBusOf
    NumBuses = 2
    UidBytes = {0, 1}
    UidLen = 3
    PartLen = 1
    OwnId = 1
    OwnUid <- MCOwnUid
    NewIds = {0, 2}
    MaxReplies = 2
    MaxTrouble = 2
INVARIANTS
    RegisteredOnce
