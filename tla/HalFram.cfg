SPECIFICATION MCSpec
CONSTANTS
    NumLines = 2
    Values = {0, 1}
    Torn = torn
    Writers = {w1, w2}
    None = none
    Backend = "FRAM"
    Revert = TRUE
    MaxWrites = 3
    MaxFails = 1
    MaxCuts = 1
    Params = {"a", "b", "c", "d"}
    Vectors = {"b", "d"}
    Forced = {"c"}
    ParamValues = {0, 1}
    Size = 6
    LineLen = 4
    QueueLen = 1
    MaxSets = 2
    MaxErases = 1
    MaxCrashes = 1
    MaxNodeId = 4
    TwoLines = {3, 4}
    Uids <- MCUids
    NoUid <- MCNoUid
    TornUid <- MCTornUid
    Nodes <- MCNodes
    BusOf <- MCBusOf
    NumBuses = 2
    UidBytes = {0, 1}
    UidLen = 3
    PartLen = 1
    OwnId = 1
    OwnUid <- MCOwnUid
    NewIds = {0, 2}
    MaxReplies = 2
    MaxTrouble = 1
INVARIANTS
    CleanIsDurable
    ListSound
    AllSaved
    RegisteredIsStored
    OneNodeIdEach
    RemembersNodes
    StrangersAreRare
PROPERTIES
    EventuallyWritten
    ImplementsStore
    ReachesDevice
    AllocationTakesNone
    EveryNodeGetsId
