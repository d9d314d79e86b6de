SPECIFICATION ParamSpec
CONSTANTS
    Params = {"a", "b", "c"}
    Vectors = {"b"}
    Forced = {"c"}
    ParamValues = {0, 1}
    Size = 7
    LineLen = 4
    QueueLen = 1
    MaxSets = 2
    MaxErases = 0
    MaxCrashes = 1
INVARIANTS
    SurvivesPowerOff
