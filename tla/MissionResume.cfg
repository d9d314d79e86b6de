SPECIFICATION MCSpec
CONSTANTS
    StorageSize = 31
    Items <- MCItems
    JunkCounts = {0, 1}
    Stations = {g1, g2}
    Links = {l1, l2}
    UploadTimeout = 1
    MaxStarts = 2
    NoLink = NoLink
    NoRequest = NoRequest
    Garbage = Garbage
    Commands <- MCCommands
    Missions <- MCMissions
    MaxTracked = 2
    MaxJumps = 6
    MaxSearch = 6
    KeepCounters = FALSE
    MaxCount = 2
    HangAfter = 20
    MaxOrders = 2
PROPERTIES
    ResumeContinues
