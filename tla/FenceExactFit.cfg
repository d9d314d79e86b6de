SPECIFICATION Spec
CONSTANTS
    StorageSize = 30
    Items <- MCItems
    JunkCounts = {0, 1}
    Stations = {g1, g2}
    Links = {l1, l2}
    UploadTimeout = 1
    MaxStarts = 1
    NoLink = NoLink
    NoRequest = NoRequest
    Garbage = Garbage
INVARIANTS
    StoredIsReadable
