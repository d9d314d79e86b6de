SPECIFICATION BufferSpec
CONSTANTS
    Size = 4
    Bytes = {0, 1}
    MaxLen = 3
    ClearLocked = FALSE
PROPERTIES
    CommitAppends
