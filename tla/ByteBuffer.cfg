SPECIFICATION MCSpec
CONSTANTS
    Size = 5
    Bytes = {0, 1}
    MaxLen = 4
    ClearLocked = TRUE
    BlockCount = 3
    BlockLen = 2
    Sizes = {3}
    MaxBlocks = 0
    Silence = 0
    MaxSeq = 4
    MaxMishaps = 1
    MaxFlight = 1
INVARIANTS
    ReadsInOrder
    CommitAccepted
    ListsSound
    SpaceIsReal
    LogNothingLost
PROPERTIES
    ImplementsFifo
    CommitAppends
    ImplementsLogBlocks
    BlocksComeBack
