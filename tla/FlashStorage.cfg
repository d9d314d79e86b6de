SPECIFICATION MCSpec
CONSTANTS
    StorageSize = 2
    Values = {0, 1}
    Zero = 0
    SectorSize = 8
    SectorHdr = 1
    BlockHdr = 1
    BlockSize = 1
    MaxBlocks = 1
    WriteLens = {1, 2}
    MaxFaults = 1
    MaxCuts = 1
    MaxUpdates = 2
    TwoPhase = TRUE
INVARIANTS
    TypeOK
    LogsHoldCommitted
    BootRecovers
    AtRestSafe
    BootKeepsData
    NoWriteError
    ProgramsBlankFlash
    SpaceKept
PROPERTIES
    CallsReturn
