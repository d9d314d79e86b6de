SPECIFICATION Spec
CONSTANTS
    StorageSize = 3
    Values = {0, 1}
    Zero = 0
    SectorSize = 12
    SectorHdr = 1
    BlockHdr = 1
    BlockSize = 2
    MaxBlocks = 1
    WriteLens = {1, 2}
    MaxFaults = 0
    MaxCuts = 1
    MaxUpdates = 2
    TwoPhase = FALSE
INVARIANTS
    BootKeepsData
