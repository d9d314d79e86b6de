SPECIFICATION Spec
CONSTANTS
    StorageSize = 2
    Values = {0, 1}
    Zero = 0
    SectorSize = 8
    SectorHdr = 1
    BlockHdr = 1
    BlockSize = 1
    MaxBlocks = 1
    WriteLens = {1, 2}
    MaxFaults = 0
    MaxCuts = 1
    MaxUpdates = 2
    TwoPhase = FALSE
INVARIANTS
    SwitchSurvivesPowerFailure
