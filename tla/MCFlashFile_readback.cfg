SPECIFICATION Spec
CONSTANTS
    PageWords = 2
    SectorPages = 3
    BlockSectors = 2
    Versions = {v1, v2}
    Sizes = {1, 3}
    Undeclared = 0
    MaxSaves = 3
    MaxCrashes = 1
    MaxTimeouts = 1
INVARIANT SuccessIsReadable
CHECK_DEADLOCK FALSE
