SPECIFICATION FairSpec
CONSTANTS
    PageWords = 2
    SectorPages = 3
    BlockSectors = 2
    Versions = {v1}
    Sizes = {1, 4}
    Undeclared = 3
    MaxSaves = 3
    MaxCrashes = 1
    MaxTimeouts = 2
PROPERTY
    SaveEnds
CHECK_DEADLOCK FALSE
