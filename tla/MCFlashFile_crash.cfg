SPECIFICATION Spec
CONSTANTS
    PageWords = 2
    SectorPages = 3
    BlockSectors = 2
    Versions = {v1, v2}
    Sizes = {1, 3}
    Undeclared = 0
    MaxSaves = 3
    MaxCrashes = 2
    MaxTimeouts = 0
SYMMETRY VersionSymmetry
INVARIANTS
    Durable
    NoOverrun
    ReadableWasSaved
PROPERTIES
    ProgramsErasedOnly
    AppendSparesExisting
    ImplementsStoredFile
CHECK_DEADLOCK FALSE
