SPECIFICATION Spec
CONSTANTS
    Names = {n1, n2}
    MaxSizes = {1, 2}
    DataSectors = 4
    Slots = 4
    PageSlots = 2
    MaxSaves = 4
    MaxCrashes = 1
    MaxTimeouts = 1
    MaxResets = 1
SYMMETRY NameSymmetry
INVARIANTS
    TypeOK
    BlocksDisjoint
    NamesUnique
    KeptReadable
CHECK_DEADLOCK FALSE
