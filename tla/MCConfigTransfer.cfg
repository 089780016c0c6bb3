SPECIFICATION LiveSpec
CONSTANTS
    Files <- MCFiles
    Texts <- MCTexts
    LastTry = 2
    MaxOps = 2
    MaxFaults = 2
    MaxResets = 1
INVARIANTS TypeOK ValidWasSent PutOkStored
PROPERTIES TransferEnds OtherFilesKept
CHECK_DEADLOCK FALSE
