SPECIFICATION LiveSpec
CONSTANT Sections <- MCSections
INVARIANTS HungConfigNotReloaded FiredOnce
PROPERTIES SequenceNotInterrupted PendingEnds
