CONSTANTS
  expander = expander
  driver = driver
  sensor = sensor
  Devices <- MCDevices
  Kind <- MCKind
  ResetAfter = 1
  None = None
SPECIFICATION Spec
INVARIANTS CompletionsAreOwn DmaNotReprogrammed QuietMeansSet
PROPERTIES TurnComes WedgeEnds
