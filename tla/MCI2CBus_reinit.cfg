CONSTANTS
  expander = expander
  driver = driver
  sensor = sensor
  Devices <- MCEveryDevice
  Kind <- MCEveryKind
  ResetAfter = 1
  None = None
SPECIFICATION Spec
PROPERTIES ChipValIsLastSent
