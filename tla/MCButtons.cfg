CONSTANTS
  modifier = modifier
  other = other
  Buttons <- MCList
  Types <- MCTypes
  Pin <- MCPin
  activeHigh <- MCOther
  shiftMask <- MCOther
  LowPass <- MCRising
  Hold <- MCOne
  HoldTime = 1
  ShortTime = 1
  PulseTime <- MCOne
  Spacing = 1
  ShiftPulse = 1
SPECIFICATION Spec
INVARIANTS ActionsAlternate
PROPERTIES ShiftOrNotBoth NothingStuck SettlesOnPin
