CONSTANTS
  pool = pool
  pulsed = pulsed
  computed = computed
  Ports <- MCPorts
  PortList <- PoolFirst
  GroupPorts <- MCGroupPorts
  Pool <- MCPool
  Computed <- MCComputed
  AlwaysComputed = {}
  Noisy <- MCNoisy
  TimeLimit <- MCTimeLimit
  CoolingTime <- MCCoolingTime
  PowerLimit <- MCPowerLimit
  OnTime <- MCOnTime
  OffTime <- MCOffTime
  Levels = {0, 1, 2}
  Timeouts = {1}
  DofPorts <- MCDofPorts
  LedWizPorts <- MCDofPorts
  Profiles = {2}
  DofLevels = {0, 2}
  LoopTime = 1
  Horizon = 3
  None = None
  Forever = Forever
SPECIFICATION Spec
INVARIANTS PowerLimited ClaimsAgree PulseEnds SuspendedIsOff
PROPERTIES DutyLimited NightSilences
