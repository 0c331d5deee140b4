SPECIFICATION Spec
CONSTANTS
  PollChoices = {2}
  Targets = {2, 4}
  Life = 2
  Window = 1
  Horizon = 5
  GatewayTimes = {}
  RebootModes = {}
  Faults = {"reset", "nvs", "storage", "portal", "history"}
INVARIANT
  ReleaseInv
PROPERTIES
  LatchHeld
  ReleaseKeepsAlarm
