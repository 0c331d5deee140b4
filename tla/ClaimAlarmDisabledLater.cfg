SPECIFICATION Spec
CONSTANTS
  PollChoices = {2}
  Targets = {3, 5}
  Life = 2
  Window = 1
  Horizon = 6
  GatewayTimes = {}
  RebootModes = {}
  Faults = {}
INVARIANT AlarmDisabledLater
