SPECIFICATION Spec
CONSTANTS
  PollChoices = {2}
  Targets = {4}
  Life = 2
  Window = 1
  Horizon = 6
  GatewayTimes = {}
  RebootModes = {"ota"}
  Faults = {}
INVARIANT MarkerConsumed
