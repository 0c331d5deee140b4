SPECIFICATION Spec
CONSTANTS
  PollChoices = {1}
  Targets = {2}
  Life = 1
  Window = 1
  Horizon = 3
  GatewayTimes = {3}
  RebootModes = {}
  Faults = {"i2c"}
PROPERTIES
  PowerGivenUpArmed
  AlarmFlagKept
