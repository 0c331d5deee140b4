SPECIFICATION FairSpec
CONSTANTS
  PollChoices = {1}
  Targets = {3, 4}
  Life = 1
  Window = 1
  Horizon = 4
  GatewayTimes = {}
  RebootModes = {"ota"}
  Faults = {}
PROPERTIES
  CycleEnds
  MaintenanceEnds
  NextWake
  ScheduleServed
