SPECIFICATION BudgetSpec
CONSTANTS
  PollChoices = {2}
  Targets = {3}
  Life = 2
  Window = 1
  Horizon = 5
  GatewayTimes = {}
  RebootModes = {"ota"}
  Faults = {"reset"}
INVARIANTS
  TypeOK
  BudgetKept
PROPERTY
  DeadlineNeverExtended
