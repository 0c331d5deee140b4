SPECIFICATION FairSpec
CONSTANTS
  Readings = {1, 2, 5}
  Capacity = 3
  HampelWindow = 3
  Multiplier = 1
  Floor = 3
  Sudden = 3
  RiseCount = 2
  RiseRequired = 2
  RiseTolerance = 1
  FallCount = 3
  FallRequired = 3
  FallTolerance = 1
  Faults = {"nvs", "reset"}
INVARIANTS
  TypeOK
PROPERTIES
  JumpIsConfirmed
  SteadyLevelAccepted
