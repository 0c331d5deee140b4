SPECIFICATION Spec
CHECK_DEADLOCK FALSE
CONSTANTS
  Pings = 3
  MinimumValid = 2
  Starts = {10957, 46020}
  Span = 1461
  Start = 86399
  PollDays = {10957, 11363, 12417, 46020, 47480}
  Ahead = {0, 1, 27, 28, 31}
  TargetTimes = {0, 1}
  Threshold = 5
  Drifts = {10}
  MaxSlack = 16
  Faults = {"i2c", "air"}
INVARIANTS
  TypeOK
  PingTimesItsEcho
  ClockIsTrue
  AlarmOnTime
  OnlyIntactAccepted
