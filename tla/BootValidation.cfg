SPECIFICATION Spec
CONSTANTS
  Polls = {0, 5}
  Windows = {120}
  Radios = {"a", "b", "none"}
  LegacyLengths = {1, 2}
  LegacyIntervals = {61}
  LegacyWindows = {90, 400}
  DefaultRadio = "a"
  UnsupportedRadio = "none"
  Layouts = {2, 3}
  Faults = {"nvs", "read", "reset"}
INVARIANTS
  TypeOK
  SupersededNeverReturns
  AcknowledgedSurvives
  RadioFollowsConfig
  AlwaysBootable
