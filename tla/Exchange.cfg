SPECIFICATION Spec
CONSTANTS
  LastSequence = 3
  MaxAttempts = 2
  MaxIssued = 2
  Types = {"enter", "poll", "schedule"}
  MaxAnswers = 2
  MaxPackets = 3
  MaxSessions = 2
  Faults = {"nvs", "reset", "storage", "reuse"}
INVARIANTS
  TypeOK
  SequenceFresh
  ReportedIsDurable
  AppliedHasEffect
PROPERTIES
  NoStaleCommand
  EnteredOnce
  ImplementsService
