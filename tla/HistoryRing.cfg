SPECIFICATION Spec
CONSTANTS
  Capacity = 4
  Generations = 4
  LastSequence = 6
  PageSize = 2
  ChartPoints = 3
  Requests = {3}
  Faults = {"nvs", "reset", "decay"}
INVARIANTS
  TypeOK
  Chronological
  ReadInOrder
  ReadFaithful
PROPERTY ImplementsLog
