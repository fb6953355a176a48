SPECIFICATION Spec
CONSTANTS
  PerRec = 2
  N2 = 1
  N3 = 2
  Names = {"a"}
  Task = "task"
  NewLabels <- MCNewLabels
  Data = {"new"}
  MaxText = 3
  Failures = {"line", "front", "flush"}
  UnreadRewrites = FALSE
INVARIANTS TypeOK ModifiedIsInMemory
PROPERTIES Implements OnlyTheNamedLineChanges
