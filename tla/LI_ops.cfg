SPECIFICATION Spec
CONSTANTS
  Keys = {"a"}
  Parts <- MCParts
  Programs = {"t"}
  News <- MCNews
  Elements = {0, 1, 2}
  Counts = {0, 1}
  Extra = 2
  InitialLabels <- MCInitialLabels
  Failures = {"argument"}
  MaxUpdates = 1
  MaxTasks = 3
  MaxLength = 12
VIEW Lasting
INVARIANTS TypeOK LabelFits ListedInstancesAreFound
PROPERTIES PositionStaysGood DeletingGoesOn Implements
CHECK_DEADLOCK FALSE
