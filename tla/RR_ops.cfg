SPECIFICATION Spec
CONSTANTS
  Width = 3
  Height = 2
  MaxRects = 2
  MaxHollow = 1
  Side = 4
INVARIANTS TypeOK ClipIsSafe
PROPERTIES Implements OnlyMergesOverlap PassesLeaveLess
CHECK_DEADLOCK FALSE
