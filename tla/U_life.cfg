SPECIFICATION Spec
CONSTANTS
  NUnits = 3
  NFds = 4
  Bufs = {b1, b2, b3}
  Null = Null
  Keys = {"INP1", "INP2", "OUT1"}
  InpKeys = {"INP1", "INP2"}
  DefaultPI = "INP1"
  NoKey = "none"
  Primary = "primary"
  Failures = {"option", "noinp", "open", "label", "late", "flush"}
INVARIANTS TypeOK NothingFreedTwice OpenUnitsOwnTheirFiles NothingLeaks PrimaryInputIsSelected
PROPERTY ClosedOnlyByItsCaller
CHECK_DEADLOCK FALSE
