SPECIFICATION Spec
CONSTANTS
  AllSlice = 3
  SliceModulus = 3
  SliceUnit = 2
  MaxSize = 10
  MaxTail = 5
INVARIANTS
  WholeLog
  TailOfLog
  PanicsOnShortLog
PROPERTIES
  LogsEnd
CHECK_DEADLOCK FALSE
