SPECIFICATION Spec
CONSTANTS
  Width = 2
  OptPrint = TRUE
  CanShift = TRUE
  Rmtop = FALSE
  PageMode = TRUE
  MaxLength = 2
  MaxLengthMm = 0
  Batch = 2
  Heights = {0, 3}
  MaxPages = 2
INVARIANTS TypeOK InOrder EndOfJob ShiftRestored CutBound CancelSoon
PROPERTIES PageSpec
