SPECIFICATION Spec
CONSTANTS
  Width = 2
  OptPrint = TRUE
  CanShift = FALSE
  Rmtop = TRUE
  PageMode = FALSE
  MaxLength <- Unlimited
  MaxLengthMm <- Unlimited
  Batch = 2
  Heights = {0, 3}
  MaxPages = 2
INVARIANTS DarkInOrder EndOfJob
