CONSTANTS
  TAG_BUFSIZE = 2
  QrSize = 1
  HeaderDigits = 1
  LineWidth = 4
  CharWidth = 1
  charspacing = 1
  MaxCodes = 6
SPECIFICATION Spec
INVARIANTS TextKept BuffersSafe
