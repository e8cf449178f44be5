CONSTANTS
  TAG_BUFSIZE = 2
  QrSize = 1
  HeaderDigits = 1
  LineWidth = 2
  CharWidth = 1
  charspacing = 1
  MaxCodes = 4
SPECIFICATION Spec
INVARIANTS CommentsKept
