\* The parallel port by itself: calls with up to three bytes together.
CONSTANTS
  Size = 2
  MaxCalls = 3
SPECIFICATION FairSpec
INVARIANTS
  TypeOK
  WrittenOnce
  ReadOnce
  Quiescent
  OneDriver
  Synchronised
PROPERTY CallReturns
\* select() without a timeout waits for ever if the interrupt does not come
CHECK_DEADLOCK FALSE
