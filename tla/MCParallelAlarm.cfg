\* The wait for an interrupt, with a timeout.
CONSTANTS
  Size = 1
  MaxCalls = 2
SPECIFICATION FairSpec
PROPERTY IrqWaitEnds
\* select() without a timeout waits for ever if the interrupt does not come
CHECK_DEADLOCK FALSE
