SPECIFICATION FairSpec
CONSTANTS
  Cap = 3
  MaxChunks = 4
INVARIANTS
  MarkerSlotFree
PROPERTIES
  ImplementsByteStream
  ShutdownCompletes
  TargetFailureNotifiesRelay
CHECK_DEADLOCK FALSE
