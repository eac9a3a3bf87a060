CONSTANTS
  MaxOut = 1
  MaxEvents = 1
SPECIFICATION FairSpec
INVARIANTS OutcomeRecorded WaitingNeverCoversLive
PROPERTIES NoDirectOutputAfterRelay AlwaysSettles Released
CHECK_DEADLOCK FALSE
