SPECIFICATION SessionFairSpec
CONSTANTS MaxData = 2 Returning = {"source"}
INVARIANTS ClosedRowComplete
PROPERTIES DirectSuppressesRelay SessionSettles LostDeviceEndsSession
CHECK_DEADLOCK FALSE
