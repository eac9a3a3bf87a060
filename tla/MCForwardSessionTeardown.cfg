SPECIFICATION SessionFairSpec
CONSTANTS MaxData = 0 Returning = {}
PROPERTY OfflineSourceFreesTarget
CHECK_DEADLOCK FALSE
