SPECIFICATION PresenceFairSpec
CONSTANTS Conns = {c1, c2, c3} NoConn = NoConn
INVARIANTS EntryHasHandler NoLateWrite
PROPERTIES HealthyEntryKept LiveShownOnline TunnelsEnd CloseUnblocks
CHECK_DEADLOCK FALSE
