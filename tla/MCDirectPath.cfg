SPECIFICATION FairSpec
CONSTANTS MaxChunks = 2 MaxRelayed = 1 MaxEvents = 1
INVARIANTS ServiceGetsAll ClientHearsOne
PROPERTIES CleanupFrees ServiceEndReachesClient
CHECK_DEADLOCK FALSE
