SPECIFICATION PresenceFairSpec
CONSTANTS Conns = {c1, c2} NoConn = NoConn
PROPERTY LostShownOffline
CHECK_DEADLOCK FALSE
