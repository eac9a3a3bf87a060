SPECIFICATION FairSpec
CONSTANTS MaxFrames = 2 MaxEvents = 1
INVARIANTS StreamsUnmixed PathRecorded
PROPERTIES GreetingHeard AlwaysSettles Released
CHECK_DEADLOCK FALSE
