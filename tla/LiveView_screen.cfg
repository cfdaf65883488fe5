SPECIFICATION FairSpec
CONSTANTS
    MaxSessions = 2
    MaxStops = 1
    HeartbeatTicks = 2
INVARIANTS
    LiveTypeOK
    ScreenTellsTheTruth
PROPERTIES
    NoStopOnFlicker
    SilenceEnds
CHECK_DEADLOCK FALSE
