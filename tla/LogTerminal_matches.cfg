SPECIFICATION TerminalSpec
CONSTANTS
    MaxCalls = 3
    MaxEvents = 1
    RingSize = 2
    Slack = 1
    MaxTime = 1
INVARIANT StreamMatchesSwitch
CHECK_DEADLOCK FALSE
