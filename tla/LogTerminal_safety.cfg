SPECIFICATION TerminalSpec
CONSTANTS
    MaxCalls = 3
    MaxEvents = 2
    RingSize = 1
    Slack = 0
    MaxTime = 2
INVARIANTS
    TerminalTypeOK
    ShownFaithfully
CHECK_DEADLOCK FALSE
