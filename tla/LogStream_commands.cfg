SPECIFICATION FairSpec
CONSTANTS
    MaxCalls = 3
    MaxEvents = 2
INVARIANTS
    StreamsUnderControl
PROPERTIES
    CommandsTakeEffect
CHECK_DEADLOCK FALSE
