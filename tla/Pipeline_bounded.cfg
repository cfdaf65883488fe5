SPECIFICATION FairSpec
CONSTANTS
    Cap = 2
    BatchMax = 2
    MaxSamples = 5
    WriteOutcomes = {"ok", "error"}
INVARIANTS
    EverySampleAccounted
PROPERTIES
    FateSpec
    EverySampleDecided
CHECK_DEADLOCK FALSE
