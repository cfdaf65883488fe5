SPECIFICATION FairSpec
CONSTANTS
    MaxSessions = 1
    MaxSamples = 0
    MaxCrashes = 0
    StorageOutcomes = {"ok"}
PROPERTY DeathIsFinalized
CHECK_DEADLOCK FALSE
