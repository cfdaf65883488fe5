SPECIFICATION FairSpec
CONSTANTS
    MaxSessions = 2
    MaxSamples = 0
    MaxCrashes = 0
    StorageOutcomes = {"ok"}
INVARIANTS
    RowsEndedByWriter
PROPERTIES
    StopCompletes
    DeathHasConsequences
CHECK_DEADLOCK FALSE
