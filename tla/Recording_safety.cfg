SPECIFICATION Spec
CONSTANTS
    MaxSessions = 2
    MaxSamples = 1
    MaxCrashes = 1
    StorageOutcomes = {"ok", "error"}
INVARIANTS
    SingleOwner
    EndedEventTruthful
    RowsTellTheTruth
PROPERTIES
    HistorySpec
    LivingSessionLeavesByUser
CHECK_DEADLOCK FALSE
