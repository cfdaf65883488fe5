SPECIFICATION FairSpec
CONSTANTS
    MaxRows = 2
    MaxTime = 1
    MaxCalls = 1
    Builds = {1, 2, 3}
    MaxRecordings = 2
    MaxMarkers = 1
    MaxEdits = 2
    Offsets = {0, 1}
    MaxListed = 2
    MaxPoints = 2
    MaxStamp = 4
    Near = 2
    Cores = 2
    MaxChoices = 2
INVARIANTS
    RecordsTypeOK
    MigrationsSound
    MarkerListsStored
    OnlyUnseenEndangered
    ChartsAgree
    IntervalsHonoured
PROPERTIES
    TablesSound
    DeletedLeavesNoTrace
    CallsConclude
CHECK_DEADLOCK FALSE
