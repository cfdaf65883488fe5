SPECIFICATION FairSpec
CONSTANTS
    Callers = {c1, c2}
    TTL = 2
INVARIANTS
    SamplersTypeOK
    AbsenceHonest
    StartupTimesTrue
    FramesAccounted
    NamesHonest
PROPERTIES
    MeasurementEnds
    AppShareHonest
    EndsOnlyForCause
    EndsWhenGone
CHECK_DEADLOCK FALSE
