SPECIFICATION FairSpec
CONSTANTS
    MaxPids = 3
    MaxBlips = 2
INVARIANTS
    StatusHonest
PROPERTIES
    FollowsApp
    UnpluggedShows
CHECK_DEADLOCK FALSE
