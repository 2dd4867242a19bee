SPECIFICATION FairSpec
CONSTANTS
    MaxWait = 3
    MaxRestarts = 3
    MaxStops = 3
    MaxCaches = 2
INVARIANTS
    TypeOK
    ClientsAreSound
PROPERTIES
    ConstructionEnds
CHECK_DEADLOCK FALSE
