SPECIFICATION FairSpec
CONSTANTS
    Stub = TRUE
    Capacity = 2
    Tags = 2
    MaxSignals = 2
INVARIANTS
    TypeOK
    EventsAreShown
    TagsAreTried
PROPERTIES
    InterruptEnds
