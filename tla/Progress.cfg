SPECIFICATION FairSpec
CONSTANTS
  v1 = v1
  v2 = v2
  Vertices <- MCVertices
  Statuses <- MCStatuses
  MaxStatuses = 2
  StatusCapacity = 1
  EventCapacity = 2
CHECK_DEADLOCK FALSE
INVARIANTS TypeOK StatusesAreTakenWhole OneStartOneEnd
PROPERTY StatusesAreHandled
