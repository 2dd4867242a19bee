SPECIFICATION HTTPSpec
CONSTANTS
  MaxRetries = 5
  InitialDelay = 9
  MaxDelay = 24
  Multiplier = 3
  Unit = 2
  Jitter = TRUE
  IntMax = 31
  Errors <- MCErrors
  BodyLen = 2
  Statuses = {200, 404, 429, 501, 503}
  TransportErrors <- MCTransportErrors
INVARIANTS RetryTypeOK DelaysAreRight OneCallAfterCancellation ResponsesAreRight
PROPERTY ImplementsContract
CHECK_DEADLOCK FALSE
