SPECIFICATION Spec
CONSTANTS
  Paper = {p1}
  MaxBatches = 2
  MaxRevision = 3
  Providers = 1
  MaxRequests = 2
  MaxRetries = 1
  MaxFailures = 1
INVARIANTS
  TypeOK
  IndexFollows
PROPERTIES
  LateResultRefused
CHECK_DEADLOCK FALSE
