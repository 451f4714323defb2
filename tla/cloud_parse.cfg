SPECIFICATION Spec
CONSTANTS
  j1 = j1
  o1 = o1
  Job = {j1}
  Owner = {o1}
  OwnerOf <- OneAccount
  QueueLimit = 1
  NParts = 2
  MaxResumes = 3
  MaxRestarts = 2
INVARIANTS
  TypeOK
  AtMostOneBatch
  UploadsAreRecorded
  CheckpointIsTrue
PROPERTIES
  TableSpec
