SPECIFICATION Spec
CONSTANTS
  j1 = j1
  j2 = j2
  o1 = o1
  o2 = o2
  Job = {j1, j2}
  Owner = {o1}
  OwnerOf <- OneAccount
  QueueLimit = 1
  NBlocks = 1
  MaxRequests = 1
  Workers = 2
  MaxResumes = 1
  MaxRestarts = 1
INVARIANTS
  TypeOK
  OneActiveJobPerOwner
  NoStaleCancelFlag
  RunningHasRun
PROPERTIES
  TableSpec
