SPECIFICATION Spec
CONSTANTS
  j1 = j1
  j2 = j2
  o1 = o1
  o2 = o2
  Job = {j1}
  Owner = {o1}
  OwnerOf <- OneAccount
  QueueLimit = 1
  NBlocks = 3
  MaxRequests = 4
  Workers = 2
  MaxResumes = 2
  MaxRestarts = 1
INVARIANTS
  ChargedWithinBudget
  AtMostOneLateRequest
PROPERTIES
  NoSilentRetry
  SavedNeverResent
