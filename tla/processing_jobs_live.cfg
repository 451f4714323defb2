SPECIFICATION FairSpec
CONSTANTS
  j1 = j1
  j2 = j2
  o1 = o1
  o2 = o2
  Job = {j1, j2}
  Owner = {o1, o2}
  OwnerOf <- TwoAccounts
  QueueLimit = 1
  NBlocks = 1
  MaxRequests = 1
  Workers = 1
  MaxResumes = 1
  MaxRestarts = 0
INVARIANTS
  QueueBounded
PROPERTIES
  CancellationEnds
  QueuedServed
