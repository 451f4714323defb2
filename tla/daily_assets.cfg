SPECIFICATION FairSpec
CONSTANTS
  a = a
  b = b
  Row = {a, b}
  OwnerOf <- TwoAccounts
  GiveUp = 2
  MaxDisturbances = 1
INVARIANTS
  InFlightIsWorked
PROPERTIES
  QueuedIsClaimedFirst
  WantedIsSettled
