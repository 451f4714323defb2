SPECIFICATION Spec
CONSTANTS
  Job = {j1}
  Monitor = {m1}
  MaxRequests = 0
  MaxRestarts = 0
INVARIANTS
  OccupiedIsServed
CHECK_DEADLOCK FALSE
