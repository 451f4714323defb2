SPECIFICATION Spec
CONSTANTS
  Job = {j1}
  Monitor = {m1, m2}
  MaxRequests = 1
  MaxRestarts = 1
SYMMETRY AnyOrder
INVARIANTS
  TypeOK
  OneThread
  CompletedIsPublished
  RunningIsWatched
CHECK_DEADLOCK FALSE
