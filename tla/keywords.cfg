SPECIFICATION Spec
CONSTANTS
  Paper = {p}
  Tag = {a, b}
  MaxItems = 2
  MaxChanges = 2
  MaxDisturbances = 3
SYMMETRY TagsAlike
INVARIANTS
  TypeOK
  QuietIsCurrent
PROPERTIES
  RemovedStaysOut
CHECK_DEADLOCK FALSE
