SPECIFICATION Spec
CONSTANTS
  Session = {s1, s2}
  Piece = {p}
  Source = {a}
  Excerpt = {a}
  MaxEdits = 3
  MaxFailures = 1
  MaxDecisions = 1
  MaxBeside = 1
SYMMETRY PagesAlike
INVARIANTS
  TypeOK
  BaseIsConfirmed
PROPERTIES
  NothingUnseenReplaced
CHECK_DEADLOCK FALSE
