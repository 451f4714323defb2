SPECIFICATION Spec
CONSTANTS
  whole = whole
  again = again
  NoRun = NoRun
  Run = {whole, again}
  Forced = {again}
  Scope <- ScopeOfRuns
  NBlocks = 2
  PageSize = 1
  MaxResumes = 1
  MaxCrashes = 1
INVARIANTS
  TypeOK
  CompletedIsCurrent
  RevisionsHaveFiles
  CompletedIsWhole
  OrphansComeFromCrashes
PROPERTIES
  ReadableStaysReadable
CHECK_DEADLOCK FALSE
