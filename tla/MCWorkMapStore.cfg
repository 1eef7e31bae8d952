\* Two processes, crashes and a failing write: create, update, read, recover.
CONSTANTS
  p1 = p1
  p2 = p2
  None = None
  Dead = Dead
  Processes = {p1, p2}
  Creator = p1
  MaxRevision = 3
  MaxCrashes = 2
  MaxFailures = 1
SPECIFICATION FairSpec
CONSTRAINT Explored
CHECK_DEADLOCK FALSE
INVARIANTS
  TypeOK
  MutualExclusion
  JournalIsRecoverable
  FilesAgree
  HistoryIsComplete
  AcknowledgedSurvive
PROPERTIES
  RegisterSpec
  JournalIsApplied
