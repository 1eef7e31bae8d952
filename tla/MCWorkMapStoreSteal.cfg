\* A lock is inspected while it is released and taken by the next owner.
CONSTANTS
  p1 = p1
  p2 = p2
  None = None
  Dead = Dead
  Processes = {p1, p2}
  Creator = p1
  MaxRevision = 3
  MaxCrashes = 0
  MaxFailures = 0
SPECIFICATION Spec
CONSTRAINT CreatedAlone
CHECK_DEADLOCK FALSE
INVARIANT
  NoAcknowledgedChangeIsLost
