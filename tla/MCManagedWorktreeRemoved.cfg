\* A create is killed and two others of its ticket and name come.
CONSTANTS
  None = None
  Creators = {c1, c2, c3}
  Names = {n1}
  Tickets = {t}
  MaxCrashes = 1
  MaxFailures = 0
SPECIFICATION Spec
SYMMETRY Symmetry
CHECK_DEADLOCK FALSE
PROPERTY
  RemovedAfterReadback
