\* Where the code leaves what the plan of phase 2 says.
CONSTANTS
  a = a
  b = b
  None = None
  Lease = lease
  Recorders = {p1}
  Reviewers = {r1}
  Trees = {a, b}
  Passing = {b}
  MaxRevision = 5
  MaxAttempts = 2
  MaxRecords = 3
  MaxCrashes = 0
SPECIFICATION Spec
CHECK_DEADLOCK FALSE
INVARIANTS
  GreenIsOfTheCandidate
