\* A longer receipt, and a broker that may crash and is started again.
CONSTANTS
  a = a
  b = b
  None = None
  Lease = lease
  Recorders = {p1}
  Reviewers = {r1}
  Trees = {a, b}
  Passing = {b}
  MaxRevision = 6
  MaxAttempts = 2
  MaxRecords = 3
  MaxCrashes = 1
SPECIFICATION FairSpec
CHECK_DEADLOCK FALSE
INVARIANTS
  TypeOK
  SubjectIsOfTheAttempt
  IntegratedTreeIsReviewed
  ReviewIsOfTheReceipt
  RecordedCommitWasReceived
PROPERTIES
  LifecycleSpec
  IntegrationIsRecorded
