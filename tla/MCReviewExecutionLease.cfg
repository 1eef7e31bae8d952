\* Three launchers of one scope, two of which may crash.
CONSTANTS
  None = None
  Empty = Empty
  Dead = Dead
  Launchers = {p1, p2, p3}
  MaxCrashes = 2
  MaxFailures = 1
SPECIFICATION FairSpec
CHECK_DEADLOCK FALSE
INVARIANTS
  TypeOK
  OneLauncherReviews
  HolderKeepsLease
  RecoveryIsExclusive
PROPERTY
  StaleLeaseIsReplaced
