\* Three creates of two names, for one ticket or for none.
CONSTANTS
  None = None
  Creators = {c1, c2, c3}
  Names = {n1, n2}
  Tickets = {t}
  MaxCrashes = 1
  MaxFailures = 1
SPECIFICATION Spec
SYMMETRY Symmetry
CONSTRAINT Unraced
CHECK_DEADLOCK FALSE
INVARIANTS
  TypeOK
  ClaimHasItsLease
  ActiveLeaseIsUsable
PROPERTY
  WorkIsKept
