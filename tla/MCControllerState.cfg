\* Two invocations and two servers, one process of which may crash.
CONSTANTS
  None = None
  Empty = Empty
  Clis = {c1, c2}
  Servers = {s1, s2}
  MaxCrashes = 1
SPECIFICATION Spec
SYMMETRY Symmetry
CHECK_DEADLOCK FALSE
INVARIANTS
  TypeOK
  OwnerLockIsExclusive
  OneServerServes
  StartupIsExclusive
PROPERTY
  LiveOwnerIsNotReplaced
