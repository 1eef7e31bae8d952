\* Three code tickets and an analysis of what one of them delivered.
CONSTANTS
  t1 = t1
  t2 = t2
  t3 = t3
  t4 = t4
  None = None
  Tickets <- MCTickets
  Analysis = {t3}
  BlockedBy <- MCBlockedBy
  FogTickets = {t2}
  Leases = {l1, l2}
  Trees = {d1, d2}
  Commits = {c1, c2}
  MaxAttempts = 2
SPECIFICATION Spec
SYMMETRY Symmetry
CHECK_DEADLOCK FALSE
INVARIANTS
  TypeOK
  DependenciesDelivered
  EvidenceBoundToClaim
  VerifiedEvidenceChain
  CompletedMapIsDelivered
  ClosedMapHasNoOpenTicket
PROPERTIES
  VerifiedEvidenceIsFinal
