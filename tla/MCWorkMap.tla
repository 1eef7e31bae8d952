----------------------------- MODULE MCWorkMap -----------------------------
(* Four tickets: t1 is code, t3 analyses what t1 delivered, t4 is code that *)
(* waits for the analysis, and t2 is code free of the others, so that two   *)
(* code tickets can be at any stage at the same time.                       *)
EXTENDS WorkMap, TLC

CONSTANTS t1, t2, t3, t4

MCTickets == {t1, t2, t3, t4}
MCBlockedBy == (t1 :> {}) @@ (t2 :> {}) @@ (t3 :> {t1}) @@ (t4 :> {t3})

Symmetry ==
  Permutations(Leases) \cup Permutations(Trees) \cup Permutations(Commits)
=============================================================================
