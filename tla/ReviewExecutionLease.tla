------------------------ MODULE ReviewExecutionLease ------------------------
(***************************************************************************)
(* The lease a `goldband review code` launcher takes before it starts a    *)
(* review of one repository and scope: a file created exclusively, and for *)
(* a lease whose owner died a second file that guards its replacement.     *)
(* Every file operation is a step of its own, because creating a file and  *)
(* writing its record are two; a launcher may crash before any of them,    *)
(* and a write may fail.                                                   *)
(*                                                                         *)
(* A launcher is a process that launches at most one review and exits, so  *)
(* its pid and its token identify it alike, and a crashed or exited one    *)
(* is told from a live one by nothing but its pid.                         *)
(***************************************************************************)
EXTENDS Naturals, FiniteSets

CONSTANTS
  Launchers,     \* launcher processes; after its exit one is started again
  MaxCrashes,    \* bound on the launchers that crash
  MaxFailures,   \* bound on the writes that fail
  None,          \* the file does not exist
  Empty,         \* the file was created, its record is not written
  Dead           \* the file names a process that is gone

ASSUME LeaseAssumption ==
  /\ MaxCrashes \in Nat
  /\ MaxFailures \in Nat
  /\ None # Empty /\ None # Dead /\ Empty # Dead
  /\ {None, Empty, Dead} \cap Launchers = {}

VARIABLES
  file,          \* the lease: None, Empty, Dead, or the launcher it names
  recovery,      \* its .recovery file, likewise
  pc,            \* pc[p]: the operation launcher p does next
  won,           \* won[p]: did p replace the stale lease?
  orphans,       \* reviews still running although their launcher crashed
  crashes,       \* how many launchers crashed
  failures       \* how many writes failed

vars == <<file, recovery, pc, won, orphans, crashes, failures>>
faults == <<orphans, crashes, failures>>

Goto(p, step) == pc' = [pc EXCEPT ![p] = step]

\* A launcher that exits or crashes is gone from then on: what names it names
\* a dead process.
Exit(p) ==
  /\ Goto(p, "idle")
  /\ won' = [won EXCEPT ![p] = FALSE]

Orphaned(content, p) == IF content = p THEN Dead ELSE content

-----------------------------------------------------------------------------
(* acquireReviewExecutionLease.                                            *)

CreateLease(p) ==
  /\ pc[p] = "idle"
  /\ IF file = None THEN file' = Empty /\ Goto(p, "write")
                    ELSE UNCHANGED file /\ Goto(p, "inspect")
  /\ UNCHANGED <<recovery, won, faults>>

WriteLease(p) ==
  /\ pc[p] = "write"
  /\ file' = p
  /\ Goto(p, "review")
  /\ UNCHANGED <<recovery, won, faults>>

\* Mutant: every lease in the way is taken for a live one.
RefuseAnyLease(p) ==
  /\ pc[p] = "inspect"
  /\ Exit(p)
  /\ UNCHANGED <<file, recovery, faults>>

\* A lease that is missing by now, unreadable or live is an error.
InspectLease(p) ==
  /\ pc[p] = "inspect"
  /\ IF file = Dead THEN Goto(p, "recover") /\ UNCHANGED won ELSE Exit(p)
  /\ UNCHANGED <<file, recovery, faults>>

\* Mutant: a recovery that is under way does not keep others out.
StartAnyRecovery(p) ==
  /\ pc[p] = "recover"
  /\ recovery' = Empty
  /\ Goto(p, "claim")
  /\ UNCHANGED <<file, won, faults>>

StartRecovery(p) ==
  /\ pc[p] = "recover"
  /\ IF recovery = None THEN recovery' = Empty /\ Goto(p, "claim") /\ UNCHANGED won
                        ELSE UNCHANGED recovery /\ Exit(p)
  /\ UNCHANGED <<file, faults>>

ClaimRecovery(p) ==
  /\ pc[p] = "claim"
  /\ recovery' = p
  /\ Goto(p, "reread")
  /\ UNCHANGED <<file, won, faults>>

\* Mutant: the lease that was read before the recovery began is replaced.
TrustFirstRead(p) ==
  /\ pc[p] = "reread"
  /\ Goto(p, "replace")
  /\ UNCHANGED <<file, recovery, won, faults>>

\* The lease is read again: another recovery may have come first.
RereadLease(p) ==
  /\ pc[p] = "reread"
  /\ Goto(p, IF file = Dead THEN "replace" ELSE "finish")
  /\ UNCHANGED <<file, recovery, won, faults>>

\* The replacement is written to a file of its own and renamed into place.
ReplaceLease(p) ==
  /\ pc[p] = "replace"
  /\ file' = p
  /\ won' = [won EXCEPT ![p] = TRUE]
  /\ Goto(p, "finish")
  /\ UNCHANGED <<recovery, faults>>

\* Mutant: the recovery file is removed after a replacement only.
CleanUpOnSuccess(p) ==
  /\ pc[p] = "finish"
  /\ recovery' = IF won[p] THEN None ELSE recovery
  /\ IF won[p] THEN Goto(p, "review") /\ UNCHANGED won ELSE Exit(p)
  /\ UNCHANGED <<file, faults>>

\* The `finally` of the recovery removes the file only when it is the caller's.
FinishRecovery(p) ==
  /\ pc[p] = "finish"
  /\ recovery' = IF recovery = p THEN None ELSE recovery
  /\ IF won[p] THEN Goto(p, "review") /\ UNCHANGED won ELSE Exit(p)
  /\ UNCHANGED <<file, faults>>

-----------------------------------------------------------------------------
(* The review, and releaseReviewExecutionLease.                            *)

\* The launcher waits for the runtime it spawned.
EndReview(p) ==
  /\ pc[p] = "review"
  /\ Goto(p, "release")
  /\ UNCHANGED <<file, recovery, won, faults>>

ReadOwnLease(p) ==
  /\ pc[p] = "release"
  /\ IF file = p THEN Goto(p, "unlink") /\ UNCHANGED won ELSE Exit(p)
  /\ UNCHANGED <<file, recovery, faults>>

\* The file is unlinked by its name, whatever it says by now.
UnlinkLease(p) ==
  /\ pc[p] = "unlink"
  /\ file' = None
  /\ Exit(p)
  /\ UNCHANGED <<recovery, faults>>

\* A review whose launcher is gone ends by itself.
OrphanEnds ==
  /\ orphans > 0
  /\ orphans' = orphans - 1
  /\ UNCHANGED <<file, recovery, pc, won, crashes, failures>>

-----------------------------------------------------------------------------
(* What may go wrong.                                                      *)

\* A record that cannot be written leaves the created file empty; a failing
\* replacement leaves the recovery file, because its own unreadable file ends
\* the clean-up first.
WriteFails(p) ==
  /\ pc[p] \in {"write", "claim", "replace"}
  /\ failures < MaxFailures
  /\ failures' = failures + 1
  /\ recovery' = Orphaned(recovery, p)
  /\ Exit(p)
  /\ UNCHANGED <<file, orphans, crashes>>

\* Killing the launcher does not kill the runtime it is waiting for.
Crash(p) ==
  /\ pc[p] # "idle"
  /\ crashes < MaxCrashes
  /\ crashes' = crashes + 1
  /\ file' = Orphaned(file, p)
  /\ recovery' = Orphaned(recovery, p)
  /\ orphans' \in IF pc[p] = "review" THEN {orphans, orphans + 1} ELSE {orphans}
  /\ Exit(p)
  /\ UNCHANGED failures

-----------------------------------------------------------------------------
Init ==
  /\ file = None
  /\ recovery = None
  /\ pc = [p \in Launchers |-> "idle"]
  /\ won = [p \in Launchers |-> FALSE]
  /\ orphans = 0 /\ crashes = 0 /\ failures = 0

Step(p) ==
  \/ WriteLease(p) \/ InspectLease(p)
  \/ StartRecovery(p) \/ ClaimRecovery(p) \/ RereadLease(p) \/ ReplaceLease(p)
  \/ FinishRecovery(p)
  \/ EndReview(p) \/ ReadOwnLease(p) \/ UnlinkLease(p)

Next ==
  \/ \E p \in Launchers : CreateLease(p) \/ Step(p) \/ WriteFails(p) \/ Crash(p)
  \/ OrphanEnds

Spec == Init /\ [][Next]_vars

\* A launcher that was started goes on, and reviews are asked for again.
FairSpec == Spec /\ \A p \in Launchers : WF_vars(CreateLease(p) \/ Step(p))

-----------------------------------------------------------------------------
(* Properties.                                                             *)

Contents == Launchers \cup {None, Empty, Dead}
Steps ==
  {"idle", "write", "inspect", "recover", "claim", "reread", "replace", "finish",
   "review", "release", "unlink"}

\* No file names a launcher that has exited: it names a dead process then.
TypeOK ==
  /\ file \in Contents
  /\ recovery \in Contents
  /\ pc \in [Launchers -> Steps]
  /\ won \in [Launchers -> BOOLEAN]
  /\ orphans \in Nat /\ crashes \in 0 .. MaxCrashes /\ failures \in 0 .. MaxFailures
  /\ \A p \in Launchers : pc[p] = "idle" => file # p /\ recovery # p

\* p has the lease, from the moment it is named by it until it unlinks it.
Holds(p) ==
  \/ pc[p] \in {"review", "release", "unlink"}
  \/ pc[p] = "finish" /\ won[p]

\* Two launchers never review one scope at the same time, however many find
\* the same dead owner and whoever of them replaces its lease first.
OneLauncherReviews ==
  \A p, q \in Launchers : Holds(p) /\ Holds(q) => p = q

\* A live lease is never taken away: the file names its holder until the holder
\* unlinks it itself, and a live launcher it names is its holder.
HolderKeepsLease ==
  \A p \in Launchers : Holds(p) <=> file = p

\* Only one launcher replaces a stale lease at a time, and the lease it is about
\* to replace still names a dead process.
RecoveryIsExclusive ==
  /\ \A p, q \in Launchers :
       pc[p] \in {"claim", "reread", "replace", "finish"} /\
       pc[q] \in {"claim", "reread", "replace", "finish"} => p = q
  /\ \A p \in Launchers : pc[p] = "replace" => file = Dead

\* A recovery file that nobody is going to remove.
RecoveryAbandoned ==
  /\ recovery # None
  /\ \A p \in Launchers : pc[p] \notin {"claim", "reread", "replace", "finish"}

\* The lease of a dead owner is replaced as long as launchers come and none of
\* them is lost in the middle of a recovery.
StaleLeaseIsReplaced == (file = Dead) ~> (file # Dead \/ RecoveryAbandoned)

=============================================================================
