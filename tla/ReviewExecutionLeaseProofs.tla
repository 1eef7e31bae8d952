--------------------- MODULE ReviewExecutionLeaseProofs ---------------------
(***************************************************************************)
(* Proofs about the review execution lease, for any number of launchers,   *)
(* crashes and failing writes.                                             *)
(*                                                                         *)
(* The exclusion of holders is not inductive: that a replacement does not  *)
(* take a live lease away needs the lease to be dead when it is replaced,  *)
(* which needs one recovery at a time, which needs the recovery file to    *)
(* name the launcher that is inside; and that the first writer is alone    *)
(* needs the file it created to be still empty.                            *)
(***************************************************************************)
EXTENDS ReviewExecutionLease, TLAPS

Recovering == {"reread", "replace", "finish"}

\* The recovery file names the launcher that is recovering, and is empty while
\* the one that created it has not written its record.
RecoveryNamesOwner ==
  \A p \in Launchers :
    /\ pc[p] \in Recovering <=> recovery = p
    /\ pc[p] = "claim" => recovery = Empty

\* The launcher that created the lease finds it empty when it writes, alone.
WriterIsAlone ==
  /\ \A p \in Launchers : pc[p] = "write" => file = Empty
  /\ \A p, q \in Launchers : pc[p] = "write" /\ pc[q] = "write" => p = q

\* Only a holder has replaced the lease.
WinnerHolds == \A p \in Launchers : won[p] => Holds(p)

IInv ==
  /\ TypeOK
  /\ HolderKeepsLease
  /\ RecoveryIsExclusive
  /\ RecoveryNamesOwner
  /\ WriterIsAlone
  /\ WinnerHolds

-----------------------------------------------------------------------------
LEMMA InitIInv == Init => IInv
BY LeaseAssumption
DEF Init, IInv, TypeOK, Contents, Steps, HolderKeepsLease, Holds,
    RecoveryIsExclusive, RecoveryNamesOwner, Recovering, WriterIsAlone, WinnerHolds

\* Every action of a launcher is a step of its program counter, and leaves the
\* others where they are.
LEMMA NextIInv == IInv /\ [Next]_vars => IInv'
<1> SUFFICES ASSUME IInv, [Next]_vars PROVE IInv'
  OBVIOUS
<1> USE LeaseAssumption
    DEF IInv, TypeOK, Contents, Steps, HolderKeepsLease, Holds,
        RecoveryIsExclusive, RecoveryNamesOwner, Recovering, WriterIsAlone,
        WinnerHolds, Goto, Exit, Orphaned, faults
<1>1. ASSUME NEW p \in Launchers, CreateLease(p) PROVE IInv'
  BY <1>1 DEF CreateLease
<1>2. ASSUME NEW p \in Launchers, WriteLease(p) PROVE IInv'
  BY <1>2 DEF WriteLease
<1>3. ASSUME NEW p \in Launchers, InspectLease(p) PROVE IInv'
  <2>1. TypeOK'
    <3>1. CASE file = Dead
      BY <1>3, <3>1 DEF InspectLease
    <3>2. CASE file # Dead
      <4>1. pc' = [pc EXCEPT ![p] = "idle"] /\ won' = [won EXCEPT ![p] = FALSE]
        BY <1>3, <3>2 DEF InspectLease
      <4>2. file # p /\ recovery # p /\ UNCHANGED <<file, recovery, orphans, crashes, failures>>
        BY <1>3, <3>2 DEF InspectLease
      <4>3. won' \in [Launchers -> BOOLEAN]
        BY <4>1
      <4> QED
        BY <4>1, <4>2, <4>3
    <3> QED
      BY <3>1, <3>2
  <2>2. HolderKeepsLease'
    <3> SUFFICES ASSUME NEW q \in Launchers PROVE Holds(q)' <=> file' = q
      OBVIOUS
    <3>1. CASE file = Dead
      BY <1>3, <3>1 DEF InspectLease
    <3>2. CASE file # Dead
      BY <1>3, <3>2 DEF InspectLease
    <3> QED
      BY <3>1, <3>2
  <2>3. RecoveryIsExclusive'
    BY <1>3 DEF InspectLease
  <2>4. RecoveryNamesOwner'
    BY <1>3 DEF InspectLease
  <2>5. WriterIsAlone'
    BY <1>3 DEF InspectLease
  <2>6. WinnerHolds'
    BY <1>3 DEF InspectLease
  <2> QED
    BY <2>1, <2>2, <2>3, <2>4, <2>5, <2>6
<1>4. ASSUME NEW p \in Launchers, StartRecovery(p) PROVE IInv'
  <2>1. TypeOK'
    <3>1. CASE recovery = None
      BY <1>4, <3>1 DEF StartRecovery
    <3>2. CASE recovery # None
      <4>1. pc' = [pc EXCEPT ![p] = "idle"] /\ won' = [won EXCEPT ![p] = FALSE]
        BY <1>4, <3>2 DEF StartRecovery
      <4>2. file # p /\ recovery # p /\ UNCHANGED <<file, recovery, orphans, crashes, failures>>
        BY <1>4, <3>2 DEF StartRecovery
      <4>3. won' \in [Launchers -> BOOLEAN]
        BY <4>1
      <4> QED
        BY <4>1, <4>2, <4>3
    <3> QED
      BY <3>1, <3>2
  <2>2. HolderKeepsLease'
    <3> SUFFICES ASSUME NEW q \in Launchers PROVE Holds(q)' <=> file' = q
      OBVIOUS
    <3>1. CASE recovery = None
      BY <1>4, <3>1 DEF StartRecovery
    <3>2. CASE recovery # None
      BY <1>4, <3>2 DEF StartRecovery
    <3> QED
      BY <3>1, <3>2
  <2>3. RecoveryIsExclusive'
    BY <1>4 DEF StartRecovery
  <2>4. RecoveryNamesOwner'
    BY <1>4 DEF StartRecovery
  <2>5. WriterIsAlone'
    BY <1>4 DEF StartRecovery
  <2>6. WinnerHolds'
    BY <1>4 DEF StartRecovery
  <2> QED
    BY <2>1, <2>2, <2>3, <2>4, <2>5, <2>6
<1>5. ASSUME NEW p \in Launchers, ClaimRecovery(p) PROVE IInv'
  BY <1>5 DEF ClaimRecovery
<1>6. ASSUME NEW p \in Launchers, RereadLease(p) PROVE IInv'
  BY <1>6 DEF RereadLease
<1>7. ASSUME NEW p \in Launchers, ReplaceLease(p) PROVE IInv'
  BY <1>7 DEF ReplaceLease
<1>8. ASSUME NEW p \in Launchers, FinishRecovery(p) PROVE IInv'
  <2>1. TypeOK'
    <3>1. /\ file' \in Contents /\ recovery' \in Contents
          /\ orphans' \in Nat /\ crashes' \in 0 .. MaxCrashes
          /\ failures' \in 0 .. MaxFailures
      BY <1>8 DEF FinishRecovery
    <3>2. pc' \in [Launchers -> Steps] /\ won' \in [Launchers -> BOOLEAN]
      <4>1. CASE won[p]
        BY <1>8, <4>1 DEF FinishRecovery
      <4>2. CASE ~won[p]
        <5>1. pc' = [pc EXCEPT ![p] = "idle"] /\ won' = [won EXCEPT ![p] = FALSE]
          BY <1>8, <4>2 DEF FinishRecovery
        <5>2. won' \in [Launchers -> BOOLEAN]
          BY <5>1
        <5> QED
          BY <5>1, <5>2
      <4> QED
        BY <4>1, <4>2
    <3>3. ASSUME NEW q \in Launchers, pc'[q] = "idle"
          PROVE  file' # q /\ recovery' # q
      <4>1. CASE q = p
        BY <1>8, <3>3, <4>1 DEF FinishRecovery
      <4>2. CASE q # p
        BY <1>8, <3>3, <4>2 DEF FinishRecovery
      <4> QED
        BY <4>1, <4>2
    <3> QED
      BY <3>1, <3>2, <3>3
  <2>2. HolderKeepsLease'
    <3> SUFFICES ASSUME NEW q \in Launchers PROVE Holds(q)' <=> file' = q
      OBVIOUS
    <3>1. CASE won[p]
      BY <1>8, <3>1 DEF FinishRecovery
    <3>2. CASE ~won[p]
      BY <1>8, <3>2 DEF FinishRecovery
    <3> QED
      BY <3>1, <3>2
  <2>3. RecoveryIsExclusive'
    BY <1>8 DEF FinishRecovery
  <2>4. RecoveryNamesOwner'
    BY <1>8 DEF FinishRecovery
  <2>5. WriterIsAlone'
    BY <1>8 DEF FinishRecovery
  <2>6. WinnerHolds'
    BY <1>8 DEF FinishRecovery
  <2> QED
    BY <2>1, <2>2, <2>3, <2>4, <2>5, <2>6
<1>9. ASSUME NEW p \in Launchers, EndReview(p) PROVE IInv'
  BY <1>9 DEF EndReview
<1>10. ASSUME NEW p \in Launchers, ReadOwnLease(p) PROVE IInv'
  BY <1>10 DEF ReadOwnLease
<1>11. ASSUME NEW p \in Launchers, UnlinkLease(p) PROVE IInv'
  BY <1>11 DEF UnlinkLease
<1>12. ASSUME NEW p \in Launchers, WriteFails(p) PROVE IInv'
  BY <1>12 DEF WriteFails
<1>13. ASSUME NEW p \in Launchers, Crash(p) PROVE IInv'
  BY <1>13 DEF Crash
<1>14. CASE OrphanEnds
  BY <1>14 DEF OrphanEnds
<1>15. CASE UNCHANGED vars
  BY <1>15 DEF vars
<1> QED
  BY <1>1, <1>2, <1>3, <1>4, <1>5, <1>6, <1>7, <1>8, <1>9, <1>10, <1>11, <1>12,
     <1>13, <1>14, <1>15 DEF Next, Step

LEMMA Invariance == Spec => []IInv
BY InitIInv, NextIInv, PTL DEF Spec

-----------------------------------------------------------------------------
\* The files and the program counters keep their values, and no file names a
\* launcher that has exited.
THEOREM LeaseTypeCorrect == Spec => []TypeOK
<1>1. IInv => TypeOK
  BY DEF IInv
<1> QED
  BY <1>1, Invariance, PTL

\* acquireReviewExecutionLease never lets two launchers review one scope, for any
\* number of launchers, crashes and failing writes.
THEOREM LeaseExcludes == Spec => []OneLauncherReviews
<1>1. IInv => OneLauncherReviews
  BY DEF IInv, HolderKeepsLease, OneLauncherReviews
<1> QED
  BY <1>1, Invariance, PTL

\* The lease of a live launcher is never replaced or removed by another one.
THEOREM LeaseIsKept == Spec => []HolderKeepsLease
<1>1. IInv => HolderKeepsLease
  BY DEF IInv
<1> QED
  BY <1>1, Invariance, PTL

\* Two launchers never replace a stale lease at the same time.
THEOREM RecoveryExcludes == Spec => []RecoveryIsExclusive
<1>1. IInv => RecoveryIsExclusive
  BY DEF IInv
<1> QED
  BY <1>1, Invariance, PTL
=============================================================================
