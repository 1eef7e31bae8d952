---------------------- MODULE TicketEvidenceLifecycle ----------------------
(***************************************************************************)
(* For any number of recorders, reviewers, edits and crashes of the broker *)
(* the ticket they share lives the life of a ticket of its Work Map: every *)
(* step of theirs is one operation of WorkMap, with the evidence of the    *)
(* claim the ticket has, or none.                                          *)
(***************************************************************************)
EXTENDS TicketEvidenceProofs

\* The map has one ticket, so its status follows from the ticket's, also while the
\* ticket is blocked.
MapFollows ==
  /\ ticket.status = "ready" => mapStatus = "mapped" /\ ticket.attempt = 0
  /\ ticket.status = "blocked" /\ ticket.from = None =>
       mapStatus = "mapped" /\ ticket.attempt = 0
  /\ ticket.status = "claimed" \/ ticket.from = "claimed" => mapStatus = "executing"
  /\ ticket.status = "implemented" \/ ticket.from = "implemented" =>
       mapStatus = "verifying" /\ ticket.subject # None
  /\ ticket.status = "verified" =>
       mapStatus = IF ticket.commit = None THEN "verifying" ELSE "completed"
  /\ ticket.status = "cancelled" => mapStatus = "cancelled"

\* Nothing of a status outlives it.
FieldsFollow ==
  /\ ticket.from # None => ticket.status = "blocked"
  /\ ticket.review # None => ticket.status = "verified"

MapInv ==
  /\ MapFollows /\ FieldsFollow
  /\ finish = "record" => prepared # None

USE EvidenceAssumption DEF EvidenceAssumption

-----------------------------------------------------------------------------
(* The ticket as the map sees it.                                          *)

MapTickets == LifecycleMap!TicketRecords

LEMMA MapTicketTypes == Inv => MapTicket \in MapTickets
<1> SUFFICES ASSUME Inv PROVE MapTicket \in MapTickets
  OBVIOUS
<1>1. ticket \in TicketRecords
  BY DEF Inv, TypeInv
<1>2. MapTicket.status \in LifecycleMap!TicketStatuses
  BY <1>1 DEF MapTicket, TicketRecords, LifecycleMap!TicketStatuses,
              LifecycleMap!TicketTransitions
<1>3. MapTicket.claim \in LifecycleMap!Claims
  BY <1>1 DEF MapTicket, TicketRecords, LifecycleMap!Claims, LifecycleMap!NoClaim
<1>4. \A r \in Receipts \cup {None} : MapReceipt(r) \in LifecycleMap!Receipts
  BY DEF MapReceipt, Receipts, LifecycleMap!Receipts, LifecycleMap!NoReceipt
<1>5. ticket.review # None => ticket.review.subject.tree \in Trees
  BY <1>1 DEF TicketRecords, Receipts
<1>6. MapTicket.evidence \in LifecycleMap!EvidenceBundles
  BY <1>1, <1>4, <1>5 DEF MapTicket, TicketRecords, LifecycleMap!EvidenceBundles
<1>7. /\ MapTicket.blockerReason \in BOOLEAN
      /\ MapTicket.blockedFrom \in {None, "claimed", "implemented"}
      /\ MapTicket.commit \in Trees \cup {None}
  BY <1>1 DEF MapTicket, TicketRecords
<1> QED BY <1>2, <1>3, <1>6, <1>7 DEF MapTicket, MapTickets, LifecycleMap!TicketRecords

\* Records with the same fields are the same.
LEMMA SameFields ==
  ASSUME NEW r \in MapTickets, NEW s \in MapTickets,
         r.status = s.status, r.claim = s.claim, r.evidence = s.evidence,
         r.blockerReason = s.blockerReason, r.blockedFrom = s.blockedFrom,
         r.commit = s.commit
  PROVE  r = s
BY DEF MapTickets, LifecycleMap!TicketRecords

LEMMA SameEvidence ==
  ASSUME NEW e \in LifecycleMap!EvidenceBundles, NEW f \in LifecycleMap!EvidenceBundles,
         e.subject = f.subject, e.review = f.review, e.requested = f.requested
  PROVE  e = f
BY DEF LifecycleMap!EvidenceBundles

\* What WorkMap asks of a ticket, of this one.
LEMMA MapTicketIsValid == Inv /\ MapInv => LifecycleMap!ValidTicket(MapTicket)
<1> SUFFICES ASSUME Inv, MapInv PROVE LifecycleMap!ValidTicket(MapTicket)
  OBVIOUS
<1>1. ticket \in TicketRecords /\ ClaimedHasAttempt
  BY DEF Inv, TypeInv
<1>2. MapTicket.claim # LifecycleMap!NoClaim <=> ticket.attempt # 0
  BY DEF MapTicket, LifecycleMap!NoClaim
<1>3. /\ MapTicket.status = ticket.status /\ MapTicket.blockedFrom = ticket.from
      /\ MapTicket.blockerReason = (ticket.status = "blocked")
      /\ MapTicket.evidence.subject = MapReceipt(ticket.subject)
      /\ MapTicket.evidence.review = IF ticket.review = None THEN None
                                     ELSE ticket.review.subject.tree
  BY DEF MapTicket
<1>4. ticket.status \in {"implemented", "verified"} => ticket.subject \in Receipts
  BY <1>1 DEF Inv, ReviewInv, MapInv, MapFollows, TicketRecords
<1>5. ticket.subject \in Receipts => MapReceipt(ticket.subject) # LifecycleMap!NoReceipt
  <2>1. ticket.subject \in Receipts => ticket.subject.attempt # 0 /\ ticket.subject # None
    BY DEF Receipts
  <2> QED BY <2>1 DEF MapReceipt, LifecycleMap!NoReceipt
<1>6. ticket.status = "verified" => ticket.review # None /\ ticket.review.subject.tree # None
  <2>1. ticket.status = "verified" => ticket.review.subject \in Receipts /\ ticket.review # None
    BY <1>1 DEF Inv, ReviewInv, TicketRecords, Receipts
  <2> QED BY <2>1 DEF Receipts
<1>7. /\ ticket.status \in {"claimed", "implemented", "verified"} => ticket.attempt # 0
      /\ ticket.from # None => ticket.status = "blocked"
      /\ ticket.status = "blocked" /\ ticket.attempt # 0 => ticket.from # None
  BY <1>1 DEF ClaimedHasAttempt, MapInv, MapFollows, FieldsFollow
<1> QED BY <1>2, <1>3, <1>4, <1>5, <1>6, <1>7 DEF LifecycleMap!ValidTicket

-----------------------------------------------------------------------------
(* Steps of the map.                                                       *)

MapSteps == {<<"mapped", "executing">>, <<"executing", "verifying">>,
             <<"verifying", "executing">>, <<"verifying", "completed">>,
             <<"mapped", "cancelled">>, <<"executing", "cancelled">>,
             <<"verifying", "cancelled">>}
TicketSteps == {<<"ready", "claimed">>, <<"claimed", "implemented">>,
                <<"implemented", "claimed">>, <<"implemented", "verified">>,
                <<"ready", "blocked">>, <<"claimed", "blocked">>,
                <<"implemented", "blocked">>, <<"blocked", "ready">>,
                <<"blocked", "claimed">>, <<"blocked", "implemented">>,
                <<"ready", "cancelled">>, <<"claimed", "cancelled">>,
                <<"implemented", "cancelled">>, <<"blocked", "cancelled">>}

\* The moves the code here makes are in the tables.
LEMMA MovesAreInTheTables ==
  ASSUME NEW from, NEW to
  PROVE  /\ from = to \/ <<from, to>> \in MapSteps => LifecycleMap!MapMayMove(from, to)
         /\ from = to \/ <<from, to>> \in TicketSteps => LifecycleMap!TicketMayMove(from, to)
<1>1. from = to \/ <<from, to>> \in MapSteps => LifecycleMap!MapMayMove(from, to)
  BY DEF MapSteps, LifecycleMap!MapMayMove, LifecycleMap!MapTransitions
<1>2. from = to \/ <<from, to>> \in TicketSteps => LifecycleMap!TicketMayMove(from, to)
  BY DEF TicketSteps, LifecycleMap!TicketMayMove, LifecycleMap!TicketTransitions
<1> QED BY <1>1, <1>2

\* A step that changes the two statuses along the tables is an update of the map,
\* with the ticket as it is afterwards.
LEMMA IsUpdate ==
  ASSUME Inv', MapInv', NEW status, mapStatus' = status, NEW rec \in MapTickets,
         MapTicket'.status = rec.status, MapTicket'.claim = rec.claim,
         MapTicket'.evidence = rec.evidence,
         MapTicket'.blockerReason = rec.blockerReason,
         MapTicket'.blockedFrom = rec.blockedFrom, MapTicket'.commit = rec.commit,
         mapStatus = status \/ <<mapStatus, status>> \in MapSteps,
         ticket.status = rec.status \/ <<ticket.status, rec.status>> \in TicketSteps
  PROVE  LifecycleMap!Update(status, LifecycleMap!With(Lease, rec))
<1>1. LifecycleMap!With(Lease, rec) = [t \in {Lease} |-> rec]
  BY DEF LifecycleMap!With
<1>2. MapTicket' = rec
  <2>1. (MapTicket \in MapTickets)'
    BY MapTicketTypes, PTL
  <2>2. MapTicket' \in MapTickets
    BY <2>1 DEF MapTickets, LifecycleMap!TicketRecords, LifecycleMap!TicketStatuses,
                LifecycleMap!TicketTransitions, LifecycleMap!Claims, LifecycleMap!NoClaim,
                LifecycleMap!EvidenceBundles, LifecycleMap!Receipts,
                LifecycleMap!NoReceipt
  <2> QED BY <2>2, SameFields
<1>3. LifecycleMap!ValidTicket(rec)
  <2>1. LifecycleMap!ValidTicket(MapTicket)'
    BY MapTicketIsValid, PTL
  <2> QED BY <1>2, <2>1 DEF LifecycleMap!ValidTicket, LifecycleMap!NoClaim,
                            LifecycleMap!NoReceipt
<1>4. status = "completed" => rec.status = "verified"
  <2>1. ticket'.status \in {"ready", "claimed", "implemented", "blocked", "verified",
                            "cancelled"}
        /\ ticket'.from \in {None, "claimed", "implemented"}
    BY DEF Inv, TypeInv, TicketRecords
  <2>2. MapTicket'.status = ticket'.status
    BY DEF MapTicket
  <2> QED BY <2>1, <2>2 DEF MapInv, MapFollows
<1>5. LifecycleMap!ValidWorkMap(status, [t \in {Lease} |-> rec])
  BY <1>3, <1>4 DEF LifecycleMap!ValidWorkMap, LifecycleMap!NoCancelledReference
<1>6. LifecycleMap!MapMayMove(mapStatus, status)
  BY MovesAreInTheTables
<1>7. LifecycleMap!TicketMayMove(MapTicket.status, rec.status)
  BY MovesAreInTheTables DEF MapTicket
<1>8. [t \in {Lease} |-> MapTicket]' = [t \in {Lease} |-> rec]
  BY <1>2
<1> QED BY <1>1, <1>5, <1>6, <1>7, <1>8 DEF LifecycleMap!Update

\* What another ticket's update, a process that goes on and an edit leave alone.
LEMMA IsStutter ==
  ASSUME MapInv, UNCHANGED <<ticket, mapStatus>>, finish' = "record" => prepared' # None
  PROVE  MapInv' /\ UNCHANGED LifecycleMap!vars
<1>1. MapTicket' = MapTicket
  BY DEF MapTicket
<1>2. UNCHANGED LifecycleMap!vars
  BY <1>1 DEF LifecycleMap!vars
<1> QED BY <1>2 DEF MapInv, MapFollows, FieldsFollow

-----------------------------------------------------------------------------
(* Claim, block, resume, cancel.                                           *)

LEMMA ClaimIsAllowed ==
  ASSUME Inv, Inv', MapInv, Claim
  PROVE  MapInv' /\ LifecycleMap!Next
<1>0. /\ ticket \in TicketRecords /\ ticket.status = "ready" /\ UNCHANGED broker
      /\ ticket' = [ticket EXCEPT !.status = "claimed", !.attempt = 1]
      /\ mapStatus' = "executing" /\ MapTicket \in MapTickets
  BY MapTicketTypes DEF Inv, TypeInv, Claim, Save
<1>1. /\ ticket'.status = "claimed" /\ ticket'.attempt = 1
      /\ ticket'.subject = ticket.subject /\ ticket'.review = ticket.review
      /\ ticket'.requested = ticket.requested /\ ticket'.from = ticket.from
      /\ ticket'.commit = ticket.commit
  BY <1>0 DEF TicketRecords
<1>2. /\ mapStatus = "mapped" /\ ticket.attempt = 0 /\ ticket.from = None
      /\ ticket.review = None
  BY <1>0 DEF MapInv, MapFollows, FieldsFollow
<1>3. MapInv'
  BY <1>0, <1>1, <1>2 DEF MapInv, MapFollows, FieldsFollow, broker
<1> DEFINE claim == [lease |-> Lease, kind |-> "managed-worktree", attempt |-> 1]
           rec == [MapTicket EXCEPT !.status = "claimed", !.claim = claim]
<1>4. claim \in LifecycleMap!Claims /\ "claimed" \in LifecycleMap!TicketStatuses
  BY DEF LifecycleMap!Claims, LifecycleMap!TicketStatuses, LifecycleMap!TicketTransitions
<1>5. /\ rec \in MapTickets /\ rec.status = "claimed" /\ rec.claim = claim
      /\ rec.evidence = MapTicket.evidence /\ rec.blockerReason = MapTicket.blockerReason
      /\ rec.blockedFrom = MapTicket.blockedFrom /\ rec.commit = MapTicket.commit
  BY <1>0, <1>4 DEF MapTickets, LifecycleMap!TicketRecords
<1>6. /\ MapTicket'.status = "claimed" /\ MapTicket'.claim = claim
      /\ MapTicket'.evidence = MapTicket.evidence
      /\ MapTicket'.blockerReason = MapTicket.blockerReason
      /\ MapTicket'.blockedFrom = MapTicket.blockedFrom
      /\ MapTicket'.commit = MapTicket.commit
  BY <1>0, <1>1 DEF MapTicket, MapReceipt
<1>7. LifecycleMap!Update("executing", LifecycleMap!With(Lease, rec))
  BY <1>0, <1>2, <1>3, <1>5, <1>6, IsUpdate DEF MapSteps, TicketSteps
<1>8. LifecycleMap!ClaimTicket(Lease, Lease, "managed-worktree")
  BY <1>0, <1>2, <1>7
  DEF LifecycleMap!ClaimTicket, LifecycleMap!Frontier, LifecycleMap!NoClaim, MapTicket
<1> QED BY <1>3, <1>8 DEF LifecycleMap!Next, LifecycleMap!Claim

LEMMA BlockIsAllowed ==
  ASSUME Inv, Inv', MapInv, Block
  PROVE  MapInv' /\ LifecycleMap!Next
<1> DEFINE from == IF ticket.status = "ready" THEN None ELSE ticket.status
<1>0. /\ ticket \in TicketRecords /\ ticket.status \in {"ready", "claimed", "implemented"}
      /\ UNCHANGED broker
      /\ ticket' = [ticket EXCEPT !.status = "blocked", !.from = from]
      /\ mapStatus' = mapStatus /\ MapTicket \in MapTickets
  BY MapTicketTypes DEF Inv, TypeInv, Block, Save
<1>1. /\ ticket'.status = "blocked" /\ ticket'.attempt = ticket.attempt
      /\ ticket'.subject = ticket.subject /\ ticket'.review = ticket.review
      /\ ticket'.requested = ticket.requested /\ ticket'.commit = ticket.commit
      /\ ticket'.from = from
  BY <1>0 DEF TicketRecords
<1>2. ticket.from = None /\ ticket.review = None
  BY <1>0 DEF MapInv, FieldsFollow
<1>3. MapInv'
  BY <1>0, <1>1, <1>2 DEF MapInv, MapFollows, FieldsFollow, broker
<1> DEFINE rec == [MapTicket EXCEPT !.status = "blocked", !.blockerReason = TRUE,
                     !.blockedFrom = IF ticket.status = "ready" THEN @ ELSE ticket.status]
<1>4. "blocked" \in LifecycleMap!TicketStatuses
  BY DEF LifecycleMap!TicketStatuses, LifecycleMap!TicketTransitions
<1>5. /\ rec \in MapTickets /\ rec.status = "blocked" /\ rec.claim = MapTicket.claim
      /\ rec.evidence = MapTicket.evidence /\ rec.blockerReason = TRUE
      /\ rec.blockedFrom = (IF ticket.status = "ready" THEN MapTicket.blockedFrom
                                                      ELSE ticket.status)
      /\ rec.commit = MapTicket.commit
  BY <1>0, <1>4 DEF MapTickets, LifecycleMap!TicketRecords
<1>6. /\ MapTicket'.status = "blocked" /\ MapTicket'.claim = MapTicket.claim
      /\ MapTicket'.evidence = MapTicket.evidence /\ MapTicket'.blockerReason = TRUE
      /\ MapTicket'.blockedFrom = from /\ MapTicket'.commit = MapTicket.commit
      /\ MapTicket.blockedFrom = None
  BY <1>1, <1>2 DEF MapTicket, MapReceipt
<1>7. LifecycleMap!Update(mapStatus, LifecycleMap!With(Lease, rec))
  BY <1>0, <1>3, <1>5, <1>6, IsUpdate DEF TicketSteps
<1>8. LifecycleMap!BlockTicket(Lease)
  BY <1>0, <1>7 DEF LifecycleMap!BlockTicket, MapTicket
<1> QED BY <1>3, <1>8 DEF LifecycleMap!Next, LifecycleMap!Lifecycle

LEMMA ResumeIsAllowed ==
  ASSUME Inv, Inv', MapInv, Resume
  PROVE  MapInv' /\ LifecycleMap!Next
<1> DEFINE status == IF ticket.from = None THEN "ready" ELSE ticket.from
<1>0. /\ ticket \in TicketRecords /\ ticket.status = "blocked"
      /\ UNCHANGED broker /\ ClaimedHasAttempt
      /\ ticket' = [ticket EXCEPT !.status = status, !.from = None]
      /\ mapStatus' = mapStatus /\ MapTicket \in MapTickets
  BY MapTicketTypes DEF Inv, TypeInv, Resume, Save
<1>1. /\ ticket'.status = status /\ ticket'.attempt = ticket.attempt
      /\ ticket'.subject = ticket.subject /\ ticket'.review = ticket.review
      /\ ticket'.requested = ticket.requested /\ ticket'.commit = ticket.commit
      /\ ticket'.from = None
  BY <1>0 DEF TicketRecords
<1>2. /\ ticket.review = None /\ (ticket.attempt = 0 <=> ticket.from = None)
      /\ status \in {"ready", "claimed", "implemented"}
  BY <1>0 DEF MapInv, MapFollows, FieldsFollow, ClaimedHasAttempt, TicketRecords
<1>3. MapInv'
  <2>1. /\ status = "ready" => mapStatus = "mapped" /\ ticket.attempt = 0
        /\ status = "claimed" => mapStatus = "executing"
        /\ status = "implemented" => mapStatus = "verifying" /\ ticket.subject # None
    BY <1>0 DEF MapInv, MapFollows, TicketRecords
  <2> HIDE DEF status
  <2> QED BY <1>0, <1>1, <1>2, <2>1 DEF MapInv, MapFollows, FieldsFollow, broker
<1> DEFINE rec == [MapTicket EXCEPT
                     !.status = IF MapTicket.claim # LifecycleMap!NoClaim
                                  THEN MapTicket.blockedFrom ELSE "ready",
                     !.blockerReason = FALSE, !.blockedFrom = None]
<1>4. /\ MapTicket.claim # LifecycleMap!NoClaim <=> ticket.attempt # 0
      /\ MapTicket.blockedFrom = ticket.from /\ MapTicket.status = "blocked"
  BY <1>0 DEF MapTicket, LifecycleMap!NoClaim
<1>5. {"ready", "claimed", "implemented"} \subseteq LifecycleMap!TicketStatuses
  BY DEF LifecycleMap!TicketStatuses, LifecycleMap!TicketTransitions
<1>6. status = (IF MapTicket.claim # LifecycleMap!NoClaim THEN MapTicket.blockedFrom
                                                          ELSE "ready")
  BY <1>2, <1>4
<1>7. /\ rec \in MapTickets /\ rec.status = status /\ rec.claim = MapTicket.claim
      /\ rec.evidence = MapTicket.evidence /\ rec.blockerReason = FALSE
      /\ rec.blockedFrom = None /\ rec.commit = MapTicket.commit
  <2> HIDE DEF status
  <2> QED BY <1>0, <1>2, <1>5, <1>6 DEF MapTickets, LifecycleMap!TicketRecords
<1>8. /\ MapTicket'.status = status /\ MapTicket'.claim = MapTicket.claim
      /\ MapTicket'.evidence = MapTicket.evidence /\ MapTicket'.blockerReason = FALSE
      /\ MapTicket'.blockedFrom = None /\ MapTicket'.commit = MapTicket.commit
  <2> HIDE DEF status
  <2> QED BY <1>1, <1>2 DEF MapTicket, MapReceipt
<1>9. LifecycleMap!Update(mapStatus, LifecycleMap!With(Lease, rec))
  <2> HIDE DEF status, rec
  <2> QED BY <1>0, <1>2, <1>3, <1>7, <1>8, IsUpdate DEF TicketSteps
<1>10. LifecycleMap!ResumeTicket(Lease)
  BY <1>0, <1>2, <1>4, <1>9 DEF LifecycleMap!ResumeTicket
<1> QED BY <1>3, <1>10 DEF LifecycleMap!Next, LifecycleMap!Lifecycle

LEMMA CancelIsAllowed ==
  ASSUME Inv, Inv', MapInv, Cancel
  PROVE  MapInv' /\ LifecycleMap!Next
<1>0. /\ ticket \in TicketRecords
      /\ ticket.status \in {"ready", "claimed", "implemented", "blocked"}
      /\ UNCHANGED broker
      /\ ticket' = [ticket EXCEPT !.status = "cancelled", !.from = None]
      /\ mapStatus' = "cancelled" /\ MapTicket \in MapTickets
  BY MapTicketTypes DEF Inv, TypeInv, Cancel, Save
<1>1. /\ ticket'.status = "cancelled" /\ ticket'.attempt = ticket.attempt
      /\ ticket'.subject = ticket.subject /\ ticket'.review = ticket.review
      /\ ticket'.requested = ticket.requested /\ ticket'.commit = ticket.commit
      /\ ticket'.from = None
  BY <1>0 DEF TicketRecords
<1>2. /\ ticket.review = None /\ ticket.from \in {None, "claimed", "implemented"}
      /\ mapStatus \in {"mapped", "executing", "verifying"}
  BY <1>0 DEF MapInv, MapFollows, FieldsFollow, TicketRecords
<1>3. MapInv'
  BY <1>0, <1>1, <1>2 DEF MapInv, MapFollows, FieldsFollow, broker
<1> DEFINE rec == [MapTicket EXCEPT !.status = "cancelled", !.blockerReason = FALSE,
                                    !.blockedFrom = None]
<1>4. "cancelled" \in LifecycleMap!TicketStatuses
  BY DEF LifecycleMap!TicketStatuses, LifecycleMap!TicketTransitions
<1>5. /\ rec \in MapTickets /\ rec.status = "cancelled" /\ rec.claim = MapTicket.claim
      /\ rec.evidence = MapTicket.evidence /\ rec.blockerReason = FALSE
      /\ rec.blockedFrom = None /\ rec.commit = MapTicket.commit
  BY <1>0, <1>4 DEF MapTickets, LifecycleMap!TicketRecords
<1>6. /\ MapTicket'.status = "cancelled" /\ MapTicket'.claim = MapTicket.claim
      /\ MapTicket'.evidence = MapTicket.evidence /\ MapTicket'.blockerReason = FALSE
      /\ MapTicket'.blockedFrom = None /\ MapTicket'.commit = MapTicket.commit
  BY <1>1 DEF MapTicket, MapReceipt
<1>7. LifecycleMap!Update("cancelled", LifecycleMap!With(Lease, rec))
  <2> HIDE DEF rec
  <2> QED BY <1>0, <1>2, <1>3, <1>5, <1>6, IsUpdate DEF MapSteps, TicketSteps
<1>8. LifecycleMap!CancelTicket(Lease)
  BY <1>0, <1>5, <1>7 DEF LifecycleMap!CancelTicket, LifecycleMap!With, MapTicket
<1> QED BY <1>3, <1>8 DEF LifecycleMap!Next, LifecycleMap!Lifecycle

-----------------------------------------------------------------------------
(* Evidence, reviews and the commit.                                       *)

LEMMA ImplementedIsAllowed ==
  ASSUME Inv, Inv', MapInv, NEW p \in Recorders, Implemented(p), job[p].step = "advance",
         job[p].revision = revision, ticket.status \in {"claimed", "implemented"},
         UNCHANGED broker
  PROVE  MapInv' /\ LifecycleMap!Next
<1> DEFINE status == IF mapStatus = "executing" THEN "verifying" ELSE mapStatus
           recorded == job[p].receipt
<1>0. /\ ticket \in TicketRecords
      /\ ticket' = [ticket EXCEPT !.status = "implemented", !.subject = recorded]
      /\ mapStatus' = status /\ MapTicket \in MapTickets
  BY MapTicketTypes DEF Inv, TypeInv, Implemented, Save
<1>1. recorded \in Receipts /\ recorded.attempt = ticket.attempt /\ recorded # None
  <2>1. job[p] \in WriteJobs
    BY JobShapes DEF Inv, TypeInv
  <2>2. JobIsCurrent(job[p])
    BY DEF Inv, JobInv
  <2> QED BY <2>1, <2>2 DEF WriteJobs, JobIsCurrent
<1>2. /\ ticket'.status = "implemented" /\ ticket'.attempt = ticket.attempt
      /\ ticket'.subject = recorded /\ ticket'.review = ticket.review
      /\ ticket'.requested = ticket.requested /\ ticket'.commit = ticket.commit
      /\ ticket'.from = ticket.from
  BY <1>0, <1>1 DEF TicketRecords
<1>3. /\ ticket.review = None /\ ticket.from = None /\ ticket.attempt # 0
      /\ mapStatus \in {"executing", "verifying"}
  BY DEF MapInv, MapFollows, FieldsFollow, Inv, TypeInv, ClaimedHasAttempt
<1>4. MapInv'
  BY <1>0, <1>1, <1>2, <1>3 DEF MapInv, MapFollows, FieldsFollow, broker
<1> DEFINE subject == [lease |-> Lease, attempt |-> ticket.attempt, tree |-> recorded.tree]
           evidence == [MapTicket.evidence EXCEPT !.subject = subject, !.review = None]
           rec == [MapTicket EXCEPT !.status = "implemented", !.evidence = evidence,
                                    !.blockerReason = FALSE]
<1>5. /\ subject \in LifecycleMap!Receipts /\ "implemented" \in LifecycleMap!TicketStatuses
      /\ subject = MapReceipt(recorded) /\ recorded.tree \in Trees
  BY <1>1 DEF LifecycleMap!Receipts, LifecycleMap!TicketStatuses, Receipts, MapReceipt,
              LifecycleMap!TicketTransitions
<1>6. MapTicket.evidence \in LifecycleMap!EvidenceBundles
  BY <1>0 DEF MapTickets, LifecycleMap!TicketRecords
<1>7. /\ evidence \in LifecycleMap!EvidenceBundles /\ evidence.subject = subject
      /\ evidence.review = None /\ evidence.requested = MapTicket.evidence.requested
  <2> HIDE DEF subject
  <2> QED BY <1>5, <1>6 DEF LifecycleMap!EvidenceBundles
<1>8. /\ rec \in MapTickets /\ rec.status = "implemented" /\ rec.claim = MapTicket.claim
      /\ rec.evidence = evidence /\ rec.blockerReason = FALSE
      /\ rec.blockedFrom = MapTicket.blockedFrom /\ rec.commit = MapTicket.commit
  <2> HIDE DEF evidence
  <2> QED BY <1>0, <1>5, <1>7 DEF MapTickets, LifecycleMap!TicketRecords
<1>9. /\ MapTicket'.status = "implemented" /\ MapTicket'.claim = MapTicket.claim
      /\ MapTicket'.blockerReason = FALSE
      /\ MapTicket'.blockedFrom = MapTicket.blockedFrom
      /\ MapTicket'.commit = MapTicket.commit
  BY <1>2 DEF MapTicket
<1>10. MapTicket'.evidence = evidence
  <2>1. /\ MapTicket'.evidence.subject = subject /\ MapTicket'.evidence.review = None
        /\ MapTicket'.evidence.requested = MapTicket.evidence.requested
    BY <1>2, <1>3, <1>5 DEF MapTicket, MapReceipt
  <2>2. MapTicket'.evidence \in LifecycleMap!EvidenceBundles
    BY <1>2, <1>3, <1>5 DEF MapTicket, MapReceipt, LifecycleMap!EvidenceBundles, TicketRecords,
       Inv, TypeInv
  <2> HIDE DEF evidence, subject
  <2> QED BY <1>7, <2>1, <2>2, SameEvidence
<1>11. LifecycleMap!Update(status, LifecycleMap!With(Lease, rec))
  <2> HIDE DEF rec, evidence
  <2> QED BY <1>0, <1>3, <1>4, <1>8, <1>9, <1>10, IsUpdate DEF MapSteps, TicketSteps
<1>12. LifecycleMap!EvidenceFor(Lease, recorded.tree) = subject
       /\ MapTicket.claim.kind = "managed-worktree" /\ MapTicket.status = ticket.status
  BY <1>3 DEF LifecycleMap!EvidenceFor, MapTicket
<1>13. LifecycleMap!MarkImplemented(Lease, LifecycleMap!EvidenceFor(Lease, recorded.tree))
  <2> HIDE DEF subject
  <2> QED BY <1>11, <1>12 DEF LifecycleMap!MarkImplemented, LifecycleMap!Implement
<1> QED BY <1>4, <1>5, <1>13 DEF LifecycleMap!Next, LifecycleMap!Record

LEMMA VerifiedIsAllowed ==
  ASSUME Inv, Inv', MapInv, NEW r \in Reviewers, Decided(r), review[r].step = "transition",
         review[r].verdict = "verify", review[r].revision = revision, UNCHANGED broker
  PROVE  MapInv' /\ LifecycleMap!Next
<1> DEFINE bound == [subject |-> review[r].subject, diff |-> review[r].diff]
<1>0. /\ ticket \in TicketRecords /\ ticket.subject = review[r].subject
      /\ ticket.status = "implemented" /\ review[r] \in TransitionReviews
      /\ ticket' = [ticket EXCEPT !.status = "verified", !.review = bound]
      /\ mapStatus' = mapStatus /\ MapTicket \in MapTickets
  BY ReviewShapes, MapTicketTypes
  DEF Inv, TypeInv, Decided, Save, ReviewInv, ReviewIsCurrent
<1>1. /\ bound \in [subject : Receipts, diff : Trees] /\ bound.subject = ticket.subject
      /\ ticket.subject \in Receipts /\ ticket.subject.tree \in Trees /\ bound # None
  BY <1>0 DEF TransitionReviews, Receipts
<1>2. /\ ticket'.status = "verified" /\ ticket'.attempt = ticket.attempt
      /\ ticket'.subject = ticket.subject /\ ticket'.review = bound
      /\ ticket'.requested = ticket.requested /\ ticket'.commit = ticket.commit
      /\ ticket'.from = ticket.from
  BY <1>0, <1>1 DEF TicketRecords
<1>3. ticket.from = None /\ mapStatus = "verifying" /\ ticket.commit = None
  BY <1>0 DEF MapInv, MapFollows, FieldsFollow, Inv, BrokerInv
<1>4. MapInv'
  BY <1>0, <1>2, <1>3 DEF MapInv, MapFollows, FieldsFollow, broker
<1> DEFINE tree == ticket.subject.tree
           rec == [MapTicket EXCEPT !.status = "verified", !.evidence.review = tree]
<1>5. "verified" \in LifecycleMap!TicketStatuses
  BY DEF LifecycleMap!TicketStatuses, LifecycleMap!TicketTransitions
<1>6. MapTicket.evidence \in LifecycleMap!EvidenceBundles
  BY <1>0 DEF MapTickets, LifecycleMap!TicketRecords
<1> DEFINE evidence == [MapTicket.evidence EXCEPT !.review = tree]
<1>7. /\ evidence \in LifecycleMap!EvidenceBundles /\ evidence.review = tree
      /\ evidence.subject = MapTicket.evidence.subject
      /\ evidence.requested = MapTicket.evidence.requested
  BY <1>1, <1>6 DEF LifecycleMap!EvidenceBundles
<1>8. /\ rec \in MapTickets /\ rec.status = "verified" /\ rec.claim = MapTicket.claim
      /\ rec.evidence = evidence /\ rec.blockerReason = MapTicket.blockerReason
      /\ rec.blockedFrom = MapTicket.blockedFrom /\ rec.commit = MapTicket.commit
  BY <1>0, <1>5, <1>7 DEF MapTickets, LifecycleMap!TicketRecords
<1>9. /\ MapTicket'.status = "verified" /\ MapTicket'.claim = MapTicket.claim
      /\ MapTicket'.blockerReason = MapTicket.blockerReason
      /\ MapTicket'.blockedFrom = MapTicket.blockedFrom
      /\ MapTicket'.commit = MapTicket.commit
  BY <1>0, <1>2 DEF MapTicket
<1>10. MapTicket'.evidence = evidence
  <2>1. /\ MapTicket'.evidence.subject = MapTicket.evidence.subject
        /\ MapTicket'.evidence.review = tree
        /\ MapTicket'.evidence.requested = MapTicket.evidence.requested
    BY <1>1, <1>2 DEF MapTicket, MapReceipt
  <2>2. MapTicket'.evidence \in LifecycleMap!EvidenceBundles
    <3>1. (MapTicket \in MapTickets)'
      BY MapTicketTypes, PTL
    <3> QED BY <3>1 DEF MapTickets, LifecycleMap!TicketRecords,
                        LifecycleMap!EvidenceBundles, LifecycleMap!Receipts,
                        LifecycleMap!NoReceipt
  <2> HIDE DEF evidence, tree
  <2> QED BY <1>7, <2>1, <2>2, SameEvidence
<1>11. LifecycleMap!Update(mapStatus, LifecycleMap!With(Lease, rec))
  <2> HIDE DEF rec, evidence
  <2> QED BY <1>0, <1>4, <1>8, <1>9, <1>10, IsUpdate DEF TicketSteps
<1>12. MapTicket.evidence.subject.tree = tree /\ MapTicket.status = "implemented"
  BY <1>0, <1>1 DEF MapTicket, MapReceipt
<1>13. LifecycleMap!VerifyTicket(Lease, tree)
  <2> HIDE DEF tree
  <2> QED BY <1>11, <1>12 DEF LifecycleMap!VerifyTicket
<1> QED BY <1>1, <1>4, <1>13 DEF LifecycleMap!Next, LifecycleMap!Review

LEMMA RequestIsAllowed ==
  ASSUME Inv, Inv', MapInv, NEW r \in Reviewers, Decided(r), review[r].step = "transition",
         review[r].verdict # "verify", review[r].revision = revision, UNCHANGED broker
  PROVE  MapInv' /\ LifecycleMap!Next
<1> DEFINE status == IF mapStatus = "verifying" THEN "executing" ELSE mapStatus
<1>0. /\ ticket \in TicketRecords /\ ticket.attempt < MaxAttempts
      /\ ticket.status = "implemented"
      /\ ticket' = [ticket EXCEPT !.status = "claimed", !.attempt = @ + 1,
                                  !.subject = None, !.requested = TRUE]
      /\ mapStatus' = status /\ MapTicket \in MapTickets
  BY MapTicketTypes DEF Inv, TypeInv, Decided, Save, ReviewInv, ReviewIsCurrent
<1>1. /\ ticket.attempt \in Nat /\ ticket.attempt # 0 /\ ticket.from = None
      /\ ticket.review = None /\ mapStatus = "verifying" /\ status = "executing"
  BY <1>0 DEF MapInv, MapFollows, FieldsFollow, Inv, TypeInv, ClaimedHasAttempt, TicketRecords
<1>2. /\ ticket'.status = "claimed" /\ ticket'.attempt = ticket.attempt + 1
      /\ ticket'.subject = None /\ ticket'.review = ticket.review
      /\ ticket'.requested = TRUE /\ ticket'.commit = ticket.commit
      /\ ticket'.from = ticket.from
  BY <1>0, <1>1 DEF TicketRecords
<1>3. MapInv'
  BY <1>0, <1>1, <1>2 DEF MapInv, MapFollows, FieldsFollow, broker
<1> DEFINE claim == [MapTicket.claim EXCEPT !.attempt = @ + 1]
           evidence == [LifecycleMap!NoEvidence EXCEPT !.requested = TRUE]
           rec == [MapTicket EXCEPT !.status = "claimed", !.evidence = evidence,
                                    !.claim.attempt = @ + 1]
<1>4. /\ MapTicket.claim = [lease |-> Lease, kind |-> "managed-worktree",
                            attempt |-> ticket.attempt]
      /\ MapTicket.status = "implemented" /\ "claimed" \in LifecycleMap!TicketStatuses
  BY <1>0, <1>1 DEF MapTicket, LifecycleMap!TicketStatuses, LifecycleMap!TicketTransitions
<1>5. /\ claim = [lease |-> Lease, kind |-> "managed-worktree", attempt |-> ticket.attempt + 1]
      /\ claim \in LifecycleMap!Claims
  BY <1>0, <1>1, <1>4 DEF LifecycleMap!Claims
<1>6. /\ evidence = [subject |-> LifecycleMap!NoReceipt, review |-> None, requested |-> TRUE]
      /\ evidence \in LifecycleMap!EvidenceBundles
  <2>1. LifecycleMap!NoEvidence \in LifecycleMap!EvidenceBundles
    BY DEF LifecycleMap!NoEvidence, LifecycleMap!EvidenceBundles, LifecycleMap!Receipts
  <2>2. /\ evidence \in LifecycleMap!EvidenceBundles /\ evidence.requested = TRUE
        /\ evidence.subject = LifecycleMap!NoEvidence.subject
        /\ evidence.review = LifecycleMap!NoEvidence.review
    BY <2>1 DEF LifecycleMap!EvidenceBundles
  <2>3. /\ LifecycleMap!NoEvidence.subject = LifecycleMap!NoReceipt
        /\ LifecycleMap!NoEvidence.review = None
    BY DEF LifecycleMap!NoEvidence
  <2> HIDE DEF evidence
  <2> QED BY <2>2, <2>3 DEF LifecycleMap!EvidenceBundles
<1>7. /\ rec \in MapTickets /\ rec.status = "claimed" /\ rec.claim = claim
      /\ rec.evidence = evidence /\ rec.blockerReason = MapTicket.blockerReason
      /\ rec.blockedFrom = MapTicket.blockedFrom /\ rec.commit = MapTicket.commit
  <2> HIDE DEF evidence
  <2> QED BY <1>0, <1>4, <1>5, <1>6 DEF MapTickets, LifecycleMap!TicketRecords
<1>8. /\ MapTicket'.status = "claimed" /\ MapTicket'.claim = claim
      /\ MapTicket'.blockerReason = MapTicket.blockerReason
      /\ MapTicket'.blockedFrom = MapTicket.blockedFrom
      /\ MapTicket'.commit = MapTicket.commit
  <2> HIDE DEF claim
  <2> QED BY <1>0, <1>1, <1>2, <1>5 DEF MapTicket
<1>9. MapTicket'.evidence = evidence
  <2> HIDE DEF evidence
  <2> QED BY <1>1, <1>2, <1>6 DEF MapTicket, MapReceipt, LifecycleMap!NoReceipt
<1>10. LifecycleMap!Update(status, LifecycleMap!With(Lease, rec))
  <2> HIDE DEF rec, evidence, claim
  <2> QED BY <1>0, <1>1, <1>3, <1>7, <1>8, <1>9, IsUpdate DEF MapSteps, TicketSteps
<1>11. MapTicket.claim # LifecycleMap!NoClaim /\ MapTicket.claim.attempt < MaxAttempts
  BY <1>0, <1>1, <1>4 DEF LifecycleMap!NoClaim
<1>12. LifecycleMap!RequestChanges(Lease)
  BY <1>4, <1>10, <1>11 DEF LifecycleMap!RequestChanges
<1> QED BY <1>3, <1>12 DEF LifecycleMap!Next, LifecycleMap!Review

LEMMA RecordIsAllowed ==
  ASSUME Inv, Inv', MapInv, RecordIntegrated, ~moved
  PROVE  MapInv' /\ LifecycleMap!Next
<1>0. /\ ticket \in TicketRecords /\ ticket.status = "verified" /\ finish = "record"
      /\ ticket' = [ticket EXCEPT !.commit = prepared] /\ prepared \in Trees
      /\ mapStatus' = "completed" /\ MapTicket \in MapTickets
      /\ finish' = "idle" /\ prepared' = prepared
  BY MapTicketTypes DEF Inv, TypeInv, RecordIntegrated, Save, MapInv
<1>1. ticket.commit = None /\ ticket.from = None /\ mapStatus = "verifying"
  BY <1>0 DEF Inv, BrokerInv, MapInv, MapFollows, FieldsFollow
<1>2. /\ ticket'.status = "verified" /\ ticket'.attempt = ticket.attempt
      /\ ticket'.subject = ticket.subject /\ ticket'.review = ticket.review
      /\ ticket'.requested = ticket.requested /\ ticket'.commit = prepared
      /\ ticket'.from = ticket.from
  BY <1>0 DEF TicketRecords
<1>3. MapInv'
  BY <1>0, <1>1, <1>2 DEF MapInv, MapFollows, FieldsFollow
<1> DEFINE rec == [MapTicket EXCEPT !.commit = prepared]
<1>4. /\ rec \in MapTickets /\ rec.status = "verified" /\ rec.claim = MapTicket.claim
      /\ rec.evidence = MapTicket.evidence /\ rec.blockerReason = MapTicket.blockerReason
      /\ rec.blockedFrom = MapTicket.blockedFrom /\ rec.commit = prepared
      /\ MapTicket.status = "verified"
  <2>1. MapTicket.status = "verified"
    BY <1>0 DEF MapTicket
  <2> QED BY <1>0, <2>1 DEF MapTickets, LifecycleMap!TicketRecords
<1>5. /\ MapTicket'.status = "verified" /\ MapTicket'.claim = MapTicket.claim
      /\ MapTicket'.evidence = MapTicket.evidence
      /\ MapTicket'.blockerReason = MapTicket.blockerReason
      /\ MapTicket'.blockedFrom = MapTicket.blockedFrom /\ MapTicket'.commit = prepared
  BY <1>0, <1>2 DEF MapTicket, MapReceipt
<1>6. LifecycleMap!Update("completed", LifecycleMap!With(Lease, rec))
  <2> HIDE DEF rec
  <2> QED BY <1>0, <1>1, <1>3, <1>4, <1>5, IsUpdate DEF MapSteps
<1>7. MapTicket.evidence.review # None /\ MapTicket.commit = None
  <2>1. LifecycleMap!ValidTicket(MapTicket)
    BY MapTicketIsValid
  <2> QED BY <1>1, <1>4, <2>1 DEF LifecycleMap!ValidTicket, MapTicket
<1>8. LifecycleMap!AllDelivered(LifecycleMap!With(Lease, rec))
  <2>1. LifecycleMap!With(Lease, rec) = [t \in {Lease} |-> rec]
    BY DEF LifecycleMap!With
  <2> HIDE DEF rec
  <2> QED BY <1>0, <1>4, <2>1 DEF LifecycleMap!AllDelivered, LifecycleMap!Delivered
<1>9. LifecycleMap!MarkIntegrated(Lease, prepared)
  BY <1>4, <1>6, <1>7, <1>8 DEF LifecycleMap!MarkIntegrated
<1>10. LifecycleMap!IntegrateTicket(Lease, prepared)
  BY <1>7, <1>9 DEF LifecycleMap!IntegrateTicket
<1> QED BY <1>0, <1>3, <1>10 DEF LifecycleMap!Next, LifecycleMap!Integrate

-----------------------------------------------------------------------------
(* The refinement.                                                         *)

\* Every step is an operation of the lifecycle, or one it does not see.
LEMMA StepIsAllowed ==
  ASSUME Inv, Inv', MapInv, Next
  PROVE  MapInv' /\ (LifecycleMap!Next \/ UNCHANGED LifecycleMap!vars)
<1>1. CASE Lifecycle
  <2>1. CASE UpdateOther
    BY <2>1, IsStutter DEF UpdateOther, Save, MapInv, broker
  <2> QED BY <1>1, <2>1, ClaimIsAllowed, BlockIsAllowed, ResumeIsAllowed, CancelIsAllowed
      DEF Lifecycle
<1>2. CASE \E tree \in Trees : Edit(tree)
  <2>1. UNCHANGED <<ticket, mapStatus, broker>>
    BY <1>2 DEF Edit
  <2> QED BY <2>1, IsStutter DEF MapInv, broker
<1>3. ASSUME NEW p \in Recorders, Recorder(p)
      PROVE  MapInv' /\ (LifecycleMap!Next \/ UNCHANGED LifecycleMap!vars)
  <2>1. CASE \/ \E stage \in {"red", "green"} : Resolve(p, stage)
             \/ RunCommand(p) \/ Measure(p) \/ WriteReceipt(p)
    <3>1. UNCHANGED <<ticket, mapStatus, broker>>
      BY <2>1 DEF Resolve, RunCommand, Measure, WriteReceipt, RecorderLeaves
    <3> QED BY <3>1, IsStutter DEF MapInv, broker
  <2>2. CASE AdvanceImplemented(p)
    <3>1. UNCHANGED broker /\ job[p].step = "advance"
      BY <2>2 DEF AdvanceImplemented
    <3>2. CASE UNCHANGED <<ticket, mapStatus>>
      BY <3>1, <3>2, IsStutter DEF MapInv, broker
    <3> QED BY <2>2, <3>1, <3>2, ImplementedIsAllowed DEF AdvanceImplemented
  <2> QED BY <1>3, <2>1, <2>2 DEF Recorder
<1>4. ASSUME NEW r \in Reviewers, Reviewer(r)
      PROVE  MapInv' /\ (LifecycleMap!Next \/ UNCHANGED LifecycleMap!vars)
  <2>1. UNCHANGED broker
    BY <1>4 DEF Reviewer, CollectDiff, Bind, ReadBack, Transition, ReviewerLeaves
  <2>2. CASE UNCHANGED <<ticket, mapStatus>>
    BY <2>1, <2>2, IsStutter DEF MapInv, broker
  <2>3. CASE /\ review[r].step = "transition" /\ review[r].revision = revision
             /\ Decided(r)
    BY <2>1, <2>3, VerifiedIsAllowed, RequestIsAllowed
  <2> QED BY <1>4, <2>2, <2>3 DEF Reviewer, CollectDiff, Bind, ReadBack, Transition
<1>5. CASE StartFinish \/ PrepareCommit \/ Integrate \/ (RecordIntegrated /\ moved)
           \/ Crash \/ RemoveLock \/ MoveSource
  <2>1. UNCHANGED <<ticket, mapStatus>>
    BY <1>5 DEF StartFinish, PrepareCommit, Integrate, RecordIntegrated, Crash, RemoveLock,
                MoveSource
  <2>2. finish' = "record" => prepared' # None
    BY <1>5 DEF StartFinish, PrepareCommit, Integrate, RecordIntegrated, Crash, RemoveLock,
                MoveSource, MapInv, Inv, TypeInv
  <2> QED BY <2>1, <2>2, IsStutter
<1>6. CASE RecordIntegrated /\ ~moved
  BY <1>6, RecordIsAllowed
<1> QED BY <1>1, <1>2, <1>3, <1>4, <1>5, <1>6 DEF Next, Broker

\* Recorders, reviewers, whoever edits the worktree and a broker that may crash do
\* to the ticket of a map only what the lifecycle of WorkMap allows: what holds of
\* every Work Map holds of theirs.
THEOREM EvidenceFollowsLifecycle == Spec => LifecycleSpec
<1>1. Init => MapInv /\ LifecycleMap!Init
  <2> SUFFICES ASSUME Init PROVE MapInv /\ LifecycleMap!Init
    OBVIOUS
  <2>1. MapInv
    BY DEF Init, MapInv, MapFollows, FieldsFollow
  <2>2. MapTicket = [ status |-> "ready", claim |-> LifecycleMap!NoClaim,
                      evidence |-> LifecycleMap!NoEvidence, blockerReason |-> FALSE,
                      blockedFrom |-> None, commit |-> None ]
    BY DEF Init, MapTicket, MapReceipt, LifecycleMap!NoClaim, LifecycleMap!NoEvidence,
           LifecycleMap!NoReceipt
  <2>3. LifecycleMap!ValidTicket(MapTicket)
    BY <2>2 DEF LifecycleMap!ValidTicket
  <2>4. MapTicket \in LifecycleMap!InitialTickets
    BY <2>2, <2>3 DEF LifecycleMap!InitialTickets
  <2>5. LifecycleMap!ValidWorkMap(mapStatus, [t \in {Lease} |-> MapTicket])
    BY <2>3 DEF Init, LifecycleMap!ValidWorkMap, LifecycleMap!NoCancelledReference
  <2> QED BY <2>1, <2>4, <2>5 DEF Init, LifecycleMap!Init
<1>2. Inv /\ Inv' /\ MapInv /\ [Next]_vars =>
        MapInv' /\ [LifecycleMap!Next]_(LifecycleMap!vars)
  <2> SUFFICES ASSUME Inv, Inv', MapInv, [Next]_vars
               PROVE  MapInv' /\ [LifecycleMap!Next]_(LifecycleMap!vars)
    OBVIOUS
  <2>1. CASE Next
    BY <2>1, StepIsAllowed
  <2>2. CASE UNCHANGED vars
    BY <2>2, IsStutter DEF vars, broker, MapInv
  <2> QED BY <2>1, <2>2
<1> QED BY <1>1, <1>2, InvHolds, PTL DEF Spec, LifecycleSpec, LifecycleMap!Spec
=============================================================================
