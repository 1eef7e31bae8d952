--------------------------- MODULE WorkMapProofs ---------------------------
(***************************************************************************)
(* The invariants of WorkMap for every set of tickets, every dependency    *)
(* relation and every bound.  Each operation changes one ticket and the    *)
(* status of the map; what the changed ticket and the new status satisfy   *)
(* (Step) is proved operation by operation, and that a Step keeps the      *)
(* inductive invariant is proved once.                                     *)
(***************************************************************************)
EXTENDS WorkMap, TLAPS

\* What holds of every single ticket, whatever the others do.
TicketInv(rec) ==
  /\ ValidTicket(rec)
  /\ rec.claim = NoClaim => rec.evidence = NoEvidence
  /\ rec.status \in {"draft", "ready"} => rec.claim = NoClaim
  /\ rec.evidence.subject # NoReceipt =>
       /\ rec.evidence.subject.lease = rec.claim.lease
       /\ rec.evidence.subject.attempt = rec.claim.attempt
  /\ rec.status = "verified" =>
       /\ rec.evidence.review \in Trees
       /\ rec.evidence.review = rec.evidence.subject.tree
  /\ rec.evidence.review # None \/ rec.commit # None => rec.status = "verified"

TicketsInv == \A t \in Tickets : TicketInv(tickets[t])

\* The inductive invariant.  TicketsInv carries what the other conjuncts do not
\* say of a ticket between two operations: a ticket without a claim has no
\* evidence, and a draft or ready ticket has no claim.
IInv ==
  /\ TypeOK
  /\ TicketsInv
  /\ DependenciesDelivered
  /\ CompletedMapIsDelivered
  /\ ClosedMapHasNoOpenTicket
  /\ MappedMapIsUnclaimed

Settled(ts) == \A t \in Tickets : ts[t].status \in {"verified", "cancelled"}

\* How an operation may change the record of one ticket.
TicketStep(t, old, new) ==
  /\ new \in TicketRecords
  /\ TicketInv(new)
  /\ old.status = "verified" =>
       /\ new.status = "verified"
       /\ new.claim = old.claim
       /\ new.evidence = old.evidence
       /\ old.commit # None => new.commit = old.commit
  /\ old.status = "cancelled" => new.status = "cancelled"
  /\ Begun(new) => Begun(old) \/ \A b \in BlockedBy[t] : Delivered(tickets, b)
  /\ old.claim # NoClaim /\ new.claim # NoClaim =>
       /\ new.claim.lease = old.claim.lease
       /\ new.claim.attempt >= old.claim.attempt

\* What an operation may do to the map when it changes ticket t to new.
MapStep(t, new) ==
  /\ mapStatus' \in MapStatuses
  /\ fog' = fog
  /\ mapStatus' = "mapped" =>
       mapStatus = "mapped" /\ (tickets[t].claim = NoClaim => new.claim = NoClaim)
  /\ mapStatus' = "completed" =>
       mapStatus = "completed" \/ (AllDelivered(tickets') /\ ~fog)
  /\ mapStatus' = "completed" => Settled(tickets')
  /\ mapStatus' = "cancelled" => mapStatus = "cancelled" \/ Settled(tickets')

Step(t, new) ==
  /\ t \in Tickets
  /\ tickets' = [tickets EXCEPT ![t] = new]
  /\ TicketStep(t, tickets[t], new)
  /\ MapStep(t, new)

-----------------------------------------------------------------------------
(* A Step keeps the invariant.                                             *)

\* Delivery is final: no operation takes back what a dependent relied on.
LEMMA DeliveredIsStable ==
  ASSUME TypeOK, NEW t, NEW new, Step(t, new),
         NEW u \in Tickets, Delivered(tickets, u)
  PROVE  Delivered(tickets', u)
<1>1. CASE u = t
  BY <1>1 DEF TypeOK, Step, TicketStep, Delivered, TicketRecords
<1>2. CASE u # t
  BY <1>2 DEF TypeOK, Step, Delivered
<1> QED BY <1>1, <1>2

\* A verified or cancelled ticket stays verified or cancelled.
LEMMA SettledIsStable ==
  ASSUME TypeOK, NEW t, NEW new, Step(t, new), Settled(tickets)
  PROVE  Settled(tickets')
BY DEF TypeOK, Step, TicketStep, Settled

LEMMA StepKeepsTypes ==
  ASSUME TypeOK, NEW t, NEW new, Step(t, new)
  PROVE  TypeOK'
BY DEF TypeOK, Step, TicketStep, MapStep

LEMMA StepKeepsTickets ==
  ASSUME TypeOK, TicketsInv, NEW t, NEW new, Step(t, new)
  PROVE  TicketsInv'
<1> SUFFICES ASSUME NEW u \in Tickets PROVE TicketInv(tickets'[u])
  BY DEF TicketsInv
<1>1. CASE u = t
  <2>1. tickets'[u] = new BY <1>1 DEF TypeOK, Step
  <2> QED BY <2>1 DEF Step, TicketStep
<1>2. CASE u # t
  <2>1. tickets'[u] = tickets[u] BY <1>2 DEF TypeOK, Step
  <2> QED BY <2>1 DEF TicketsInv
<1> QED BY <1>1, <1>2

LEMMA StepKeepsDependencies ==
  ASSUME TypeOK, DependenciesDelivered, NEW t, NEW new, Step(t, new)
  PROVE  DependenciesDelivered'
<1> SUFFICES ASSUME NEW u \in Tickets, Begun(tickets'[u]), NEW b \in BlockedBy[u]
             PROVE  Delivered(tickets', b)
  BY DEF DependenciesDelivered
<1>1. b \in Tickets BY DependencyAssumption
<1>2. Delivered(tickets, b)
  <2>1. CASE u = t
    <3>1. tickets'[u] = new BY <2>1 DEF TypeOK, Step
    <3> QED BY <2>1, <3>1 DEF Step, TicketStep, DependenciesDelivered
  <2>2. CASE u # t
    <3>1. tickets'[u] = tickets[u] BY <2>2 DEF TypeOK, Step
    <3> QED BY <3>1 DEF DependenciesDelivered
  <2> QED BY <2>1, <2>2
<1> QED BY <1>1, <1>2, DeliveredIsStable

LEMMA StepKeepsCompletion ==
  ASSUME TypeOK, CompletedMapIsDelivered, ClosedMapHasNoOpenTicket,
         NEW t, NEW new, Step(t, new)
  PROVE  CompletedMapIsDelivered' /\ ClosedMapHasNoOpenTicket'
<1>1. CompletedMapIsDelivered'
  <2> SUFFICES ASSUME mapStatus' = "completed"
               PROVE  /\ ~fog'
                      /\ \A u \in Tickets : tickets'[u].status # "cancelled"
                           => Delivered(tickets', u)
    BY DEF CompletedMapIsDelivered
  <2>1. CASE AllDelivered(tickets') /\ ~fog
    BY <2>1 DEF Step, MapStep, AllDelivered
  <2>2. CASE mapStatus = "completed"
    <3>1. ASSUME NEW u \in Tickets, tickets'[u].status # "cancelled"
          PROVE  Delivered(tickets', u)
      <4>1. tickets[u].status # "cancelled"
        BY <3>1 DEF TypeOK, Step, TicketStep
      <4>2. Delivered(tickets, u)
        BY <2>2, <4>1 DEF CompletedMapIsDelivered
      <4> QED BY <4>2, DeliveredIsStable
    <3> QED BY <2>2, <3>1 DEF CompletedMapIsDelivered, Step, MapStep
  <2> QED BY <2>1, <2>2 DEF Step, MapStep
<1>2. ClosedMapHasNoOpenTicket'
  <2> SUFFICES ASSUME mapStatus' \in {"completed", "cancelled"}
               PROVE  Settled(tickets')
    BY DEF ClosedMapHasNoOpenTicket, Settled
  <2>1. CASE mapStatus = "cancelled"
    <3>1. Settled(tickets) BY <2>1 DEF ClosedMapHasNoOpenTicket, Settled
    <3> QED BY <3>1, SettledIsStable
  <2>2. CASE mapStatus # "cancelled"
    BY <2>2 DEF Step, MapStep
  <2> QED BY <2>1, <2>2
<1> QED BY <1>1, <1>2

LEMMA StepKeepsMapped ==
  ASSUME TypeOK, MappedMapIsUnclaimed, NEW t, NEW new, Step(t, new)
  PROVE  MappedMapIsUnclaimed'
<1> SUFFICES ASSUME mapStatus' = "mapped", NEW u \in Tickets
             PROVE  tickets'[u].claim = NoClaim
  BY DEF MappedMapIsUnclaimed
<1>1. mapStatus = "mapped" /\ tickets[u].claim = NoClaim
  BY DEF Step, MapStep, MappedMapIsUnclaimed
<1>2. tickets'[u] = IF u = t THEN new ELSE tickets[u]
  BY DEF TypeOK, Step
<1> QED BY <1>1, <1>2 DEF Step, MapStep

LEMMA StepKeepsInvariant ==
  ASSUME IInv, NEW t, NEW new, Step(t, new)
  PROVE  IInv'
BY StepKeepsTypes, StepKeepsTickets, StepKeepsDependencies,
   StepKeepsCompletion, StepKeepsMapped DEF IInv

-----------------------------------------------------------------------------
(* Every operation is a Step.                                              *)

\* A record keeps its type when one field is given a value of the field's type.
LEMMA FieldTypes ==
  ASSUME NEW rec \in TicketRecords
  PROVE  /\ \A v \in TicketStatuses : [rec EXCEPT !.status = v] \in TicketRecords
         /\ \A v \in Claims : [rec EXCEPT !.claim = v] \in TicketRecords
         /\ \A v \in EvidenceBundles : [rec EXCEPT !.evidence = v] \in TicketRecords
         /\ \A v \in BOOLEAN : [rec EXCEPT !.blockerReason = v] \in TicketRecords
         /\ \A v \in {None, "claimed", "implemented"} :
              [rec EXCEPT !.blockedFrom = v] \in TicketRecords
         /\ \A v \in Commits \cup {None} : [rec EXCEPT !.commit = v] \in TicketRecords
BY DEF TicketRecords

\* What Update adds to an operation that changes one ticket.
LEMMA UpdateFacts ==
  ASSUME TypeOK, NEW t \in Tickets, NEW new, NEW status,
         Update(status, With(t, new))
  PROVE  /\ tickets' = With(t, new)
         /\ tickets' = [tickets EXCEPT ![t] = new]
         /\ mapStatus' = status
         /\ fog' = fog
         /\ ValidTicket(new)
         /\ status = "completed" => ~fog /\ Settled(tickets')
BY DEF TypeOK, Update, With, ValidWorkMap, Settled

LEMMA ClaimIsStep ==
  ASSUME IInv, NEW t \in Tickets, NEW lease \in Leases,
         NEW kind \in {"managed-worktree", "analysis"}, ClaimTicket(t, lease, kind)
  PROVE  \E new : Step(t, new)
<1> DEFINE old == tickets[t]
           claim == [lease |-> lease, kind |-> kind, attempt |-> 1]
           new == [old EXCEPT !.status = "claimed", !.claim = claim]
           status == IF mapStatus = "mapped" THEN "executing" ELSE mapStatus
<1>1. TypeOK /\ old \in TicketRecords /\ TicketInv(old)
  BY DEF IInv, TypeOK, TicketsInv
<1>2. /\ old.status = "ready"
      /\ old.claim = NoClaim
      /\ \A b \in BlockedBy[t] : Delivered(tickets, b)
      /\ Update(status, With(t, new))
  BY DEF ClaimTicket, Frontier
<1>3. /\ new \in TicketRecords
      /\ new.status = "claimed"
      /\ new.claim = claim
      /\ new.evidence = old.evidence
      /\ new.commit = old.commit
  <2>1. claim \in Claims
    BY ValueAssumption DEF Claims
  <2>2. "claimed" \in TicketStatuses
    BY DEF TicketStatuses, TicketTransitions
  <2>3. new \in TicketRecords
    BY <1>1, <2>1, <2>2, FieldTypes
  <2> QED BY <1>1, <2>3 DEF TicketRecords
<1> HIDE DEF new, status
<1>4. /\ tickets' = [tickets EXCEPT ![t] = new]
      /\ mapStatus' = status
      /\ fog' = fog
      /\ ValidTicket(new)
      /\ status = "completed" => Settled(tickets')
  BY <1>1, <1>2, UpdateFacts
<1>5. TicketInv(new)
  BY <1>1, <1>2, <1>3, <1>4, ValueAssumption DEF TicketInv, NoClaim, NoEvidence
<1>6. TicketStep(t, old, new)
  BY <1>2, <1>3, <1>5 DEF TicketStep
<1>7. MapStep(t, new)
  BY <1>1, <1>4 DEF MapStep, status, TypeOK, MapStatuses, MapTransitions
<1> QED BY <1>4, <1>6, <1>7 DEF Step
LEMMA ImplementIsStep ==
  ASSUME IInv, NEW t \in Tickets, NEW tree \in Trees,
         tickets[t].status \in {"claimed", "implemented"},
         Implement(t, EvidenceFor(t, tree))
  PROVE  \E new : Step(t, new)
<1> DEFINE old == tickets[t]
           receipt == EvidenceFor(t, tree)
           evidence == [old.evidence EXCEPT !.subject = receipt, !.review = None]
           new == [old EXCEPT !.status = "implemented",
                              !.evidence = evidence,
                              !.blockerReason = FALSE]
           status == IF mapStatus = "executing" THEN "verifying" ELSE mapStatus
<1>1. TypeOK /\ old \in TicketRecords /\ TicketInv(old)
  BY DEF IInv, TypeOK, TicketsInv
<1>2. Update(status, With(t, new))
  BY DEF Implement
<1>3. /\ receipt \in Receipts
      /\ receipt # NoReceipt
      /\ receipt.lease = old.claim.lease
      /\ receipt.attempt = old.claim.attempt
  <2>1. old.claim \in Claims /\ old.claim # NoClaim
    BY <1>1 DEF TicketRecords, TicketInv, ValidTicket
  <2> QED BY <2>1, ValueAssumption DEF EvidenceFor, Claims, Receipts, NoReceipt
<1>4. /\ evidence \in EvidenceBundles
      /\ evidence.subject = receipt
      /\ evidence.review = None
  <2> HIDE DEF receipt
  <2> QED BY <1>1, <1>3 DEF TicketRecords, EvidenceBundles
<1>5. /\ new \in TicketRecords
      /\ new.status = "implemented"
      /\ new.claim = old.claim
      /\ new.evidence = evidence
      /\ new.commit = old.commit
  <2> HIDE DEF evidence
  <2>1. "implemented" \in TicketStatuses
    BY DEF TicketStatuses, TicketTransitions
  <2>2. new \in TicketRecords
    BY <1>1, <1>4, <2>1, FieldTypes
  <2> QED BY <1>1, <2>2 DEF TicketRecords
<1> HIDE DEF new, status, evidence, receipt
<1>6. /\ tickets' = [tickets EXCEPT ![t] = new]
      /\ mapStatus' = status
      /\ fog' = fog
      /\ ValidTicket(new)
      /\ status = "completed" => Settled(tickets')
  BY <1>1, <1>2, UpdateFacts
<1>7. TicketInv(new)
  BY <1>1, <1>3, <1>4, <1>5, <1>6 DEF TicketInv, ValidTicket
<1>8. TicketStep(t, old, new)
  BY <1>1, <1>5, <1>7 DEF TicketStep, Begun, TicketInv, TicketRecords, Claims
<1>9. MapStep(t, new)
  BY <1>1, <1>5, <1>6 DEF MapStep, status, TypeOK, MapStatuses, MapTransitions
<1> QED BY <1>6, <1>8, <1>9 DEF Step

LEMMA RollbackIsStep ==
  ASSUME IInv, NEW t \in Tickets, NEW lease, RollbackClaim(t, lease)
  PROVE  \E new : Step(t, new)
<1> DEFINE old == tickets[t]
           released == [old EXCEPT !.status = "ready", !.claim = NoClaim]
           cleared == [old EXCEPT !.evidence = NoEvidence,
                                  !.blockedFrom = None, !.claim = NoClaim]
<1>1. TypeOK /\ old \in TicketRecords /\ TicketInv(old)
  BY DEF IInv, TypeOK, TicketsInv
<1>2. NoClaim \in Claims /\ NoEvidence \in EvidenceBundles
  BY DEF Claims, EvidenceBundles, NoEvidence, Receipts
<1>3. ASSUME NEW new \in TicketRecords, new \in {released, cleared},
             Update(mapStatus, With(t, new)), TicketInv(new),
             old.status \in {"claimed", "blocked", "cancelled"},
             old.status = "cancelled" => new.status = "cancelled",
             new.claim = NoClaim, ~Begun(new)
      PROVE  Step(t, new)
  <2>1. /\ tickets' = [tickets EXCEPT ![t] = new]
        /\ mapStatus' = mapStatus
        /\ fog' = fog
        /\ mapStatus = "completed" => Settled(tickets')
    BY <1>1, <1>3, UpdateFacts
  <2>2. TicketStep(t, old, new)
    BY <1>3 DEF TicketStep
  <2>3. MapStep(t, new)
    BY <1>1, <1>3, <2>1 DEF MapStep, TypeOK
  <2> QED BY <2>1, <2>2, <2>3 DEF Step
<1>4. CASE /\ old.status = "claimed"
           /\ old.evidence = NoEvidence
           /\ Update(mapStatus, With(t, released))
  <2>1. "ready" \in TicketStatuses
    BY DEF TicketStatuses, TicketTransitions
  <2>2. released \in TicketRecords
    BY <1>1, <1>2, <2>1, FieldTypes
  <2>3. /\ released.status = "ready"
        /\ released.claim = NoClaim
        /\ released.evidence = NoEvidence
        /\ released.commit = old.commit
    BY <1>1, <1>4, <2>2 DEF TicketRecords
  <2> HIDE DEF released
  <2>4. ValidTicket(released)
    BY <1>1, <1>4, UpdateFacts
  <2>5. TicketInv(released)
    BY <1>1, <1>4, <2>3, <2>4 DEF TicketInv, NoEvidence
  <2> QED BY <1>3, <1>4, <2>2, <2>3, <2>5 DEF Begun
<1>5. CASE /\ old.status \in {"blocked", "cancelled"}
           /\ Update(mapStatus, With(t, cleared))
  <2>1. cleared \in TicketRecords
    BY <1>1, <1>2, FieldTypes
  <2>2. /\ cleared.status = old.status
        /\ cleared.claim = NoClaim
        /\ cleared.evidence = NoEvidence
        /\ cleared.commit = old.commit
    BY <1>1, <2>1 DEF TicketRecords
  <2> HIDE DEF cleared
  <2>3. ValidTicket(cleared)
    BY <1>1, <1>5, UpdateFacts
  <2>4. TicketInv(cleared)
    BY <1>1, <1>5, <2>2, <2>3 DEF TicketInv, NoEvidence
  <2> QED BY <1>3, <1>5, <2>1, <2>2, <2>4 DEF Begun
<1> QED BY <1>4, <1>5 DEF RollbackClaim
LEMMA RequestChangesIsStep ==
  ASSUME IInv, NEW t \in Tickets, RequestChanges(t)
  PROVE  \E new : Step(t, new)
<1> DEFINE old == tickets[t]
           evidence == [NoEvidence EXCEPT !.requested = TRUE]
           claim == [old.claim EXCEPT !.attempt = @ + 1]
           new == [old EXCEPT !.status = "claimed", !.evidence = evidence,
                              !.claim = claim]
           status == IF mapStatus = "verifying" THEN "executing" ELSE mapStatus
<1>1. TypeOK /\ old \in TicketRecords /\ TicketInv(old)
  BY DEF IInv, TypeOK, TicketsInv
<1>2. /\ old.status = "implemented"
      /\ old.claim # NoClaim
      /\ old.claim.attempt < MaxAttempts
      /\ old.claim \in Claims
  BY <1>1 DEF RequestChanges, TicketRecords
<1>3. /\ claim \in Claims
      /\ claim # NoClaim
      /\ claim.lease = old.claim.lease
      /\ claim.attempt >= old.claim.attempt
  BY <1>2, ValueAssumption DEF Claims, NoClaim
<1>4. /\ evidence \in EvidenceBundles
      /\ evidence.subject = NoReceipt
      /\ evidence.review = None
  BY DEF NoEvidence, EvidenceBundles, Receipts
<1>5. /\ new \in TicketRecords
      /\ new.status = "claimed"
      /\ new.claim = claim
      /\ new.evidence = evidence
      /\ new.commit = old.commit
      /\ Update(status, With(t, new))
  <2>1. Update(status, With(t, new))
    <3>1. new = [old EXCEPT !.status = "claimed", !.evidence = evidence,
                            !.claim.attempt = @ + 1]
      BY <1>1 DEF TicketRecords
    <3> QED BY <3>1 DEF RequestChanges
  <2> HIDE DEF evidence, claim
  <2>2. "claimed" \in TicketStatuses
    BY DEF TicketStatuses, TicketTransitions
  <2>3. new \in TicketRecords
    BY <1>1, <1>3, <1>4, <2>2, FieldTypes
  <2> QED BY <1>1, <2>1, <2>3 DEF TicketRecords
<1> HIDE DEF new, status, evidence, claim
<1>6. /\ tickets' = [tickets EXCEPT ![t] = new]
      /\ mapStatus' = status
      /\ fog' = fog
      /\ ValidTicket(new)
      /\ status = "completed" => Settled(tickets')
  BY <1>1, <1>5, UpdateFacts
<1>7. TicketInv(new)
  BY <1>1, <1>2, <1>3, <1>4, <1>5, <1>6 DEF TicketInv
<1>8. TicketStep(t, old, new)
  BY <1>2, <1>3, <1>5, <1>7 DEF TicketStep, Begun
<1>9. MapStep(t, new)
  BY <1>1, <1>2, <1>6 DEF MapStep, status, TypeOK, MapStatuses, MapTransitions
<1> QED BY <1>6, <1>8, <1>9 DEF Step

LEMMA VerifyIsStep ==
  ASSUME IInv, NEW t \in Tickets, NEW tree \in Trees, VerifyTicket(t, tree)
  PROVE  \E new : Step(t, new)
<1> DEFINE old == tickets[t]
           evidence == [old.evidence EXCEPT !.review = tree]
           new == [old EXCEPT !.status = "verified", !.evidence = evidence]
           status == IF t \in Analysis /\ AllDelivered(With(t, new)) /\ ~fog
                       THEN "completed" ELSE mapStatus
<1>1. TypeOK /\ old \in TicketRecords /\ TicketInv(old)
  BY DEF IInv, TypeOK, TicketsInv
<1>2. /\ old.status = "implemented"
      /\ old.evidence.subject.tree = tree
  BY DEF VerifyTicket
<1>3. /\ evidence \in EvidenceBundles
      /\ evidence.subject = old.evidence.subject
      /\ evidence.review = tree
  BY <1>1 DEF TicketRecords, EvidenceBundles
<1>4. /\ new \in TicketRecords
      /\ new.status = "verified"
      /\ new.claim = old.claim
      /\ new.evidence = evidence
      /\ Update(status, With(t, new))
  <2>1. Update(status, With(t, new))
    <3>1. new = [old EXCEPT !.status = "verified", !.evidence.review = tree]
      BY <1>1 DEF TicketRecords
    <3> QED BY <3>1 DEF VerifyTicket
  <2> HIDE DEF evidence
  <2>2. "verified" \in TicketStatuses
    BY DEF TicketStatuses, TicketTransitions
  <2>3. new \in TicketRecords
    BY <1>1, <1>3, <2>2, FieldTypes
  <2> QED BY <1>1, <2>1, <2>3 DEF TicketRecords
<1> HIDE DEF new, evidence
<1>5. /\ tickets' = [tickets EXCEPT ![t] = new]
      /\ tickets' = With(t, new)
      /\ mapStatus' = status
      /\ fog' = fog
      /\ ValidTicket(new)
      /\ status = "completed" => ~fog /\ Settled(tickets')
  <2> HIDE DEF status
  <2> QED BY <1>1, <1>4, UpdateFacts
<1>6. TicketInv(new)
  BY <1>1, <1>2, <1>3, <1>4, <1>5 DEF TicketInv, ValidTicket
<1>7. TicketStep(t, old, new)
  BY <1>1, <1>2, <1>4, <1>6
  DEF TicketStep, Begun, TicketInv, TicketRecords, Claims, NoClaim
<1>8. MapStep(t, new)
  <2>1. status \in {"completed", mapStatus}
    OBVIOUS
  <2>2. status # mapStatus => AllDelivered(tickets') /\ ~fog
    BY <1>5
  <2> HIDE DEF status
  <2> QED BY <1>1, <1>4, <1>5, <2>1, <2>2
      DEF MapStep, TypeOK, MapStatuses, MapTransitions
<1> QED BY <1>5, <1>7, <1>8 DEF Step
LEMMA BlockIsStep ==
  ASSUME IInv, NEW t \in Tickets, BlockTicket(t)
  PROVE  \E new : Step(t, new)
<1> DEFINE old == tickets[t]
           from == IF old.status = "ready" THEN old.blockedFrom ELSE old.status
           new == [old EXCEPT !.status = "blocked", !.blockerReason = TRUE,
                              !.blockedFrom = from]
<1>1. TypeOK /\ old \in TicketRecords /\ TicketInv(old)
  BY DEF IInv, TypeOK, TicketsInv
<1>2. old.status \in {"ready", "claimed", "implemented"}
  BY DEF BlockTicket
<1>3. from \in {None, "claimed", "implemented"}
  BY <1>1, <1>2 DEF TicketRecords
<1>4. /\ new \in TicketRecords
      /\ new.status = "blocked"
      /\ new.claim = old.claim
      /\ new.evidence = old.evidence
      /\ new.commit = old.commit
      /\ Update(mapStatus, With(t, new))
  <2>1. Update(mapStatus, With(t, new))
    <3>1. new = [old EXCEPT !.status = "blocked", !.blockerReason = TRUE,
                            !.blockedFrom = IF old.status = "ready" THEN @
                                            ELSE old.status]
      BY <1>1 DEF TicketRecords
    <3> QED BY <3>1 DEF BlockTicket
  <2> HIDE DEF from
  <2>2. "blocked" \in TicketStatuses
    BY DEF TicketStatuses, TicketTransitions
  <2>3. new \in TicketRecords
    BY <1>1, <1>3, <2>2, FieldTypes
  <2> QED BY <1>1, <2>1, <2>3 DEF TicketRecords
<1> HIDE DEF new
<1>5. /\ tickets' = [tickets EXCEPT ![t] = new]
      /\ mapStatus' = mapStatus
      /\ fog' = fog
      /\ ValidTicket(new)
      /\ mapStatus = "completed" => Settled(tickets')
  BY <1>1, <1>4, UpdateFacts
<1>6. TicketInv(new)
  BY <1>1, <1>2, <1>4, <1>5 DEF TicketInv
<1>7. TicketStep(t, old, new)
  BY <1>1, <1>2, <1>4, <1>6
  DEF TicketStep, Begun, TicketInv, TicketRecords, Claims, NoClaim
<1>8. MapStep(t, new)
  BY <1>1, <1>4, <1>5 DEF MapStep, TypeOK
<1> QED BY <1>5, <1>7, <1>8 DEF Step

LEMMA ResumeIsStep ==
  ASSUME IInv, NEW t \in Tickets, ResumeTicket(t)
  PROVE  \E new : Step(t, new)
<1> DEFINE old == tickets[t]
           status == IF old.claim # NoClaim THEN old.blockedFrom ELSE "ready"
           new == [old EXCEPT !.status = status, !.blockerReason = FALSE,
                              !.blockedFrom = None]
<1>1. TypeOK /\ old \in TicketRecords /\ TicketInv(old)
  BY DEF IInv, TypeOK, TicketsInv
<1>2. old.status = "blocked" /\ Update(mapStatus, With(t, new))
  BY DEF ResumeTicket
<1>3. /\ status \in {"ready", "claimed", "implemented"}
      /\ status = "ready" <=> old.claim = NoClaim
  BY <1>1, ValueAssumption DEF ResumeTicket, TicketRecords
<1> HIDE DEF status
<1>4. /\ new \in TicketRecords
      /\ new.status = status
      /\ new.claim = old.claim
      /\ new.evidence = old.evidence
      /\ new.commit = old.commit
  <2>1. status \in TicketStatuses
    BY <1>3 DEF TicketStatuses, TicketTransitions
  <2>2. new \in TicketRecords
    BY <1>1, <2>1, FieldTypes
  <2> QED BY <1>1, <2>2 DEF TicketRecords
<1> HIDE DEF new
<1>5. /\ tickets' = [tickets EXCEPT ![t] = new]
      /\ mapStatus' = mapStatus
      /\ fog' = fog
      /\ ValidTicket(new)
      /\ mapStatus = "completed" => Settled(tickets')
  BY <1>1, <1>2, UpdateFacts
<1>6. TicketInv(new)
  BY <1>1, <1>2, <1>3, <1>4, <1>5 DEF TicketInv
<1>7. TicketStep(t, old, new)
  BY <1>1, <1>2, <1>3, <1>4, <1>6
  DEF TicketStep, Begun, TicketInv, TicketRecords, Claims, NoClaim
<1>8. MapStep(t, new)
  BY <1>1, <1>4, <1>5 DEF MapStep, TypeOK
<1> QED BY <1>5, <1>7, <1>8 DEF Step

LEMMA CancelIsStep ==
  ASSUME IInv, NEW t \in Tickets, CancelTicket(t)
  PROVE  \E new : Step(t, new)
<1> DEFINE old == tickets[t]
           new == [old EXCEPT !.status = "cancelled", !.blockerReason = FALSE,
                              !.blockedFrom = None]
           status == IF Settled(With(t, new)) THEN "cancelled" ELSE mapStatus
<1>1. TypeOK /\ old \in TicketRecords /\ TicketInv(old)
  BY DEF IInv, TypeOK, TicketsInv
<1>2. /\ old.status \notin {"verified", "cancelled"}
      /\ Update(status, With(t, new))
  BY DEF CancelTicket, Settled
<1>3. /\ new \in TicketRecords
      /\ new.status = "cancelled"
      /\ new.claim = old.claim
      /\ new.evidence = old.evidence
      /\ new.commit = old.commit
  <2>1. "cancelled" \in TicketStatuses
    BY DEF TicketStatuses, TicketTransitions
  <2>2. new \in TicketRecords
    BY <1>1, <2>1, FieldTypes
  <2> QED BY <1>1, <2>2 DEF TicketRecords
<1> HIDE DEF new
<1>4. /\ tickets' = [tickets EXCEPT ![t] = new]
      /\ tickets' = With(t, new)
      /\ mapStatus' = status
      /\ fog' = fog
      /\ ValidTicket(new)
      /\ status = "completed" => ~fog /\ Settled(tickets')
  <2> HIDE DEF status
  <2> QED BY <1>1, <1>2, UpdateFacts
<1>5. TicketInv(new)
  BY <1>1, <1>2, <1>3, <1>4 DEF TicketInv
<1>6. TicketStep(t, old, new)
  BY <1>1, <1>2, <1>3, <1>5 DEF TicketStep, Begun, TicketRecords, Claims, NoClaim
<1>7. MapStep(t, new)
  <2>1. /\ status \in {"cancelled", mapStatus}
        /\ status # mapStatus => Settled(tickets')
    BY <1>4
  <2> HIDE DEF status
  <2> QED BY <1>1, <1>3, <1>4, <2>1 DEF MapStep, TypeOK, MapStatuses, MapTransitions
<1> QED BY <1>4, <1>6, <1>7 DEF Step

LEMMA IntegrateIsStep ==
  ASSUME IInv, NEW t \in Tickets, NEW commit \in Commits, IntegrateTicket(t, commit)
  PROVE  \E new : Step(t, new)
<1> DEFINE old == tickets[t]
           new == [old EXCEPT !.commit = commit]
           status == IF AllDelivered(With(t, new)) /\ ~fog THEN "completed"
                     ELSE IF mapStatus = "verifying" THEN "executing" ELSE mapStatus
<1>1. TypeOK /\ old \in TicketRecords /\ TicketInv(old)
  BY DEF IInv, TypeOK, TicketsInv
<1>2. /\ old.status = "verified"
      /\ old.commit = None
      /\ Update(status, With(t, new))
  BY DEF IntegrateTicket, MarkIntegrated
<1>3. /\ new \in TicketRecords
      /\ new.status = old.status
      /\ new.claim = old.claim
      /\ new.evidence = old.evidence
  <2>1. new \in TicketRecords
    BY <1>1, FieldTypes
  <2> QED BY <1>1, <2>1 DEF TicketRecords
<1> HIDE DEF new
<1>4. /\ tickets' = [tickets EXCEPT ![t] = new]
      /\ tickets' = With(t, new)
      /\ mapStatus' = status
      /\ fog' = fog
      /\ ValidTicket(new)
      /\ status = "completed" => ~fog /\ Settled(tickets')
  <2> HIDE DEF status
  <2> QED BY <1>1, <1>2, UpdateFacts
<1>5. TicketInv(new)
  BY <1>1, <1>2, <1>3, <1>4 DEF TicketInv
<1>6. TicketStep(t, old, new)
  BY <1>1, <1>2, <1>3, <1>5 DEF TicketStep, Begun, TicketRecords, Claims, NoClaim
<1>7. MapStep(t, new)
  <2>1. /\ status \in {"completed", "executing", mapStatus}
        /\ status = "completed" => mapStatus = "completed" \/ AllDelivered(tickets')
    BY <1>4
  <2> HIDE DEF status
  <2> QED BY <1>1, <1>3, <1>4, <2>1 DEF MapStep, TypeOK, MapStatuses, MapTransitions
<1> QED BY <1>4, <1>6, <1>7 DEF Step
LEMMA NextIsStep ==
  ASSUME IInv, Next
  PROVE  \E t, new : Step(t, new)
<1>1. ASSUME NEW t \in Tickets, NEW lease \in Leases,
             NEW kind \in {"managed-worktree", "analysis"}, ClaimTicket(t, lease, kind)
      PROVE  \E u, new : Step(u, new)
  BY <1>1, ClaimIsStep
<1>2. ASSUME NEW t \in Tickets, NEW tree \in Trees,
             \/ MarkImplemented(t, EvidenceFor(t, tree))
             \/ MarkAnalysisImplemented(t, EvidenceFor(t, tree))
      PROVE  \E u, new : Step(u, new)
  BY <1>2, ImplementIsStep DEF MarkImplemented, MarkAnalysisImplemented
<1>3. ASSUME NEW t \in Tickets, NEW lease \in Leases, RollbackClaim(t, lease)
      PROVE  \E u, new : Step(u, new)
  BY <1>3, RollbackIsStep
<1>4. ASSUME NEW t \in Tickets, RequestChanges(t)
      PROVE  \E u, new : Step(u, new)
  BY <1>4, RequestChangesIsStep
<1>5. ASSUME NEW t \in Tickets, NEW tree \in Trees, VerifyTicket(t, tree)
      PROVE  \E u, new : Step(u, new)
  BY <1>5, VerifyIsStep
<1>6. ASSUME NEW t \in Tickets, BlockTicket(t) \/ ResumeTicket(t) \/ CancelTicket(t)
      PROVE  \E u, new : Step(u, new)
  BY <1>6, BlockIsStep, ResumeIsStep, CancelIsStep
<1>7. ASSUME NEW t \in Tickets, NEW commit \in Commits, IntegrateTicket(t, commit)
      PROVE  \E u, new : Step(u, new)
  BY <1>7, IntegrateIsStep
<1> QED
  BY <1>1, <1>2, <1>3, <1>4, <1>5, <1>6, <1>7
  DEF Next, Claim, Record, Rollback, Review, Lifecycle, Integrate

-----------------------------------------------------------------------------
(* The theorems.                                                           *)

LEMMA InitEstablishesInvariant == Init => IInv
<1> SUFFICES ASSUME Init PROVE IInv
  OBVIOUS
<1>1. ASSUME NEW t \in Tickets
      PROVE  /\ tickets[t] \in TicketRecords
             /\ TicketInv(tickets[t])
             /\ tickets[t].claim = NoClaim
             /\ ~Begun(tickets[t])
  <2> DEFINE rec == tickets[t]
  <2>1. /\ rec \in InitialTickets
        /\ ValidTicket(rec)
    BY DEF Init, InitialTickets
  <2>2. /\ rec \in TicketRecords
        /\ rec.claim = NoClaim
        /\ rec.evidence = NoEvidence
        /\ rec.commit = None
        /\ rec.status \in {"draft", "ready", "blocked", "cancelled"}
    <3>1. NoClaim \in Claims /\ NoEvidence \in EvidenceBundles
      BY DEF Claims, EvidenceBundles, NoEvidence, Receipts
    <3>2. {"draft", "ready", "blocked", "cancelled"} \subseteq TicketStatuses
      BY DEF TicketStatuses, TicketTransitions
    <3> QED BY <2>1, <3>1, <3>2 DEF InitialTickets, TicketRecords
  <2> QED BY <2>1, <2>2 DEF TicketInv, NoEvidence, Begun
<1>2. tickets \in [Tickets -> TicketRecords]
  BY <1>1 DEF Init
<1>3. TypeOK
  BY <1>2 DEF Init, TypeOK, MapStatuses, MapTransitions
<1> QED
  BY <1>1, <1>3
  DEF Init, IInv, TicketsInv, DependenciesDelivered, CompletedMapIsDelivered,
      ClosedMapHasNoOpenTicket, MappedMapIsUnclaimed

LEMMA NextKeepsInvariant == IInv /\ [Next]_vars => IInv'
<1> SUFFICES ASSUME IInv, [Next]_vars PROVE IInv'
  OBVIOUS
<1>1. CASE Next
  BY <1>1, NextIsStep, StepKeepsInvariant
<1>2. CASE UNCHANGED vars
  BY <1>2
  DEF vars, IInv, TypeOK, TicketsInv, DependenciesDelivered, Delivered,
      CompletedMapIsDelivered, ClosedMapHasNoOpenTicket, MappedMapIsUnclaimed
<1> QED BY <1>1, <1>2

\* The inductive invariant holds of every reachable map.
THEOREM Invariance == Spec => []IInv
BY InitEstablishesInvariant, NextKeepsInvariant, PTL DEF Spec

\* Every variable keeps its type.
THEOREM TypeCorrect == Spec => []TypeOK
<1>1. IInv => TypeOK
  BY DEF IInv
<1> QED BY <1>1, Invariance, PTL

\* Whatever the dependencies are, no ticket is worked on before all it depends
\* on is delivered.
THEOREM DependenciesAlwaysDelivered == Spec => []DependenciesDelivered
<1>1. IInv => DependenciesDelivered
  BY DEF IInv
<1> QED BY <1>1, Invariance, PTL

\* The evidence of a ticket is always that of the claim and attempt it has.
THEOREM EvidenceFollowsClaim == Spec => []EvidenceBoundToClaim
<1>1. IInv => EvidenceBoundToClaim
  <2> SUFFICES ASSUME IInv, NEW t \in Tickets, tickets[t].evidence.subject # NoReceipt
               PROVE  /\ tickets[t].evidence.subject.lease = tickets[t].claim.lease
                      /\ tickets[t].evidence.subject.attempt = tickets[t].claim.attempt
    BY DEF EvidenceBoundToClaim
  <2> QED BY DEF IInv, TicketsInv, TicketInv, ValidTicket
<1> QED BY <1>1, Invariance, PTL

\* A verified ticket has a receipt and a review of one and the same tree, and
\* no other ticket has a review or a commit.
THEOREM EvidenceChainHolds == Spec => []VerifiedEvidenceChain
<1>1. IInv => VerifiedEvidenceChain
  <2> SUFFICES ASSUME IInv, NEW t \in Tickets
               PROVE  /\ tickets[t].status = "verified" =>
                            /\ tickets[t].claim # NoClaim
                            /\ tickets[t].evidence.review \in Trees
                            /\ tickets[t].evidence.review = tickets[t].evidence.subject.tree
                      /\ tickets[t].evidence.review # None \/ tickets[t].commit # None
                            => tickets[t].status = "verified"
    BY DEF VerifiedEvidenceChain
  <2> QED BY DEF IInv, TicketsInv, TicketInv, ValidTicket
<1> QED BY <1>1, Invariance, PTL

\* A completed map has delivered everything it kept.
THEOREM CompletedMapsAreDelivered == Spec => []CompletedMapIsDelivered
<1>1. IInv => CompletedMapIsDelivered
  BY DEF IInv
<1> QED BY <1>1, Invariance, PTL

\* A closed map has nothing left to work on.
THEOREM ClosedMapsAreSettled == Spec => []ClosedMapHasNoOpenTicket
<1>1. IInv => ClosedMapHasNoOpenTicket
  BY DEF IInv
<1> QED BY <1>1, Invariance, PTL

\* The first claim is always what starts the execution of a map.
THEOREM MappedMapHasNoClaim == Spec => []MappedMapIsUnclaimed
<1>1. IInv => MappedMapIsUnclaimed
  BY DEF IInv
<1> QED BY <1>1, Invariance, PTL

\* No operation changes the claim or the evidence of a verified ticket, or
\* replaces a commit that is recorded.
THEOREM VerifiedEvidenceNeverChanges == Spec => VerifiedEvidenceIsFinal
<1>1. IInv /\ [Next]_vars => [VerifiedStepsKeepEvidence]_vars
  <2> SUFFICES ASSUME IInv, Next PROVE VerifiedStepsKeepEvidence
    OBVIOUS
  <2>1. PICK t, new : Step(t, new)
    BY NextIsStep
  <2>2. \A u \in Tickets : tickets'[u] = IF u = t THEN new ELSE tickets[u]
    BY <2>1 DEF Step, IInv, TypeOK
  <2> QED BY <2>1, <2>2 DEF Step, TicketStep, VerifiedStepsKeepEvidence
<1> QED BY <1>1, Invariance, PTL DEF Spec, VerifiedEvidenceIsFinal

\* While a claim lasts its lease stays and its attempt never falls.
THEOREM AttemptsNeverFall == Spec => AttemptsOnlyGrow
<1>1. IInv /\ [Next]_vars => [AttemptSteps]_vars
  <2> SUFFICES ASSUME IInv, Next PROVE AttemptSteps
    OBVIOUS
  <2>1. PICK t, new : Step(t, new)
    BY NextIsStep
  <2>2. \A u \in Tickets : tickets'[u] = IF u = t THEN new ELSE tickets[u]
    BY <2>1 DEF Step, IInv, TypeOK
  <2>3. ASSUME NEW u \in Tickets, tickets[u].claim # NoClaim, tickets'[u].claim # NoClaim
        PROVE  /\ tickets'[u].claim.lease = tickets[u].claim.lease
               /\ tickets'[u].claim.attempt >= tickets[u].claim.attempt
    <3>1. CASE u = t
      BY <2>1, <2>2, <2>3, <3>1 DEF Step, TicketStep
    <3>2. CASE u # t
      <4>1. tickets[u].claim.attempt \in Nat
        BY <2>3, ValueAssumption DEF IInv, TypeOK, TicketRecords, Claims
      <4> QED BY <2>2, <3>2, <4>1
    <3> QED BY <3>1, <3>2
  <2> QED BY <2>3 DEF AttemptSteps
<1> QED BY <1>1, Invariance, PTL DEF Spec, AttemptsOnlyGrow
=============================================================================
