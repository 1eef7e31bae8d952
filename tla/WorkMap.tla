------------------------------ MODULE WorkMap ------------------------------
(***************************************************************************)
(* The life of one Work Map: the statuses of the map and of its tickets,   *)
(* the claim and the evidence every ticket carries, and the operations of  *)
(* WorkMapStore that move them.  One step is one successful call of        *)
(* `update`: the operation's own guard, its assignments, and then the      *)
(* checks every candidate map goes through before it is saved.  How the    *)
(* map reaches the disk is modelled in WorkMapStore; where the evidence    *)
(* comes from, in TicketEvidence.                                          *)
(***************************************************************************)
EXTENDS Integers, FiniteSets

CONSTANTS
  Tickets,      \* the tickets of the map: the set never changes
  Analysis,     \* the tickets whose verificationMode is "analysis-only"
  BlockedBy,    \* BlockedBy[t]: the tickets that t depends on
  FogTickets,   \* the tickets some open question of the map refers to
  Leases,       \* claim identities (managed worktree leases, analysis claims)
  Trees,        \* digests of what a ticket produced: a Git tree, an artifact
  Commits,      \* integrated commits
  MaxAttempts,  \* bound on the review rounds of one claim
  None          \* an absent field

\* Dependencies are between tickets of the map and have no cycle: every
\* non-empty set of tickets has one that depends on none of the others.
ASSUME DependencyAssumption ==
  /\ Analysis \subseteq Tickets
  /\ FogTickets \subseteq Tickets
  /\ BlockedBy \in [Tickets -> SUBSET Tickets]
  /\ \A S \in SUBSET Tickets :
       S # {} => \E t \in S : BlockedBy[t] \cap S = {}

ASSUME ValueAssumption ==
  /\ MaxAttempts \in Nat \ {0}
  /\ None \notin Leases \cup Trees \cup Commits \cup {"claimed", "implemented"}

VARIABLES
  mapStatus,    \* the status of the map
  fog,          \* is some open question of the map unresolved?
  tickets       \* the tickets, by id

vars == <<mapStatus, fog, tickets>>

-----------------------------------------------------------------------------
(* The two transition tables.                                              *)

MapTransitions ==
  [ shaping   |-> {"mapped", "blocked", "cancelled"},
    mapped    |-> {"executing", "blocked", "cancelled"},
    executing |-> {"verifying", "blocked", "cancelled"},
    verifying |-> {"executing", "completed", "blocked", "cancelled"},
    blocked   |-> {"shaping", "mapped", "executing", "verifying", "cancelled"},
    completed |-> {},
    cancelled |-> {} ]

TicketTransitions ==
  [ draft       |-> {"ready", "blocked", "cancelled"},
    ready       |-> {"claimed", "blocked", "cancelled"},
    claimed     |-> {"ready", "implemented", "blocked", "cancelled"},
    implemented |-> {"claimed", "verified", "blocked", "cancelled"},
    verified    |-> {},
    blocked     |-> {"draft", "ready", "claimed", "implemented", "cancelled"},
    cancelled   |-> {} ]

MapStatuses == DOMAIN MapTransitions
TicketStatuses == DOMAIN TicketTransitions

MapMayMove(from, to) == from = to \/ to \in MapTransitions[from]
TicketMayMove(from, to) == from = to \/ to \in TicketTransitions[from]

-----------------------------------------------------------------------------
(* A ticket.  Evidence names its subject by the claim it was produced for  *)
(* and by the digest of what was verified; a review names the digest it    *)
(* reviewed.  An absent claim or evidence is one whose fields are None.    *)

NoClaim == [lease |-> None, kind |-> None, attempt |-> 0]
NoReceipt == [lease |-> None, attempt |-> 0, tree |-> None]
NoEvidence == [subject |-> NoReceipt, review |-> None, requested |-> FALSE]

Claims ==
  [lease : Leases, kind : {"managed-worktree", "analysis"},
   attempt : 1 .. MaxAttempts] \cup {NoClaim}
Receipts ==
  [lease : Leases, attempt : 1 .. MaxAttempts, tree : Trees] \cup {NoReceipt}
EvidenceBundles ==
  [subject : Receipts, review : Trees \cup {None}, requested : BOOLEAN]

TicketRecords ==
  [ status        : TicketStatuses,
    claim         : Claims,
    evidence      : EvidenceBundles,
    blockerReason : BOOLEAN,
    blockedFrom   : {None, "claimed", "implemented"},
    commit        : Commits \cup {None} ]

-----------------------------------------------------------------------------
(* What counts as delivered, and what may be claimed next.                 *)

Delivered(ts, t) ==
  /\ ts[t].status = "verified"
  /\ t \in Analysis \/ ts[t].commit # None

\* Mutant: a verified ticket counts as delivered before its integration.
AllVerified(ts) ==
  \A t \in Tickets : ts[t].status # "cancelled" => ts[t].status = "verified"

AllDelivered(ts) ==
  \A t \in Tickets : ts[t].status # "cancelled" => Delivered(ts, t)

\* Mutant: a dependency is satisfied by its review.
VerifiedFrontier ==
  {t \in Tickets : /\ tickets[t].status = "ready"
                   /\ \A b \in BlockedBy[t] : tickets[b].status = "verified"}

Frontier ==
  {t \in Tickets : /\ tickets[t].status = "ready"
                   /\ \A b \in BlockedBy[t] : Delivered(tickets, b)}

-----------------------------------------------------------------------------
(* What every saved map satisfies.                                         *)

ValidTicket(rec) ==
  /\ rec.status \in {"claimed", "implemented", "verified"} => rec.claim # NoClaim
  /\ rec.status \in {"implemented", "verified"} => rec.evidence.subject # NoReceipt
  /\ rec.status = "verified" => rec.evidence.review # None
  /\ rec.blockerReason => rec.status = "blocked"
  /\ rec.blockedFrom # None => rec.status = "blocked"
  /\ (rec.status = "blocked" /\ rec.claim # NoClaim) => rec.blockedFrom # None

NoCancelledReference(ts) ==
  /\ \A t \in Tickets : \A b \in BlockedBy[t] : ts[b].status # "cancelled"
  /\ \A t \in FogTickets : ts[t].status # "cancelled"

ValidWorkMap(status, ts) ==
  /\ \A t \in Tickets : ValidTicket(ts[t])
  /\ NoCancelledReference(ts)
  /\ status = "completed" =>
       /\ ~fog
       /\ \A t \in Tickets : ts[t].status \in {"verified", "cancelled"}

\* The tickets once the record of t is replaced.
With(t, rec) == [tickets EXCEPT ![t] = rec]

\* The common end of every operation: the candidate is validated, compared
\* with the map it replaces and saved; any failure leaves the map untouched.
Update(status, ts) ==
  /\ ValidWorkMap(status, ts)
  /\ MapMayMove(mapStatus, status)
  /\ \A t \in Tickets : TicketMayMove(tickets[t].status, ts[t].status)
  /\ mapStatus' = status
  /\ tickets' = ts
  /\ UNCHANGED fog
-----------------------------------------------------------------------------
(* plan/create: a new map is "mapped"; its tickets carry no claim and no   *)
(* evidence, and are in one of the four initial statuses.                  *)

InitialTickets ==
  { rec \in
      [ status        : {"draft", "ready", "blocked", "cancelled"},
        claim         : {NoClaim},
        evidence      : {NoEvidence},
        blockerReason : {FALSE},
        blockedFrom   : {None, "claimed", "implemented"},
        commit        : {None} ] : ValidTicket(rec) }

Init ==
  /\ mapStatus = "mapped"
  /\ fog \in BOOLEAN
  /\ tickets \in [Tickets -> InitialTickets]
  /\ ValidWorkMap(mapStatus, tickets)

-----------------------------------------------------------------------------
(* The operations.  Every one is refused when its guard does not hold.     *)
(* Nothing in them compares the claims of two tickets, so a lease may be   *)
(* that of several.                                                        *)

\* Mutant: the map does not leave "mapped".
ClaimKeepsMap(t, lease, kind) ==
  /\ t \in Frontier
  /\ tickets[t].claim = NoClaim
  /\ (t \in Analysis) <=> (kind = "analysis")
  /\ Update(mapStatus,
            With(t, [tickets[t] EXCEPT
               !.status = "claimed",
               !.claim = [lease |-> lease, kind |-> kind, attempt |-> 1]]))

ClaimTicket(t, lease, kind) ==
  /\ t \in Frontier
  /\ tickets[t].claim = NoClaim
  /\ (t \in Analysis) <=> (kind = "analysis")
  /\ Update(IF mapStatus = "mapped" THEN "executing" ELSE mapStatus,
            With(t, [tickets[t] EXCEPT
               !.status = "claimed",
               !.claim = [lease |-> lease, kind |-> kind, attempt |-> 1]]))

\* Recording evidence keeps an earlier request for changes.
Implement(t, receipt) ==
  Update(IF mapStatus = "executing" THEN "verifying" ELSE mapStatus,
         With(t, [tickets[t] EXCEPT
            !.status = "implemented",
            !.evidence = [@ EXCEPT !.subject = receipt, !.review = None],
            !.blockerReason = FALSE]))

MarkImplemented(t, receipt) ==
  /\ tickets[t].status \in {"claimed", "implemented"}
  /\ tickets[t].claim.kind = "managed-worktree"
  /\ Implement(t, receipt)

MarkAnalysisImplemented(t, receipt) ==
  /\ tickets[t].status = "claimed"
  /\ t \in Analysis
  /\ tickets[t].claim.kind = "analysis"
  /\ Implement(t, receipt)

RollbackClaim(t, lease) ==
  /\ tickets[t].claim # NoClaim
  /\ tickets[t].claim.lease = lease
  /\ \/ /\ tickets[t].status = "claimed"
        /\ tickets[t].evidence = NoEvidence
        /\ Update(mapStatus, With(t, [tickets[t] EXCEPT !.status = "ready",
                                                       !.claim = NoClaim]))
     \/ /\ tickets[t].status \in {"blocked", "cancelled"}
        /\ Update(mapStatus, With(t, [tickets[t] EXCEPT !.evidence = NoEvidence,
                                                       !.blockedFrom = None,
                                                       !.claim = NoClaim]))

\* Mutant: the receipt of the reviewed attempt stays.
RequestChangesKeepsReceipt(t) ==
  /\ tickets[t].status = "implemented"
  /\ tickets[t].claim.attempt < MaxAttempts
  /\ Update(IF mapStatus = "verifying" THEN "executing" ELSE mapStatus,
            With(t, [tickets[t] EXCEPT
               !.status = "claimed",
               !.evidence.requested = TRUE,
               !.claim.attempt = @ + 1]))

RequestChanges(t) ==
  /\ tickets[t].status = "implemented"
  /\ tickets[t].claim # NoClaim
  /\ tickets[t].claim.attempt < MaxAttempts
  /\ Update(IF mapStatus = "verifying" THEN "executing" ELSE mapStatus,
            With(t, [tickets[t] EXCEPT
               !.status = "claimed",
               !.evidence = [NoEvidence EXCEPT !.requested = TRUE],
               !.claim.attempt = @ + 1]))

\* Mutant: the reviewed digest is not compared with the receipt's.
VerifyAnySubject(t, reviewed) ==
  /\ tickets[t].status = "implemented"
  /\ Update(mapStatus, With(t, [tickets[t] EXCEPT !.status = "verified",
                                                 !.evidence.review = reviewed]))

\* A verified code ticket still waits for its integration; a verified
\* analysis is delivered, and may be what completes the map.
VerifyTicket(t, reviewed) ==
  /\ tickets[t].status = "implemented"
  /\ tickets[t].evidence.subject.tree = reviewed
  /\ LET ts == With(t, [tickets[t] EXCEPT !.status = "verified",
                                         !.evidence.review = reviewed])
     IN Update(IF t \in Analysis /\ AllDelivered(ts) /\ ~fog
                 THEN "completed" ELSE mapStatus, ts)

\* Mutant: the status a ticket is blocked from is always recorded.
BlockRecordsAnyStatus(t) ==
  /\ tickets[t].status \in {"ready", "claimed", "implemented"}
  /\ Update(mapStatus,
            With(t, [tickets[t] EXCEPT
               !.status = "blocked",
               !.blockerReason = TRUE,
               !.blockedFrom = tickets[t].status]))

BlockTicket(t) ==
  /\ tickets[t].status \in {"ready", "claimed", "implemented"}
  /\ Update(mapStatus,
            With(t, [tickets[t] EXCEPT
               !.status = "blocked",
               !.blockerReason = TRUE,
               !.blockedFrom =
                  IF tickets[t].status = "ready" THEN @ ELSE tickets[t].status]))

\* Mutant: a resumed ticket starts its claim over.
ResumeRestartsClaim(t) ==
  /\ tickets[t].status = "blocked"
  /\ tickets[t].claim # NoClaim <=> tickets[t].blockedFrom # None
  /\ Update(mapStatus,
            With(t, [tickets[t] EXCEPT
               !.status = IF tickets[t].claim # NoClaim THEN "claimed" ELSE "ready",
               !.claim.attempt = IF tickets[t].claim # NoClaim THEN 1 ELSE 0,
               !.blockerReason = FALSE,
               !.blockedFrom = None]))

ResumeTicket(t) ==
  /\ tickets[t].status = "blocked"
  /\ tickets[t].claim # NoClaim <=> tickets[t].blockedFrom # None
  /\ Update(mapStatus,
            With(t, [tickets[t] EXCEPT
               !.status = IF tickets[t].claim # NoClaim
                               THEN tickets[t].blockedFrom ELSE "ready",
               !.blockerReason = FALSE,
               !.blockedFrom = None]))

\* Mutant: a blocked ticket does not keep the map open.
CancelIgnoresBlocked(t) ==
  /\ tickets[t].status \notin {"verified", "cancelled"}
  /\ LET ts == With(t, [tickets[t] EXCEPT !.status = "cancelled",
                                         !.blockerReason = FALSE,
                                         !.blockedFrom = None])
         settled == \A u \in Tickets :
                      ts[u].status \in {"verified", "cancelled", "blocked"}
     IN Update(IF settled THEN "cancelled" ELSE mapStatus, ts)

CancelTicket(t) ==
  /\ tickets[t].status \notin {"verified", "cancelled"}
  /\ LET ts == With(t, [tickets[t] EXCEPT !.status = "cancelled",
                                         !.blockerReason = FALSE,
                                         !.blockedFrom = None])
         settled == \A u \in Tickets : ts[u].status \in {"verified", "cancelled"}
     IN Update(IF settled THEN "cancelled" ELSE mapStatus, ts)

MarkIntegrated(t, commit) ==
  /\ tickets[t].status = "verified"
  /\ tickets[t].evidence.review # None
  /\ LET ts == With(t, [tickets[t] EXCEPT !.commit = commit])
     IN Update(IF AllDelivered(ts) /\ ~fog THEN "completed"
               ELSE IF mapStatus = "verifying" THEN "executing" ELSE mapStatus,
               ts)

\* Mutant: a later finish records its own commit.
IntegrateAgain(t, commit) ==
  /\ t \notin Analysis
  /\ MarkIntegrated(t, commit)

\* Finishing a managed worktree records a commit once: a commit already
\* recorded is left alone, and another one is an error.
IntegrateTicket(t, commit) ==
  /\ t \notin Analysis
  /\ tickets[t].commit = None
  /\ MarkIntegrated(t, commit)

-----------------------------------------------------------------------------
(* The evidence of a ticket is produced for the claim it has.              *)

EvidenceFor(t, tree) ==
  [ lease   |-> tickets[t].claim.lease,
    attempt |-> tickets[t].claim.attempt,
    tree    |-> tree ]

Claim == \E t \in Tickets, lease \in Leases,
            kind \in {"managed-worktree", "analysis"} : ClaimTicket(t, lease, kind)
Record == \E t \in Tickets, tree \in Trees :
            \/ MarkImplemented(t, EvidenceFor(t, tree))
            \/ MarkAnalysisImplemented(t, EvidenceFor(t, tree))
Rollback == \E t \in Tickets, lease \in Leases : RollbackClaim(t, lease)
Review == \E t \in Tickets : \/ RequestChanges(t)
                             \/ \E tree \in Trees : VerifyTicket(t, tree)
Lifecycle == \E t \in Tickets : BlockTicket(t) \/ ResumeTicket(t) \/ CancelTicket(t)
Integrate == \E t \in Tickets, commit \in Commits : IntegrateTicket(t, commit)

Next == Claim \/ Record \/ Rollback \/ Review \/ Lifecycle \/ Integrate

Spec == Init /\ [][Next]_vars

-----------------------------------------------------------------------------
(* Properties.                                                             *)

TypeOK ==
  /\ mapStatus \in MapStatuses
  /\ fog \in BOOLEAN
  /\ tickets \in [Tickets -> TicketRecords]

\* A ticket whose work has begun, whether it is running, blocked or done.
Begun(rec) ==
  \/ rec.status \in {"claimed", "implemented", "verified"}
  \/ rec.status = "blocked" /\ rec.claim # NoClaim

\* Work never runs ahead of what it depends on: every dependency of a begun
\* ticket is delivered, for as long as the ticket lives, although the frontier
\* is looked at only when the ticket is claimed.
DependenciesDelivered ==
  \A t \in Tickets : Begun(tickets[t]) => \A b \in BlockedBy[t] : Delivered(tickets, b)

\* Evidence always speaks of the claim and the attempt the ticket has now:
\* neither a request for changes, a block and resume, nor a rollback and a new
\* claim leaves a receipt of earlier work behind.
EvidenceBoundToClaim ==
  \A t \in Tickets : LET subject == tickets[t].evidence.subject IN
    subject # NoReceipt =>
      /\ subject.lease = tickets[t].claim.lease
      /\ subject.attempt = tickets[t].claim.attempt

\* A verified ticket closes the chain: it was claimed, the receipt is of that
\* claim and the review is of exactly the tree the receipt names; a review and
\* a commit are only ever on a verified ticket.
VerifiedEvidenceChain ==
  \A t \in Tickets :
    /\ tickets[t].status = "verified" =>
         /\ tickets[t].claim # NoClaim
         /\ tickets[t].evidence.review \in Trees
         /\ tickets[t].evidence.review = tickets[t].evidence.subject.tree
    /\ tickets[t].evidence.review # None \/ tickets[t].commit # None
         => tickets[t].status = "verified"

\* A map is completed only when everything that was not cancelled is delivered,
\* integrated commits included, and no question is open; validateWorkMap itself
\* asks only for verified tickets.
CompletedMapIsDelivered ==
  mapStatus = "completed" =>
    /\ ~fog
    /\ \A t \in Tickets : tickets[t].status # "cancelled" => Delivered(tickets, t)

\* A map that reached the end has no ticket that could still be worked on, so
\* nothing that comes later reopens it.
ClosedMapHasNoOpenTicket ==
  mapStatus \in {"completed", "cancelled"} =>
    \A t \in Tickets : tickets[t].status \in {"verified", "cancelled"}

\* Before the first claim nothing has happened: a "mapped" map has no ticket
\* with a claim, so its first claim is always what starts execution.
MappedMapIsUnclaimed ==
  mapStatus = "mapped" => \A t \in Tickets : tickets[t].claim = NoClaim

\* What a review settled stays settled: the claim and the evidence of a verified
\* ticket never change again, and a recorded commit is never replaced.
VerifiedStepsKeepEvidence ==
  \A t \in Tickets : tickets[t].status = "verified" =>
    /\ tickets'[t].status = "verified"
    /\ tickets'[t].claim = tickets[t].claim
    /\ tickets'[t].evidence = tickets[t].evidence
    /\ tickets[t].commit # None => tickets'[t].commit = tickets[t].commit
VerifiedEvidenceIsFinal == [][VerifiedStepsKeepEvidence]_vars

\* Attempts of a claim only grow: the lease of a ticket's claim changes only
\* through a ticket without a claim, and while it stays the attempt never falls.
AttemptSteps ==
  \A t \in Tickets :
    tickets[t].claim # NoClaim /\ tickets'[t].claim # NoClaim =>
      /\ tickets'[t].claim.lease = tickets[t].claim.lease
      /\ tickets'[t].claim.attempt >= tickets[t].claim.attempt
AttemptsOnlyGrow == [][AttemptSteps]_vars

=============================================================================
