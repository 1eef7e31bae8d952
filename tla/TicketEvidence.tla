--------------------------- MODULE TicketEvidence ---------------------------
(***************************************************************************)
(* Where the evidence of one test-driven ticket comes from.  The ticket is *)
(* claimed by a managed worktree that somebody edits all the time; any     *)
(* number of recorders run its RED and GREEN commands and write the one    *)
(* verification receipt; reviewers collect the diff, bind it to the        *)
(* receipt, judge it for minutes and read the Work Map back; the broker    *)
(* finishes the worktree.  They share the worktree, the receipt file and   *)
(* the ticket, and only the ticket is guarded, by the map's revision.      *)
(*                                                                         *)
(* An update of the ticket is one step, as WorkMapStore implements it.     *)
(***************************************************************************)
EXTENDS Naturals, Sequences, Functions

CONSTANTS
  Recorders,     \* processes that record verifications
  Reviewers,     \* processes that review the ticket
  Trees,         \* contents of the worktree; a diff is named by its tree
  Passing,       \* the trees on which the command of the ticket succeeds
  Lease,         \* the managed worktree lease of the claim
  MaxRevision,   \* bound on the revisions of the map
  MaxAttempts,   \* bound on the review rounds
  MaxRecords,    \* bound on the records of a receipt
  MaxCrashes,    \* bound on the crashes of the broker
  None

Records == [stage : {"red", "green"}, attempt : 1 .. MaxAttempts]
Receipts ==
  [attempt : 1 .. MaxAttempts, records : Seq(Records),
   tree : Trees, tested : Trees]

ASSUME EvidenceAssumption ==
  /\ Passing \subseteq Trees
  /\ None \notin Trees \cup Receipts \cup {"claimed", "implemented"}
  /\ None \notin [subject : Receipts, diff : Trees]
  /\ MaxRevision \in Nat /\ MaxAttempts \in Nat \ {0}
  /\ MaxRecords \in Nat /\ MaxCrashes \in Nat

VARIABLES
  \* shared
  work,          \* what the worktree contains
  receipt,       \* the receipt file, or None
  ticket,        \* the ticket, as the map has it
  mapStatus,     \* the status of its map
  revision,      \* the revision of its map
  \* processes
  job,           \* job[p]: what recorder p does, NoJob when it is idle
  review,        \* review[r]: what reviewer r does, NoReview when it is idle
  \* the broker
  finish,        \* its next step; "locked" when a killed one left its lock
  prepared,      \* the tree of the lease's prepared commit, or None
  source,        \* the tree its source branch received, or None
  moved,         \* has somebody committed to the source branch since?
  crashes,       \* how often it crashed
  \* history
  raced          \* which checks an edit has slipped behind: "green", "finish"

broker == <<finish, prepared, source, moved, crashes>>
vars == <<work, receipt, ticket, mapStatus, revision, job, review, broker, raced>>

NoJob == [step |-> "idle"]
NoReview == [step |-> "idle"]

-----------------------------------------------------------------------------
(* The updates of the ticket.                                              *)

MayUpdate == revision < MaxRevision

Save(rec, status) ==
  /\ ticket' = rec
  /\ mapStatus' = status
  /\ revision' = revision + 1

Claim ==
  /\ ticket.status = "ready" /\ MayUpdate
  /\ Save([ticket EXCEPT !.status = "claimed", !.attempt = 1], "executing")
  /\ UNCHANGED <<work, receipt, job, review, broker, raced>>

\* A ticket blocked before its claim has no status to return to but "ready".
Block ==
  /\ ticket.status \in {"ready", "claimed", "implemented"} /\ MayUpdate
  /\ Save([ticket EXCEPT !.status = "blocked",
                         !.from = IF ticket.status = "ready" THEN None ELSE ticket.status],
          mapStatus)
  /\ UNCHANGED <<work, receipt, job, review, broker, raced>>

\* Mutant: every ticket returns to the status it was blocked from.
ResumeSavedStatus ==
  /\ ticket.status = "blocked" /\ MayUpdate
  /\ Save([ticket EXCEPT !.status = ticket.from, !.from = None], mapStatus)
  /\ UNCHANGED <<work, receipt, job, review, broker, raced>>

Resume ==
  /\ ticket.status = "blocked" /\ MayUpdate
  /\ Save([ticket EXCEPT !.status = IF ticket.from = None THEN "ready" ELSE ticket.from,
                         !.from = None], mapStatus)
  /\ UNCHANGED <<work, receipt, job, review, broker, raced>>

\* The map has no other ticket to keep it open.
Cancel ==
  /\ ticket.status \in {"ready", "claimed", "implemented", "blocked"} /\ MayUpdate
  /\ Save([ticket EXCEPT !.status = "cancelled", !.from = None], "cancelled")
  /\ UNCHANGED <<work, receipt, job, review, broker, raced>>

\* Another ticket of the map is updated.
UpdateOther ==
  /\ MayUpdate
  /\ Save(ticket, mapStatus)
  /\ UNCHANGED <<work, receipt, job, review, broker, raced>>

\* The worktree may change at any time until it is removed.
Edit(tree) ==
  /\ ticket.attempt # 0 /\ ticket.commit = None
  /\ work' = tree
  /\ raced' = raced
       \cup {"green" : p \in {q \in Recorders : job[q].step = "measure"}}
       \cup IF finish = "prepare" THEN {"finish"} ELSE {}
  /\ UNCHANGED <<receipt, ticket, mapStatus, revision, job, review, broker>>

-----------------------------------------------------------------------------
(* recordVerification.                                                     *)

GoOn(p, j) == job' = [job EXCEPT ![p] = j]
Refuse(p) == GoOn(p, NoJob)

RecorderLeaves == UNCHANGED <<work, ticket, mapStatus, revision, review, broker, raced>>

Resolve(p, stage) ==
  /\ job[p] = NoJob
  /\ ticket.status \in {"claimed", "implemented"}
  /\ GoOn(p, [step |-> "run", stage |-> stage,
              attempt |-> ticket.attempt, revision |-> revision])
  /\ UNCHANGED receipt /\ RecorderLeaves

\* RED must fail and GREEN must succeed.
RunCommand(p) ==
  /\ job[p].step = "run"
  /\ IF (job[p].stage = "green") <=> (work \in Passing)
       THEN GoOn(p, [step |-> "measure", stage |-> job[p].stage,
                     attempt |-> job[p].attempt, revision |-> job[p].revision,
                     tested |-> work])
       ELSE Refuse(p)
  /\ UNCHANGED receipt /\ RecorderLeaves

\* A record names the attempt it was started for only in the model; its start
\* time, output and digest, which tell any two records apart in the code, do not
\* matter here.
Stages(records) == {r.stage : r \in Range(records)}

Previous == IF receipt # None THEN receipt.records ELSE <<>>

PreviousOf(attempt) ==
  IF receipt # None /\ receipt.attempt = attempt THEN receipt.records ELSE <<>>

\* What recorder p makes of the earlier records, the last of which is its own.
Composed(p, records) ==
  IF job[p].stage = "green" /\ "red" \notin Stages(records)
    THEN Refuse(p)
    ELSE /\ Len(records) < MaxRecords
         /\ GoOn(p, [step |-> "write", stage |-> job[p].stage,
                     revision |-> job[p].revision,
                     receipt |-> [attempt |-> job[p].attempt,
                                  records |-> Append(records, [stage |-> job[p].stage,
                                                               attempt |-> job[p].attempt]),
                                  tree |-> work, tested |-> job[p].tested]])

\* Mutant: records of an earlier attempt count.
MeasureForAnyAttempt(p) ==
  /\ job[p].step = "measure"
  /\ Composed(p, Previous)
  /\ UNCHANGED receipt /\ RecorderLeaves

\* The candidate is measured after the command has run; the records of the
\* attempt are continued, and GREEN needs an earlier RED among them.
Measure(p) ==
  /\ job[p].step = "measure"
  /\ Composed(p, PreviousOf(job[p].attempt))
  /\ UNCHANGED receipt /\ RecorderLeaves

\* The receipt is replaced whatever happened to the ticket in the meantime.
WriteReceipt(p) ==
  /\ job[p].step = "write"
  /\ receipt' = job[p].receipt
  /\ IF job[p].stage = "green" THEN GoOn(p, [job[p] EXCEPT !.step = "advance"])
                               ELSE Refuse(p)
  /\ RecorderLeaves

Implemented(p) ==
  Save([ticket EXCEPT !.status = "implemented", !.subject = job[p].receipt],
       IF mapStatus = "executing" THEN "verifying" ELSE mapStatus)

\* Mutant: the revision is not compared.
AdvanceAnyRevision(p) ==
  /\ job[p].step = "advance"
  /\ IF ticket.status \in {"claimed", "implemented"}
       THEN MayUpdate /\ Implemented(p)
       ELSE UNCHANGED <<ticket, mapStatus, revision>>
  /\ Refuse(p)
  /\ UNCHANGED <<work, receipt, review, broker, raced>>

AdvanceImplemented(p) ==
  /\ job[p].step = "advance"
  /\ IF revision = job[p].revision /\ ticket.status \in {"claimed", "implemented"}
       THEN MayUpdate /\ Implemented(p)
       ELSE UNCHANGED <<ticket, mapStatus, revision>>
  /\ Refuse(p)
  /\ UNCHANGED <<work, receipt, review, broker, raced>>

-----------------------------------------------------------------------------
(* review/code with a Work Map ticket.                                     *)

Judge(r, v) == review' = [review EXCEPT ![r] = v]
Dismiss(r) == Judge(r, NoReview)

ReviewerLeaves == UNCHANGED <<work, receipt, job, broker, raced>>

\* readAndValidateVerificationReceipt: of this attempt, complete, and of what
\* the worktree contains now.
ReceiptIsCurrent ==
  /\ receipt # None
  /\ receipt.attempt = ticket.attempt
  /\ "green" \in Stages(receipt.records)
  /\ receipt.tree = work

CollectDiff(r) ==
  /\ review[r] = NoReview
  /\ ticket.attempt # 0 /\ ticket.commit = None
  /\ Judge(r, [step |-> "bind", diff |-> work])
  /\ UNCHANGED <<ticket, mapStatus, revision>> /\ ReviewerLeaves

\* loadWorkMapReviewBinding; what follows until the readback is the host's
\* judgement, whose verdict is v.
Bind(r, verdict) ==
  /\ review[r].step = "bind"
  /\ IF /\ ticket.status = "implemented"
        /\ ReceiptIsCurrent
        /\ ticket.subject = receipt
        /\ receipt.tree = review[r].diff
       THEN Judge(r, [step |-> "readback", diff |-> review[r].diff,
                      subject |-> receipt, verdict |-> verdict])
       ELSE Dismiss(r)
  /\ UNCHANGED <<ticket, mapStatus, revision>> /\ ReviewerLeaves

\* Mutant: what the map says of the ticket is not compared with the binding.
ReadBackStatusOnly(r) ==
  /\ review[r].step = "readback"
  /\ IF ticket.status = "implemented"
       THEN Judge(r, [step |-> "transition", diff |-> review[r].diff,
                      subject |-> review[r].subject, verdict |-> review[r].verdict,
                      revision |-> revision])
       ELSE Dismiss(r)
  /\ UNCHANGED <<ticket, mapStatus, revision>> /\ ReviewerLeaves

\* The subject must still be the ticket's, and the receipt and the worktree
\* still what was reviewed.
ReadBack(r) ==
  /\ review[r].step = "readback"
  /\ IF /\ ticket.status = "implemented"
        /\ ticket.subject = review[r].subject
        /\ ReceiptIsCurrent
        /\ receipt = review[r].subject
        /\ work = review[r].diff
       THEN Judge(r, [step |-> "transition", diff |-> review[r].diff,
                      subject |-> review[r].subject, verdict |-> review[r].verdict,
                      revision |-> revision])
       ELSE Dismiss(r)
  /\ UNCHANGED <<ticket, mapStatus, revision>> /\ ReviewerLeaves

\* verifyTicket compares the reviewed tree once more; requestChanges opens a new
\* attempt without evidence.
Decided(r) ==
  IF review[r].verdict = "verify"
    THEN /\ ticket.subject.tree = review[r].subject.tree
         /\ Save([ticket EXCEPT !.status = "verified",
                               !.review = [subject |-> review[r].subject,
                                           diff |-> review[r].diff]], mapStatus)
    ELSE /\ ticket.attempt < MaxAttempts
         /\ Save([ticket EXCEPT !.status = "claimed", !.attempt = @ + 1,
                               !.subject = None, !.requested = TRUE],
                 IF mapStatus = "verifying" THEN "executing" ELSE mapStatus)

\* A stale revision is read back again, or given up after the fifth time.
Transition(r) ==
  /\ review[r].step = "transition"
  /\ \/ /\ revision = review[r].revision
        /\ MayUpdate
        /\ Decided(r)
        /\ Dismiss(r)
     \/ /\ revision # review[r].revision
        /\ \/ Judge(r, [step |-> "readback", diff |-> review[r].diff,
                        subject |-> review[r].subject, verdict |-> review[r].verdict])
           \/ Dismiss(r)
        /\ UNCHANGED <<ticket, mapStatus, revision>>
  /\ ReviewerLeaves

-----------------------------------------------------------------------------
(* finishManagedWorktree, under the exclusive lock of the lease.           *)

FinishLeaves == UNCHANGED <<work, receipt, job, review, raced>>

\* Mutant: the receipt and the worktree are not looked at again.
EvidenceIsVerified == ticket.status = "verified"

\* validateBoundEvidence.
EvidenceIsBound ==
  /\ ticket.status = "verified"
  /\ ReceiptIsCurrent
  /\ ticket.subject = receipt
  /\ ticket.review.subject = receipt
  /\ ticket.review.diff = receipt.tree

\* Mutant: a prepared commit is taken for a received one.
StartFinishTrustingPrepared ==
  /\ finish = "idle" /\ ticket.commit = None
  /\ ticket.attempt # 0
  /\ IF prepared # None
       THEN finish' = "record" /\ UNCHANGED prepared
       ELSE /\ prepared' = None
            /\ finish' = IF EvidenceIsBound /\ ~moved THEN "prepare" ELSE "idle"
  /\ UNCHANGED <<source, moved, crashes, ticket, mapStatus, revision>> /\ FinishLeaves

\* A commit the source branch has already received is only recorded; one that
\* was prepared and not received is prepared anew.
StartFinish ==
  /\ finish = "idle" /\ ticket.commit = None
  /\ ticket.attempt # 0
  /\ IF prepared # None /\ source = prepared /\ ~moved
       THEN finish' = "record" /\ UNCHANGED prepared
       ELSE /\ prepared' = None
            /\ finish' = IF EvidenceIsBound /\ ~moved THEN "prepare" ELSE "idle"
  /\ UNCHANGED <<source, moved, crashes, ticket, mapStatus, revision>> /\ FinishLeaves

\* The candidate is added to an index of the broker's and committed.
PrepareCommit ==
  /\ finish = "prepare"
  /\ prepared' = work
  /\ finish' = "push"
  /\ UNCHANGED <<source, moved, crashes, ticket, mapStatus, revision>> /\ FinishLeaves

\* The source branch takes the commit, or the commit is discarded.
Integrate ==
  /\ finish = "push"
  /\ \/ ~moved /\ source' = prepared /\ finish' = "record" /\ UNCHANGED prepared
     \/ prepared' = None /\ finish' = "idle" /\ UNCHANGED source
  /\ UNCHANGED <<moved, crashes, ticket, mapStatus, revision>> /\ FinishLeaves

\* Mutant: an integrated commit is left for the next update of the map.
ForgetIntegrated ==
  /\ finish = "record"
  /\ finish' = "idle"
  /\ UNCHANGED <<prepared, source, moved, crashes, ticket, mapStatus, revision>> /\ FinishLeaves

\* verifyIntegratedSource and markIntegratedWithRetry: the commit is recorded
\* while it is the last one of the source branch.
RecordIntegrated ==
  /\ finish = "record"
  /\ IF moved
       THEN UNCHANGED <<ticket, mapStatus, revision>>
       ELSE /\ ticket.status = "verified"
            /\ Save([ticket EXCEPT !.commit = prepared], "completed")
  /\ finish' = "idle"
  /\ UNCHANGED <<prepared, source, moved, crashes>> /\ FinishLeaves

\* A finish that is killed leaves its lock file, which no later finish takes for
\* stale.
Crash ==
  /\ finish \notin {"idle", "locked"}
  /\ crashes < MaxCrashes
  /\ crashes' = crashes + 1
  /\ finish' = "locked"
  /\ UNCHANGED <<prepared, source, moved, ticket, mapStatus, revision>> /\ FinishLeaves

\* Somebody removes the lock file by hand.
RemoveLock ==
  /\ finish = "locked"
  /\ finish' = "idle"
  /\ UNCHANGED <<prepared, source, moved, crashes, ticket, mapStatus, revision>> /\ FinishLeaves

\* Somebody commits to the source branch while a commit of the broker is prepared;
\* earlier than that the finish would be refused altogether.
MoveSource ==
  /\ prepared # None /\ ticket.commit = None /\ ~moved
  /\ moved' = TRUE
  /\ UNCHANGED <<finish, prepared, source, crashes, ticket, mapStatus, revision>>
  /\ FinishLeaves

-----------------------------------------------------------------------------
Init ==
  /\ work \in Trees \ Passing
  /\ receipt = None
  /\ ticket = [status |-> "ready", attempt |-> 0, subject |-> None, review |-> None,
               requested |-> FALSE, from |-> None, commit |-> None]
  /\ mapStatus = "mapped"
  /\ revision = 1
  /\ job = [p \in Recorders |-> NoJob]
  /\ review = [r \in Reviewers |-> NoReview]
  /\ finish = "idle" /\ prepared = None /\ source = None
  /\ moved = FALSE /\ crashes = 0
  /\ raced = {}

Lifecycle == Claim \/ Block \/ Resume \/ Cancel \/ UpdateOther

Recorder(p) ==
  \/ \E stage \in {"red", "green"} : Resolve(p, stage)
  \/ RunCommand(p) \/ Measure(p) \/ WriteReceipt(p) \/ AdvanceImplemented(p)

Reviewer(r) ==
  \/ CollectDiff(r)
  \/ \E verdict \in {"verify", "request-changes"} : Bind(r, verdict)
  \/ ReadBack(r) \/ Transition(r)

Broker == StartFinish \/ PrepareCommit \/ Integrate \/ RecordIntegrated

Next ==
  \/ Lifecycle
  \/ \E tree \in Trees : Edit(tree)
  \/ \E p \in Recorders : Recorder(p)
  \/ \E r \in Reviewers : Reviewer(r)
  \/ Broker
  \/ Crash \/ RemoveLock \/ MoveSource

Spec == Init /\ [][Next]_vars

\* Whoever asked for the finish asks for it again until it succeeds.
FairSpec == Spec /\ WF_vars(Broker)

-----------------------------------------------------------------------------
(* Properties.                                                             *)

TypeOK ==
  /\ work \in Trees
  /\ receipt \in Receipts \cup {None}
  /\ ticket.status \in {"ready", "claimed", "implemented", "blocked", "verified",
                       "cancelled"}
  /\ ticket.attempt \in 0 .. MaxAttempts
  /\ ticket.subject \in Receipts \cup {None}
  /\ ticket.commit \in Trees \cup {None}
  /\ prepared \in Trees \cup {None} /\ source \in Trees \cup {None}

\* A recorder that started before a request for changes never speaks for the new
\* attempt: the ticket's receipt is of its own attempt, with a RED and a GREEN of
\* that attempt, although a command may run through any number of reviews.
SubjectIsOfTheAttempt ==
  ticket.subject # None =>
    /\ ticket.subject.attempt = ticket.attempt
    /\ Stages(ticket.subject.records) = {"red", "green"}
    /\ \A r \in Range(ticket.subject.records) : r.attempt = ticket.attempt

\* The review that verified a ticket is of the very receipt the ticket has, and
\* of the diff of the tree that receipt names, although a newer receipt may be
\* recorded, and changes requested by another review, while it is judged.
ReviewIsOfTheReceipt ==
  ticket.status = "verified" =>
    /\ ticket.review.subject = ticket.subject
    /\ ticket.review.diff = ticket.subject.tree

\* Unless an edit slips between a check and what it checks, what the source
\* branch receives is the verified ticket's reviewed tree, and the command has
\* succeeded on that tree.
IntegratedTreeIsReviewed ==
  source # None /\ raced = {} =>
    /\ ticket.status = "verified"
    /\ source = ticket.review.diff
    /\ source = ticket.subject.tested
    /\ source \in Passing

\* The commit a ticket records is the one the source branch received, also when
\* the broker crashed and finished again.
RecordedCommitWasReceived ==
  ticket.commit # None => ticket.commit = source /\ ticket.status = "verified"

\* A commit the source branch has received is recorded in the map in the end, by
\* the finish that pushed it or a later one, unless a lock is left in their way or
\* another commit comes on top of it first.
IntegrationIsRecorded ==
  (source # None /\ finish # "locked") ~>
    (ticket.commit # None \/ finish = "locked" \/ moved)

\* The Work Map this ticket is the only one of: recorders, reviewers and broker
\* never do to it what its lifecycle does not allow.
MapReceipt(r) ==
  IF r = None THEN [lease |-> None, attempt |-> 0, tree |-> None]
              ELSE [lease |-> Lease, attempt |-> r.attempt, tree |-> r.tree]

MapTicket ==
  [ status |-> ticket.status,
    claim |-> IF ticket.attempt = 0
                THEN [lease |-> None, kind |-> None, attempt |-> 0]
                ELSE [lease |-> Lease, kind |-> "managed-worktree",
                      attempt |-> ticket.attempt],
    evidence |-> [subject |-> MapReceipt(ticket.subject),
                  review |-> IF ticket.review = None THEN None
                                                     ELSE ticket.review.subject.tree,
                  requested |-> ticket.requested],
    blockerReason |-> ticket.status = "blocked",
    blockedFrom |-> ticket.from,
    commit |-> ticket.commit ]

LifecycleMap ==
  INSTANCE WorkMap WITH
    Tickets <- {Lease}, Analysis <- {}, BlockedBy <- [t \in {Lease} |-> {}],
    FogTickets <- {}, Leases <- {Lease}, Commits <- Trees,
    mapStatus <- mapStatus, fog <- FALSE, tickets <- [t \in {Lease} |-> MapTicket]
LifecycleSpec == LifecycleMap!Spec

-----------------------------------------------------------------------------
(* What the plan and the tests say, edits and crashes counted in.          *)

\* "After the candidate tree changes, the old GREEN is void": the tree a receipt
\* names is the one the command succeeded on.
GreenIsOfTheCandidate ==
  ticket.subject # None => ticket.subject.tested = ticket.subject.tree
=============================================================================
