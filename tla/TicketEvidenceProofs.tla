------------------------ MODULE TicketEvidenceProofs ------------------------
(***************************************************************************)
(* For any number of recorders, reviewers, attempts and crashes: the       *)
(* receipt of the ticket is of its own attempt, the review that verified   *)
(* it is of that receipt, and unless an edit slipped between a check and   *)
(* what it checks, the source branch receives the tree that was tested     *)
(* and reviewed.                                                           *)
(***************************************************************************)
EXTENDS TicketEvidence, TLAPS

Stage == {"red", "green"}

\* What a recorder and a reviewer hold at each step.
RunJobs ==
  [step : {"run"}, stage : Stage, attempt : 1 .. MaxAttempts, revision : Nat]
MeasureJobs ==
  [step : {"measure"}, stage : Stage, attempt : 1 .. MaxAttempts, revision : Nat,
   tested : Trees]
WriteJobs ==
  [step : {"write", "advance"}, stage : Stage, revision : Nat, receipt : Receipts]

BindReviews == [step : {"bind"}, diff : Trees]
ReadReviews ==
  [step : {"readback"}, diff : Trees, subject : Receipts,
   verdict : {"verify", "request-changes"}]
TransitionReviews ==
  [step : {"transition"}, diff : Trees, subject : Receipts,
   verdict : {"verify", "request-changes"}, revision : Nat]

TicketRecords ==
  [ status : {"ready", "claimed", "implemented", "blocked", "verified", "cancelled"},
    attempt : 0 .. MaxAttempts,
    subject : Receipts \cup {None},
    review : [subject : Receipts, diff : Trees] \cup {None},
    requested : BOOLEAN,
    from : {None, "claimed", "implemented"},
    commit : Trees \cup {None} ]

JobTypes == job \in [Recorders -> {NoJob} \cup RunJobs \cup MeasureJobs \cup WriteJobs]
ReviewTypes ==
  review \in [Reviewers -> {NoReview} \cup BindReviews \cup ReadReviews
                             \cup TransitionReviews]

\* A ticket that is worked on has been claimed; one that was not has no receipt.
ClaimedHasAttempt ==
  /\ ticket.status \in {"claimed", "implemented", "verified"} => ticket.attempt # 0
  /\ ticket.status = "blocked" /\ ticket.from # None => ticket.attempt # 0
  /\ ticket.status = "ready" => ticket.subject = None
  /\ ticket.status = "blocked" /\ ticket.from = None => ticket.subject = None

TypeInv ==
  /\ work \in Trees /\ receipt \in Receipts \cup {None} /\ revision \in Nat
  /\ ticket \in TicketRecords /\ ClaimedHasAttempt
  /\ JobTypes /\ ReviewTypes
  /\ finish \in {"idle", "prepare", "push", "record", "locked"}
  /\ prepared \in Trees \cup {None} /\ source \in Trees \cup {None}
  /\ finish = "push" => prepared \in Trees

\* A receipt is of one attempt and has a RED before its GREEN; the receipt of a
\* GREEN names the tree on which the command succeeded.
Sound(r) ==
  /\ \A x \in Range(r.records) : x.attempt = r.attempt
  /\ "green" \in Stages(r.records) => "red" \in Stages(r.records)
Green(r) ==
  /\ Sound(r) /\ "green" \in Stages(r.records)
  /\ r.tested \in Passing
  /\ raced = {} => r.tested = r.tree

JobIsSound(j) ==
  /\ j.step = "measure" => /\ j.stage = "green" => j.tested \in Passing
                           /\ raced = {} => j.tested = work
  /\ j.step \in {"write", "advance"} => /\ Sound(j.receipt)
                                        /\ j.stage = "green" => Green(j.receipt)
  /\ j.step = "advance" => j.stage = "green"

\* Unless the map was updated since, a recorder works for the ticket's attempt.
JobIsCurrent(j) ==
  j.step # "idle" =>
    /\ j.revision <= revision
    /\ j.revision = revision =>
         IF j.step \in {"run", "measure"} THEN j.attempt = ticket.attempt
                                          ELSE j.receipt.attempt = ticket.attempt

JobInv == \A p \in Recorders : JobIsSound(job[p]) /\ JobIsCurrent(job[p])

ReceiptInv ==
  /\ receipt # None => Sound(receipt)
  /\ ticket.subject # None =>
       Green(ticket.subject) /\ ticket.subject.attempt = ticket.attempt

\* A reviewer judges the diff of the receipt it read; unless the map was updated
\* since, that receipt is the ticket's.
ReviewIsCurrent(v) ==
  /\ v.step \in {"readback", "transition"} => v.diff = v.subject.tree
  /\ v.step = "transition" =>
       /\ v.revision <= revision
       /\ v.revision = revision => ticket.status = "implemented" /\ ticket.subject = v.subject

ReviewInv ==
  /\ \A r \in Reviewers : ReviewIsCurrent(review[r])
  /\ ticket.status = "verified" =>
       /\ ticket.subject \in Receipts /\ ticket.review \in [subject : Receipts, diff : Trees]
       /\ ticket.review.subject = ticket.subject
       /\ ticket.review.diff = ticket.subject.tree

\* What the broker carries is the reviewed tree, and what it records was received.
BrokerInv ==
  /\ finish = "record" => prepared = source
  /\ ticket.commit # None =>
       finish = "idle" /\ ticket.commit = source /\ ticket.status = "verified"
  /\ raced = {} =>
       /\ finish = "prepare" => ticket.status = "verified" /\ work = ticket.review.diff
       /\ finish = "push" => ticket.status = "verified" /\ prepared = ticket.review.diff
       /\ source # None => ticket.status = "verified" /\ source = ticket.review.diff

Inv == TypeInv /\ JobInv /\ ReceiptInv /\ ReviewInv /\ BrokerInv

USE EvidenceAssumption

-----------------------------------------------------------------------------
(* Types.                                                                  *)

LEMMA AppendAddsOne ==
  ASSUME NEW S, NEW records \in Seq(S), NEW r \in S
  PROVE  /\ Append(records, r) \in Seq(S)
         /\ Range(Append(records, r)) = Range(records) \cup {r}
<1>1. Append(records, r) \in Seq(S) /\ Len(Append(records, r)) = Len(records) + 1
  OBVIOUS
<1>2. DOMAIN Append(records, r) = 1 .. Len(records) + 1 /\ DOMAIN records = 1 .. Len(records)
  OBVIOUS
<1>3. \A i \in 1 .. Len(records) : Append(records, r)[i] = records[i]
  OBVIOUS
<1>4. Append(records, r)[Len(records) + 1] = r /\ Len(records) \in Nat
  OBVIOUS
<1> QED BY <1>1, <1>2, <1>3, <1>4 DEF Range

\* A job knows its shape by its step.
LEMMA JobShapes ==
  ASSUME JobTypes, NEW p \in Recorders
  PROVE  /\ job[p].step = "run" => job[p] \in RunJobs
         /\ job[p].step = "measure" => job[p] \in MeasureJobs
         /\ job[p].step \in {"write", "advance"} => job[p] \in WriteJobs
         /\ job[p] = NoJob => job[p].step = "idle"
BY DEF JobTypes, NoJob, RunJobs, MeasureJobs, WriteJobs

LEMMA ReviewShapes ==
  ASSUME ReviewTypes, NEW r \in Reviewers
  PROVE  /\ review[r].step = "bind" => review[r] \in BindReviews
         /\ review[r].step = "readback" => review[r] \in ReadReviews
         /\ review[r].step = "transition" => review[r] \in TransitionReviews
         /\ review[r] = NoReview => review[r].step = "idle"
BY DEF ReviewTypes, NoReview, BindReviews, ReadReviews, TransitionReviews

\* What an update leaves of the ticket: a verified one keeps its receipt and its
\* review.
LEMMA LifecycleUpdates ==
  ASSUME TypeInv, Lifecycle
  PROVE  /\ ticket' \in TicketRecords /\ ClaimedHasAttempt' /\ revision' = revision + 1
         /\ UNCHANGED <<work, receipt, job, review, broker, raced>>
         /\ ticket'.subject = ticket.subject /\ ticket'.review = ticket.review
         /\ ticket'.commit = ticket.commit
         /\ ticket'.subject # None => ticket'.attempt = ticket.attempt
         /\ ticket'.status = "verified" <=> ticket.status = "verified"
<1> USE DEF TypeInv, Save
<1>0. revision' = revision + 1 /\ UNCHANGED <<work, receipt, job, review, broker, raced>>
  BY DEF Lifecycle, Claim, Block, Resume, Cancel, UpdateOther
<1>1. CASE Claim
  <2>1. ticket' = [ticket EXCEPT !.status = "claimed", !.attempt = 1] /\ 1 \in 0 .. MaxAttempts
    BY <1>1 DEF Claim
  <2>2. ticket' \in TicketRecords
    BY <2>1 DEF TicketRecords
  <2>3. /\ ticket'.status = "claimed" /\ ticket'.subject = ticket.subject
        /\ ticket'.review = ticket.review /\ ticket'.commit = ticket.commit
    BY <2>1 DEF TicketRecords
  <2>4. ticket'.attempt = 1
    BY <2>1 DEF TicketRecords
  <2>5. ticket.status = "ready" /\ ticket.subject = None
    BY <1>1 DEF Claim, ClaimedHasAttempt
  <2> QED BY <1>0, <2>2, <2>3, <2>4, <2>5 DEF ClaimedHasAttempt
<1>2. CASE Block
  BY <1>0, <1>2 DEF Block, TicketRecords, ClaimedHasAttempt
<1>3. CASE Resume
  BY <1>0, <1>3 DEF Resume, TicketRecords, ClaimedHasAttempt
<1>4. CASE Cancel
  BY <1>0, <1>4 DEF Cancel, TicketRecords, ClaimedHasAttempt
<1>5. CASE UpdateOther
  BY <1>0, <1>5 DEF UpdateOther, ClaimedHasAttempt
<1> QED BY <1>1, <1>2, <1>3, <1>4, <1>5 DEF Lifecycle

\* GREEN gives the ticket the receipt that was recorded.
LEMMA AdvanceUpdates ==
  ASSUME TypeInv, NEW p \in Recorders, Implemented(p), job[p].step = "advance",
         ticket.status \in {"claimed", "implemented"}
  PROVE  /\ ticket' \in TicketRecords /\ ClaimedHasAttempt' /\ revision' = revision + 1
         /\ ticket'.status = "implemented"
         /\ ticket'.subject = job[p].receipt /\ ticket'.attempt = ticket.attempt
         /\ ticket'.review = ticket.review /\ ticket'.commit = ticket.commit
<1>1. job[p].receipt \in Receipts
  BY JobShapes DEF TypeInv, WriteJobs
<1>2. /\ ticket' = [ticket EXCEPT !.status = "implemented", !.subject = job[p].receipt]
      /\ revision' = revision + 1 /\ ticket \in TicketRecords
  BY DEF Implemented, Save, TypeInv
<1>3. ticket' \in TicketRecords
  BY <1>1, <1>2 DEF TicketRecords
<1>4. /\ ticket'.status = "implemented" /\ ticket'.subject = job[p].receipt
      /\ ticket'.attempt = ticket.attempt /\ ticket'.review = ticket.review
      /\ ticket'.commit = ticket.commit
  BY <1>1, <1>2 DEF TicketRecords
<1> QED BY <1>2, <1>3, <1>4 DEF TypeInv, ClaimedHasAttempt

\* The two verdicts of a review.
LEMMA DecidedUpdates ==
  ASSUME TypeInv, NEW r \in Reviewers, Decided(r), review[r].step = "transition",
         ticket.status = "implemented"
  PROVE  /\ ticket' \in TicketRecords /\ ClaimedHasAttempt' /\ revision' = revision + 1
         /\ ticket'.commit = ticket.commit
         /\ \/ /\ ticket'.status = "verified"
               /\ ticket'.review = [subject |-> review[r].subject, diff |-> review[r].diff]
               /\ ticket'.subject = ticket.subject /\ ticket'.attempt = ticket.attempt
            \/ ticket'.status = "claimed" /\ ticket'.subject = None
<1>1. review[r].subject \in Receipts /\ review[r].diff \in Trees /\ ticket \in TicketRecords
  BY ReviewShapes DEF TypeInv, TransitionReviews
<1>2. CASE review[r].verdict = "verify"
  <2>1. /\ ticket' = [ticket EXCEPT !.status = "verified",
                        !.review = [subject |-> review[r].subject, diff |-> review[r].diff]]
        /\ revision' = revision + 1
    BY <1>2 DEF Decided, Save
  <2>2. [subject |-> review[r].subject, diff |-> review[r].diff]
          \in [subject : Receipts, diff : Trees]
    BY <1>1
  <2>3. ticket' \in TicketRecords
    BY <1>1, <2>1, <2>2 DEF TicketRecords
  <2>4. /\ ticket'.status = "verified" /\ ticket'.commit = ticket.commit
        /\ ticket'.review = [subject |-> review[r].subject, diff |-> review[r].diff]
        /\ ticket'.subject = ticket.subject /\ ticket'.attempt = ticket.attempt
    BY <1>1, <2>1 DEF TicketRecords
  <2> QED BY <2>1, <2>3, <2>4 DEF TypeInv, ClaimedHasAttempt
<1>3. CASE review[r].verdict # "verify"
  <2>1. /\ ticket' = [ticket EXCEPT !.status = "claimed", !.attempt = @ + 1,
                                    !.subject = None, !.requested = TRUE]
        /\ revision' = revision + 1 /\ ticket.attempt < MaxAttempts
    BY <1>3 DEF Decided, Save
  <2>2. ticket.attempt + 1 \in 0 .. MaxAttempts /\ ticket.attempt + 1 # 0
    BY <1>1, <2>1 DEF TicketRecords
  <2>3. ticket' \in TicketRecords
    BY <1>1, <2>1, <2>2 DEF TicketRecords
  <2>4. /\ ticket'.status = "claimed" /\ ticket'.commit = ticket.commit
        /\ ticket'.subject = None /\ ticket'.attempt = ticket.attempt + 1
    BY <1>1, <2>1 DEF TicketRecords
  <2> QED BY <2>1, <2>2, <2>3, <2>4 DEF TypeInv, ClaimedHasAttempt
<1> QED BY <1>2, <1>3

-----------------------------------------------------------------------------
(* The recorders.                                                          *)

\* What an update of the ticket means for everybody else: the map has a later
\* revision than any of them has read.
LEMMA UpdatesKeepTheRest ==
  ASSUME Inv, revision' = revision + 1, UNCHANGED <<work, receipt, raced>>,
         ticket' \in TicketRecords, ClaimedHasAttempt',
         job' \in [Recorders -> {NoJob} \cup RunJobs \cup MeasureJobs \cup WriteJobs],
         review' \in [Reviewers -> {NoReview} \cup BindReviews \cup ReadReviews
                                     \cup TransitionReviews],
         \A p \in Recorders : job'[p] \in {job[p], NoJob},
         \A r \in Reviewers : review'[r] \in {review[r], NoReview},
         \/ ticket'.subject = ticket.subject
              /\ (ticket.subject # None => ticket'.attempt = ticket.attempt)
         \/ ticket'.subject = None
         \/ Green(ticket'.subject) /\ ticket'.subject.attempt = ticket'.attempt,
         ticket'.status = "verified" =>
           /\ ticket'.subject \in Receipts
           /\ ticket'.review \in [subject : Receipts, diff : Trees]
           /\ ticket'.review.subject = ticket'.subject
           /\ ticket'.review.diff = ticket'.subject.tree
  PROVE  JobInv' /\ ReceiptInv' /\ ReviewInv' /\ JobTypes' /\ ReviewTypes'
<1> USE DEF Inv
<1>1. revision \in Nat
  BY DEF TypeInv
<1>2. JobInv'
  <2> SUFFICES ASSUME NEW p \in Recorders PROVE JobIsSound(job[p])' /\ JobIsCurrent(job[p])'
    BY DEF JobInv
  <2>1. CASE job'[p] = NoJob
    BY <2>1 DEF NoJob, JobIsSound, JobIsCurrent
  <2>2. CASE job'[p] = job[p]
    <3>1. JobIsSound(job[p])'
      BY <2>2 DEF JobInv, JobIsSound, Sound, Green
    <3>2. job[p].step # "idle" => job[p].revision \in Nat /\ job[p].revision <= revision
      BY JobShapes DEF JobInv, JobIsCurrent, TypeInv, JobTypes, NoJob, RunJobs, MeasureJobs,
                       WriteJobs
    <3>3. JobIsCurrent(job[p])'
      BY <1>1, <2>2, <3>2 DEF JobIsCurrent
    <3> QED BY <3>1, <3>3
  <2> QED BY <2>1, <2>2
<1>3. ReceiptInv'
  BY DEF ReceiptInv, Green, Sound
<1>4. ReviewInv'
  <2>1. ASSUME NEW r \in Reviewers PROVE ReviewIsCurrent(review[r])'
    <3>1. CASE review'[r] = NoReview
      BY <3>1 DEF NoReview, ReviewIsCurrent
    <3>2. CASE review'[r] = review[r]
      <4>1. review[r].step = "transition" =>
              review[r].revision \in Nat /\ review[r].revision <= revision
        BY ReviewShapes DEF ReviewInv, ReviewIsCurrent, TypeInv, TransitionReviews
      <4> QED BY <1>1, <3>2, <4>1 DEF ReviewInv, ReviewIsCurrent
    <3> QED BY <3>1, <3>2
  <2> QED BY <2>1 DEF ReviewInv
<1> QED BY <1>2, <1>3, <1>4 DEF JobTypes, ReviewTypes

LEMMA LifecycleKeepsInv ==
  ASSUME Inv, Lifecycle
  PROVE  Inv'
<1> USE DEF Inv
<1>1. /\ ticket' \in TicketRecords /\ ClaimedHasAttempt' /\ revision' = revision + 1
      /\ UNCHANGED <<work, receipt, job, review, broker, raced>>
      /\ ticket'.subject = ticket.subject /\ ticket'.review = ticket.review
      /\ ticket'.commit = ticket.commit
      /\ ticket'.subject # None => ticket'.attempt = ticket.attempt
      /\ ticket'.status = "verified" <=> ticket.status = "verified"
  BY LifecycleUpdates
<1>2. JobInv' /\ ReceiptInv' /\ ReviewInv'
  BY <1>1, UpdatesKeepTheRest DEF TypeInv, JobTypes, ReviewTypes, ReviewInv
<1>3. BrokerInv'
  BY <1>1 DEF BrokerInv, broker
<1>4. TypeInv'
  BY <1>1 DEF TypeInv, JobTypes, ReviewTypes, broker
<1> QED BY <1>2, <1>3, <1>4

\* An edit makes nothing wrong that was right: it shows in `raced`.
LEMMA EditKeepsInv ==
  ASSUME Inv, NEW tree \in Trees, Edit(tree)
  PROVE  Inv'
<1> USE DEF Inv
<1>1. UNCHANGED <<receipt, ticket, mapStatus, revision, job, review, broker>> /\ work' \in Trees
  BY DEF Edit
<1>2. raced' = {} => /\ raced = {} /\ finish # "prepare"
                     /\ \A p \in Recorders : job[p].step # "measure"
  <2>1. "finish" \in {"finish"}
    OBVIOUS
  <2>2. raced' = {} => raced = {} /\ finish # "prepare"
    BY <2>1 DEF Edit
  <2>3. raced' = {} => {"green" : p \in {q \in Recorders : job[q].step = "measure"}} = {}
    BY DEF Edit
  <2>4. ASSUME NEW p \in Recorders, job[p].step = "measure"
        PROVE  "green" \in {"green" : q \in {x \in Recorders : job[x].step = "measure"}}
    BY <2>4
  <2> QED BY <2>2, <2>3, <2>4
<1>3. TypeInv'
  BY <1>1 DEF TypeInv, JobTypes, ReviewTypes, ClaimedHasAttempt, broker
<1>4. JobInv'
  <2> SUFFICES ASSUME NEW p \in Recorders PROVE JobIsSound(job[p])' /\ JobIsCurrent(job[p])'
    BY DEF JobInv
  <2>1. JobIsSound(job[p])'
    BY <1>1, <1>2 DEF JobInv, JobIsSound, Sound, Green
  <2>2. JobIsCurrent(job[p])'
    BY <1>1 DEF JobInv, JobIsCurrent
  <2> QED BY <2>1, <2>2
<1>5. ReceiptInv'
  BY <1>1, <1>2 DEF ReceiptInv, Sound, Green
<1>6. ReviewInv'
  BY <1>1 DEF ReviewInv, ReviewIsCurrent
<1>7. BrokerInv'
  BY <1>1, <1>2 DEF BrokerInv, broker
<1> QED BY <1>3, <1>4, <1>5, <1>6, <1>7

\* A recorder goes on with its job and leaves the ticket alone.
LEMMA RecorderMovesOn ==
  ASSUME Inv, NEW p \in Recorders, NEW j, GoOn(p, j), RecorderLeaves,
         j \in {NoJob} \cup RunJobs \cup MeasureJobs \cup WriteJobs,
         JobIsSound(j), JobIsCurrent(j),
         receipt' \in Receipts \cup {None}, receipt' # None => Sound(receipt')
  PROVE  Inv'
<1> USE DEF Inv
<1>1. UNCHANGED <<work, ticket, revision, review, broker, raced>>
  BY DEF RecorderLeaves
<1>2. job'[p] = j /\ \A q \in Recorders \ {p} : job'[q] = job[q]
  BY DEF GoOn, TypeInv, JobTypes
<1>3. TypeInv'
  BY <1>1, <1>2 DEF GoOn, TypeInv, JobTypes, ReviewTypes, ClaimedHasAttempt, broker
<1>4. JobInv'
  <2> SUFFICES ASSUME NEW q \in Recorders PROVE JobIsSound(job[q])' /\ JobIsCurrent(job[q])'
    BY DEF JobInv
  <2>1. JobIsSound(job'[q]) /\ JobIsCurrent(job'[q])
    BY <1>2 DEF JobInv
  <2> QED BY <1>1, <2>1 DEF JobIsSound, JobIsCurrent, Sound, Green
<1>5. ReceiptInv'
  BY <1>1 DEF ReceiptInv, Sound, Green
<1>6. ReviewInv'
  BY <1>1 DEF ReviewInv, ReviewIsCurrent
<1>7. BrokerInv'
  BY <1>1 DEF BrokerInv, broker
<1> QED BY <1>3, <1>4, <1>5, <1>6, <1>7

\* The records of an attempt, and one more.
LEMMA ComposedIsSound ==
  ASSUME Inv, NEW p \in Recorders, job[p].step = "measure",
         job[p].stage = "green" => "red" \in Stages(PreviousOf(job[p].attempt)),
         NEW j, j = [step |-> "write", stage |-> job[p].stage, revision |-> job[p].revision,
                     receipt |-> [attempt |-> job[p].attempt,
                                  records |-> Append(PreviousOf(job[p].attempt),
                                                     [stage |-> job[p].stage,
                                                      attempt |-> job[p].attempt]),
                                  tree |-> work, tested |-> job[p].tested]]
  PROVE  j \in WriteJobs /\ JobIsSound(j) /\ JobIsCurrent(j)
<1> DEFINE a == job[p].attempt
           new == [stage |-> job[p].stage, attempt |-> a]
           old == PreviousOf(a)
<1>1. /\ job[p] \in MeasureJobs /\ a \in 1 .. MaxAttempts /\ job[p].stage \in Stage
      /\ job[p].tested \in Trees /\ job[p].revision \in Nat /\ work \in Trees
  BY JobShapes DEF Inv, TypeInv, MeasureJobs
<1>2. new \in Records /\ new.stage = job[p].stage /\ new.attempt = a
  BY <1>1 DEF Records, Stage
<1>3. old \in Seq(Records) /\ \A x \in Range(old) : x.attempt = a
  <2>1. CASE receipt # None /\ receipt.attempt = a
    BY <2>1 DEF Inv, TypeInv, Receipts, PreviousOf, ReceiptInv, Sound
  <2>2. CASE ~(receipt # None /\ receipt.attempt = a)
    <3>1. old = <<>>
      BY <2>2 DEF PreviousOf
    <3>2. Range(<<>>) = {} /\ <<>> \in Seq(Records)
      BY DEF Range
    <3> QED BY <3>1, <3>2
  <2> QED BY <2>1, <2>2
<1>4. Append(old, new) \in Seq(Records) /\ Range(Append(old, new)) = Range(old) \cup {new}
  BY <1>2, <1>3, AppendAddsOne
<1>5. j.receipt \in Receipts /\ j.receipt.attempt = a
      /\ j.receipt.records = Append(old, new) /\ j.receipt.tree = work
      /\ j.receipt.tested = job[p].tested
  BY <1>1, <1>4 DEF Receipts
<1>6. j.step = "write" /\ j.stage = job[p].stage /\ j.revision = job[p].revision
  OBVIOUS
<1>7. Stages(j.receipt.records) = Stages(old) \cup {job[p].stage}
  BY <1>2, <1>4, <1>5 DEF Stages
<1>8. Sound(j.receipt)
  <2>1. \A x \in Range(j.receipt.records) : x.attempt = j.receipt.attempt
    BY <1>2, <1>3, <1>4, <1>5
  <2>2. "green" \in Stages(old) => "red" \in Stages(old)
    <3>1. CASE receipt # None /\ receipt.attempt = a
      BY <3>1 DEF PreviousOf, Inv, ReceiptInv, Sound
    <3>2. CASE ~(receipt # None /\ receipt.attempt = a)
      BY <3>2 DEF PreviousOf, Stages, Range
    <3> QED BY <3>1, <3>2
  <2>3. "green" \in Stages(j.receipt.records) => "red" \in Stages(j.receipt.records)
    BY <1>7, <2>2
  <2> QED BY <2>1, <2>3 DEF Sound
<1>9. JobIsSound(job[p]) /\ JobIsCurrent(job[p])
  BY DEF Inv, JobInv
<1>10. JobIsSound(j)
  BY <1>5, <1>6, <1>7, <1>8, <1>9 DEF JobIsSound, Green
<1>11. JobIsCurrent(j)
  BY <1>5, <1>6, <1>9 DEF JobIsCurrent
<1>12. j \in WriteJobs
  BY <1>1, <1>5 DEF WriteJobs
<1> QED BY <1>10, <1>11, <1>12

LEMMA RecorderKeepsInv ==
  ASSUME Inv, NEW p \in Recorders, Recorder(p)
  PROVE  Inv'
<1>0. /\ NoJob \in {NoJob} /\ JobIsSound(NoJob) /\ JobIsCurrent(NoJob)
      /\ receipt \in Receipts \cup {None} /\ (receipt # None => Sound(receipt))
      /\ revision \in Nat /\ work \in Trees /\ ticket \in TicketRecords
      /\ JobIsSound(job[p]) /\ JobIsCurrent(job[p])
  BY DEF NoJob, JobIsSound, JobIsCurrent, Inv, TypeInv, ReceiptInv, JobInv
<1>1. ASSUME NEW stage \in Stage, Resolve(p, stage) PROVE Inv'
  <2> DEFINE j == [step |-> "run", stage |-> stage,
                   attempt |-> ticket.attempt, revision |-> revision]
  <2>1. ticket.attempt \in 1 .. MaxAttempts
    <3>1. ticket.attempt \in 0 .. MaxAttempts
      BY <1>0 DEF TicketRecords
    <3>2. ticket.attempt # 0
      BY <1>1 DEF Resolve, Inv, TypeInv, ClaimedHasAttempt
    <3> QED BY <3>1, <3>2
  <2>2. j \in RunJobs /\ JobIsSound(j) /\ JobIsCurrent(j)
    BY <1>0, <2>1 DEF RunJobs, JobIsSound, JobIsCurrent
  <2> QED BY <1>0, <1>1, <2>2, RecorderMovesOn DEF Resolve
<1>2. ASSUME RunCommand(p) PROVE Inv'
  <2> DEFINE j == [step |-> "measure", stage |-> job[p].stage,
                   attempt |-> job[p].attempt, revision |-> job[p].revision,
                   tested |-> work]
  <2>1. job[p] \in RunJobs
    BY <1>2, JobShapes DEF RunCommand, Inv, TypeInv
  <2>2. CASE GoOn(p, j) /\ (job[p].stage = "green" => work \in Passing)
    <3>1. j \in MeasureJobs
      BY <1>0, <2>1 DEF RunJobs, MeasureJobs
    <3>2. JobIsSound(j) /\ JobIsCurrent(j)
      BY <1>0, <1>2, <2>1, <2>2 DEF RunCommand, RunJobs, JobIsSound, JobIsCurrent
    <3> QED BY <1>0, <1>2, <2>2, <3>1, <3>2, RecorderMovesOn DEF RunCommand
  <2>3. CASE GoOn(p, NoJob)
    BY <1>0, <1>2, <2>3, RecorderMovesOn DEF RunCommand
  <2> QED BY <1>2, <2>2, <2>3 DEF RunCommand, Refuse
<1>3. ASSUME Measure(p) PROVE Inv'
  <2> DEFINE old == PreviousOf(job[p].attempt)
             j == [step |-> "write", stage |-> job[p].stage,
                   revision |-> job[p].revision,
                   receipt |-> [attempt |-> job[p].attempt,
                                records |-> Append(old, [stage |-> job[p].stage,
                                                         attempt |-> job[p].attempt]),
                                tree |-> work, tested |-> job[p].tested]]
  <2>1. CASE GoOn(p, NoJob)
    BY <1>0, <1>3, <2>1, RecorderMovesOn DEF Measure
  <2>2. CASE GoOn(p, j) /\ (job[p].stage = "green" => "red" \in Stages(old))
    <3>1. j \in WriteJobs /\ JobIsSound(j) /\ JobIsCurrent(j)
      BY <1>3, <2>2, ComposedIsSound DEF Measure
    <3> QED BY <1>0, <1>3, <2>2, <3>1, RecorderMovesOn DEF Measure
  <2> QED BY <1>3, <2>1, <2>2 DEF Measure, Composed, Refuse
<1>4. ASSUME WriteReceipt(p) PROVE Inv'
  <2>1. job[p] \in WriteJobs /\ job[p].step = "write"
    BY <1>4, JobShapes DEF WriteReceipt, Inv, TypeInv
  <2>2. /\ receipt' = job[p].receipt /\ receipt' \in Receipts
        /\ receipt' # None => Sound(receipt')
    <3>1. receipt' = job[p].receipt /\ job[p].receipt \in Receipts
      BY <1>4, <2>1 DEF WriteReceipt, WriteJobs
    <3>2. Sound(job[p].receipt)
      BY <1>0, <2>1 DEF JobIsSound
    <3> QED BY <3>1, <3>2
  <2>3. CASE GoOn(p, NoJob)
    BY <1>0, <1>4, <2>2, <2>3, RecorderMovesOn DEF WriteReceipt
  <2>4. CASE job[p].stage = "green" /\ GoOn(p, [job[p] EXCEPT !.step = "advance"])
    <3> DEFINE j == [job[p] EXCEPT !.step = "advance"]
    <3>1. /\ j \in WriteJobs /\ j.step = "advance" /\ j.stage = job[p].stage
          /\ j.revision = job[p].revision /\ j.receipt = job[p].receipt
      BY <2>1 DEF WriteJobs
    <3>2. JobIsSound(j)
      BY <1>0, <2>1, <2>4, <3>1 DEF JobIsSound
    <3>3. JobIsCurrent(j)
      BY <1>0, <2>1, <2>4, <3>1 DEF JobIsCurrent
    <3> HIDE DEF j
    <3>4. GoOn(p, j)
      BY <2>4 DEF j
    <3> QED BY <1>0, <1>4, <2>2, <3>1, <3>2, <3>3, <3>4, RecorderMovesOn DEF WriteReceipt
  <2> QED BY <1>4, <2>3, <2>4 DEF WriteReceipt, Refuse
<1>5. ASSUME AdvanceImplemented(p) PROVE Inv'
  <2>0. /\ job[p].step = "advance" /\ GoOn(p, NoJob)
        /\ UNCHANGED <<work, receipt, review, broker, raced>>
    BY <1>5 DEF AdvanceImplemented, Refuse
  <2>1. CASE UNCHANGED <<ticket, mapStatus, revision>>
    BY <1>0, <2>0, <2>1, RecorderMovesOn DEF RecorderLeaves
  <2>2. CASE /\ revision = job[p].revision /\ ticket.status \in {"claimed", "implemented"}
             /\ Implemented(p)
    <3>1. /\ ticket' \in TicketRecords /\ ClaimedHasAttempt' /\ revision' = revision + 1
          /\ ticket'.status = "implemented"
          /\ ticket'.subject = job[p].receipt /\ ticket'.attempt = ticket.attempt
          /\ ticket'.review = ticket.review /\ ticket'.commit = ticket.commit
      BY <2>0, <2>2, AdvanceUpdates DEF Inv
    <3>2. Green(job[p].receipt) /\ job[p].receipt.attempt = ticket.attempt
      <4>1. Green(job[p].receipt)
        BY <1>0, <2>0 DEF JobIsSound
      <4>2. job[p].receipt.attempt = ticket.attempt
        BY <1>0, <2>0, <2>2 DEF JobIsCurrent
      <4> QED BY <4>1, <4>2
    <3>3. job' = [job EXCEPT ![p] = NoJob]
      BY <2>0 DEF GoOn
    <3>4. /\ job' \in [Recorders -> {NoJob} \cup RunJobs \cup MeasureJobs \cup WriteJobs]
          /\ \A q \in Recorders : job'[q] \in {job[q], NoJob}
      BY <3>3 DEF Inv, TypeInv, JobTypes
    <3>5. JobInv' /\ ReceiptInv' /\ ReviewInv' /\ JobTypes' /\ ReviewTypes'
      BY <2>0, <3>1, <3>2, <3>4, UpdatesKeepTheRest DEF Inv, TypeInv, ReviewTypes
    <3>6. BrokerInv'
      BY <2>0, <2>2, <3>1 DEF Inv, BrokerInv, broker
    <3>7. TypeInv'
      BY <2>0, <3>1, <3>5 DEF Inv, TypeInv, broker
    <3> QED BY <3>5, <3>6, <3>7 DEF Inv
  <2> QED BY <1>5, <2>1, <2>2 DEF AdvanceImplemented
<1> QED BY <1>1, <1>2, <1>3, <1>4, <1>5 DEF Recorder, Stage

-----------------------------------------------------------------------------
(* The reviewers.                                                          *)

\* A reviewer goes on and leaves the ticket alone.
LEMMA ReviewerMovesOn ==
  ASSUME Inv, NEW r \in Reviewers, NEW v, Judge(r, v),
         UNCHANGED <<ticket, mapStatus, revision>>, ReviewerLeaves,
         v \in {NoReview} \cup BindReviews \cup ReadReviews \cup TransitionReviews,
         ReviewIsCurrent(v)
  PROVE  Inv'
<1> USE DEF Inv
<1>1. UNCHANGED <<work, receipt, ticket, revision, job, broker, raced>>
  BY DEF ReviewerLeaves
<1>2. review'[r] = v /\ \A q \in Reviewers \ {r} : review'[q] = review[q]
  BY DEF Judge, TypeInv, ReviewTypes
<1>3. TypeInv'
  BY <1>1 DEF Judge, TypeInv, JobTypes, ReviewTypes, ClaimedHasAttempt, broker
<1>4. JobInv'
  BY <1>1 DEF JobInv, JobIsSound, JobIsCurrent, Sound, Green
<1>5. ReceiptInv'
  BY <1>1 DEF ReceiptInv, Sound, Green
<1>6. ReviewInv'
  <2> SUFFICES ASSUME NEW q \in Reviewers PROVE ReviewIsCurrent(review[q])'
    BY <1>1 DEF ReviewInv
  <2>1. ReviewIsCurrent(review'[q])
    BY <1>2 DEF ReviewInv
  <2> QED BY <1>1, <2>1 DEF ReviewIsCurrent
<1>7. BrokerInv'
  BY <1>1 DEF BrokerInv, broker
<1> QED BY <1>3, <1>4, <1>5, <1>6, <1>7

LEMMA ReviewerKeepsInv ==
  ASSUME Inv, NEW r \in Reviewers, Reviewer(r)
  PROVE  Inv'
<1>0. /\ NoReview \in {NoReview} /\ ReviewIsCurrent(NoReview)
      /\ revision \in Nat /\ work \in Trees /\ receipt \in Receipts \cup {None}
      /\ ReviewIsCurrent(review[r])
  BY DEF NoReview, ReviewIsCurrent, Inv, TypeInv, ReviewInv
<1>1. ASSUME CollectDiff(r) PROVE Inv'
  <2> DEFINE v == [step |-> "bind", diff |-> work]
  <2>1. v \in BindReviews /\ ReviewIsCurrent(v)
    BY <1>0 DEF BindReviews, ReviewIsCurrent
  <2> QED BY <1>1, <2>1, ReviewerMovesOn DEF CollectDiff
<1>2. ASSUME NEW verdict \in {"verify", "request-changes"}, Bind(r, verdict) PROVE Inv'
  <2> DEFINE v == [step |-> "readback", diff |-> review[r].diff,
                   subject |-> receipt, verdict |-> verdict]
  <2>0. UNCHANGED <<ticket, mapStatus, revision>> /\ ReviewerLeaves
    BY <1>2 DEF Bind
  <2>1. CASE Judge(r, NoReview)
    BY <1>0, <2>0, <2>1, ReviewerMovesOn
  <2>2. CASE Judge(r, v) /\ ReceiptIsCurrent /\ receipt.tree = review[r].diff
    <3>1. review[r].diff \in Trees /\ receipt \in Receipts
      BY <1>0, <1>2, <2>2, ReviewShapes DEF Bind, BindReviews, ReceiptIsCurrent, Inv, TypeInv
    <3>2. v \in ReadReviews /\ ReviewIsCurrent(v)
      BY <2>2, <3>1 DEF ReadReviews, ReviewIsCurrent
    <3> QED BY <2>0, <2>2, <3>2, ReviewerMovesOn
  <2> QED BY <1>2, <2>1, <2>2 DEF Bind, Dismiss
<1>3. ASSUME ReadBack(r) PROVE Inv'
  <2> DEFINE v == [step |-> "transition", diff |-> review[r].diff,
                   subject |-> review[r].subject, verdict |-> review[r].verdict,
                   revision |-> revision]
  <2>0. UNCHANGED <<ticket, mapStatus, revision>> /\ ReviewerLeaves /\ review[r].step = "readback"
    BY <1>3 DEF ReadBack
  <2>1. CASE Judge(r, NoReview)
    BY <1>0, <2>0, <2>1, ReviewerMovesOn
  <2>2. CASE /\ Judge(r, v) /\ ticket.status = "implemented"
             /\ ticket.subject = review[r].subject
    <3>1. review[r] \in ReadReviews
      BY <2>0, ReviewShapes DEF Inv, TypeInv
    <3>2. v \in TransitionReviews
      BY <1>0, <3>1 DEF ReadReviews, TransitionReviews
    <3>3. ReviewIsCurrent(v)
      BY <1>0, <2>0, <2>2 DEF ReviewIsCurrent
    <3> QED BY <2>0, <2>2, <3>2, <3>3, ReviewerMovesOn
  <2> QED BY <1>3, <2>1, <2>2 DEF ReadBack, Dismiss
<1>4. ASSUME Transition(r) PROVE Inv'
  <2>0. review[r].step = "transition" /\ review[r] \in TransitionReviews /\ ReviewerLeaves
    BY <1>4, ReviewShapes DEF Transition, Inv, TypeInv
  <2>1. CASE /\ revision = review[r].revision /\ Decided(r) /\ Judge(r, NoReview)
    <3>1. /\ ticket.status = "implemented" /\ ticket.subject = review[r].subject
          /\ review[r].diff = review[r].subject.tree
      BY <1>0, <2>0, <2>1 DEF ReviewIsCurrent
    <3>2. review[r].subject \in Receipts /\ review[r].diff \in Trees
      BY <2>0 DEF TransitionReviews
    <3>3. /\ ticket' \in TicketRecords /\ ClaimedHasAttempt' /\ revision' = revision + 1
          /\ ticket'.commit = ticket.commit
          /\ \/ /\ ticket'.status = "verified"
                /\ ticket'.review = [subject |-> review[r].subject, diff |-> review[r].diff]
                /\ ticket'.subject = ticket.subject /\ ticket'.attempt = ticket.attempt
             \/ ticket'.status = "claimed" /\ ticket'.subject = None
      BY <2>0, <2>1, <3>1, DecidedUpdates DEF Inv
    <3>4. /\ review' \in [Reviewers -> {NoReview} \cup BindReviews \cup ReadReviews
                                         \cup TransitionReviews]
          /\ \A q \in Reviewers : review'[q] \in {review[q], NoReview}
      BY <2>1 DEF Judge, Inv, TypeInv, ReviewTypes
    <3>5. UNCHANGED <<work, receipt, job, broker, raced>>
      BY <2>0 DEF ReviewerLeaves
    <3>6. ticket'.status = "verified" =>
            /\ ticket'.subject \in Receipts
            /\ ticket'.review \in [subject : Receipts, diff : Trees]
            /\ ticket'.review.subject = ticket'.subject
            /\ ticket'.review.diff = ticket'.subject.tree
      BY <3>1, <3>2, <3>3
    <3>7. JobInv' /\ ReceiptInv' /\ ReviewInv' /\ JobTypes' /\ ReviewTypes'
      BY <3>3, <3>4, <3>5, <3>6, UpdatesKeepTheRest DEF Inv, TypeInv, JobTypes
    <3>8. BrokerInv'
      BY <3>1, <3>3, <3>5 DEF Inv, BrokerInv, broker
    <3>9. TypeInv'
      BY <3>3, <3>5, <3>7 DEF Inv, TypeInv, broker
    <3> QED BY <3>7, <3>8, <3>9 DEF Inv
  <2>2. CASE UNCHANGED <<ticket, mapStatus, revision>>
    <3> DEFINE v == [step |-> "readback", diff |-> review[r].diff,
                     subject |-> review[r].subject, verdict |-> review[r].verdict]
    <3>1. CASE Judge(r, NoReview)
      BY <1>0, <2>0, <2>2, <3>1, ReviewerMovesOn
    <3>2. CASE Judge(r, v)
      <4>1. v \in ReadReviews
        BY <2>0 DEF ReadReviews, TransitionReviews
      <4>2. ReviewIsCurrent(v)
        BY <1>0, <2>0 DEF ReviewIsCurrent
      <4> QED BY <2>0, <2>2, <3>2, <4>1, <4>2, ReviewerMovesOn
    <3> QED BY <1>4, <2>1, <3>1, <3>2 DEF Transition, Dismiss
  <2> QED BY <1>4, <2>1, <2>2 DEF Transition, Dismiss
<1> QED BY <1>1, <1>2, <1>3, <1>4 DEF Reviewer

-----------------------------------------------------------------------------
(* The broker.                                                             *)

\* The broker goes on, or somebody does something to it, and leaves the ticket
\* alone.
LEMMA BrokerMovesOn ==
  ASSUME Inv, FinishLeaves, UNCHANGED <<ticket, mapStatus, revision>>,
         finish' \in {"idle", "prepare", "push", "record", "locked"},
         prepared' \in Trees \cup {None}, source' \in Trees \cup {None},
         finish' = "push" => prepared' \in Trees, BrokerInv'
  PROVE  Inv'
<1> USE DEF Inv, FinishLeaves
<1>1. TypeInv'
  BY DEF TypeInv, JobTypes, ReviewTypes, ClaimedHasAttempt
<1>2. JobInv' /\ ReceiptInv'
  BY DEF JobInv, JobIsSound, JobIsCurrent, Sound, Green, ReceiptInv
<1>3. ReviewInv'
  BY DEF ReviewInv, ReviewIsCurrent
<1> QED BY <1>1, <1>2, <1>3

LEMMA BrokerKeepsInv ==
  ASSUME Inv, Broker \/ Crash \/ RemoveLock \/ MoveSource
  PROVE  Inv'
<1>0. /\ work \in Trees /\ prepared \in Trees \cup {None} /\ source \in Trees \cup {None}
      /\ finish \in {"idle", "prepare", "push", "record", "locked"}
      /\ BrokerInv /\ ticket \in TicketRecords
      /\ finish = "push" => prepared \in Trees
  BY DEF Inv, TypeInv
<1>1. CASE StartFinish
  <2>1. ticket.status = "verified" /\ EvidenceIsBound => work = ticket.review.diff
    BY DEF EvidenceIsBound, ReceiptIsCurrent
  <2>2. BrokerInv'
    BY <1>0, <1>1, <2>1 DEF StartFinish, BrokerInv, FinishLeaves, EvidenceIsBound
  <2>3. /\ UNCHANGED <<ticket, mapStatus, revision, source>> /\ FinishLeaves
        /\ finish' \in {"idle", "prepare", "record"} /\ prepared' \in Trees \cup {None}
    BY <1>0, <1>1 DEF StartFinish
  <2> QED BY <1>0, <2>2, <2>3, BrokerMovesOn
<1>2. CASE PrepareCommit
  <2>1. BrokerInv'
    BY <1>0, <1>2 DEF PrepareCommit, BrokerInv, FinishLeaves
  <2> QED BY <1>0, <1>2, <2>1, BrokerMovesOn DEF PrepareCommit
<1>3. CASE Integrate
  <2>1. BrokerInv'
    BY <1>0, <1>3 DEF Integrate, BrokerInv, FinishLeaves
  <2>2. /\ UNCHANGED <<ticket, mapStatus, revision>> /\ FinishLeaves
        /\ finish' \in {"idle", "record"} /\ prepared' \in Trees \cup {None}
        /\ source' \in Trees \cup {None}
    BY <1>0, <1>3 DEF Integrate
  <2> QED BY <2>1, <2>2, BrokerMovesOn
<1>4. CASE RecordIntegrated
  <2>1. CASE moved
    <3>1. BrokerInv'
      BY <1>0, <1>4, <2>1 DEF RecordIntegrated, BrokerInv, FinishLeaves
    <3> QED BY <1>0, <1>4, <2>1, <3>1, BrokerMovesOn DEF RecordIntegrated
  <2>2. CASE ~moved
    <3>1. /\ ticket.status = "verified" /\ ticket' = [ticket EXCEPT !.commit = prepared]
          /\ revision' = revision + 1 /\ UNCHANGED <<work, receipt, job, review, raced>>
          /\ finish = "record" /\ finish' = "idle" /\ UNCHANGED <<prepared, source>>
      BY <1>4, <2>2 DEF RecordIntegrated, Save, FinishLeaves
    <3>2. /\ ticket' \in TicketRecords /\ ticket'.status = "verified"
          /\ ticket'.subject = ticket.subject /\ ticket'.review = ticket.review
          /\ ticket'.attempt = ticket.attempt /\ ticket'.commit = prepared
      BY <1>0, <3>1 DEF TicketRecords
    <3>3. ClaimedHasAttempt'
      BY <3>1, <3>2 DEF Inv, TypeInv, ClaimedHasAttempt
    <3>4. JobInv' /\ ReceiptInv' /\ ReviewInv' /\ JobTypes' /\ ReviewTypes'
      BY <3>1, <3>2, <3>3, UpdatesKeepTheRest
      DEF Inv, TypeInv, JobTypes, ReviewTypes, ReviewInv
    <3>5. BrokerInv'
      BY <1>0, <3>1, <3>2 DEF BrokerInv
    <3>6. TypeInv'
      BY <1>0, <3>1, <3>2, <3>3, <3>4 DEF Inv, TypeInv
    <3> QED BY <3>4, <3>5, <3>6 DEF Inv
  <2> QED BY <2>1, <2>2
<1>5. CASE Crash \/ RemoveLock \/ MoveSource
  <2>1. BrokerInv'
    BY <1>0, <1>5 DEF Crash, RemoveLock, MoveSource, BrokerInv, FinishLeaves
  <2> QED BY <1>0, <1>5, <2>1, BrokerMovesOn DEF Crash, RemoveLock, MoveSource
<1> QED BY <1>1, <1>2, <1>3, <1>4, <1>5 DEF Broker

-----------------------------------------------------------------------------
(* The invariant, and what follows from it.                                *)

LEMMA InvHolds == Spec => []Inv
<1>1. Init => Inv
  <2> SUFFICES ASSUME Init PROVE Inv
    OBVIOUS
  <2>1. ticket \in TicketRecords /\ ClaimedHasAttempt
    BY DEF Init, TicketRecords, ClaimedHasAttempt
  <2>2. JobTypes /\ ReviewTypes
    BY DEF Init, JobTypes, ReviewTypes
  <2>3. TypeInv
    BY <2>1, <2>2 DEF Init, TypeInv
  <2>4. JobInv /\ ReviewInv
    BY DEF Init, JobInv, ReviewInv, NoJob, NoReview, JobIsSound, JobIsCurrent,
           ReviewIsCurrent
  <2>5. ReceiptInv /\ BrokerInv
    BY DEF Init, ReceiptInv, BrokerInv
  <2> QED BY <2>3, <2>4, <2>5 DEF Inv
<1>2. Inv /\ [Next]_vars => Inv'
  <2> SUFFICES ASSUME Inv, [Next]_vars PROVE Inv'
    OBVIOUS
  <2>1. CASE Next
    BY <2>1, LifecycleKeepsInv, EditKeepsInv, RecorderKeepsInv, ReviewerKeepsInv,
       BrokerKeepsInv DEF Next
  <2>2. CASE UNCHANGED vars
    <3>1. BrokerInv'
      BY <2>2 DEF Inv, BrokerInv, vars, broker
    <3> QED BY <2>2, <3>1, BrokerMovesOn DEF Inv, TypeInv, vars, broker, FinishLeaves
  <2> QED BY <2>1, <2>2
<1> QED BY <1>1, <1>2, PTL DEF Spec

\* The worktree, the receipts and the ticket have their types.
THEOREM TypesAreCorrect == Spec => []TypeOK
<1>1. Inv => TypeOK
  BY DEF Inv, TypeInv, TypeOK, TicketRecords
<1> QED BY <1>1, InvHolds, PTL

\* The ticket's receipt is of its own attempt: GREEN is recorded in the revision of
\* the map in which its attempt was read, and a request for changes makes another.
THEOREM ReceiptIsOfTheAttempt == Spec => []SubjectIsOfTheAttempt
<1>1. Inv => SubjectIsOfTheAttempt
  <2> SUFFICES ASSUME Inv, ticket.subject # None
               PROVE  /\ ticket.subject.attempt = ticket.attempt
                      /\ Stages(ticket.subject.records) = {"red", "green"}
                      /\ \A x \in Range(ticket.subject.records) : x.attempt = ticket.attempt
    BY DEF SubjectIsOfTheAttempt
  <2>1. ticket.subject \in Receipts /\ ticket.subject.records \in Seq(Records)
    BY DEF Inv, TypeInv, TicketRecords, Receipts
  <2>2. /\ Green(ticket.subject) /\ Sound(ticket.subject)
        /\ ticket.subject.attempt = ticket.attempt
    BY DEF Inv, ReceiptInv, Green
  <2>3. \A x \in Range(ticket.subject.records) : x.stage \in {"red", "green"}
    <3>1. \A i \in DOMAIN ticket.subject.records : ticket.subject.records[i] \in Records
      BY <2>1
    <3>2. \A x \in Range(ticket.subject.records) : x \in Records
      BY <3>1 DEF Range
    <3> QED BY <3>2 DEF Records
  <2>4. Stages(ticket.subject.records) \subseteq {"red", "green"}
    BY <2>3 DEF Stages
  <2> QED BY <2>2, <2>4 DEF Sound, Green
<1> QED BY <1>1, InvHolds, PTL

\* The review that verified the ticket is of the ticket's receipt and of its tree.
THEOREM VerifiedIsReviewed == Spec => []ReviewIsOfTheReceipt
<1>1. Inv => ReviewIsOfTheReceipt
  BY DEF Inv, ReviewInv, ReviewIsOfTheReceipt
<1> QED BY <1>1, InvHolds, PTL

\* What the source branch receives was tested and reviewed, unless an edit slipped
\* between the command and the measuring of its candidate, or between the last
\* check of the finish and its commit.
THEOREM ReviewedTreeIsIntegrated == Spec => []IntegratedTreeIsReviewed
<1>1. Inv => IntegratedTreeIsReviewed
  <2> SUFFICES ASSUME Inv, source # None, raced = {}
               PROVE  /\ ticket.status = "verified" /\ source = ticket.review.diff
                      /\ source = ticket.subject.tested /\ source \in Passing
    BY DEF IntegratedTreeIsReviewed
  <2>1. ticket.status = "verified" /\ source = ticket.review.diff
    BY DEF Inv, BrokerInv
  <2>2. ticket.subject # None /\ ticket.review.diff = ticket.subject.tree
    BY <2>1 DEF Inv, ReviewInv
  <2>3. ticket.subject.tested \in Passing /\ ticket.subject.tested = ticket.subject.tree
    BY <2>2 DEF Inv, ReceiptInv, Green
  <2> QED BY <2>1, <2>2, <2>3
<1> QED BY <1>1, InvHolds, PTL

\* A commit that the map records is the one the source branch received, after
\* crashes too.
THEOREM CommitWasReceived == Spec => []RecordedCommitWasReceived
<1>1. Inv => RecordedCommitWasReceived
  BY DEF Inv, BrokerInv, RecordedCommitWasReceived
<1> QED BY <1>1, InvHolds, PTL
=============================================================================
