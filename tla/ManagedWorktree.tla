--------------------------- MODULE ManagedWorktree ---------------------------
(***************************************************************************)
(* `goldband worktree create` and `finish`.  A create makes a checkout,    *)
(* publishes a pending lease manifest under the name the user chose, claims *)
(* the ticket and makes the lease active; a later create reconciles what a *)
(* killed one left.  When the sandbox probe fails, the create aborts what  *)
(* it just made.  A finish, alone under the lock of its name, pushes the   *)
(* commit of the lease and clears up.                                      *)
(*                                                                         *)
(* Creates of the same name or of the same ticket run in any order, every  *)
(* one of them may be killed between any two steps.  A process creates one *)
(* worktree, so it names its lease and the commit of that lease too.  The  *)
(* evidence a finish asks for is the matter of TicketEvidence.             *)
(***************************************************************************)
EXTENDS Naturals, Sequences, Functions

CONSTANTS
  Creators,      \* processes that run `worktree create` once
  Names,         \* names of managed worktrees
  Tickets,       \* tickets of the active Work Map, all in its frontier
  MaxCrashes,    \* bound on the processes that are killed
  MaxFailures,   \* bound on the operations of a create that fail
  None           \* no lease, no ticket, the commit all work starts from

ASSUME WorktreeAssumption ==
  /\ None \notin Creators \cup Tickets \cup Names
  /\ MaxCrashes \in Nat /\ MaxFailures \in Nat

VARIABLES
  manifest,      \* manifest[n]: the lease in the manifest file of name n, or None
  checkout,      \* checkout[n]: whose checkout is at n and whether it has work
  ticket,        \* ticket[t]: its status, claim and commit
  source,        \* the commits the source branch has received
  pc,            \* pc[p]: the step create p does next
  job,           \* job[p]: what it was asked for and what it remembers
  fresh,         \* the creates that read the current revision of the map
  finish,        \* finish[n]: the step and the lease of the finish of n
  finished,      \* the leases with finish evidence
  faults,        \* how many crashes and failures there were
  raced          \* "live": a pending lease was found while its create ran,
                 \* "stale": another lease than the pending one was reconciled,
                 \* "name": a create used a name that was taken since its check,
                 \* "cleanup": a create was stopped in its own clean-up

files == <<manifest, checkout>>
map == <<ticket, fresh>>
finishing == <<source, finish, finished>>
vars == <<files, map, finishing, pc, job, faults, raced>>

head == IF source = <<>> THEN None ELSE source[Len(source)]

NoTree == [lease |-> None, work |-> FALSE]
NoLease == [lease |-> None]
NoFind == [name |-> None, lease |-> NoLease]
NoJob == [name |-> None, ticket |-> None, base |-> None, created |-> FALSE,
          claimed |-> FALSE, todo |-> {}, found |-> NoFind]
NoFinish == [step |-> "idle", lease |-> NoLease]

Lease(p, status) ==
  [lease |-> p, ticket |-> job[p].ticket, base |-> job[p].base,
   status |-> status, prepared |-> FALSE]

Running(p) == pc[p] \notin {"idle", "shell", "done"}

Goto(p, step) == pc' = [pc EXCEPT ![p] = step]
Exit(p) ==
  /\ Goto(p, "done")
  /\ job' = [job EXCEPT ![p] = NoJob]

WriteManifest(n, lease) == manifest' = [manifest EXCEPT ![n] = lease]
RemoveManifest(n) == WriteManifest(n, NoLease)
RemoveTree(n) == checkout' = [checkout EXCEPT ![n] = NoTree]

\* The name has the manifest of a lease that is none of these.
NoteOther(n, leases) ==
  raced' = IF manifest[n].lease \notin leases \cup {None} THEN raced \cup {"name"}
                                                          ELSE raced

\* An update of the map leaves every other reader with a stale revision.
Save(t, rec) ==
  /\ ticket' = [ticket EXCEPT ![t] = rec]
  /\ fresh' = {}

-----------------------------------------------------------------------------
(* createManagedWorktree.                                                  *)

CreateLeaves == UNCHANGED <<finishing, faults>>

\* A standalone worktree has no ticket to reconcile or to claim.
StartCreate(p, n, t) ==
  /\ pc[p] = "idle"
  /\ Goto(p, IF t = None THEN "check" ELSE "reconcile")
  /\ job' = [job EXCEPT ![p] = [NoJob EXCEPT !.name = n, !.ticket = t, !.base = head,
                                             !.todo = IF t = None THEN {} ELSE Names]]
  /\ UNCHANGED <<files, map, raced>> /\ CreateLeaves

\* Every manifest is read; those that are not pending for the ticket are skipped.
ReadPending(p, n) ==
  /\ pc[p] = "reconcile" /\ n \in job[p].todo
  /\ IF /\ manifest[n] # NoLease
        /\ manifest[n].status = "pending" /\ manifest[n].ticket = job[p].ticket
       THEN /\ Goto(p, "inspect")
            /\ job' = [job EXCEPT ![p].found = [name |-> n, lease |-> manifest[n]]]
            /\ raced' = IF Running(manifest[n].lease) THEN raced \cup {"live"} ELSE raced
       ELSE /\ UNCHANGED <<pc, raced>>
            /\ job' = [job EXCEPT ![p].todo = @ \ {n}]
  /\ UNCHANGED <<files, map>> /\ CreateLeaves

\* The ticket tells how far the pending create came, not whether it still runs.
InspectPending(p) ==
  /\ pc[p] = "inspect"
  /\ LET pending == job[p].found.lease.lease
         rec == ticket[job[p].ticket]
     IN IF rec.status = "claimed" /\ rec.claim = pending
          THEN Goto(p, "recover") /\ UNCHANGED job
          ELSE IF rec.status = "ready" /\ rec.claim = None
                 THEN Goto(p, "discard") /\ UNCHANGED job
                 ELSE Exit(p)
  /\ UNCHANGED <<files, map, raced>> /\ CreateLeaves

\* What is at the name by now is changed, whether or not it is what was read.
NoteStale(p) ==
  raced' = IF manifest[job[p].found.name] # job[p].found.lease THEN raced \cup {"stale"}
                                                               ELSE raced

\* The user is told to go on with the lease that was recovered.
RecoverPending(p) ==
  /\ pc[p] = "recover"
  /\ WriteManifest(job[p].found.name, [job[p].found.lease EXCEPT !.status = "active"])
  /\ NoteStale(p)
  /\ Exit(p)
  /\ UNCHANGED <<checkout, map>> /\ CreateLeaves

\* Git does not remove a checkout that is not there.
DiscardTree(p) ==
  /\ pc[p] = "discard"
  /\ IF checkout[job[p].found.name] = NoTree
       THEN Exit(p) /\ UNCHANGED <<checkout, raced>>
       ELSE /\ RemoveTree(job[p].found.name) /\ Goto(p, "forget") /\ UNCHANGED job
            /\ NoteStale(p)
  /\ UNCHANGED <<manifest, map>> /\ CreateLeaves

DiscardManifest(p) ==
  /\ pc[p] = "forget"
  /\ RemoveManifest(job[p].found.name)
  /\ NoteStale(p)
  /\ Goto(p, "reconcile")
  /\ job' = [job EXCEPT ![p].todo = @ \ {job[p].found.name}, ![p].found = NoFind]
  /\ UNCHANGED <<checkout, map>> /\ CreateLeaves

\* resolveWorkMapBinding: the map is read, and its revision with it.
ReadBinding(p) ==
  /\ pc[p] = "reconcile" /\ job[p].todo = {}
  /\ IF ticket[job[p].ticket].status = "ready" /\ ticket[job[p].ticket].claim = None
       THEN fresh' = fresh \cup {p} /\ Goto(p, "check") /\ UNCHANGED job
       ELSE Exit(p) /\ UNCHANGED fresh
  /\ UNCHANGED <<files, ticket, raced>> /\ CreateLeaves

CheckName(p) ==
  /\ pc[p] = "check"
  /\ IF manifest[job[p].name] = NoLease /\ checkout[job[p].name] = NoTree
       THEN Goto(p, "add") /\ UNCHANGED job
       ELSE Exit(p)
  /\ UNCHANGED <<files, map, raced>> /\ CreateLeaves

\* Git makes no checkout where one is; the error ends in the clean-up.
AddTree(p) ==
  /\ pc[p] = "add"
  /\ IF checkout[job[p].name] = NoTree
       THEN /\ checkout' = [checkout EXCEPT ![job[p].name] = [lease |-> p, work |-> FALSE]]
            /\ job' = [job EXCEPT ![p].created = TRUE]
            /\ Goto(p, "publish")
       ELSE Goto(p, "drop") /\ UNCHANGED <<checkout, job>>
  /\ NoteOther(job[p].name, {p})
  /\ UNCHANGED <<manifest, map>> /\ CreateLeaves

\* Mutant: the manifest is published when the ticket is claimed.
PublishNothing(p) ==
  /\ pc[p] = "publish"
  /\ IF job[p].ticket = None
       THEN WriteManifest(job[p].name, Lease(p, "active")) /\ Goto(p, "probe")
       ELSE UNCHANGED manifest /\ Goto(p, "claim")
  /\ NoteOther(job[p].name, {p})
  /\ UNCHANGED <<checkout, job, map>> /\ CreateLeaves

PublishLease(p) ==
  /\ pc[p] = "publish"
  /\ IF job[p].ticket = None
       THEN WriteManifest(job[p].name, Lease(p, "active")) /\ Goto(p, "probe")
       ELSE WriteManifest(job[p].name, Lease(p, "pending")) /\ Goto(p, "claim")
  /\ NoteOther(job[p].name, {p})
  /\ UNCHANGED <<checkout, job, map>> /\ CreateLeaves

\* The claim succeeds only at the revision the binding was read at.
ClaimTicket(p) ==
  /\ pc[p] = "claim"
  /\ IF p \in fresh
       THEN /\ Save(job[p].ticket,
                    [ticket[job[p].ticket] EXCEPT !.status = "claimed", !.claim = p])
            /\ job' = [job EXCEPT ![p].claimed = TRUE]
            /\ Goto(p, "activate")
       ELSE Goto(p, "remove") /\ UNCHANGED <<map, job>>
  /\ UNCHANGED <<files, raced>> /\ CreateLeaves

ActivateLease(p) ==
  /\ pc[p] = "activate"
  /\ WriteManifest(job[p].name, Lease(p, "active"))
  /\ Goto(p, "probe")
  /\ UNCHANGED <<checkout, job, map, raced>> /\ CreateLeaves

\* An operation between the checkout and the active lease fails.
FailCreate(p) ==
  /\ pc[p] \in {"publish", "claim", "activate"}
  /\ faults.failures < MaxFailures
  /\ faults' = [faults EXCEPT !.failures = @ + 1]
  /\ Goto(p, "remove")
  /\ UNCHANGED <<files, map, finishing, job, raced>>

\* The clean-up of a failed create: what is at the path of its checkout goes, and
\* what Git says is ignored.
RemoveCreated(p) ==
  /\ pc[p] = "remove"
  /\ RemoveTree(job[p].name)
  /\ Goto(p, IF job[p].claimed THEN "rollback" ELSE "drop")
  /\ job' = [job EXCEPT ![p].found = [name |-> job[p].name, lease |-> Lease(p, "pending")]]
  /\ UNCHANGED <<manifest, map, raced>> /\ CreateLeaves

\* rollbackClaimWithRetry: a claim that is gone by now needs no rollback.
ReadClaim(p) ==
  /\ pc[p] = "rollback"
  /\ LET claim == ticket[job[p].found.lease.ticket].claim IN
     \/ /\ claim = None
        /\ Goto(p, "drop") /\ UNCHANGED <<job, fresh>>
     \/ /\ claim = job[p].found.lease.lease
        /\ fresh' = fresh \cup {p} /\ Goto(p, "release") /\ UNCHANGED job
     \/ /\ claim \notin {None, job[p].found.lease.lease}
        /\ Exit(p) /\ UNCHANGED fresh
  /\ UNCHANGED <<files, ticket, raced>> /\ CreateLeaves

\* A create that ends here leaves a checkout removed and a claim in place.
Stuck(p) ==
  /\ raced' = IF job[p].claimed THEN raced \cup {"cleanup"} ELSE raced
  /\ Exit(p)

\* A stale revision is read again, or given up after the fifth time; a ticket
\* with evidence keeps its claim.
ReleaseClaim(p) ==
  /\ pc[p] = "release"
  /\ LET t == job[p].found.lease.ticket IN
     \/ /\ p \in fresh /\ ticket[t].status \in {"claimed", "blocked", "cancelled"}
        /\ Save(t, [ticket[t] EXCEPT !.claim = None,
                                     !.status = IF @ = "claimed" THEN "ready" ELSE @])
        /\ Goto(p, "drop") /\ UNCHANGED job
        /\ UNCHANGED raced
     \/ /\ p \in fresh /\ ticket[t].status = "verified"
        /\ Stuck(p) /\ UNCHANGED map
     \/ /\ p \notin fresh
        /\ \/ Goto(p, "rollback") /\ UNCHANGED <<job, raced>>
           \/ Stuck(p)
        /\ UNCHANGED map
  /\ UNCHANGED files /\ CreateLeaves

\* The manifest is removed by its name, also by a create that wrote none.
DropManifest(p) ==
  /\ pc[p] = "drop"
  /\ RemoveManifest(job[p].name)
  /\ NoteOther(job[p].name, {p, job[p].found.lease.lease})
  /\ Exit(p)
  /\ UNCHANGED <<checkout, map>> /\ CreateLeaves

-----------------------------------------------------------------------------
(* The caller probes the sandbox; abortCreatedManagedWorktree.             *)

\* The user's shell is opened.
ProbeSucceeds(p) ==
  /\ pc[p] = "probe"
  /\ Goto(p, "shell")
  /\ job' = [job EXCEPT ![p] = NoJob]
  /\ UNCHANGED <<files, map, raced>> /\ CreateLeaves

\* Mutant: the lease stays active while it is aborted.
StartAbortActive(p) ==
  /\ pc[p] = "probe"
  /\ LET current == manifest[job[p].name] IN
     IF current # NoLease /\ current.status \in {"active", "aborting"}
       THEN /\ job' = [job EXCEPT ![p].found = [name |-> job[p].name, lease |-> current]]
            /\ Goto(p, "abort")
       ELSE Exit(p)
  /\ UNCHANGED <<files, map, raced>> /\ CreateLeaves

\* The manifest is read again, and whatever lease it has is aborted.
StartAbort(p) ==
  /\ pc[p] = "probe"
  /\ LET current == manifest[job[p].name] IN
     IF current # NoLease /\ current.status \in {"active", "aborting"}
       THEN /\ WriteManifest(job[p].name, [current EXCEPT !.status = "aborting"])
            /\ job' = [job EXCEPT ![p].found = [name |-> job[p].name, lease |-> current]]
            /\ Goto(p, "abort")
       ELSE Exit(p) /\ UNCHANGED manifest
  /\ UNCHANGED <<checkout, map, raced>> /\ CreateLeaves

AbortTree(p) ==
  /\ pc[p] = "abort"
  /\ RemoveTree(job[p].name)
  /\ Goto(p, IF job[p].found.lease.ticket = None THEN "drop" ELSE "rollback")
  /\ UNCHANGED <<manifest, job, map, raced>> /\ CreateLeaves

-----------------------------------------------------------------------------
(* finishManagedWorktree.                                                  *)

FinishLeaves == UNCHANGED <<pc, job, faults, raced>>

Continue(n, step, lease) ==
  finish' = [finish EXCEPT ![n] = [step |-> step, lease |-> lease]]
Stop(n) == finish' = [finish EXCEPT ![n] = NoFinish]

\* The work is there, the source branch has not moved and the ticket is verified
\* for this very lease.
Integrable(n, lease) ==
  /\ checkout[n] = [lease |-> lease.lease, work |-> TRUE]
  /\ head = lease.base
  /\ lease.ticket # None => /\ ticket[lease.ticket].status = "verified"
                            /\ ticket[lease.ticket].claim = lease.lease

\* Only a lease that is active or integrated can be finished; a commit the source
\* branch has is not pushed again, one that it has not is discarded.
StartFinish(n) ==
  /\ finish[n].step = "idle" /\ manifest[n] # NoLease
  /\ LET lease == manifest[n]
         integrated == [lease EXCEPT !.status = "integrated"]
         cleared == [lease EXCEPT !.prepared = FALSE]
     IN \/ /\ lease.status = "integrated"
           /\ Continue(n, "record", lease) /\ UNCHANGED manifest
        \/ /\ lease.status = "active" /\ lease.prepared /\ head = lease.lease
           /\ WriteManifest(n, integrated) /\ Continue(n, "record", integrated)
        \/ /\ lease.status = "active" /\ ~(lease.prepared /\ head = lease.lease)
           /\ Integrable(n, lease) \/ lease.prepared
           /\ WriteManifest(n, cleared)
           /\ IF Integrable(n, lease) THEN Continue(n, "prepare", cleared)
                                      ELSE UNCHANGED finish
  /\ UNCHANGED <<checkout, map, source, finished>> /\ FinishLeaves

\* Mutant: the manifest does not tell that a commit is prepared.
PrepareUnmarked(n) ==
  /\ finish[n].step = "prepare"
  /\ Continue(n, "push", finish[n].lease)
  /\ UNCHANGED <<files, map, source, finished>> /\ FinishLeaves

PrepareCommit(n) ==
  /\ finish[n].step = "prepare"
  /\ LET lease == [finish[n].lease EXCEPT !.prepared = TRUE]
     IN WriteManifest(n, lease) /\ Continue(n, "push", lease)
  /\ UNCHANGED <<checkout, map, source, finished>> /\ FinishLeaves

\* The source branch fast-forwards to the commit, or the commit is discarded.
PushCommit(n) ==
  /\ finish[n].step = "push"
  /\ \/ /\ head = finish[n].lease.base
        /\ source' = Append(source, finish[n].lease.lease)
        /\ Continue(n, "integrated", finish[n].lease)
        /\ UNCHANGED manifest
     \/ /\ WriteManifest(n, [finish[n].lease EXCEPT !.prepared = FALSE])
        /\ Stop(n)
        /\ UNCHANGED source
  /\ UNCHANGED <<checkout, map, finished>> /\ FinishLeaves

SaveIntegrated(n) ==
  /\ finish[n].step = "integrated"
  /\ LET lease == [finish[n].lease EXCEPT !.status = "integrated"]
     IN IF head = lease.lease
          THEN WriteManifest(n, lease) /\ Continue(n, "record", lease)
          ELSE Stop(n) /\ UNCHANGED manifest
  /\ UNCHANGED <<checkout, map, source, finished>> /\ FinishLeaves

\* Mutant: the checkout is removed although its ticket does not record the commit.
RemoveUnrecorded(n) ==
  /\ finish[n].step = "record"
  /\ IF head = finish[n].lease.lease THEN Continue(n, "remove", finish[n].lease)
                                     ELSE Stop(n)
  /\ UNCHANGED <<files, map, source, finished>> /\ FinishLeaves

\* The source branch must still have the commit on top when its ticket records it.
RecordCommit(n) ==
  /\ finish[n].step = "record"
  /\ LET lease == finish[n].lease
         t == lease.ticket
     IN IF head # lease.lease THEN Stop(n) /\ UNCHANGED map
        ELSE IF t = None THEN Continue(n, "remove", lease) /\ UNCHANGED map
        ELSE \/ /\ ticket[t].commit = lease.lease
                /\ Continue(n, "remove", lease) /\ UNCHANGED map
             \/ /\ ticket[t].commit = None /\ ticket[t].status = "verified"
                /\ Save(t, [ticket[t] EXCEPT !.commit = lease.lease])
                /\ Continue(n, "remove", lease)
             \/ /\ ticket[t].commit # lease.lease
                /\ ticket[t].commit # None \/ ticket[t].status # "verified"
                /\ Stop(n) /\ UNCHANGED map
  /\ UNCHANGED <<files, source, finished>> /\ FinishLeaves

FinishTree(n) ==
  /\ finish[n].step = "remove"
  /\ RemoveTree(n)
  /\ Continue(n, "evidence", finish[n].lease)
  /\ UNCHANGED <<manifest, map, source, finished>> /\ FinishLeaves

WriteEvidence(n) ==
  /\ finish[n].step = "evidence"
  /\ finished' = finished \cup {finish[n].lease.lease}
  /\ Continue(n, "manifest", finish[n].lease)
  /\ UNCHANGED <<files, map, source>> /\ FinishLeaves

FinishManifest(n) ==
  /\ finish[n].step = "manifest"
  /\ RemoveManifest(n)
  /\ Stop(n)
  /\ UNCHANGED <<checkout, map, source, finished>> /\ FinishLeaves

-----------------------------------------------------------------------------
(* What others do to the checkout and to the ticket.                       *)

OthersLeave == UNCHANGED <<finishing, pc, job, faults, raced>>

\* Somebody works in the shell of a create, or on with the lease of a killed one.
Work(n) ==
  /\ checkout[n] # NoTree /\ ~checkout[n].work
  /\ \/ pc[checkout[n].lease] = "shell"
     \/ /\ pc[checkout[n].lease] = "done"
        /\ manifest[n].lease = checkout[n].lease /\ manifest[n].status = "active"
  /\ checkout' = [checkout EXCEPT ![n].work = TRUE]
  /\ UNCHANGED <<manifest, map>> /\ OthersLeave

\* A receipt is recorded for the active lease and its review verifies the ticket.
Verify(n) ==
  /\ manifest[n] # NoLease /\ manifest[n].status = "active" /\ manifest[n].ticket # None
  /\ checkout[n] = [lease |-> manifest[n].lease, work |-> TRUE]
  /\ LET t == manifest[n].ticket IN
       /\ ticket[t].status = "claimed" /\ ticket[t].claim = manifest[n].lease
       /\ Save(t, [ticket[t] EXCEPT !.status = "verified"])
  /\ UNCHANGED files /\ OthersLeave

Block(t) ==
  /\ ticket[t].status \in {"ready", "claimed"}
  /\ Save(t, [ticket[t] EXCEPT !.status = "blocked"])
  /\ UNCHANGED files /\ OthersLeave

\* Without a claim a blocked ticket returns to "ready".
Resume(t) ==
  /\ ticket[t].status = "blocked"
  /\ Save(t, [ticket[t] EXCEPT !.status = IF ticket[t].claim = None THEN "ready"
                                                                    ELSE "claimed"])
  /\ UNCHANGED files /\ OthersLeave

Cancel(t) ==
  /\ ticket[t].status \in {"ready", "claimed", "blocked"}
  /\ Save(t, [ticket[t] EXCEPT !.status = "cancelled"])
  /\ UNCHANGED files /\ OthersLeave

\* Another ticket of the map is updated.
UpdateOther ==
  /\ fresh # {}
  /\ fresh' = {}
  /\ UNCHANGED <<files, ticket>> /\ OthersLeave

-----------------------------------------------------------------------------
(* Kills.                                                                  *)

MayCrash ==
  /\ faults.crashes < MaxCrashes
  /\ faults' = [faults EXCEPT !.crashes = @ + 1]

KillCreate(p) ==
  /\ Running(p) /\ MayCrash
  /\ IF pc[p] \in {"rollback", "release", "drop"} THEN Stuck(p)
                                                   ELSE Exit(p) /\ UNCHANGED raced
  /\ UNCHANGED <<files, map, finishing>>

\* The lock file of a killed finish stays until somebody removes it by hand.
KillFinish(n) ==
  /\ finish[n].step \notin {"idle", "locked"} /\ MayCrash
  /\ Continue(n, "locked", NoLease)
  /\ UNCHANGED <<files, map, source, finished, pc, job, raced>>

RemoveLock(n) ==
  /\ finish[n].step = "locked"
  /\ Stop(n)
  /\ UNCHANGED <<files, map, source, finished>> /\ FinishLeaves

-----------------------------------------------------------------------------
Init ==
  /\ manifest = [n \in Names |-> NoLease]
  /\ checkout = [n \in Names |-> NoTree]
  /\ ticket = [t \in Tickets |-> [status |-> "ready", claim |-> None, commit |-> None]]
  /\ source = <<>>
  /\ pc = [p \in Creators |-> "idle"]
  /\ job = [p \in Creators |-> NoJob]
  /\ fresh = {}
  /\ finish = [n \in Names |-> NoFinish]
  /\ finished = {}
  /\ faults = [crashes |-> 0, failures |-> 0]
  /\ raced = {}

Create(p) ==
  \/ \E n \in Names : ReadPending(p, n)
  \/ InspectPending(p) \/ RecoverPending(p) \/ DiscardTree(p) \/ DiscardManifest(p)
  \/ ReadBinding(p) \/ CheckName(p) \/ AddTree(p) \/ PublishLease(p)
  \/ ClaimTicket(p) \/ ActivateLease(p)
  \/ RemoveCreated(p) \/ ReadClaim(p) \/ ReleaseClaim(p) \/ DropManifest(p)
  \/ ProbeSucceeds(p) \/ StartAbort(p) \/ AbortTree(p)

Finish(n) ==
  \/ StartFinish(n) \/ PrepareCommit(n) \/ PushCommit(n) \/ SaveIntegrated(n)
  \/ RecordCommit(n) \/ FinishTree(n) \/ WriteEvidence(n) \/ FinishManifest(n)

Others ==
  \/ \E n \in Names : Work(n) \/ Verify(n)
  \/ \E t \in Tickets : Block(t) \/ Resume(t) \/ Cancel(t)
  \/ UpdateOther

Faults ==
  \/ \E p \in Creators : FailCreate(p) \/ KillCreate(p)
  \/ \E n \in Names : KillFinish(n) \/ RemoveLock(n)

Next ==
  \/ \E p \in Creators, n \in Names, t \in Tickets \cup {None} : StartCreate(p, n, t)
  \/ \E p \in Creators : Create(p)
  \/ \E n \in Names : Finish(n)
  \/ Others
  \/ Faults

Spec == Init /\ [][Next]_vars

-----------------------------------------------------------------------------
(* Properties.                                                             *)

Statuses == {"pending", "active", "aborting", "integrated"}
Leases ==
  [lease : Creators, ticket : Tickets \cup {None}, base : Creators \cup {None},
   status : Statuses, prepared : BOOLEAN]

TypeOK ==
  /\ manifest \in [Names -> Leases \cup {NoLease}]
  /\ checkout \in [Names -> [lease : Creators \cup {None}, work : BOOLEAN]]
  /\ ticket \in [Tickets -> [status : {"ready", "claimed", "blocked", "verified", "cancelled"},
                             claim : Creators \cup {None}, commit : Creators \cup {None}]]
  /\ source \in Seq(Creators)
  /\ fresh \subseteq Creators /\ finished \subseteq Creators
  /\ raced \subseteq {"live", "stale", "name", "cleanup"}
  /\ \A n \in Names : manifest[n].lease # None /\ manifest[n].status = "integrated"
                        => manifest[n].prepared

\* A ticket is never left claimed by a lease nobody can find: whichever step a
\* create, an abort or a finish is killed at, the manifest that names the claim
\* is there until the claim is released or the commit recorded.
ClaimHasItsLease ==
  raced = {} =>
    \A t \in Tickets :
      ticket[t].claim # None /\ ticket[t].commit = None =>
        \E n \in Names : manifest[n].lease = ticket[t].claim

\* The lease a user works with is good: an active lease has its own checkout and
\* the claim of its ticket, so two active leases never work on one ticket, also
\* when a later create recovered it from a killed one.
ActiveLeaseIsUsable ==
  raced = {} =>
    \A n \in Names :
      manifest[n].lease # None /\ manifest[n].status = "active" =>
        /\ checkout[n].lease = manifest[n].lease
        /\ manifest[n].ticket # None => ticket[manifest[n].ticket].claim = manifest[n].lease

\* Work is never thrown away: a checkout somebody has worked in is removed only
\* when the source branch has its commit and its ticket, if any, records it.
WorkIsKept ==
  [][raced' = {} =>
       \A n \in Names :
         LET p == checkout[n].lease IN
         checkout[n].work /\ checkout'[n] # checkout[n] =>
           /\ p \in Range(source)
           /\ \A t \in Tickets : ticket[t].claim = p => ticket[t].commit = p]_vars

-----------------------------------------------------------------------------
(* What the decision record says, where the code disagrees.                *)

\* "The managed worktree is removed only after commit, tree, branch, and
\* clean-worktree readback succeed": two creates that find the same killed one
\* reconcile it one after the other, and the second removes what the first made
\* in its place.
RemovedAfterReadback ==
  [][\A n \in Names :
       checkout[n].work /\ checkout'[n] # checkout[n] =>
         checkout[n].lease \in Range(source)]_vars
=============================================================================
