# Formal models of the goldband loop

TLA+ models of the parts of this repository that keep state several processes
share: the Work Map and its store, the lease of a paid review, the evidence that
leads a ticket from its claim to its integration, the managed worktrees it is
worked on in, the ownership of a project's browser, and the terminal in the
browser's side panel. TLC checks the models on small instances; TLAPS proves, for
every instance, what the proof modules state.

`PROJECT.json` lists the components, the runs, the mutants, the hazards and the
lines every definition translates.

## 1. The system

The repository is a configuration and runtime for coding agents. Most of it is
text for agents, hooks that decide about one tool call, and tools that drive a
browser, a device or an image service. Its core is `goldband-loop`: a CLI whose
processes cooperate through files, with no server between them, and the browser
server it starts.

| Component | State | Operations | Interacts with |
|---|---|---|---|
| Work Map lifecycle (`workflows/work-map.ts`, operations of `work-map-store.ts`) | status of the map, of its tickets; claim, evidence, commit of each ticket | create, claim, mark implemented (code, analysis), roll back a claim, request changes, verify, block, resume, cancel, integrate | called by recorders, reviews, the worktree broker, the tracker and the CLI |
| Work Map store (`work-map-store.ts`) | per map: directory lock, journal, event log, markdown, map; the active pointer | create, read, update, recovery on open | every process that touches a map |
| Review execution lease (`lib/review-execution-lease.ts`, `bin/goldband.ts`) | lease file per repository and scope, `.recovery` file | acquire, replace a stale lease, release | the launcher; the runtime it spawns |
| Verification receipts (`lib/verification-receipt.ts`) | one receipt file per lease and ticket | record (red, green, check, manual, analysis), validate | worktree, Work Map |
| Review runtime (`workflows/review*.ts`) | binding to a ticket, artifacts, lineage | collect diff, bind, judge, read back, transition | receipts, Work Map, host model |
| Managed worktree broker (`lib/managed-worktree*.ts`) | lease manifest per name, checkout, finish lock, prepared commit, finish evidence | create, reconcile, abort, finish | Work Map, receipts, Git |
| Browse controller (`browse/src/controller-state.ts`, `cli.ts`, `server.ts`) | `browse.json`, owner lock, startup lock, reclaim guards | ensure, restart, connect, disconnect, hand the startup lock over, claim, publish, give up | CLI, server |
| Browse terminal (`extension/sidepanel-terminal.js`, routes of `server.ts`, `pty-session-lease.ts`, `terminal-agent.ts`) | view of the panel; leases; sessions, timers and processes of the agent | connect, re-attach, restart, dispose, detach and its time-out | panel, server, agent |
| Workflow loop (`workflows/loop.ts`, `runtime.ts`, `safety-gates.ts`) | phase, budget, evidence of one run | run phases, gates | review, host |
| Tracker collaboration (`workflows/tracker-*.ts`, `tracker-adapters/`) | previews, approvals, sync state | inspect, apply, sync | Work Map, GitHub, GitLab |
| Other browse tokens, iOS QA daemon, cross-review gate, hooks, knowledge, design, installer, skills | see `PROJECT.json` | | |

What is hard in it:

- **Concurrency.** Every process runs synchronous file operations, and any two
  processes interleave between them. Nothing but lock files, exclusive creates and
  the map's revision keeps them apart. The panel, the server and the agent talk by
  requests and sockets whose answers and ends come late.
- **Failure.** A process is killed, or a write fails, between two steps. Locks,
  journals and pending leases must be recoverable by whoever comes next, and a lock
  of a live process must not be taken for one of a dead one.
- **Time.** A verification command and a review run for minutes; a server is probed
  long before it is replaced. What is read at the start is used at the end.
- **Protocol.** A map's tickets move independently, yet a map has one status, one
  transition table and one completion rule.

What makes each component correct: a map never lets work run ahead of its
dependencies, evidence is of the claim it is attached to, and closed maps stay
closed; a store loses no acknowledged change and is always recoverable; one
review runs per scope; what is integrated is what was tested and reviewed; a
claim has a lease somebody can find and no work is thrown away; one server serves a
project; every terminal process has somebody who will tell it to end.

## 2. The modules

| Module | Models | Composes |
|---|---|---|
| `WorkMap` | lifecycle of one map | |
| `WorkMapProofs` | its theorems | `WorkMap` |
| `WorkMapRegister` | what a store promises | |
| `WorkMapStore` | store at file-operation granularity | refines `WorkMapRegister` |
| `WorkMapStoreProofs` | its theorems | `WorkMapStore` |
| `ReviewExecutionLease` | review lease at file-operation granularity | |
| `ReviewExecutionLeaseProofs` | its theorems | `ReviewExecutionLease` |
| `TicketEvidence` | recorders, reviewers, editor and broker on one ticket | refines `WorkMap` |
| `TicketEvidenceProofs` | its theorems | `TicketEvidence` |
| `TicketEvidenceLifecycle` | that it implements `WorkMap` | `TicketEvidenceProofs` |
| `ManagedWorktree` | create, reconcile, abort and finish of several leases | |
| `ManagedWorktreeProofs` | its theorems | `ManagedWorktree` |
| `ControllerState` | who controls the browser: both locks, the record, the handoff | |
| `ControllerStateProofs` | its theorems | `ControllerState` |
| `TerminalSession` | panel, server and agent of the terminal | |
| `TerminalSessionProofs` | its theorems | `TerminalSession` |
| `MCWorkMap`, `MCWorkMapStore`, `MCTicketEvidence`, `MCManagedWorktree`, `MCControllerState` | instances for TLC | |

Layers: `TicketEvidence` and `ManagedWorktree` take an update of a map as one
step. That an update is one step to its callers is what `WorkMapStore` shows by
refining `WorkMapRegister`; that the update is one the lifecycle allows is what
`TicketEvidence` shows by refining `WorkMap`. `ManagedWorktree` has several leases
and leaves the evidence of a finish to `TicketEvidence`, which has one lease.

### WorkMap

Variables: `mapStatus`, `fog` (is a question unresolved), `tickets`. A ticket is
its status, claim (lease, kind, attempt), evidence (subject, review, requested
changes), blocker, `blockedFrom` and commit. `subject` is the receipt or the
analysis reference, named by claim and digest; absent fields are `None`.

Each action is one successful call: the guard of the callback, its assignments,
then `Update`: `validateWorkMap`, `assertWorkMapTransition` for the map and for
every ticket, and the save. A refused call changes nothing, so it is no step.
`EvidenceFor` attaches evidence to the claim the ticket has. That is what its
callers do, and `TicketEvidence` shows it of them.

Left out: titles, acceptance criteria, reasons, time stamps; the blockers and
frontier fields, which are recomputed by every update (`Frontier` is the
operator). No operation moves a ticket from draft to ready, sets the map to
shaping or blocked, or resolves a question: the tables allow it, no code does it.

### WorkMapStore

Variables: the directory (`dir`, `lock`, `txn`, `events`, `markdown`, `map`), the
pointer, and per process the next file operation `pc`, the call `op`, the parsed
transaction `tx`, its own result `mine` and the map it saw last, `seen`. A map is
the sequence of processes that changed it: revision is length, and digests are
equal iff the sequences are. Writes are temporary file plus rename, so atomic.

- `AcquireLock`, `FindLock`, `FindOwner`, `ReadOwner`, `StealLock`, `ReleaseLock`:
  `acquireDirectoryLock` and `recoverStaleLock`, one action per file operation,
  `Dead` for an owner that crashed. A pid is not reused.
- `FindTransaction` to `ClearTransaction`: `#recoverPendingTransaction`, one action
  per write, with its comparisons of digests and event history.
- `StartCreate`, `StartOpen`, `StartRead`, `StartUpdate`, `ReadMap`,
  `CommitTransaction`, `Cleanup`: constructor, create, read, update. `events` is
  a read whose result is not the map; it takes the same steps as `StartRead`.
- `WriteFails`, `DirectoryGone`, `Crash`: the call throws, or its process is gone.

`broken` records two races the design does not exclude: a lock *stolen* from its
live owner between inspection and rename, and a create *overtaken* by an opener
that finishes its journal. The promises are stated for `broken = {}`.


### ReviewExecutionLease

Variables: `file` and `recovery` (each `None`, created but `Empty`, `Dead`, or the
launcher it names), `pc`, `won`, and the `orphans`: reviews whose launcher was
killed. One action per file operation of acquire, replacement and release. A
launcher launches one review and exits. Exiting or crashing makes its pid dead.

### TicketEvidence

Shared: `work` (tree of the worktree), `receipt` (the file), `ticket`, `mapStatus`,
`revision`. Recorders: `Resolve`, `RunCommand`, `Measure`, `WriteReceipt`,
`AdvanceImplemented`, the parts of `recordVerification` between which others run.
Reviewers: `CollectDiff`, `Bind`, `ReadBack`, `Transition`, the parts of
`review/code` on a bound ticket; judgement is a nondeterministic verdict. Broker:
`StartFinish`, `PrepareCommit`, `Integrate`, `RecordIntegrated`, `Crash`. `Edit` is
whoever works in the managed shell, `RemoveLock` whoever removes a finish lock,
and the source branch is moved by others too.

Abstractions to know of:

- A diff is named by its tree, a receipt by attempt, stages and trees. Two
  recordings the code tells apart only by time are one; this merges receipts and
  can only make a comparison of receipts weaker than the code's.
- The candidate and the earlier receipt are read in one step (`Measure`): an edit
  and a complete second recording between the two reads are not separated.
- `raced` records that an edit happened between a command and the measurement, or
  between the evidence check and the index; the five tries of a transition are a
  nondeterministic end of retrying.
- `reconcileWorkMapReviewTransition`, which looks whether an update that threw was
  committed after all, has nothing to do where an update is one step.

### ManagedWorktree

Shared: `manifest[n]`, the lease file of a name (its lease, ticket, base, status and
whether a commit is prepared), `checkout[n]`, `ticket[t]`, `source` (the commits the
source branch received), `finished` (the finish evidence). A create is a process
`p`, which names its lease and the commit of that lease too; `job[p]` is what it
remembers, `fresh` the creates whose revision of the map is still current. A finish
is named by its worktree, since its lock admits one at a time; `finish[n]` is its
step.

- `StartCreate` to `ActivateLease`: `createManagedWorktree`, from the reconciliation
  of pending leases (`ReadPending`, `InspectPending`, `RecoverPending`,
  `DiscardTree`, `DiscardManifest`) to checkout, pending manifest, claim and active
  manifest. `FailCreate`, `RemoveCreated`, `ReadClaim`, `ReleaseClaim`,
  `DropManifest` are its clean-up; a step of it that fails too ends it (`Stuck`).
- `ProbeSucceeds`, `StartAbortActive`, `StartAbort`, `AbortTree`: what the caller
  does after the probe, and `abortCreatedManagedWorktree`.
- `StartFinish` to `FinishManifest`: `finishManagedWorktree`, including a second
  finish that continues from a prepared or integrated lease.
- `Work`, `Verify`, `Block`, `Resume`, `Cancel`, `UpdateOther`: what users and other
  operations do to checkout and ticket in between; `KillCreate`, `KillFinish`,
  `RemoveLock`: processes are killed, and somebody removes the lock one left.

`raced` records what the design does not exclude: a pending lease whose create
*live*s on is reconciled; a *stale* reading of a pending lease is acted upon; a
*name* is taken between the check and its use; a create is stopped in its own
*cleanup*. The promises hold without these; the second has a run (section 5).

### ControllerState

`record` is `browse.json`, `lock` and `guard` the startup and owner lock with their
`.reclaim` files; per process `pc`, `step` (where it is in taking or giving up a
lock) and `seen` (the record it read). A process runs once, so its name stands for
pid, start time, nonces and instance id together, which is what the code compares.

- `Look`, `Create`, `TakeGuard`, `Reread`, `UnlinkDead`, `Recreate`, `Unguard`,
  `ReadOwnLock`, `RemoveLock`: `acquireLock`, `reclaimLock`, `releaseOwnedLock`, one
  action per file operation, used for both locks.
- `Claim`, `Publish`, `RemoveOwn`, `Drop`: compare-and-swap of the record under the
  owner lock. `Status` is what a probe may answer, `Decide` the decision table.
- `Invoke` to `Wait`: an invocation of ensure, connect or disconnect, with both of
  its probes, the server it asks to stop or kills, and the one it spawns.
- `CheckHandoff`, `AdoptLock`, `ReadOwner`, `CheckOwner`, `Launch`,
  `StopServing`: a server from the adoption of the startup lock to its end.
- `Crash`: any process, between any two of these steps.

`hasty` records an invocation that gave up waiting for a server which was about to
adopt its lock: two processes then hold the startup lock. `dropped` holds live
servers whose record a disconnect removed. Only `StartupIsExclusive` is stated
without `hasty`, only `OneServerServes` without `dropped`.

### TerminalSession

The panel: `view`, `current`, `socket`, `inFlight`, `polling`, `page`; the server:
`leases`; the agent: `attached`, `byId`, `session` (its process, the connection it
believes live, whether it is detached, its timer and the timers it forgot, the
processes it told to end whose exit nobody heard of, and the SIGKILL timers set for
them). A call
of the panel is a number that stands for its token and its connection too.

- `Open`, `Input`, `Exit`, `AgentCloses`, `DetachTimeout`, `KillTimeout`: handlers and
  timers of the agent. `Disposed` sends SIGINT, sets the timer of the SIGKILL and
  forgets the process; `KillTimeout` looks for it in the session, as the code does,
  and finds none, or the one that a later message started.
- `Mint`, `Kill`, `Reattach`, `Dispose`: routes of the server and the requests to
  the agent they make.
- `Connect`, `Answer`, `Attach`, `ReattachAnswer`, `Retry`,
  `GiveUp`, `PanelCloses`, `ForceRestart`, `Hide`: handlers and loops of the panel.
- `Break`: a connection is lost. Requests may fail, leases expire at any time.

Both ends of a connection hear of its end separately and late (`cut`, `deaf`), which
is where the interleavings come from.


## 3. The runs

| Run | Instance | Shows |
|---|---|---|
| `work_map` | 4 tickets: a chain of three and one free of it, 2 leases, 2 trees, 2 commits, 2 attempts | type, delivery order, evidence binding, review chain, completion, finality |
| `store` | 2 processes, 3 revisions, 2 crashes, 1 failing write, fair | exclusion, recoverable journal, agreeing files and pointer, complete history, no acknowledged loss, journal applied in the end, refinement of the register |
| `review_lease` | 3 launchers, 2 crashes, 1 failing write, fair | one reviewer, live leases kept, one recovery, stale lease replaced |
| `evidence` | 1 recorder, 1 reviewer, 2 trees, 6 revisions, 2 attempts, 3 records, 1 crash, fair broker | receipts of their attempt, verification of the current receipt, reviewed and tested tree integrated, recorded commit received, refinement of `WorkMap`, a received commit is recorded |
| `worktree` | 3 creates, 2 names, 1 ticket, 1 kill, 1 failing step | a claim has a lease somebody can find, an active lease can be worked with, work is not thrown away |
| `controller` | 2 invocations, 2 servers, 1 crash | one holder of the owner lock, one server, a live server's record is not replaced, one holder of the startup lock, attended guards |
| `terminal` | 3 calls, 1 restart, 1 fault, fair | every process is held, leaving tells them all to end, reconnecting ends |
| `store_steal`, `evidence_green`, `worktree_removed`, `controller_drop`, `terminal_restart` | smallest that shows it | disagreements, section 5 |

Bounds, and why they are enough:

- *Two processes* of a store contend for every lock, and a crashed process that
  starts again is a third. *Three revisions* are a create and two updates, so a
  caller may be stale by one or two, and two updates may follow the same read.
- *Three launchers*: one whose lease is dead, two that find it. More are covered
  by the proof, which has no bound.
- *Four tickets*: two code tickets that overlap, an analysis that depends on one
  of them, and code that depends on the analysis; both delivery rules are on one
  path, and the fog refers to a ticket. The proof covers every map.
- *Two attempts* give one request for changes, so a receipt, a review and a command
  each may be of an earlier round. *Six revisions* are claim, implementation,
  verification and integration after the first, and one for a request for changes, a
  block or another ticket's update. *Three records* are red, green and one more. One
  recorder and one reviewer still overlap with each other, the editor and the broker;
  several recorders are covered by the proof, which has no bound. *Two trees*, one on
  which the command passes: the initial one fails, as RED asks.
- *Three creates, two names*: one that is killed or fails, one of its name, and one
  of its ticket under another name. One ticket is what they compete for; a create
  may also have none. The proofs cover any number of each.
- *Two invocations and two servers*: one of each that dies or hands over and one that
  finds what it left. More are covered by the proofs, which have no bound.
- *Three calls* of the panel are a connection, its re-attach and a restart, or two
  re-attaches, in which the close of the first connection may arrive after the next.
  Failing re-attaches are not counted, as the loop must end however many there are;
  one fault more is a connection that breaks or a process that exits, while leaving
  and restarting end connections of their own. Two loops at a time would need a fourth
  call; that processes stay held is proved for any number of calls and faults.
- Crashes and failures are bounded because each bound counts over all processes;
  two crashes let a recovery itself be interrupted.

Symmetry is used only in runs without liveness, over identities no action tells
apart (leases, trees and commits of `WorkMap`; creates and names; invocations and
servers). Two runs have a constraint. `Explored` of `store` cuts behaviours off
after a race, where every property it checks holds for good; an overtaken create is
followed as long as nothing else fails, so that a directory does disappear under a
call. `Unraced` of `worktree` cuts off after a race, about which its properties say
nothing. Deadlock is not checked where the bounds, a process that runs once, or a
finished ticket really end a behaviour.

Fairness:

- `WorkMapStore!FairSpec`: weak fairness of the next file operation of a call, as
  synchronous code goes on unless the process dies (a crash ends the call), and
  strong fairness of opening a store. Any later command of the user opens it, but
  not at one particular moment, so weak fairness would ask too little.
- `ReviewExecutionLease!FairSpec`: weak fairness of each launcher, including that
  a review is asked for again and that a running review ends.
- `TicketEvidence!FairSpec`: weak fairness of the broker alone: somebody who asked
  for the finish asks again. Nothing is assumed of recorders, reviewers, edits or
  of anybody removing a lock by hand.
- `TerminalSession!FairSpec`: weak fairness of the agent's close handlers and timers,
  those of SIGKILL included (an event loop runs what is due), of the server's answers and of the panel's
  reading of them; strong fairness of the end of the re-attach loop, which has a
  deadline of wall-clock time that no number of retries puts off. Nothing is assumed
  of the user, of the farewell a hidden page sends, or of a process that is told to end.

Every property of a passing run has a mutant: a variant of one action, defined
just before it and marked as such, on which TLC finds the property violated.


## 4. The proofs

The proof modules hold for every value of the constants that satisfies the named
assumptions: `DependencyAssumption` and `ValueAssumption` (any tickets with acyclic
dependencies), `LeaseAssumption` (any launchers, crashes, failures),
`EvidenceAssumption` (any recorders, reviewers, trees, rounds, crashes),
`StoreAssumption` (any processes, revisions, crashes, failing writes),
`ProcessesAreDistinct` and `CrashesAreBounded` (any invocations, servers, crashes),
`CallsAreBounded` (any calls, restarts, lost connections and failed requests),
`WorktreeAssumption` (any creates, names and tickets, kills and failing steps).

**Work Map.** `TypeCorrect`, `DependenciesAlwaysDelivered`, `EvidenceFollowsClaim`,
`EvidenceChainHolds`, `CompletedMapsAreDelivered`, `ClosedMapsAreSettled`,
`MappedMapHasNoClaim`, `VerifiedEvidenceNeverChanges` and `AttemptsNeverFall`; the
two that no run states are stated by the proofs alone. None of the invariants is
inductive. `IInv` adds, ticket by ticket, that a ticket without a claim has no
evidence and that a draft or ready ticket has no claim (`TicketInv`). Without the
first, a rollback followed by a claim would inherit evidence; without the second,
`MappedMapIsUnclaimed` would not survive a claim. The argument has two halves. Each
operation is shown to be a `Step`: it replaces one record by one that satisfies
`TicketInv` and does not take back what was verified (`TicketStep`), and moves the
map only in the allowed ways (`MapStep`). Then it is shown once that a `Step` keeps
`IInv`. The key lemma is `DeliveredIsStable`: what a dependent relied on when it was
claimed stays delivered. The action properties follow from the same `Step`.

**Review lease.** `LeaseTypeCorrect`, `LeaseExcludes`, `LeaseIsKept` and
`RecoveryExcludes`. Exclusion needs that the file names its holder; that a
replacement does not destroy this needs the lease to be dead when it is replaced,
hence one recovery at a time, hence that the recovery file names the launcher
inside (`RecoveryNamesOwner`); and the first writer must be alone
(`WriterIsAlone`). `IInv` is the conjunction.

**Ticket evidence.** `TypesAreCorrect`, `ReceiptIsOfTheAttempt`,
`VerifiedIsReviewed`, `ReviewedTreeIsIntegrated`, `CommitWasReceived`. `Inv` is the
conjunction of `TypeInv`, `JobInv`, `ReceiptInv`, `ReviewInv` and `BrokerInv`. The
argument is about what a recorder or a reviewer carries over the minutes it runs:
it may be out of date, but *unless the map was updated since*, it is of the ticket's
attempt and receipt (`JobIsCurrent`, `ReviewIsCurrent`). Every update raises the
revision, and every write back compares it, so what is attached is current. The
receipt file itself may be anybody's; only that it is well formed is invariant.

**Ticket evidence implements Work Map.** `EvidenceFollowsLifecycle` is the refinement
`Spec => LifecycleSpec`. `MapTicket` is the ticket as the map sees it. `MapInv` adds
to `Inv` that the status of a map of one ticket follows from the ticket's, also while
it is blocked (`MapFollows`), and that review and saved status do not outlive the
status they belong to (`FieldsFollow`). One lemma, `IsUpdate`, shows that a step
along the tables is an `Update`; one lemma per updating action shows that its
record is the one of the lifecycle operation; everything else is a stutter.

**Browse controller.** `TypesAreCorrect`, `RecordIsSwappedByOne`,
`ServersServeAlone`, `OwnersAreReplacedDead`, `ServersStartAlone`. Exclusion under the owner lock needs
that a process behind a guard made it (`GuardsAreOwn`), so that only one unlinks;
that what it unlinks names a dead process (`UnlinkedIsDead`), which holds because
nobody but its owner and whoever is behind the guard changes the lock; and that the
lock names the one inside (`OwnersAreNamed`). Given that, a server that is ready has
its record in the file (`ReadyIsPublished`), and whoever claims the record found
none or one of a dead server (`ClaimsAreOfDead`): the swap compares. The startup lock
is not needed for any of this; its own exclusion uses the same guards (`StartsWell`).
Its lock file names whoever starts or stops a server or is about to remove it, and
what is unlinked names a dead process. A handoff keeps this, because the lock that a
server is adopting is the one of an invocation that waits for that server or died,
until somebody gives that wait up, which is `hasty`.

**Terminal.** `TerminalTypes` and `ProcessStaysHeld`. `ProcessIsHeld` is inductive
only with what ties the two ends together. The agent has a connection attached iff
it has not heard its end (`ConnectionsAreBound`, `AgentHears`), so the connection
that a running process believes live is either attached or closed by a handler that
sets a timer; a session was made by a connection that was opened, which fixes its id
(`SessionsWereOpened`), so no two sessions are exchanged under one id; and every
timer was set at the end of another connection (`TimersAreCounted`), which bounds
the timers a session forgets by the calls there are.

**Work Map store.** `StoreTypesAreCorrect`, `LockExcludes`, `JournalStaysRecoverable`,
`FilesAlwaysAgree`, `HistoryStaysComplete`, `NothingAcknowledgedIsLost` and
`StoreIsARegister`, the refinement. `Inv` is `TypeInv` and, for `broken = {}`,
`StoreInv`: of the files `FilesInv`, of every call `CallInv`. Its parts are what a
process may rely on while others run. The lock names its owner (`LockIsOwn`). A
create has no lock, so it needs that its journal stays until it clears it
(`CreateFits`) and that before its journal nothing is on disk and nobody but a
creator runs (`Blank`, `Early`). Whoever applies a journal applies the one on disk,
or that of a create which cleared it meanwhile, and has written what it is past
(`ApplyFits`); hence files and journal fit wherever it stops. An update is of the
map on disk, which its caller saw (`UpdateFits`), so what is known stays a prefix of
what is committed (`Knows`, `Acknowledged`). The refinement follows as the committed
map changes only when a journal is written (`CommittedChanges`); applying and
clearing it, crashes and recoveries included, are stutters of the register.

**Managed worktrees.** `WorktreeTypes`, `ClaimKeepsItsLease`, `ActiveLeaseStaysUsable`
and `WorkStaysKept`. `Inv` is `TypeInv` and, for `raced = {}`, `Good`; a race that was
lost stays lost (`RacesStay`). `Good` has three parts. `Creates`: what each create has
at each of its steps of checkout, manifest and claim (`CreateInv`), and that the owner
of a lease which another create found pending is over, with nothing it had touched
since (`FinderInv`). `Kept`, of every name: what its manifest says of checkout, create
and claim (`LeaseInv`), that only a create which is over has work in its checkout
(`TreeInv`), and that a finish works on the lease the manifest has, whose commit has
reached the source branch and the ticket before anything is removed (`FinishInv`).
`Settled`: a lease has one manifest, and a claim without a commit has that of its lease
(`TicketInv`). No property is inductive without the rest: that a killed create leaves
its manifest behind rests on the order of every clean-up, claim before manifest, and
that a lease without a claim may be discarded rests on its owner being over, which
cannot claim any more. A step disturbs one create and one name: `OthersKeep`,
`LeaseKeeps`, `FinishKeeps` and `TicketKeeps` say what the others keep, `CreateMoves`,
`CreateWrites`, `CreateSaves`, `FinderWrites` and `StaysGood` assemble the invariant
from that, and one lemma per action supplies the facts. `WorkIsKept` needs in addition
that only a finish removes a checkout with work in it (`OnlyFinishRemoves`).

**Checked only by TLC.** Liveness: `JournalIsApplied`, `StaleLeaseIsReplaced`,
`IntegrationIsRecorded`, `LeavingSignalsProcesses` and `ReconnectingEnds`. The prover has
no rule for ENABLED, so nothing that rests on fairness is in its reach. Every
invariant and every action property that a passing run checks is a theorem, and so
are both refinements. There is no induction over data in the prover either: no proof
here needs one.

## 5. Where code and documents disagree

Each of these has a run that ends in a counterexample; `PROJECT.json` quotes the line.

1. `store_steal`: a lock inspected while it changes hands is moved aside from its
   live owner, and an acknowledged update is overwritten.
2. `evidence_green`: the candidate is measured after the command, and need not be
   the tree it ran on.
3. `worktree_removed`: two creates that find the pending lease of a killed one both
   reconcile it, and the second removes the checkout and the work of the first.
4. `controller_drop`: disconnecting a healthy server that is not headed removes its
   record and leaves it running.
5. `terminal_restart`: a re-attach that waits for its answer survives a click on
   Restart and attaches to the session being disposed of.

Met on the way, in the models and without a run of their own:

- *Work Map.* When two code tickets are verified before either is integrated,
  integrating the first moves the map back to *executing*, from where *completed* is
  not reachable, and the second cannot be integrated. Cancelling the last open ticket
  closes a map over a verified ticket that waits for its integration. A map may be
  created with a blocked ticket that has a `blockedFrom` and no claim, which can
  never be resumed.
- *Store.* Create does not hold the lock of its map: an opener finishes the journal,
  create then fails on it and removes the directory the pointer names (`overtaken`).
- *Review lease.* The review runtime survives its launcher, whose lease is then
  replaced. A `.recovery` file whose launcher died blocks every later recovery
  (`StaleLeaseIsReplaced` says so), and so does a lease file whose record could not
  be written.
- *Evidence.* A recorder that started before a verification may replace the receipt
  of the verified ticket, after which the finish refuses it. An edit between the
  evidence check and the index of a finish is committed unreviewed
  (`IntegratedTreeIsReviewed` excludes it by `raced`). The finish lock of a killed
  finish is never stale (`managed-worktree-contract.ts:347`), so the recovery behind
  it is reached only after removing the file by hand.
- *Worktree.* Two creates may find one name free; the clean-up of the one whose
  checkout fails removes the manifest of the other (*name*). A create that is stopped
  in its own clean-up may leave a claim without a lease (*cleanup*).
- *Controller.* An invocation that gives up waiting releases the startup lock that
  the server it spawned is about to adopt (*hasty*); the record is safe all the same.
  `prepareReplaceableController` goes on to spawn a server when its second probe
  finds the old one healthy; the claim of the new one then fails.
- *Terminal.* `disposeSession` forgets its process (`terminal-agent.ts:366`) before the
  timer of its SIGKILL looks for it (362), so the escalation never reaches it, although
  the comment at 355 and `terminal-agent.test.ts:169` speak of one: a process that
  survives SIGINT runs on with nobody to end it, after the panel was left too. That is
  why `LeavingSignalsProcesses` promises the signal alone. If the session got another
  process within the 3 s, the timer kills that one. The close of a connection that was replaced detaches the re-attached
  session, which is later disposed of under its live connection. A process that exits
  while its session is detached is never reported. A re-attach after the 60 s timer
  gets a new, empty session, although `sidepanel-terminal.js:195-198` expects a 410.
  `tryAutoConnect` stops polling after one failed connect, although the comment at
  `server.ts:447` relies on it to go on. `/internal/lease-refresh` has no caller,
  although `server.ts:2235-2243` says that the agent calls it.

## 6. Not modelled

- *Work Map store*: the lock and time-out of the active pointer (its write is one
  step) and `setActive`, which only tests call.
- *Receipts*: the manual, check and analysis modes of a recording.
- *Controller*: the supervisor and the restart of `sendCommand` in `cli.ts`, updates
  of the record for Xvfb and tunnels, which keep its owner.
- *Terminal*: the limit of the lease table, the replay buffer, restarts of the agent.
- *Trackers*: the preview store, partial application of approved changes, the remote
  side. What they do to a map is the block, resume, cancel and claim of `WorkMap`.
- *Workflow loop, review stores, iOS daemon*: sequential code over files one run
  owns, or a lock close to the controller's; candidates of section 7.
- Browser automation, design, PDF, knowledge index and the installer are I/O with
  little state of their own; hooks and the cross-review gate decide about one input
  at a time; skills, rules and generated tables are text. These are most of the
  repository's lines.

## 7. Plan

Next modules, in this order:

1. `TrackerSync`: previews, approvals and partial application over the revisions of
   a map, with updates in between and a remote side that fails.
2. The supervisor of `cli.ts`, as one more actor of `ControllerState`.
3. `WorkflowLoop`: phases, gates and budgets; analysis and manual receipts in
   `TicketEvidence`.

Next proofs:

1. Which of the races of a managed worktree endangers which property: its theorems
   under hypotheses weaker than `raced = {}`.
2. The invariants of the next modules, beside them.
