---------------------------- MODULE WorkMapStore ----------------------------
(***************************************************************************)
(* How one Work Map is kept on disk: the directory lock of the work id     *)
(* with its stale-owner recovery, the compare-and-swap of update, and the  *)
(* journal every change goes through (transaction.json, then the event     *)
(* log, the markdown, the map, the active pointer, and the removal of the  *)
(* journal).  Processes interleave at every file operation, may crash      *)
(* between any two, and any write may fail.                                *)
(*                                                                         *)
(* What a map says does not matter here, only which changes it contains: a *)
(* map is the sequence of the processes that changed it, so its revision   *)
(* is its length, two maps have one digest iff they are equal, and <<>> is *)
(* the file that is not there.  An event is identified by the map it       *)
(* records.                                                                *)
(***************************************************************************)
EXTENDS Integers, Sequences, SequencesExt

CONSTANTS
  Processes,     \* processes that use the state directory
  Creator,       \* the process that creates the map
  MaxRevision,   \* bound on the revisions of the map
  MaxCrashes,    \* bound on the crashes of all processes together
  MaxFailures,   \* bound on the writes that fail
  Dead,          \* a lock owner that crashed
  None           \* a file that does not exist, an owner that is not there

ASSUME StoreAssumption ==
  /\ Creator \in Processes
  /\ MaxRevision \in Nat \ {0}
  /\ MaxCrashes \in Nat
  /\ MaxFailures \in Nat
  /\ Dead \notin Processes /\ None \notin Processes /\ Dead # None
  /\ None \notin [before : Seq(Processes), map : Seq(Processes), create : BOOLEAN]

VARIABLES
  \* the work directory
  dir,           \* does it exist?
  lock,          \* .update-lock: None, or the process its owner file names
  txn,           \* transaction.json: None, or [before, map, create]
  events,        \* events.jsonl
  markdown,      \* map.md
  map,           \* map.json
  pointer,       \* does active.json name this map?
  \* the processes
  pc,            \* pc[p]: the file operation p does next
  op,            \* op[p]: the call p is in
  tx,            \* tx[p]: the transaction p has parsed
  mine,          \* mine[p]: the map p's own update or read returns, <<>> before
  seen,          \* seen[p]: the map p saw last, whose revision it expects to update
  crashes,       \* how many processes crashed; a restart is a new process
  failures,      \* how many writes failed
  \* history
  acked,         \* the maps returned to a caller of create or update
  broken         \* which of the two races happened: "stolen", "overtaken"

disk == <<dir, lock, txn, events, markdown, map, pointer>>
local == <<op, tx, mine, seen>>
faults == <<crashes, failures>>
vars == <<disk, pc, local, faults, acked, broken>>

-----------------------------------------------------------------------------
Revision(m) == Len(m)

Goto(p, step) == pc' = [pc EXCEPT ![p] = step]

\* What a process does when a call of it throws: create looks at the journal,
\* every other call runs its `finally` and releases the lock.
Throw(p) ==
  /\ Goto(p, IF op[p] = "create" THEN "cleanup" ELSE "release")
  /\ mine' = [mine EXCEPT ![p] = <<>>]
  /\ tx' = [tx EXCEPT ![p] = None]
  /\ UNCHANGED <<op, seen, acked>>

\* The call is over, and what it worked with is gone.
Return(p) ==
  /\ Goto(p, "idle")
  /\ op' = [op EXCEPT ![p] = "none"]
  /\ mine' = [mine EXCEPT ![p] = <<>>]
  /\ tx' = [tx EXCEPT ![p] = None]

\* A call that ends before it holds the lock has nothing to undo.
GiveUp(p) == Return(p) /\ UNCHANGED seen

-----------------------------------------------------------------------------
(* The calls.  Opening a store recovers a pending transaction it finds;    *)
(* reading and updating need the id of the map, which the pointer gives.   *)

\* Mutant: create does not look for an existing work directory.
CreateOverExisting(p) ==
  /\ pc[p] = "idle" /\ p = Creator
  /\ dir' = TRUE
  /\ op' = [op EXCEPT ![p] = "create"]
  /\ tx' = [tx EXCEPT ![p] = [before |-> <<>>, map |-> <<p>>, create |-> TRUE]]
  /\ Goto(p, "commit")
  /\ UNCHANGED <<lock, txn, events, markdown, map, pointer, mine, seen,
                 faults, acked, broken>>

StartCreate(p) ==
  /\ pc[p] = "idle" /\ p = Creator
  /\ ~dir /\ ~pointer
  /\ dir' = TRUE
  /\ op' = [op EXCEPT ![p] = "create"]
  /\ tx' = [tx EXCEPT ![p] = [before |-> <<>>, map |-> <<p>>, create |-> TRUE]]
  /\ Goto(p, "commit")
  /\ UNCHANGED <<lock, txn, events, markdown, map, pointer, mine, seen,
                 faults, acked, broken>>

StartOpen(p) ==
  /\ pc[p] = "idle"
  /\ dir /\ txn # None
  /\ op' = [op EXCEPT ![p] = "open"]
  /\ Goto(p, "lock")
  /\ UNCHANGED <<disk, mine, tx, seen, faults, acked, broken>>

StartRead(p) ==
  /\ pc[p] = "idle"
  /\ pointer
  /\ op' = [op EXCEPT ![p] = "read"]
  /\ Goto(p, "lock")
  /\ UNCHANGED <<disk, mine, tx, seen, faults, acked, broken>>

StartUpdate(p) ==
  /\ pc[p] = "idle"
  /\ pointer
  /\ seen[p] # <<>> /\ Revision(seen[p]) < MaxRevision
  /\ op' = [op EXCEPT ![p] = "update"]
  /\ Goto(p, "lock")
  /\ UNCHANGED <<disk, mine, tx, seen, faults, acked, broken>>

-----------------------------------------------------------------------------
(* acquireDirectoryLock with no timeout: a directory that already names    *)
(* its owner is renamed into place.  When that fails, the lock that is in  *)
(* the way is looked at, and moved aside when its owner is gone.           *)

\* Mutant: an empty directory is renamed into place, over whatever is there.
AcquireAnyLock(p) ==
  /\ pc[p] = "lock"
  /\ IF ~dir THEN GiveUp(p) /\ UNCHANGED lock
             ELSE lock' = p /\ Goto(p, "recover") /\ UNCHANGED local
  /\ UNCHANGED <<dir, txn, events, markdown, map, pointer, faults, acked, broken>>

AcquireLock(p) ==
  /\ pc[p] = "lock"
  /\ IF ~dir
       THEN GiveUp(p) /\ UNCHANGED lock
       ELSE IF lock = None
              THEN lock' = p /\ Goto(p, "recover") /\ UNCHANGED local
              ELSE Goto(p, "contended") /\ UNCHANGED <<lock, local>>
  /\ UNCHANGED <<dir, txn, events, markdown, map, pointer, faults,
                 acked, broken>>

\* existsSync and lstat of the lock that was in the way.
FindLock(p) ==
  /\ pc[p] = "contended"
  /\ IF lock = None THEN GiveUp(p) ELSE Goto(p, "ownerCheck") /\ UNCHANGED local
  /\ UNCHANGED <<disk, faults, acked, broken>>

\* A lock without an owner file is taken for one that was never finished.
FindOwner(p) ==
  /\ pc[p] = "ownerCheck"
  /\ Goto(p, IF lock = None THEN "steal" ELSE "ownerRead")
  /\ UNCHANGED <<disk, local, faults, acked, broken>>

\* Mutant: a lock that names an owner is never recovered.
RefuseAnyOwner(p) ==
  /\ pc[p] = "ownerRead"
  /\ GiveUp(p)
  /\ UNCHANGED <<disk, faults, acked, broken>>

ReadOwner(p) ==
  /\ pc[p] = "ownerRead"
  /\ IF lock # Dead
       THEN GiveUp(p)
       ELSE Goto(p, "steal") /\ UNCHANGED local
  /\ UNCHANGED <<disk, faults, acked, broken>>

\* The rename moves whatever lock is there by now.
StealLock(p) ==
  /\ pc[p] = "steal"
  /\ IF lock = None
       THEN GiveUp(p) /\ UNCHANGED <<lock, broken>>
       ELSE /\ lock' = None
            /\ broken' = IF lock # Dead THEN broken \cup {"stolen"} ELSE broken
            /\ Goto(p, "lock")
            /\ UNCHANGED local
  /\ UNCHANGED <<dir, txn, events, markdown, map, pointer, faults, acked>>

\* The owner named by the lock must be the caller; what the call returns is
\* returned only when the release succeeds.
ReleaseLock(p) ==
  /\ pc[p] = "release"
  /\ IF lock = p
       THEN /\ lock' = None
            /\ seen' = [seen EXCEPT ![p] =
                          IF mine[p] # <<>> THEN mine[p] ELSE @]
            /\ acked' = IF op[p] = "update" /\ mine[p] # <<>>
                          THEN acked \cup {mine[p]} ELSE acked
       ELSE UNCHANGED <<lock, seen, acked>>
  /\ Return(p)
  /\ UNCHANGED <<dir, txn, events, markdown, map, pointer, faults, broken>>
-----------------------------------------------------------------------------
(* recoverPendingTransaction: apply the journal found on disk.  A call     *)
(* that has written its own journal (mine is set) is finished by it; every *)
(* other call goes on with what it was called for.                         *)

AfterRecovery(p) ==
  IF op[p] = "create"
    THEN /\ Return(p)
         /\ acked' = acked \cup {mine[p]}
         /\ seen' = [seen EXCEPT ![p] = mine[p]]
    ELSE /\ Goto(p, IF mine[p] # <<>> \/ op[p] = "open" THEN "release" ELSE "read")
         /\ tx' = [tx EXCEPT ![p] = None]
         /\ UNCHANGED <<op, mine, acked, seen>>

FindTransaction(p) ==
  /\ pc[p] = "recover"
  /\ \/ /\ txn = None
        /\ AfterRecovery(p)
     \/ /\ txn # None
        /\ map \in {txn.before, txn.map}
        /\ tx' = [tx EXCEPT ![p] = txn]
        /\ Goto(p, "event")
        /\ UNCHANGED <<mine, op, seen, acked>>
     \/ /\ txn # None
        /\ map \notin {txn.before, txn.map}
        /\ Throw(p)
  /\ UNCHANGED <<disk, faults, broken>>

LastRevision == IF events = <<>> THEN 0 ELSE Revision(Last(events))

\* Mutant: recovery writes the event without looking for it.
WriteEventAgain(p) ==
  /\ pc[p] = "event" /\ dir
  /\ events' = Append(events, tx[p].map)
  /\ Goto(p, "markdown")
  /\ UNCHANGED <<dir, lock, txn, markdown, map, pointer, local, faults, acked, broken>>

\* Mutant: a journal whose event is in the log needs only its map.
SkipMarkdown(p) ==
  /\ pc[p] = "event" /\ dir
  /\ IF events # <<>> /\ Last(events) = tx[p].map
       THEN Goto(p, "map") /\ UNCHANGED events
       ELSE Goto(p, "markdown") /\ events' = Append(events, tx[p].map)
  /\ UNCHANGED <<dir, lock, txn, markdown, map, pointer, local, faults, acked, broken>>

\* An event that is already in the log is not written twice.
WriteEvent(p) ==
  LET new == tx[p].map
      logged == {e \in ToSet(events) : Revision(e) = Revision(new)}
      fits == IF logged = {} THEN LastRevision = Revision(tx[p].before)
                             ELSE logged = {new}
  IN
  /\ pc[p] = "event" /\ dir
  /\ IF fits
       THEN /\ events' = IF logged = {} THEN Append(events, new) ELSE events
            /\ Goto(p, "markdown")
            /\ UNCHANGED <<local, acked>>
       ELSE Throw(p) /\ UNCHANGED events
  /\ UNCHANGED <<dir, lock, txn, markdown, map, pointer, faults, broken>>

WriteMarkdown(p) ==
  /\ pc[p] = "markdown" /\ dir
  /\ markdown' = tx[p].map
  /\ Goto(p, "map")
  /\ UNCHANGED <<dir, lock, txn, events, map, pointer, local, faults,
                 acked, broken>>

WriteMap(p) ==
  /\ pc[p] = "map" /\ dir
  /\ map' = tx[p].map
  /\ Goto(p, IF tx[p].create THEN "pointer" ELSE "clear")
  /\ UNCHANGED <<dir, lock, txn, events, markdown, pointer, local, faults,
                 acked, broken>>

\* The pointer file lies outside the work directory and has a lock of its own,
\* which is waited for; the write is one step here.
WritePointer(p) ==
  /\ pc[p] = "pointer"
  /\ pointer' = TRUE
  /\ Goto(p, "clear")
  /\ UNCHANGED <<dir, lock, txn, events, markdown, map, local, faults,
                 acked, broken>>

\* Removing a journal that is gone is an error.
ClearTransaction(p) ==
  /\ pc[p] = "clear"
  /\ IF txn = None
       THEN Throw(p) /\ UNCHANGED <<txn, broken>>
       ELSE /\ txn' = None
            /\ AfterRecovery(p)
            /\ broken' = IF /\ p # Creator /\ op[Creator] = "create"
                            /\ pc[Creator] \notin {"idle", "commit"}
                           THEN broken \cup {"overtaken"} ELSE broken
  /\ UNCHANGED <<dir, lock, events, markdown, map, pointer, faults>>

-----------------------------------------------------------------------------
(* readMap, the comparison of revisions, and the new journal.              *)

\* Mutant: the revisions are not compared.
UpdateAnyRevision(p) ==
  /\ pc[p] = "read"
  /\ IF op[p] = "update"
       THEN /\ tx' = [tx EXCEPT ![p] =
                       [before |-> map, map |-> Append(map, p), create |-> FALSE]]
            /\ Goto(p, "commit") /\ UNCHANGED mine
       ELSE /\ mine' = [mine EXCEPT ![p] = map]
            /\ Goto(p, "release") /\ UNCHANGED tx
  /\ UNCHANGED <<disk, op, seen, faults, acked, broken>>

ReadMap(p) ==
  LET intact == map # <<>> /\ events # <<>> /\ Last(events) = map IN
  /\ pc[p] = "read"
  /\ \/ /\ intact /\ op[p] = "read"
        /\ mine' = [mine EXCEPT ![p] = map]
        /\ Goto(p, "release")
        /\ UNCHANGED <<op, tx, seen, acked>>
     \/ /\ intact /\ op[p] = "update"
        /\ Revision(seen[p]) = Revision(map)
        /\ tx' = [tx EXCEPT ![p] =
                    [before |-> map, map |-> Append(map, p), create |-> FALSE]]
        /\ Goto(p, "commit")
        /\ UNCHANGED <<op, mine, seen, acked>>
     \/ /\ ~intact \/ (op[p] = "update" /\ Revision(seen[p]) # Revision(map))
        /\ Throw(p)
  /\ UNCHANGED <<disk, faults, broken>>

CommitTransaction(p) ==
  /\ pc[p] = "commit" /\ dir
  /\ txn' = tx[p]
  /\ mine' = [mine EXCEPT ![p] = tx[p].map]
  /\ Goto(p, "recover")
  /\ UNCHANGED <<dir, lock, events, markdown, map, pointer, op, tx, seen,
                 faults, acked, broken>>

\* Mutant: a failed create removes the work directory, journal and all.
CleanupAlways(p) ==
  /\ pc[p] = "cleanup"
  /\ dir' = FALSE /\ lock' = None /\ txn' = None
  /\ events' = <<>> /\ markdown' = <<>> /\ map' = <<>>
  /\ Return(p)
  /\ UNCHANGED <<pointer, seen, faults, acked, broken>>

\* The `catch` of create: without a journal there is nothing to recover, and
\* the work directory is removed.
Cleanup(p) ==
  /\ pc[p] = "cleanup"
  /\ IF txn = None
       THEN /\ dir' = FALSE
            /\ lock' = None
            /\ events' = <<>>
            /\ markdown' = <<>>
            /\ map' = <<>>
       ELSE UNCHANGED <<dir, lock, events, markdown, map>>
  /\ Return(p)
  /\ UNCHANGED <<txn, pointer, seen, faults, acked, broken>>

-----------------------------------------------------------------------------
(* What may go wrong.                                                      *)

WriteSteps == {"commit", "event", "markdown", "map", "pointer", "clear"}

WriteFails(p) ==
  /\ pc[p] \in WriteSteps
  /\ failures < MaxFailures
  /\ failures' = failures + 1
  /\ Throw(p)
  /\ UNCHANGED <<disk, crashes, broken>>

\* The directory was removed under a call that writes into it.
DirectoryGone(p) ==
  /\ pc[p] \in {"commit", "event", "markdown", "map"}
  /\ ~dir
  /\ Throw(p)
  /\ UNCHANGED <<disk, faults, broken>>

Crash(p) ==
  /\ pc[p] # "idle"
  /\ crashes < MaxCrashes
  /\ crashes' = crashes + 1
  /\ lock' = IF lock = p THEN Dead ELSE lock
  /\ Return(p)
  /\ seen' = [seen EXCEPT ![p] = <<>>]
  /\ UNCHANGED <<dir, txn, events, markdown, map, pointer, failures, acked, broken>>

-----------------------------------------------------------------------------
Init ==
  /\ dir = FALSE
  /\ lock = None
  /\ txn = None
  /\ events = <<>>
  /\ markdown = <<>>
  /\ map = <<>>
  /\ pointer = FALSE
  /\ pc = [p \in Processes |-> "idle"]
  /\ op = [p \in Processes |-> "none"]
  /\ tx = [p \in Processes |-> None]
  /\ mine = [p \in Processes |-> <<>>]
  /\ seen = [p \in Processes |-> <<>>]
  /\ crashes = 0
  /\ failures = 0
  /\ acked = {}
  /\ broken = {}

Start(p) == StartCreate(p) \/ StartOpen(p) \/ StartRead(p) \/ StartUpdate(p)

\* The next file operation of a call that is under way.
Continue(p) ==
  \/ AcquireLock(p) \/ FindLock(p) \/ FindOwner(p) \/ ReadOwner(p) \/ StealLock(p)
  \/ FindTransaction(p) \/ WriteEvent(p) \/ WriteMarkdown(p) \/ WriteMap(p)
  \/ WritePointer(p) \/ ClearTransaction(p)
  \/ ReadMap(p) \/ CommitTransaction(p)
  \/ DirectoryGone(p) \/ Cleanup(p) \/ ReleaseLock(p)

Next == \E p \in Processes : Start(p) \/ Continue(p) \/ WriteFails(p) \/ Crash(p)

Spec == Init /\ [][Next]_vars
-----------------------------------------------------------------------------
(* Properties.  The directory lock can be taken from a live owner, and     *)
(* create works without it; what the store promises is stated for the runs *)
(* in which neither race happened, and once more for the stolen lock.      *)

TypeOK ==
  /\ dir \in BOOLEAN /\ pointer \in BOOLEAN
  /\ lock \in Processes \cup {None, Dead}
  /\ txn # None => txn.map \in Seq(Processes) /\ txn.before \in Seq(Processes)
  /\ events \in Seq(Seq(Processes))
  /\ map \in Seq(Processes) /\ markdown \in Seq(Processes)
  /\ Revision(map) <= MaxRevision
  /\ crashes \in 0 .. MaxCrashes /\ failures \in 0 .. MaxFailures
  /\ broken \subseteq {"stolen", "overtaken"}

\* What a reader gets once the journal is applied: the map is changed by
\* writing the journal, everything after that only catches up.
Committed == IF txn # None THEN txn.map ELSE map

Locked(p) ==
  op[p] # "create" /\ pc[p] \in {"recover", "read", "release"} \cup WriteSteps

\* Two processes are never both inside the section the lock of the map guards,
\* whatever crashes and whoever recovers the lock of a dead owner.
MutualExclusion ==
  broken = {} => \A p, q \in Processes : Locked(p) /\ Locked(q) => p = q

\* A journal on disk can be applied from any point at which the process that was
\* applying it stopped: the map is the one before or the one after, and the log
\* ends with the event of one of the two.
JournalIsRecoverable ==
  broken = {} /\ txn # None =>
    /\ map \in {txn.before, txn.map}
    /\ \/ events = <<>> /\ txn.before = <<>>
       \/ events # <<>> /\ Last(events) \in {txn.before, txn.map}

\* Without a journal the files agree: the log ends with the map's own event, and
\* the markdown shows the map; and the active pointer never names a map that is
\* not there, with or without a journal.
FilesAgree ==
  broken = {} =>
    /\ txn = None /\ dir =>
         /\ markdown = map
         /\ IF events = <<>> THEN map = <<>> ELSE map = Last(events)
    /\ pointer => dir /\ Committed # <<>>

\* The log has one event for every revision, each one change after the previous.
HistoryIsComplete ==
  broken = {} =>
    \A i \in DOMAIN events :
      /\ Revision(events[i]) = i
      /\ i > 1 => events[i - 1] = Front(events[i])

\* No update is lost: a change that was acknowledged is part of every later map,
\* whatever is stale, crashes or fails, and an update is a change of the very map
\* its caller saw, not of another one with the same revision: the number alone is
\* enough to compare.
AcknowledgedSurvive ==
  broken = {} =>
    /\ \A m \in acked : IsPrefix(m, Committed)
    /\ \A p \in Processes :
         op[p] = "update" /\ mine[p] # <<>> => Front(mine[p]) = seen[p]

\* The journal of a change that was committed is finished in the end, by any
\* process that opens the store, although the one that wrote it may be gone and
\* its lock still be in place.
JournalIsApplied ==
  (txn # None) ~> (txn = None \/ broken # {})

\* A call that is under way goes on, and a process that finds a journal again and
\* again opens the store in the end.
Fairness ==
  \A p \in Processes : WF_vars(Continue(p)) /\ SF_vars(StartOpen(p))

FairSpec == Spec /\ Fairness

\* The register the store implements.
Register == INSTANCE WorkMapRegister WITH value <- Committed, faulty <- broken # {}
RegisterSpec == Register!Spec

-----------------------------------------------------------------------------
(* The promise with the stolen lock counted in.                            *)

\* "A stale revision overwrites a newer map": an acknowledged change is lost
\* although the map itself was never removed.
NoAcknowledgedChangeIsLost ==
  dir => \A m \in acked : IsPrefix(m, Committed)
=============================================================================
