-------------------------- MODULE ControllerState --------------------------
(***************************************************************************)
(* Who controls the browser of a project: the file browse.json names one   *)
(* server, and every `browse` invocation goes by it.  An invocation starts,*)
(* restarts or disconnects a server under the startup lock and hands that  *)
(* lock to the server it spawns; a server takes, publishes and gives up    *)
(* the file by compare-and-swap under the owner lock.  Both locks are files*)
(* created exclusively; one whose holder is dead is replaced under a guard *)
(* file, which is never stolen.                                            *)
(*                                                                         *)
(* Every process runs once, so its name stands for its pid, start time,    *)
(* nonces and instance id together; a gone process is a dead pid.          *)
(***************************************************************************)
EXTENDS Naturals, FiniteSets

CONSTANTS
  Clis,          \* invocations of `browse`
  Servers,       \* processes of server.ts
  MaxCrashes,    \* bound on the processes that crash
  None,          \* the file does not exist; no process
  Empty          \* the lock was created, its record is not written

ASSUME ProcessesAreDistinct ==
  /\ Clis \cap Servers = {}
  /\ None \notin Clis \cup Servers /\ Empty \notin Clis \cup Servers
  /\ None # Empty

ASSUME CrashesAreBounded == MaxCrashes \in Nat

VARIABLES
  record,        \* browse.json: None or the server it names
  lock,          \* lock[l]: None, Empty or the process the lock file names
  guard,         \* guard[l]: None or the process whose .reclaim file exists
  pc,            \* pc[p]: what process p is doing
  step,          \* step[p]: where it is in taking or releasing a lock
  seen,          \* seen[p]: the record p read before it went on
  op,            \* op[c]: what invocation c was asked for
  launched,      \* launched[s]: the invocation whose lock s shall adopt
  ready,         \* the servers that published themselves as ready
  crashes,       \* how many processes crashed
  hasty,         \* did an invocation give up on a server that had no lock yet?
  dropped        \* live servers whose record a disconnect removed

vars == <<record, lock, guard, pc, step, seen, op, launched, ready, crashes,
          hasty, dropped>>
files == <<record, lock, guard>>
facts == <<op, launched, ready, crashes, hasty, dropped>>

Procs == Clis \cup Servers
Locks == {"startup", "owner"}

Gone(p) == pc[p] = "gone"
Dead(content) == content \in Procs /\ Gone(content)

\* The work for which a process takes the lock of the record.
OwnerJobs == {"claim", "publish", "undo", "resign", "drop"}
Lock(p) == IF pc[p] \in OwnerJobs THEN "owner" ELSE "startup"

FirstStep(job) ==
  IF job \in OwnerJobs \cup {"enter"} THEN "look"
  ELSE IF job = "adopt" THEN "guard"
  ELSE IF job = "leave" THEN "release" ELSE "none"

Goto(p, job) ==
  /\ pc' = [pc EXCEPT ![p] = job]
  /\ step' = [step EXCEPT ![p] = FirstStep(job)]

Step(p, next) == step' = [step EXCEPT ![p] = next] /\ UNCHANGED pc

-----------------------------------------------------------------------------
(* inspectControllerState and decideControllerTransition.                  *)

\* What a probe of server s may say.  It is dead only when it is gone, and
\* healthy only when it serves the instance that the record names as ready; a
\* process that cannot be probed is unknown, dead or alive.
Status(s) ==
  IF Gone(s) THEN {"dead", "unknown"}
  ELSE {"unreachable", "unknown"}
       \cup (IF s \in ready THEN {"healthy"} ELSE {})
       \cup (IF s \in ready \/ pc[s] = "publish" THEN {"unhealthy"} ELSE {})

\* Mutant: a server that does not answer is replaced.
DecideByHealth(status) ==
  IF status = "healthy" THEN "reuse"
  ELSE IF status \in {"dead", "unreachable"} THEN "replace" ELSE "refuse"

Decide(status) ==
  IF status = "healthy" THEN "reuse"
  ELSE IF status = "dead" THEN "replace" ELSE "refuse"

-----------------------------------------------------------------------------
(* acquireLock, reclaimLock, releaseOwnedLock.                             *)

\* The lock is not to be had.  An invocation waits for whoever has it and ends
\* with what that one starts, or tries again when it connects; a server gives up
\* what it was doing, and one that rolls back or exits tries again before it
\* leaves its record behind.
Refused(p) ==
  \/ pc[p] \in {"enter", "adopt", "resign"} /\ Goto(p, "gone")
  \/ pc[p] \in {"claim", "undo", "drop"} /\ Goto(p, "leave")
  \/ pc[p] = "publish" /\ Goto(p, "undo")
  \/ pc[p] \in {"undo", "resign"} /\ Step(p, "look")
  \/ p \in Clis /\ pc[p] = "enter" /\ op[p] = "connect" /\ Step(p, "look")

\* acquireLock: no guard may exist.
Look(p) ==
  /\ step[p] = "look"
  /\ IF guard[Lock(p)] = None THEN Step(p, "create") ELSE Refused(p)
  /\ UNCHANGED <<files, seen, facts>>

\* createLock: exclusively.
Create(p) ==
  /\ step[p] = "create"
  /\ IF lock[Lock(p)] = None
       THEN lock' = [lock EXCEPT ![Lock(p)] = p] /\ Step(p, "held")
       ELSE UNCHANGED lock /\ Step(p, "guard")
  /\ UNCHANGED <<record, guard, seen, facts>>

\* Mutant: the dead lock is replaced without the guard.
GuardNothing(p) ==
  /\ step[p] = "guard"
  /\ Step(p, "reread")
  /\ UNCHANGED <<files, seen, facts>>

\* acquireReclaimGuard.
TakeGuard(p) ==
  /\ step[p] = "guard"
  /\ IF guard[Lock(p)] = None
       THEN guard' = [guard EXCEPT ![Lock(p)] = p] /\ Step(p, "reread")
       ELSE UNCHANGED guard /\ Refused(p)
  /\ UNCHANGED <<record, lock, seen, facts>>

\* The holder is read again under the guard; an empty lock has no holder.
Reread(p) ==
  /\ step[p] = "reread" /\ pc[p] # "adopt"
  /\ Step(p, IF Dead(lock[Lock(p)]) THEN "unlink" ELSE "lost")
  /\ UNCHANGED <<files, seen, facts>>

\* The file is unlinked by its name.
UnlinkDead(p) ==
  /\ step[p] = "unlink"
  /\ lock' = [lock EXCEPT ![Lock(p)] = None]
  /\ Step(p, IF lock[Lock(p)] = None THEN "lost" ELSE "recreate")
  /\ UNCHANGED <<record, guard, seen, facts>>

\* Whoever looked for the guard before it was there may be first.
Recreate(p) ==
  /\ step[p] = "recreate"
  /\ lock' = [lock EXCEPT ![Lock(p)] = IF @ = None THEN p ELSE @]
  /\ Step(p, IF lock[Lock(p)] = None THEN "won" ELSE "lost")
  /\ UNCHANGED <<record, guard, seen, facts>>

\* Mutant: the guard is removed only by the one that replaced the lock.
UnguardOnSuccess(p) ==
  /\ step[p] \in {"won", "lost"}
  /\ IF step[p] = "won"
       THEN Step(p, "held") /\ guard' = [guard EXCEPT ![Lock(p)] = None]
       ELSE Refused(p) /\ UNCHANGED guard
  /\ UNCHANGED <<record, lock, seen, facts>>

\* The `finally` of reclaimLock and of acceptControllerStartupLockHandoff.
Unguard(p) ==
  /\ step[p] \in {"won", "lost"}
  /\ guard' = [guard EXCEPT ![Lock(p)] = IF @ = p THEN None ELSE @]
  /\ IF step[p] = "won" THEN Step(p, "held") ELSE Refused(p)
  /\ UNCHANGED <<record, lock, seen, facts>>

\* What follows the release of either lock.
Released(p) ==
  CASE pc[p] = "leave" -> Goto(p, IF p \in ready THEN "serve" ELSE "gone")
    [] pc[p] = "claim" -> Goto(p, IF record = p THEN "starting" ELSE "leave")
    [] pc[p] = "publish" -> Goto(p, IF p \in ready THEN "leave" ELSE "undo")
    [] pc[p] = "resign" -> Goto(p, "gone")
    [] OTHER -> Goto(p, "leave")

\* Mutant: the lock is released whoever it names.
ReleaseAny(p) ==
  /\ step[p] = "release"
  /\ Step(p, "remove")
  /\ UNCHANGED <<files, seen, facts>>

\* releaseOwnedLock reads the file ...
ReadOwnLock(p) ==
  /\ step[p] = "release"
  /\ IF lock[Lock(p)] = p THEN Step(p, "remove") ELSE Released(p)
  /\ UNCHANGED <<files, seen, facts>>

\* ... and unlinks it by its name.
RemoveLock(p) ==
  /\ step[p] = "remove"
  /\ lock' = [lock EXCEPT ![Lock(p)] = None]
  /\ Released(p)
  /\ UNCHANGED <<record, guard, seen, facts>>

-----------------------------------------------------------------------------
(* replaceControllerState, updateOwnedControllerState and                  *)
(* removeOwnedControllerState: under the owner lock.                       *)

Swap(p, job, expected, next) ==
  /\ pc[p] = job /\ step[p] = "held"
  /\ record' = IF record = expected THEN next ELSE record
  /\ Step(p, "release")
  /\ UNCHANGED <<lock, guard, seen>>

\* Mutant: the record is written without looking at it again.
ClaimAny(p) ==
  /\ Swap(p, "claim", record, p)
  /\ UNCHANGED facts

Claim(p) ==
  /\ Swap(p, "claim", seen[p], p)
  /\ UNCHANGED facts

\* The phase of the record becomes ready.
Publish(p) ==
  /\ Swap(p, "publish", p, p)
  /\ ready' = IF record = p THEN ready \cup {p} ELSE ready
  /\ UNCHANGED <<op, launched, crashes, hasty, dropped>>

\* A roll-back, which is tried again, and a shutdown remove what is still theirs; no
\* one takes the record of a server before it is ready.
RemoveOwn(p) ==
  /\ Swap(p, "undo", p, None) \/ Swap(p, "resign", p, None)
  /\ UNCHANGED facts

\* The invocation removes the record of the server it disconnects.
Drop(c) ==
  /\ Swap(c, "drop", seen[c], None)
  /\ dropped' = IF record = seen[c] /\ ~Gone(seen[c]) THEN dropped \cup {seen[c]}
                ELSE dropped
  /\ UNCHANGED <<op, launched, ready, crashes, hasty>>

-----------------------------------------------------------------------------
(* An invocation: ensureServer, restartUpdatedController,                  *)
(* startHeadedController and handleDisconnect.                             *)

\* readState comes first.
Invoke(c, kind) ==
  /\ pc[c] = "new"
  /\ op' = [op EXCEPT ![c] = kind]
  /\ seen' = [seen EXCEPT ![c] = record]
  /\ Goto(c, IF kind = "ensure" /\ record # None THEN "probe"
              ELSE IF kind = "disconnect" /\ record = None THEN "gone" ELSE "enter")
  /\ UNCHANGED <<files, launched, ready, crashes, hasty, dropped>>

\* A healthy server is used as it is or, of another version, restarted.  One that
\* starts is waited for; the second probe may find healthy what the first did not.
Probe(c) ==
  /\ c \in Clis /\ pc[c] = "probe"
  /\ \E status \in Status(seen[c]) :
       \/ status = "healthy" /\ Goto(c, "gone") /\ UNCHANGED op
       \/ status = "healthy" /\ Goto(c, "enter") /\ op' = [op EXCEPT ![c] = "restart"]
       \/ /\ Goto(c, IF Decide(status) = "refuse" /\ seen[c] \in ready THEN "gone"
                     ELSE "enter")
          /\ UNCHANGED op
  /\ UNCHANGED <<files, seen, launched, ready, crashes, hasty, dropped>>

\* The record is read again under the startup lock.
ReadUnderLock(c) ==
  /\ c \in Clis /\ pc[c] = "enter" /\ step[c] = "held"
  /\ seen' = [seen EXCEPT ![c] = record]
  /\ Goto(c, IF op[c] \in {"restart", "disconnect"} /\ record # seen[c] THEN "leave"
              ELSE IF record = None THEN IF op[c] = "disconnect" THEN "leave" ELSE "spawn"
              ELSE IF op[c] = "disconnect" THEN "request" ELSE "inspect")
  /\ UNCHANGED <<files, facts>>

\* ensureServer leaves alone what it may not replace, but spawns for a server that
\* its second probe finds healthy; restart and connect stop a server that answers,
\* unless connect finds it headed already.
AfterInspection(kind, status) ==
  IF Decide(status) = "replace" THEN {"spawn"}
  ELSE IF kind = "ensure" THEN {"leave"} \cup {j \in {"spawn"} : status = "healthy"}
  ELSE IF status = "healthy" THEN {"stop"} \cup {j \in {"leave"} : kind = "connect"}
  ELSE IF status = "unhealthy" THEN {"stop"} ELSE {"leave"}

Inspect(c) ==
  /\ pc[c] = "inspect"
  /\ \E status \in Status(seen[c]) :
       \E job \in AfterInspection(op[c], status) : Goto(c, job)
  /\ UNCHANGED <<files, seen, facts>>

\* tryGracefulDisconnect asks a headed server to stop and waits until the record
\* is no longer its; it asks nothing of another one.
Disconnect(c) ==
  /\ pc[c] = "request"
  /\ \/ record # seen[c] /\ Goto(c, "leave")
     \/ Goto(c, "judge")
  /\ UNCHANGED <<files, seen, facts>>

\* Everything but a refusal leads to the removal of the record.
Judge(c) ==
  /\ pc[c] = "judge"
  /\ \E status \in Status(seen[c]) :
       Goto(c, IF status = "unhealthy" THEN "stop"
               ELSE IF Decide(status) = "refuse" THEN "leave" ELSE "drop")
  /\ UNCHANGED <<files, seen, facts>>

AfterStop(c) == IF op[c] = "disconnect" THEN "drop" ELSE "spawn"

\* killServer goes on when the process is gone, or gives up.
AwaitExit(c) ==
  /\ pc[c] = "stop"
  /\ \/ Goto(c, "leave")
     \/ Gone(seen[c]) /\ Goto(c, AfterStop(c))
  /\ UNCHANGED <<files, seen, facts>>

\* forceStopPosix: a server that does not stop by itself is killed.
Kill(c) ==
  /\ pc[c] = "stop" /\ ~Gone(seen[c])
  /\ pc' = [pc EXCEPT ![seen[c]] = "gone", ![c] = AfterStop(c)]
  /\ step' = [step EXCEPT ![seen[c]] = "none", ![c] = FirstStep(AfterStop(c))]
  /\ UNCHANGED <<files, seen, facts>>

\* startServer spawns a server with the content of the startup lock.
Spawn(c, s) ==
  /\ pc[c] = "spawn" /\ pc[s] = "new"
  /\ launched' = [launched EXCEPT ![s] = c]
  /\ seen' = [seen EXCEPT ![c] = s]
  /\ pc' = [pc EXCEPT ![s] = "adopt", ![c] = "wait"]
  /\ step' = [step EXCEPT ![s] = FirstStep("adopt"), ![c] = "none"]
  /\ UNCHANGED <<files, op, ready, crashes, hasty, dropped>>

Adopting(s) == pc[s] = "adopt" /\ step[s] \in {"guard", "reread", "rename"}

\* It waits until its server is ready, or for eight seconds.
Wait(c) ==
  /\ pc[c] = "wait"
  /\ Goto(c, "leave")
  /\ hasty' = (hasty \/ Adopting(seen[c]))
  /\ UNCHANGED <<files, seen, op, launched, ready, crashes, dropped>>

-----------------------------------------------------------------------------
(* A server: start, and createShutdownHandler.                             *)

\* A server that is started directly takes the startup lock itself.
StartDirectly(s) ==
  /\ s \in Servers /\ pc[s] = "new"
  /\ Goto(s, "enter")
  /\ UNCHANGED <<files, seen, facts>>

\* Mutant: the lock is adopted whatever it says.
AdoptUnread(s) ==
  /\ pc[s] = "adopt" /\ step[s] = "reread"
  /\ Step(s, "rename")
  /\ UNCHANGED <<files, seen, facts>>

\* acceptControllerStartupLockHandoff: under the guard the lock must still be
\* the one of the invocation, and that one alive.
CheckHandoff(s) ==
  /\ pc[s] = "adopt" /\ step[s] = "reread"
  /\ Step(s, IF lock["startup"] = launched[s] /\ ~Gone(launched[s]) THEN "rename"
             ELSE "lost")
  /\ UNCHANGED <<files, seen, facts>>

\* atomicReplaceLockRecord: whatever the lock is by now.
AdoptLock(s) ==
  /\ step[s] = "rename"
  /\ lock' = [lock EXCEPT !["startup"] = s]
  /\ Step(s, "won")
  /\ UNCHANGED <<record, guard, seen, facts>>

\* prepareControllerStateForClaim and claimControllerState read the record ...
ReadOwner(s) ==
  /\ s \in Servers /\ pc[s] \in {"enter", "adopt"} /\ step[s] = "held"
  /\ seen' = [seen EXCEPT ![s] = record]
  /\ Goto(s, IF record = None THEN "claim" ELSE "check")
  /\ UNCHANGED <<files, facts>>

\* ... and probe the server it names.
CheckOwner(s) ==
  /\ pc[s] = "check"
  /\ \E status \in Status(seen[s]) :
       Goto(s, IF Decide(status) = "replace" THEN "claim" ELSE "leave")
  /\ UNCHANGED <<files, seen, facts>>

\* The browser is launched.  A start that fails is rolled back and its record
\* removed, or kept when the roll-back is incomplete.
Launch(s) ==
  /\ pc[s] = "starting"
  /\ \E job \in {"publish", "undo", "leave"} : Goto(s, job)
  /\ UNCHANGED <<files, seen, facts>>

\* A server stops when it is asked to, idle, or interrupted.
StopServing(s) ==
  /\ pc[s] = "serve"
  /\ Goto(s, "resign")
  /\ UNCHANGED <<files, seen, facts>>

-----------------------------------------------------------------------------
\* A process may end anywhere, between the creation of a lock and the writing of
\* its record, too.
Crash(p) ==
  /\ pc[p] \notin {"new", "gone"}
  /\ crashes < MaxCrashes
  /\ crashes' = crashes + 1
  /\ Goto(p, "gone")
  /\ lock' \in {lock} \cup
       {[lock EXCEPT ![l] = Empty] : l \in
          {m \in {Lock(p)} : step[p] \in {"create", "recreate"} /\ lock[m] = None}}
  /\ UNCHANGED <<record, guard, seen, op, launched, ready, hasty, dropped>>

Init ==
  /\ record = None
  /\ lock = [l \in Locks |-> None]
  /\ guard = [l \in Locks |-> None]
  /\ pc = [p \in Procs |-> "new"]
  /\ step = [p \in Procs |-> "none"]
  /\ seen = [p \in Procs |-> None]
  /\ op = [c \in Clis |-> "none"]
  /\ launched = [s \in Servers |-> None]
  /\ ready = {} /\ crashes = 0 /\ hasty = FALSE /\ dropped = {}

Kinds == {"ensure", "connect", "disconnect"}

Locking(p) ==
  \/ Look(p) \/ Create(p) \/ TakeGuard(p) \/ Reread(p) \/ UnlinkDead(p)
  \/ Recreate(p) \/ Unguard(p) \/ ReadOwnLock(p) \/ RemoveLock(p)

Invocation(c) ==
  \/ \E kind \in Kinds : Invoke(c, kind)
  \/ Probe(c) \/ ReadUnderLock(c) \/ Inspect(c)
  \/ Disconnect(c) \/ Judge(c) \/ Drop(c)
  \/ AwaitExit(c) \/ Kill(c)
  \/ \E s \in Servers : Spawn(c, s)
  \/ Wait(c)

Server(s) ==
  \/ StartDirectly(s) \/ CheckHandoff(s) \/ AdoptLock(s)
  \/ ReadOwner(s) \/ CheckOwner(s) \/ Claim(s)
  \/ Launch(s) \/ Publish(s) \/ RemoveOwn(s)
  \/ StopServing(s)

Next ==
  \/ \E p \in Procs : Locking(p) \/ Crash(p)
  \/ \E c \in Clis : Invocation(c)
  \/ \E s \in Servers : Server(s)

Spec == Init /\ [][Next]_vars

-----------------------------------------------------------------------------
(* Properties.                                                             *)

Jobs ==
  {"new", "probe", "enter", "inspect", "request", "judge", "stop", "drop", "spawn",
   "wait", "adopt", "check", "claim", "starting", "publish", "undo", "serve",
   "resign", "leave", "gone"}
Steps ==
  {"none", "look", "create", "guard", "reread", "unlink", "recreate", "rename",
   "won", "lost", "held", "release", "remove"}

\* p is behind the guard of lock l.
Guards(p, l) ==
  /\ Lock(p) = l
  /\ step[p] \in {"reread", "unlink", "recreate", "rename", "won", "lost"}

Types ==
  /\ record \in Servers \cup {None}
  /\ lock \in [Locks -> Procs \cup {None, Empty}]
  /\ guard \in [Locks -> Procs \cup {None}]
  /\ pc \in [Procs -> Jobs] /\ step \in [Procs -> Steps]
  /\ seen \in [Procs -> Servers \cup {None}]
  /\ op \in [Clis -> Kinds \cup {"restart", "none"}]
  /\ launched \in [Servers -> Clis \cup {None}]
  /\ ready \subseteq Servers /\ dropped \subseteq Servers
  /\ crashes \in 0 .. MaxCrashes /\ hasty \in BOOLEAN

GuardIsAttended ==
  \A l \in Locks : guard[l] # None => Gone(guard[l]) \/ Guards(guard[l], l)

\* Every variable has its type, and a guard file, which no one ever steals, has a
\* process behind it that is going to remove it, or a dead one.
TypeOK == Types /\ GuardIsAttended

\* p is between taking the owner lock and removing it.
HasOwnerLock(p) ==
  pc[p] \in OwnerJobs /\ step[p] \in {"won", "held", "release", "remove"}

\* Two processes never compare and swap the record at the same time, however many
\* find the owner lock of the same dead process and whenever they looked for its
\* guard; and the lock file says who does.
OwnerLockIsExclusive ==
  /\ \A p, q \in Procs : HasOwnerLock(p) /\ HasOwnerLock(q) => p = q
  /\ \A p \in Procs : HasOwnerLock(p) => lock["owner"] = p

\* The record of a live server is never replaced by the one of another server,
\* although servers are probed long before they are replaced and the startup lock
\* may have two holders.
LiveOwnerIsNotReplaced ==
  [][(record # None /\ record' \notin {record, None}) => Gone(record)]_vars

\* At most one live server serves the project, except one whose record was
\* removed by a disconnect.
OneServerServes ==
  \A s, t \in {r \in ready : pc[r] \in {"leave", "serve"}} \ dropped : s = t

\* p starts or stops a server under the startup lock; an invocation that waits
\* has handed it over.
HasStartupLock(p) ==
  \/ pc[p] \in {"inspect", "request", "judge", "stop", "drop", "spawn",
                "check", "claim", "starting", "publish", "undo"}
  \/ pc[p] \in {"enter", "adopt"} /\ step[p] \in {"won", "held"}

\* Only one process at a time changes which server there is, unless an invocation
\* gave up waiting while the server it spawned was about to adopt its lock.
StartupIsExclusive ==
  hasty \/ \A p, q \in Procs : HasStartupLock(p) /\ HasStartupLock(q) => p = q

-----------------------------------------------------------------------------
(* What the documents say, where the code disagrees.                       *)

\* "Only a confirmed-dead owner or a mismatched process identity (recycled PID)
\* may be recovered automatically": no record of a live server is removed by
\* another process.
OnlyDeadOwnersAreRemoved == dropped = {}
=============================================================================
