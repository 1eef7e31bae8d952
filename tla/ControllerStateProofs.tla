----------------------- MODULE ControllerStateProofs -----------------------
(***************************************************************************)
(* For any number of invocations, servers and crashes: one process at a    *)
(* time works on the record under the owner lock, although the lock of a   *)
(* dead process is replaced by whoever finds it; the record of a live      *)
(* server is never replaced by another one; no two servers serve; and one  *)
(* process at a time starts or stops a server, unless an invocation gave   *)
(* up on the server it had handed the startup lock to.                     *)
(***************************************************************************)
EXTENDS ControllerState, TLAPS

GuardSteps == {"reread", "unlink", "recreate", "rename", "won", "lost"}
LockJobs == OwnerJobs \cup {"enter", "adopt"}

\* Only a process that wants a lock is on its way to it, and only an adopting
\* server renames.
StepsFit ==
  \A p \in Procs :
    /\ pc[p] \notin LockJobs \cup {"leave"} => step[p] = "none"
    /\ pc[p] = "leave" => step[p] \in {"release", "remove"}
    /\ step[p] = "rename" => pc[p] = "adopt"

\* A process behind a guard has made it.
GuardsAreOwn == \A p \in Procs, l \in Locks : Guards(p, l) => guard[l] = p

\* What is unlinked under the guard of the owner lock names a dead process.
UnlinkedIsDead ==
  \A p \in Procs : pc[p] \in OwnerJobs /\ step[p] = "unlink" => Dead(lock["owner"])

OwnersAreNamed == \A p \in Procs : HasOwnerLock(p) => lock["owner"] = p

LockInv ==
  StepsFit /\ GuardIsAttended /\ GuardsAreOwn /\ UnlinkedIsDead /\ OwnersAreNamed

\* Whoever looks into a server has one.
LookingJobs == {"probe", "inspect", "request", "judge", "stop", "drop", "check"}
SeenFits == \A p \in Procs : pc[p] \in LookingJobs => seen[p] \in Servers

TypeInv == Types /\ SeenFits

\* A server that is ready has published its record, which no one but a disconnect
\* takes from it, and is past everything that may fail.
ReadyIsPublished ==
  \A s \in ready :
    /\ pc[s] \in {"publish", "leave", "serve"} => record = s \/ s \in dropped
    /\ pc[s] \in {"publish", "leave", "serve", "resign", "gone"}
    /\ pc[s] = "publish" => step[s] \in {"release", "remove"}

\* Who claims the record found none, or the one of a dead server.
ClaimsAreOfDead ==
  \A s \in Servers : pc[s] = "claim" => seen[s] = None \/ Gone(seen[s])

ServerInv == ReadyIsPublished /\ ClaimsAreOfDead

USE ProcessesAreDistinct, CrashesAreBounded DEF Procs, Locks

-----------------------------------------------------------------------------
(* Types.                                                                  *)

LEMMA GotoTypes ==
  ASSUME Types, NEW p \in Procs, NEW job \in Jobs, Goto(p, job)
  PROVE  /\ pc' \in [Procs -> Jobs] /\ step' \in [Procs -> Steps]
         /\ pc'[p] = job
         /\ \A q \in Procs \ {p} : pc'[q] = pc[q]
BY DEF Goto, Types, FirstStep, Steps, OwnerJobs

LEMMA StepTypes ==
  ASSUME Types, NEW p \in Procs, NEW next \in Steps, Step(p, next)
  PROVE  pc' \in [Procs -> Jobs] /\ step' \in [Procs -> Steps] /\ pc' = pc
BY DEF Step, Types

\* What a process becomes that does not get a lock or has released one.
Moved(p) ==
  /\ pc' \in [Procs -> Jobs] /\ step' \in [Procs -> Steps]
  /\ \A q \in Procs : pc'[q] = pc[q] \/ pc'[q] \in {"gone", "leave", "undo", "starting", "serve"}

LEMMA StepMoves ==
  ASSUME Types, NEW p \in Procs, NEW next \in Steps, Step(p, next)
  PROVE  Moved(p)
BY DEF Step, Types, Moved

LEMMA RefusedMoves ==
  ASSUME Types, NEW p \in Procs, Refused(p)
  PROVE  Moved(p)
<1>1. \A job \in {"gone", "leave", "undo"} : Goto(p, job) => Moved(p)
  <2> SUFFICES ASSUME NEW job \in {"gone", "leave", "undo"}, Goto(p, job) PROVE Moved(p)
    OBVIOUS
  <2>1. job \in Jobs
    BY DEF Jobs
  <2> QED BY <2>1, GotoTypes DEF Moved
<1>2. Step(p, "look") => Moved(p)
  BY StepMoves DEF Steps
<1> QED BY <1>1, <1>2 DEF Refused

LEMMA ReleasedMoves ==
  ASSUME Types, NEW p \in Procs, Released(p)
  PROVE  Moved(p)
<1>1. \A job \in {"gone", "leave", "undo", "starting", "serve"} : Goto(p, job) => Moved(p)
  <2> SUFFICES ASSUME NEW job \in {"gone", "leave", "undo", "starting", "serve"}, Goto(p, job)
               PROVE  Moved(p)
    OBVIOUS
  <2>1. job \in Jobs
    BY DEF Jobs
  <2> QED BY <2>1, GotoTypes DEF Moved
<1>2. \E job \in {"gone", "leave", "undo", "starting", "serve"} : Goto(p, job)
  BY DEF Released
<1> QED BY <1>1, <1>2

LEMMA LockingKeepsTypes ==
  ASSUME TypeInv, NEW p \in Procs, Locking(p)
  PROVE  TypeInv'
<1> USE DEF TypeInv
<1>1. Moved(p)
  <2>0. {"create", "held", "guard", "reread", "unlink", "lost", "recreate", "won",
         "remove"} \subseteq Steps
    BY DEF Steps
  <2>1. \A next \in Steps : Step(p, next) => Moved(p)
    BY StepMoves
  <2> QED
    BY <2>0, <2>1, RefusedMoves, ReleasedMoves
    DEF Locking, Look, Create, TakeGuard, Reread, UnlinkDead, Recreate, Unguard,
        ReadOwnLock, RemoveLock
<1>2. /\ lock' \in [Locks -> Procs \cup {None, Empty}]
      /\ guard' \in [Locks -> Procs \cup {None}]
      /\ UNCHANGED <<record, seen, facts>>
  BY DEF Locking, Look, Create, TakeGuard, Reread, UnlinkDead, Recreate, Unguard,
         ReadOwnLock, RemoveLock, files, Types
<1> QED BY <1>1, <1>2 DEF Types, SeenFits, Moved, facts, LookingJobs

\* A process goes to its next job; what it read suits that job.
LEMMA GotoKeepsTypes ==
  ASSUME TypeInv, NEW p \in Procs, NEW job \in Jobs, Goto(p, job), UNCHANGED files,
         seen' \in [Procs -> Servers \cup {None}],
         \A q \in Procs \ {p} : seen'[q] = seen[q],
         job \in LookingJobs => seen'[p] \in Servers,
         op' \in [Clis -> Kinds \cup {"restart", "none"}],
         UNCHANGED <<launched, ready, crashes, dropped>>, hasty' \in BOOLEAN
  PROVE  TypeInv'
<1>1. /\ pc' \in [Procs -> Jobs] /\ step' \in [Procs -> Steps]
      /\ pc'[p] = job /\ \A q \in Procs \ {p} : pc'[q] = pc[q]
  BY GotoTypes DEF TypeInv
<1>2. Types'
  BY <1>1 DEF TypeInv, Types, files
<1>3. SeenFits'
  BY <1>1 DEF TypeInv, SeenFits
<1> QED BY <1>2, <1>3 DEF TypeInv

LEMMA InvocationKeepsTypes ==
  ASSUME TypeInv, NEW c \in Clis, Invocation(c)
  PROVE  TypeInv'
<1> USE DEF TypeInv
<1>0. c \in Procs /\ ~(c \in Servers)
  OBVIOUS
<1>1. \A kind \in Kinds : Invoke(c, kind) => TypeInv'
  <2> SUFFICES ASSUME NEW kind \in Kinds, Invoke(c, kind) PROVE TypeInv'
    OBVIOUS
  <2>1. PICK job \in {"probe", "gone", "enter"} :
          Goto(c, job) /\ (job = "probe" => record # None)
    BY DEF Invoke
  <2>2. job \in Jobs /\ (job \in LookingJobs => record \in Servers)
    BY <2>1 DEF Jobs, LookingJobs, Types
  <2> QED BY <1>0, <2>1, <2>2, GotoKeepsTypes DEF Invoke, Types, facts, Kinds
<1>2. Probe(c) => TypeInv'
  <2> SUFFICES ASSUME Probe(c) PROVE TypeInv'
    OBVIOUS
  <2>1. PICK job \in {"gone", "enter"} : Goto(c, job)
    BY DEF Probe
  <2>2. job \in Jobs /\ ~(job \in LookingJobs)
    BY <2>1 DEF Jobs, LookingJobs
  <2>3. op' \in [Clis -> Kinds \cup {"restart", "none"}]
    BY DEF Probe, Types
  <2> QED BY <1>0, <2>1, <2>2, <2>3, GotoKeepsTypes DEF Probe, Types, facts
<1>3. ReadUnderLock(c) => TypeInv'
  <2> SUFFICES ASSUME ReadUnderLock(c) PROVE TypeInv'
    OBVIOUS
  <2>1. PICK job \in {"leave", "spawn", "request", "inspect"} :
          Goto(c, job) /\ (job \in {"request", "inspect"} => record # None)
    BY DEF ReadUnderLock
  <2>2. job \in Jobs /\ (job \in LookingJobs => record \in Servers)
    BY <2>1 DEF Jobs, LookingJobs, Types
  <2> QED BY <1>0, <2>1, <2>2, GotoKeepsTypes DEF ReadUnderLock, Types, facts
<1>4. Inspect(c) \/ Disconnect(c) \/ Judge(c) \/ AwaitExit(c) => TypeInv'
  <2> SUFFICES ASSUME Inspect(c) \/ Disconnect(c) \/ Judge(c) \/ AwaitExit(c) PROVE TypeInv'
    OBVIOUS
  <2>1. PICK job \in {"leave", "spawn", "judge", "stop", "drop"} : Goto(c, job)
    BY DEF Inspect, AfterInspection, Disconnect, Judge, AwaitExit, AfterStop
  <2>2. job \in Jobs /\ seen[c] \in Servers
    BY <1>0, <2>1 DEF Jobs, LookingJobs, SeenFits, Inspect, Disconnect, Judge, AwaitExit
  <2>3. UNCHANGED <<files, seen, facts>>
    BY DEF Inspect, Disconnect, Judge, AwaitExit
  <2> QED BY <1>0, <2>1, <2>2, <2>3, GotoKeepsTypes DEF Types, facts
<1>5. Drop(c) => TypeInv'
  <2> SUFFICES ASSUME Drop(c) PROVE TypeInv'
    OBVIOUS
  <2>1. seen[c] \in Servers /\ "release" \in Steps
    BY <1>0 DEF Drop, Swap, SeenFits, LookingJobs, Steps
  <2>2. pc' = pc /\ pc' \in [Procs -> Jobs] /\ step' \in [Procs -> Steps]
    BY <1>0, <2>1, StepTypes DEF Drop, Swap
  <2>3. Types'
    BY <2>1, <2>2 DEF Drop, Swap, Types
  <2> QED BY <2>2, <2>3 DEF SeenFits, Drop, Swap
<1>6. Kill(c) => TypeInv'
  <2> SUFFICES ASSUME Kill(c) PROVE TypeInv'
    OBVIOUS
  <2>1. AfterStop(c) \in {"drop", "spawn"} /\ FirstStep(AfterStop(c)) \in Steps
    BY DEF AfterStop, FirstStep, OwnerJobs, Steps
  <2>2. seen[c] \in Servers
    BY <1>0 DEF Kill, SeenFits, LookingJobs
  <2>3. Types'
    BY <2>1 DEF Kill, Types, Jobs, Steps, files, facts
  <2>4. SeenFits'
    BY <1>0, <2>1, <2>2 DEF Kill, SeenFits, LookingJobs, Types
  <2> QED BY <2>3, <2>4
<1>7. \A s \in Servers : Spawn(c, s) => TypeInv'
  <2> SUFFICES ASSUME NEW s \in Servers, Spawn(c, s) PROVE TypeInv'
    OBVIOUS
  <2>1. FirstStep("adopt") \in Steps
    BY DEF FirstStep, OwnerJobs, Steps
  <2>2. Types'
    BY <1>0, <2>1 DEF Spawn, Types, Jobs, Steps, files
  <2>3. SeenFits'
    BY <1>0 DEF Spawn, SeenFits, LookingJobs, Types
  <2> QED BY <2>2, <2>3
<1>8. Wait(c) => TypeInv'
  <2> SUFFICES ASSUME Wait(c) PROVE TypeInv'
    OBVIOUS
  <2>1. "leave" \in Jobs /\ ~("leave" \in LookingJobs)
    BY DEF Jobs, LookingJobs
  <2>2. hasty' \in BOOLEAN
    BY DEF Wait, Types, Adopting
  <2> QED BY <1>0, <2>1, <2>2, GotoKeepsTypes DEF Wait, Types
<1> QED BY <1>1, <1>2, <1>3, <1>4, <1>5, <1>6, <1>7, <1>8 DEF Invocation

LEMMA ServerKeepsTypes ==
  ASSUME TypeInv, NEW s \in Servers, Server(s)
  PROVE  TypeInv'
<1> USE DEF TypeInv
<1>0. s \in Procs /\ ~(s \in Clis)
  OBVIOUS
<1>1. ReadOwner(s) => TypeInv'
  <2> SUFFICES ASSUME ReadOwner(s) PROVE TypeInv'
    OBVIOUS
  <2>1. PICK job \in {"claim", "check"} : Goto(s, job) /\ (job = "check" => record # None)
    BY DEF ReadOwner
  <2>2. job \in Jobs /\ (job \in LookingJobs => record \in Servers)
    BY <2>1 DEF Jobs, LookingJobs, Types
  <2> QED BY <1>0, <2>1, <2>2, GotoKeepsTypes DEF ReadOwner, Types, facts
<1>2. ASSUME StartDirectly(s) \/ CheckOwner(s) \/ Launch(s) \/ StopServing(s)
      PROVE  TypeInv'
  <2>1. PICK job \in {"enter", "claim", "leave", "publish", "undo", "resign"} : Goto(s, job)
    BY <1>2 DEF StartDirectly, CheckOwner, Launch, StopServing
  <2>2. job \in Jobs /\ ~(job \in LookingJobs)
    BY <2>1 DEF Jobs, LookingJobs
  <2>3. UNCHANGED <<files, seen, facts>>
    BY <1>2 DEF StartDirectly, CheckOwner, Launch, StopServing
  <2> QED BY <1>0, <2>1, <2>2, <2>3, GotoKeepsTypes DEF Types, facts
<1>3. ASSUME CheckHandoff(s) \/ AdoptLock(s) \/ Claim(s) \/ Publish(s) \/ RemoveOwn(s)
      PROVE  TypeInv'
  <2>1. PICK next \in {"rename", "lost", "won", "release"} : Step(s, next)
    BY <1>3 DEF CheckHandoff, AdoptLock, Claim, Publish, RemoveOwn, Swap
  <2>2. pc' = pc /\ pc' \in [Procs -> Jobs] /\ step' \in [Procs -> Steps]
    BY <1>0, <2>1, StepTypes DEF Steps
  <2>3. /\ record' \in Servers \cup {None} /\ ready' \subseteq Servers
        /\ lock' \in [Locks -> Procs \cup {None, Empty}]
        /\ UNCHANGED <<guard, seen, op, launched, crashes, hasty, dropped>>
    BY <1>0, <1>3 DEF CheckHandoff, AdoptLock, Claim, Publish, RemoveOwn, Swap, Types,
                      files, facts
  <2> QED BY <2>2, <2>3 DEF Types, SeenFits
<1> QED BY <1>1, <1>2, <1>3 DEF Server

LEMMA CrashKeepsTypes ==
  ASSUME TypeInv, NEW p \in Procs, Crash(p)
  PROVE  TypeInv'
<1> USE DEF TypeInv
<1>1. /\ pc' \in [Procs -> Jobs] /\ step' \in [Procs -> Steps]
      /\ pc'[p] = "gone" /\ \A q \in Procs \ {p} : pc'[q] = pc[q]
  BY GotoTypes DEF Crash, Jobs
<1>2. lock' \in [Locks -> Procs \cup {None, Empty}]
  BY DEF Crash, Types
<1>3. crashes' \in 0 .. MaxCrashes
  BY DEF Crash, Types
<1> QED BY <1>1, <1>2, <1>3 DEF Crash, Types, SeenFits, LookingJobs

LEMMA TypesHold == Spec => []TypeInv
<1>1. Init => TypeInv
  <2> SUFFICES ASSUME Init PROVE Types /\ SeenFits
    BY DEF TypeInv
  <2>1. /\ pc \in [Procs -> Jobs] /\ step \in [Procs -> Steps]
        /\ lock \in [Locks -> Procs \cup {None, Empty}]
        /\ guard \in [Locks -> Procs \cup {None}]
    BY DEF Init, Jobs, Steps
  <2>2. /\ seen \in [Procs -> Servers \cup {None}]
        /\ op \in [Clis -> Kinds \cup {"restart", "none"}]
        /\ launched \in [Servers -> Clis \cup {None}]
    BY DEF Init
  <2>3. record \in Servers \cup {None} /\ crashes \in 0 .. MaxCrashes
    BY DEF Init
  <2>4. Types
    BY <2>1, <2>2, <2>3 DEF Init, Types
  <2>5. SeenFits
    BY DEF Init, SeenFits, LookingJobs
  <2> QED BY <2>4, <2>5
<1>2. TypeInv /\ [Next]_vars => TypeInv'
  <2> SUFFICES ASSUME TypeInv, [Next]_vars PROVE TypeInv'
    OBVIOUS
  <2>1. CASE Next
    BY <2>1, LockingKeepsTypes, CrashKeepsTypes, InvocationKeepsTypes, ServerKeepsTypes
    DEF Next
  <2>2. CASE UNCHANGED vars
    BY <2>2 DEF vars, TypeInv, Types, SeenFits
  <2> QED BY <2>1, <2>2
<1> QED BY <1>1, <1>2, PTL DEF Spec

-----------------------------------------------------------------------------
(* The locks.                                                              *)

\* Process q does not move, or it is alive and begins its next job, and not with
\* its guard in place unless it is gone.
Rests(q) == pc'[q] = pc[q] /\ step'[q] = step[q]
Begins(q) == ~Gone(q) /\ pc'[q] \in Jobs /\ step'[q] = FirstStep(pc'[q])

LEMMA FirstSteps ==
  ASSUME NEW job \in Jobs
  PROVE  /\ FirstStep(job) \in {"look", "guard", "release", "none"}
         /\ job \notin LockJobs \cup {"leave"} => FirstStep(job) = "none"
         /\ job = "leave" <=> FirstStep(job) = "release"
BY DEF FirstStep, LockJobs, OwnerJobs

\* Nothing happens to the locks while processes begin their next jobs.
LEMMA LocksAtRest ==
  ASSUME TypeInv, LockInv, UNCHANGED <<lock, guard>>,
         \A q \in Procs : \/ Rests(q)
                          \/ Begins(q) /\ (pc'[q] = "gone" \/ step[q] \notin GuardSteps)
  PROVE  LockInv'
<1> USE DEF LockInv, Rests, Begins
<1>1. \A q \in Procs : Gone(q) => Gone(q)'
  BY DEF Gone
<1>2. \A q \in Procs : \/ Rests(q)
                        \/ /\ step'[q] \in {"look", "guard", "release", "none"}
                           /\ step'[q] = "release" => pc'[q] = "leave"
  BY FirstSteps
<1>3. StepsFit'
  BY FirstSteps DEF StepsFit
<1>4. GuardIsAttended'
  <2> SUFFICES ASSUME NEW l \in Locks, guard[l] # None
               PROVE  Gone(guard[l])' \/ Guards(guard[l], l)'
    BY DEF GuardIsAttended
  <2>1. guard[l] \in Procs
    BY DEF TypeInv, Types
  <2>2. CASE Gone(guard[l])
    BY <1>1, <2>1, <2>2
  <2>3. CASE Guards(guard[l], l)
    BY <2>1, <2>3 DEF Guards, GuardSteps, Lock, Gone
  <2> QED BY <2>2, <2>3 DEF GuardIsAttended
<1>5. GuardsAreOwn'
  <2> SUFFICES ASSUME NEW p \in Procs, NEW l \in Locks, Guards(p, l)' PROVE guard[l] = p
    BY DEF GuardsAreOwn
  <2>1. Rests(p)
    BY <1>2 DEF Guards
  <2> QED BY <2>1 DEF Guards, Lock, GuardsAreOwn
<1>6. UnlinkedIsDead'
  <2> SUFFICES ASSUME NEW p \in Procs, pc'[p] \in OwnerJobs, step'[p] = "unlink"
               PROVE  Dead(lock["owner"])'
    BY DEF UnlinkedIsDead
  <2>1. Rests(p)
    BY <1>2
  <2> QED BY <1>1, <2>1 DEF UnlinkedIsDead, Dead
<1>7. OwnersAreNamed'
  <2> SUFFICES ASSUME NEW p \in Procs, HasOwnerLock(p)' PROVE lock["owner"] = p
    BY DEF OwnersAreNamed
  <2>1. Rests(p)
    BY <1>2 DEF HasOwnerLock, OwnerJobs
  <2> QED BY <2>1 DEF HasOwnerLock, OwnersAreNamed
<1> QED BY <1>3, <1>4, <1>5, <1>6, <1>7

\* Process p begins its next job as it gives up a lock or its guard, or ends as it
\* creates a lock.
LEMMA LocksGivenUp ==
  ASSUME TypeInv, LockInv, NEW p \in Procs, Begins(p),
         \A q \in Procs \ {p} : Rests(q),
         \/ lock'["owner"] = lock["owner"]
         \/ lock["owner"] = p
         \/ lock["owner"] = None,
         \A l \in Locks : guard'[l] = guard[l] \/ (guard[l] = p /\ guard'[l] = None),
         \A l \in Locks : guard'[l] = p => pc'[p] = "gone"
  PROVE  LockInv'
<1> USE DEF LockInv, Rests, Begins
<1>1. \A q \in Procs : Gone(q) => Gone(q)'
  BY DEF Gone
<1>2. /\ step'[p] \in {"look", "guard", "release", "none"}
      /\ step'[p] = "release" => pc'[p] = "leave"
  BY FirstSteps
<1>3. StepsFit'
  BY FirstSteps DEF StepsFit
<1>4. GuardIsAttended'
  <2> SUFFICES ASSUME NEW l \in Locks, guard'[l] # None
               PROVE  (Gone(guard[l]) \/ Guards(guard[l], l))'
    BY DEF GuardIsAttended
  <2>1. guard'[l] = guard[l] /\ guard[l] \in Procs
    BY DEF TypeInv, Types
  <2>2. CASE guard[l] = p
    BY <2>1, <2>2 DEF Gone
  <2>3. CASE guard[l] # p /\ Gone(guard[l])
    BY <1>1, <2>1, <2>3 DEF Gone
  <2>4. CASE guard[l] # p /\ Guards(guard[l], l)
    BY <2>1, <2>4 DEF Guards, Lock
  <2> QED BY <2>1, <2>2, <2>3, <2>4 DEF GuardIsAttended
<1>5. GuardsAreOwn'
  <2> SUFFICES ASSUME NEW q \in Procs, NEW l \in Locks, Guards(q, l)' PROVE guard'[l] = q
    BY DEF GuardsAreOwn
  <2>1. Rests(q) /\ q # p
    BY <1>2 DEF Guards
  <2> QED BY <2>1 DEF Guards, Lock, GuardsAreOwn
<1>6. UnlinkedIsDead'
  <2> SUFFICES ASSUME NEW q \in Procs, pc'[q] \in OwnerJobs, step'[q] = "unlink"
               PROVE  Dead(lock["owner"])'
    BY DEF UnlinkedIsDead
  <2>1. Rests(q) /\ q # p
    BY <1>2
  <2>2. Dead(lock["owner"])
    BY <2>1 DEF UnlinkedIsDead
  <2> QED BY <1>1, <2>2 DEF Dead
<1>7. OwnersAreNamed'
  <2> SUFFICES ASSUME NEW q \in Procs, HasOwnerLock(q)' PROVE lock'["owner"] = q
    BY DEF OwnersAreNamed
  <2>1. Rests(q) /\ q # p
    BY <1>2 DEF HasOwnerLock, OwnerJobs
  <2> QED BY <2>1 DEF HasOwnerLock, OwnersAreNamed
<1> QED BY <1>3, <1>4, <1>5, <1>6, <1>7

LEMMA GotoBegins ==
  ASSUME TypeInv, NEW p \in Procs, ~Gone(p), NEW job \in Jobs, Goto(p, job)
  PROVE  Begins(p) /\ pc'[p] = job /\ \A q \in Procs \ {p} : Rests(q)
BY DEF TypeInv, Types, Goto, Begins, Rests

LEMMA StepRests ==
  ASSUME TypeInv, NEW p \in Procs, NEW next \in Steps, Step(p, next)
  PROVE  step'[p] = next /\ pc' = pc /\ \A q \in Procs \ {p} : Rests(q)
BY DEF TypeInv, Types, Step, Rests

LEMMA RefusedBegins ==
  ASSUME TypeInv, NEW p \in Procs, ~Gone(p), Refused(p)
  PROVE  Begins(p) /\ \A q \in Procs \ {p} : Rests(q)
<1>1. CASE \E job \in {"gone", "leave", "undo"} : Goto(p, job)
  BY <1>1, GotoBegins DEF Jobs
<1>2. CASE pc[p] \in {"undo", "resign", "enter"} /\ Step(p, "look")
  BY <1>2, StepRests DEF Steps, Begins, Jobs, FirstStep, OwnerJobs
<1> QED BY <1>1, <1>2 DEF Refused

LEMMA ReleasedBegins ==
  ASSUME TypeInv, NEW p \in Procs, ~Gone(p), Released(p)
  PROVE  Begins(p) /\ \A q \in Procs \ {p} : Rests(q)
<1>1. PICK job \in {"gone", "leave", "undo", "starting", "serve"} : Goto(p, job)
  BY DEF Released
<1> QED BY <1>1, GotoBegins DEF Jobs

LEMMA StepsAreOfTheLiving ==
  ASSUME LockInv, NEW p \in Procs, step[p] # "none"
  PROVE  ~Gone(p) /\ pc[p] \in LockJobs \cup {"leave"}
BY DEF LockInv, StepsFit, Gone, LockJobs, OwnerJobs

\* Process p goes on in its job, which may make or remove its guard, or put the
\* lock of the record in place of nothing or, behind the guard, of a dead one.
LEMMA LocksMoveOn ==
  ASSUME TypeInv, LockInv, NEW p \in Procs, NEW next \in Steps,
         step[p] # "none", pc' = pc, step'[p] = next, \A q \in Procs \ {p} : Rests(q),
         pc[p] = "leave" => next \in {"release", "remove"},
         next = "rename" => pc[p] = "adopt",
         guard' \in [Locks -> Procs \cup {None}],
         \A m \in Locks \ {Lock(p)} : guard'[m] = guard[m],
         guard'[Lock(p)] \in {guard[Lock(p)], p, None},
         guard'[Lock(p)] = guard[Lock(p)] \/ guard[Lock(p)] \in {None, p},
         guard'[Lock(p)] = p <=> next \in GuardSteps,
         \/ lock'["owner"] = lock["owner"]
         \/ lock["owner"] = None
         \/ Dead(lock["owner"]) /\ guard["owner"] = p,
         pc[p] \in OwnerJobs /\ next = "unlink" => Dead(lock'["owner"]),
         pc[p] \in OwnerJobs /\ next \in {"won", "held", "release", "remove"}
           => lock'["owner"] = p
  PROVE  LockInv'
<1> USE DEF LockInv, Rests
<1>0. ~Gone(p) /\ pc[p] \in LockJobs \cup {"leave"} /\ Lock(p) \in Locks
  BY StepsAreOfTheLiving DEF Lock
<1>1. StepsFit'
  BY <1>0 DEF StepsFit
<1>2. GuardIsAttended'
  <2> SUFFICES ASSUME NEW l \in Locks, guard'[l] # None
               PROVE  (Gone(guard[l]) \/ Guards(guard[l], l))'
    BY DEF GuardIsAttended
  <2>1. guard'[l] \in Procs
    OBVIOUS
  <2>2. CASE guard'[l] = p
    <3>1. l = Lock(p)
      BY <1>0, <2>2 DEF GuardIsAttended, Guards
    <3> QED BY <2>2, <3>1 DEF Guards, GuardSteps, Lock
  <2>3. CASE guard'[l] # p
    <3>1. guard'[l] = guard[l]
      BY <2>3
    <3>2. Gone(guard[l]) \/ Guards(guard[l], l)
      BY <3>1 DEF GuardIsAttended
    <3> QED BY <2>1, <2>3, <3>1, <3>2 DEF Gone, Guards, Lock
  <2> QED BY <2>2, <2>3
<1>3. GuardsAreOwn'
  <2> SUFFICES ASSUME NEW q \in Procs, NEW l \in Locks, Guards(q, l)' PROVE guard'[l] = q
    BY DEF GuardsAreOwn
  <2>1. CASE q = p
    BY <2>1 DEF Guards, GuardSteps, Lock
  <2>2. CASE q # p
    <3>1. guard[l] = q
      BY <2>2 DEF Guards, Lock, GuardsAreOwn
    <3>2. q # None
      OBVIOUS
    <3> QED BY <2>2, <3>1, <3>2
  <2> QED BY <2>1, <2>2
<1>4. UnlinkedIsDead'
  <2> SUFFICES ASSUME NEW q \in Procs, pc[q] \in OwnerJobs, step'[q] = "unlink"
               PROVE  Dead(lock'["owner"])
    BY DEF UnlinkedIsDead, Dead, Gone
  <2>1. CASE q = p
    BY <2>1
  <2>2. CASE q # p
    <3>1. Dead(lock["owner"])
      BY <2>2 DEF UnlinkedIsDead
    <3>2. guard["owner"] = q
      BY <2>2 DEF GuardsAreOwn, Guards, Lock
    <3> QED BY <2>2, <3>1, <3>2 DEF Dead
  <2> QED BY <2>1, <2>2
<1>5. OwnersAreNamed'
  <2> SUFFICES ASSUME NEW q \in Procs, HasOwnerLock(q)' PROVE lock'["owner"] = q
    BY DEF OwnersAreNamed
  <2>1. CASE q = p
    BY <2>1 DEF HasOwnerLock
  <2>2. CASE q # p
    <3>1. HasOwnerLock(q) /\ lock["owner"] = q
      BY <2>2 DEF HasOwnerLock, OwnersAreNamed
    <3>2. ~Gone(q) /\ q # None
      BY <3>1 DEF HasOwnerLock, OwnerJobs, Gone
    <3> QED BY <3>1, <3>2 DEF Dead
  <2> QED BY <2>1, <2>2
<1> QED BY <1>1, <1>2, <1>3, <1>4, <1>5

LEMMA LockingKeepsLocks ==
  ASSUME TypeInv, LockInv, NEW p \in Procs, Locking(p)
  PROVE  LockInv'
<1>0. /\ Lock(p) \in Locks /\ ~Gone(p) /\ step[p] # "none"
      /\ pc[p] \in LockJobs \cup {"leave"}
  BY StepsAreOfTheLiving
  DEF Lock, Locking, Look, Create, TakeGuard, Reread, UnlinkDead, Recreate, Unguard,
      ReadOwnLock, RemoveLock
<1>t. /\ guard \in [Locks -> Procs \cup {None}]
      /\ lock \in [Locks -> Procs \cup {None, Empty}]
  BY DEF TypeInv, Types
<1>s. {"look", "create", "held", "guard", "reread", "unlink", "lost", "recreate", "won",
       "remove", "release"} \subseteq Steps
  BY DEF Steps
<1>l. pc[p] = "leave" => step[p] \in {"release", "remove"}
  BY DEF LockInv, StepsFit
<1>g. guard[Lock(p)] = p <=> step[p] \in GuardSteps
  BY <1>0 DEF LockInv, GuardIsAttended, GuardsAreOwn, Guards, GuardSteps
<1>o. pc[p] \in OwnerJobs => Lock(p) = "owner"
  BY DEF Lock
<1>1. Look(p) => LockInv'
  <2> SUFFICES ASSUME Look(p) PROVE LockInv'
    OBVIOUS
  <2>1. CASE Refused(p)
    BY <1>0, <2>1, RefusedBegins, LocksAtRest DEF Look, files, GuardSteps
  <2>2. CASE Step(p, "create")
    <3>1. step'[p] = "create" /\ pc' = pc /\ \A q \in Procs \ {p} : Rests(q)
      BY <1>s, <2>2, StepRests
    <3> QED
      BY <1>0, <1>t, <1>s, <1>l, <1>g, <3>1, LocksMoveOn DEF Look, files, GuardSteps
  <2> QED BY <2>1, <2>2 DEF Look
<1>2. Create(p) => LockInv'
  <2> SUFFICES ASSUME Create(p) PROVE LockInv'
    OBVIOUS
  <2>1. PICK next \in {"held", "guard"} :
          /\ Step(p, next)
          /\ IF next = "held" THEN lock[Lock(p)] = None /\ lock' = [lock EXCEPT ![Lock(p)] = p]
             ELSE UNCHANGED lock
    BY DEF Create
  <2>2. step'[p] = next /\ pc' = pc /\ \A q \in Procs \ {p} : Rests(q)
    BY <1>s, <2>1, StepRests
  <2>3. /\ lock'["owner"] = lock["owner"] \/ lock["owner"] = None
        /\ pc[p] \in OwnerJobs /\ next = "held" => lock'["owner"] = p
    BY <1>0, <1>t, <1>o, <2>1
  <2> QED
    BY <1>0, <1>t, <1>s, <1>l, <1>g, <2>1, <2>2, <2>3, LocksMoveOn DEF Create, GuardSteps
<1>3. TakeGuard(p) => LockInv'
  <2> SUFFICES ASSUME TakeGuard(p) PROVE LockInv'
    OBVIOUS
  <2>1. CASE guard[Lock(p)] # None
    BY <1>0, <2>1, RefusedBegins, LocksAtRest DEF TakeGuard, GuardSteps
  <2>2. CASE guard[Lock(p)] = None
    <3>1. step'[p] = "reread" /\ pc' = pc /\ \A q \in Procs \ {p} : Rests(q)
      BY <1>s, <2>2, StepRests DEF TakeGuard
    <3> QED
      BY <1>0, <1>t, <1>s, <1>l, <2>2, <3>1, LocksMoveOn DEF TakeGuard, GuardSteps
  <2> QED BY <2>1, <2>2
<1>4. Reread(p) => LockInv'
  <2> SUFFICES ASSUME Reread(p) PROVE LockInv'
    OBVIOUS
  <2>1. PICK next \in {"unlink", "lost"} :
          Step(p, next) /\ (next = "unlink" => Dead(lock[Lock(p)]))
    BY DEF Reread
  <2>2. step'[p] = next /\ pc' = pc /\ \A q \in Procs \ {p} : Rests(q)
    BY <1>s, <2>1, StepRests
  <2> QED
    BY <1>0, <1>t, <1>s, <1>l, <1>g, <1>o, <2>1, <2>2, LocksMoveOn
    DEF Reread, files, GuardSteps
<1>5. UnlinkDead(p) => LockInv'
  <2> SUFFICES ASSUME UnlinkDead(p) PROVE LockInv'
    OBVIOUS
  <2>1. PICK next \in {"lost", "recreate"} : Step(p, next)
    BY DEF UnlinkDead
  <2>2. step'[p] = next /\ pc' = pc /\ \A q \in Procs \ {p} : Rests(q)
    BY <1>s, <2>1, StepRests
  <2>3. \/ lock'["owner"] = lock["owner"]
        \/ Dead(lock["owner"]) /\ guard["owner"] = p
    BY <1>0, <1>t, <1>g DEF UnlinkDead, LockInv, UnlinkedIsDead, Lock, GuardSteps
  <2> QED
    BY <1>0, <1>t, <1>s, <1>l, <1>g, <2>1, <2>2, <2>3, LocksMoveOn
    DEF UnlinkDead, GuardSteps
<1>6. Recreate(p) => LockInv'
  <2> SUFFICES ASSUME Recreate(p) PROVE LockInv'
    OBVIOUS
  <2>1. PICK next \in {"won", "lost"} :
          Step(p, next) /\ (next = "won" <=> lock[Lock(p)] = None)
    BY DEF Recreate
  <2>2. step'[p] = next /\ pc' = pc /\ \A q \in Procs \ {p} : Rests(q)
    BY <1>s, <2>1, StepRests
  <2>3. /\ lock'["owner"] = lock["owner"] \/ lock["owner"] = None
        /\ pc[p] \in OwnerJobs /\ next = "won" => lock'["owner"] = p
    BY <1>0, <1>t, <1>o, <2>1 DEF Recreate
  <2> QED
    BY <1>0, <1>t, <1>s, <1>l, <1>g, <2>1, <2>2, <2>3, LocksMoveOn
    DEF Recreate, GuardSteps
<1>7. Unguard(p) => LockInv'
  <2> SUFFICES ASSUME Unguard(p) PROVE LockInv'
    OBVIOUS
  <2>1. \A m \in Locks : guard'[m] = IF m = Lock(p) /\ guard[m] = p THEN None ELSE guard[m]
    BY <1>t DEF Unguard
  <2>2. \A m \in Locks : guard[m] = p => m = Lock(p)
    BY <1>0 DEF LockInv, GuardIsAttended, Guards
  <2>3. p # None /\ \A m \in Locks : guard'[m] # p
    BY <2>1, <2>2
  <2>4. CASE step[p] = "won"
    <3>1. step'[p] = "held" /\ pc' = pc /\ \A q \in Procs \ {p} : Rests(q)
      BY <1>s, <2>4, StepRests DEF Unguard
    <3>2. pc[p] \in OwnerJobs => lock'["owner"] = p
      BY <2>4 DEF Unguard, LockInv, OwnersAreNamed, HasOwnerLock
    <3>3. guard' \in [Locks -> Procs \cup {None}]
      BY <1>t DEF Unguard
    <3> QED
      BY <1>0, <1>t, <1>s, <1>l, <2>1, <2>3, <2>4, <3>1, <3>2, <3>3, LocksMoveOn
      DEF Unguard, GuardSteps
  <2>5. CASE step[p] # "won"
    <3>1. Begins(p) /\ \A q \in Procs \ {p} : Rests(q)
      BY <1>0, <2>5, RefusedBegins DEF Unguard
    <3> QED BY <2>1, <2>3, <3>1, LocksGivenUp DEF Unguard
  <2> QED BY <2>4, <2>5
<1>8. ReadOwnLock(p) => LockInv'
  <2> SUFFICES ASSUME ReadOwnLock(p) PROVE LockInv'
    OBVIOUS
  <2>1. CASE Released(p)
    BY <1>0, <2>1, ReleasedBegins, LocksAtRest DEF ReadOwnLock, files, GuardSteps
  <2>2. CASE lock[Lock(p)] = p /\ Step(p, "remove")
    <3>1. step'[p] = "remove" /\ pc' = pc /\ \A q \in Procs \ {p} : Rests(q)
      BY <1>s, <2>2, StepRests
    <3> QED
      BY <1>0, <1>t, <1>s, <1>l, <1>g, <1>o, <2>2, <3>1, LocksMoveOn
      DEF ReadOwnLock, files, GuardSteps
  <2> QED BY <2>1, <2>2 DEF ReadOwnLock
<1>9. RemoveLock(p) => LockInv'
  <2> SUFFICES ASSUME RemoveLock(p) PROVE LockInv'
    OBVIOUS
  <2>1. Begins(p) /\ \A q \in Procs \ {p} : Rests(q)
    BY <1>0, ReleasedBegins DEF RemoveLock
  <2>2. lock'["owner"] = lock["owner"] \/ lock["owner"] = p
    BY <1>0, <1>t DEF RemoveLock, LockInv, OwnersAreNamed, HasOwnerLock, Lock
  <2>3. \A m \in Locks : guard[m] # p
    BY <1>0 DEF RemoveLock, LockInv, GuardIsAttended, Guards
  <2> QED BY <2>1, <2>2, <2>3, LocksGivenUp DEF RemoveLock
<1> QED BY <1>1, <1>2, <1>3, <1>4, <1>5, <1>6, <1>7, <1>8, <1>9 DEF Locking

\* A process that is behind no guard goes to its next job.
LEMMA GotoKeepsLocks ==
  ASSUME TypeInv, LockInv, NEW p \in Procs, ~Gone(p), step[p] \notin GuardSteps,
         NEW job \in Jobs, Goto(p, job), UNCHANGED <<lock, guard>>
  PROVE  LockInv'
BY GotoBegins, LocksAtRest

\* A process that swaps the record under the owner lock goes on to release it.
LEMMA SwapKeepsLocks ==
  ASSUME TypeInv, LockInv, NEW p \in Procs, NEW job \in OwnerJobs,
         NEW expected, NEW new, Swap(p, job, expected, new)
  PROVE  LockInv'
<1>1. step'[p] = "release" /\ pc' = pc /\ \A q \in Procs \ {p} : Rests(q)
  BY StepRests DEF Swap, Steps
<1>2. lock["owner"] = p /\ guard[Lock(p)] # p
  BY DEF Swap, LockInv, OwnersAreNamed, HasOwnerLock, GuardIsAttended, Guards, Lock, Gone,
         OwnerJobs
<1>3. guard \in [Locks -> Procs \cup {None}] /\ "release" \in Steps /\ Lock(p) \in Locks
  BY DEF TypeInv, Types, Steps, Lock
<1> QED BY <1>1, <1>2, <1>3, LocksMoveOn DEF Swap, GuardSteps, OwnerJobs

LEMMA InvocationKeepsLocks ==
  ASSUME TypeInv, LockInv, NEW c \in Clis, Invocation(c)
  PROVE  LockInv'
<1>0. c \in Procs /\ (pc[c] \notin LockJobs \cup {"leave"} => step[c] \notin GuardSteps)
  BY DEF LockInv, StepsFit, GuardSteps
<1>1. ASSUME \E kind \in Kinds : Invoke(c, kind) PROVE LockInv'
  <2>1. PICK job \in {"probe", "gone", "enter"} : Goto(c, job)
    BY <1>1 DEF Invoke
  <2> QED BY <1>0, <1>1, <2>1, GotoKeepsLocks
          DEF Invoke, files, Jobs, Gone, LockJobs, OwnerJobs
<1>2. ASSUME Probe(c) PROVE LockInv'
  <2>1. PICK job \in {"gone", "enter"} : Goto(c, job)
    BY <1>2 DEF Probe
  <2> QED BY <1>0, <1>2, <2>1, GotoKeepsLocks
          DEF Probe, files, Jobs, Gone, LockJobs, OwnerJobs
<1>3. ASSUME ReadUnderLock(c) PROVE LockInv'
  <2>1. PICK job \in {"leave", "spawn", "request", "inspect"} : Goto(c, job)
    BY <1>3 DEF ReadUnderLock
  <2> QED BY <1>0, <1>3, <2>1, GotoKeepsLocks
          DEF ReadUnderLock, files, Jobs, Gone, GuardSteps
<1>4. ASSUME Inspect(c) \/ Disconnect(c) \/ Judge(c) \/ AwaitExit(c) \/ Wait(c)
      PROVE  LockInv'
  <2>1. PICK job \in {"leave", "spawn", "judge", "stop", "drop"} : Goto(c, job)
    BY <1>4 DEF Inspect, AfterInspection, Disconnect, Judge, AwaitExit, AfterStop, Wait
  <2>2. pc[c] \in {"inspect", "request", "judge", "stop", "wait"} /\ UNCHANGED <<lock, guard>>
    BY <1>4 DEF Inspect, Disconnect, Judge, AwaitExit, Wait, files
  <2> QED BY <1>0, <2>1, <2>2, GotoKeepsLocks DEF Jobs, Gone, LockJobs, OwnerJobs
<1>5. ASSUME Drop(c) PROVE LockInv'
  BY <1>0, <1>5, SwapKeepsLocks DEF Drop, OwnerJobs
<1>6. ASSUME Kill(c) PROVE LockInv'
  <2>1. AfterStop(c) \in {"drop", "spawn"} /\ AfterStop(c) \in Jobs /\ "gone" \in Jobs
    BY DEF AfterStop, Jobs
  <2>2. /\ pc' = [pc EXCEPT ![seen[c]] = "gone", ![c] = AfterStop(c)]
        /\ step' = [step EXCEPT ![seen[c]] = "none", ![c] = FirstStep(AfterStop(c))]
        /\ pc \in [Procs -> Jobs] /\ step \in [Procs -> Steps]
        /\ ~Gone(c) /\ ~Gone(seen[c]) /\ pc[c] = "stop"
    BY <1>6 DEF Kill, TypeInv, Types, Gone
  <2>3. FirstStep("gone") = "none"
    BY DEF FirstStep, OwnerJobs
  <2>4. \A q \in Procs \ {c, seen[c]} : Rests(q)
    BY <2>2 DEF Rests
  <2>5. Begins(c) /\ step[c] \notin GuardSteps
    BY <1>0, <2>1, <2>2 DEF Begins, LockJobs, OwnerJobs
  <2>6. seen[c] \in Procs /\ seen[c] # c => Begins(seen[c]) /\ pc'[seen[c]] = "gone"
    BY <1>0, <2>1, <2>2, <2>3 DEF Begins
  <2> QED BY <1>0, <1>6, <2>4, <2>5, <2>6, LocksAtRest DEF Kill, files
<1>7. ASSUME NEW s \in Servers, Spawn(c, s) PROVE LockInv'
  <2>1. /\ pc' = [pc EXCEPT ![s] = "adopt", ![c] = "wait"]
        /\ step' = [step EXCEPT ![s] = FirstStep("adopt"), ![c] = "none"]
        /\ pc \in [Procs -> Jobs] /\ step \in [Procs -> Steps]
        /\ pc[c] = "spawn" /\ pc[s] = "new" /\ s \in Procs /\ s # c
    BY <1>7 DEF Spawn, TypeInv, Types
  <2>2. FirstStep("wait") = "none" /\ {"adopt", "wait"} \subseteq Jobs
    BY DEF FirstStep, OwnerJobs, Jobs
  <2>3. Begins(c) /\ Begins(s)
    BY <1>0, <2>1, <2>2 DEF Begins, Gone
  <2>4. step[c] \notin GuardSteps /\ step[s] \notin GuardSteps
    BY <1>0, <2>1 DEF LockInv, StepsFit, GuardSteps, LockJobs, OwnerJobs
  <2>5. \A q \in Procs \ {c, s} : Rests(q)
    BY <2>1 DEF Rests
  <2> QED BY <1>0, <1>7, <2>3, <2>4, <2>5, LocksAtRest DEF Spawn, files
<1> QED BY <1>1, <1>2, <1>3, <1>4, <1>5, <1>6, <1>7 DEF Invocation

LEMMA ServerKeepsLocks ==
  ASSUME TypeInv, LockInv, NEW s \in Servers, Server(s)
  PROVE  LockInv'
<1>0. s \in Procs /\ (pc[s] \notin LockJobs \cup {"leave"} => step[s] \notin GuardSteps)
  BY DEF LockInv, StepsFit, GuardSteps
<1>1. ASSUME ReadOwner(s) PROVE LockInv'
  <2>1. PICK job \in {"claim", "check"} : Goto(s, job)
    BY <1>1 DEF ReadOwner
  <2> QED BY <1>0, <1>1, <2>1, GotoKeepsLocks DEF ReadOwner, files, Jobs, Gone, GuardSteps
<1>2. ASSUME StartDirectly(s) \/ CheckOwner(s) \/ Launch(s) \/ StopServing(s)
      PROVE  LockInv'
  <2>1. PICK job \in {"enter", "claim", "leave", "publish", "undo", "resign"} : Goto(s, job)
    BY <1>2 DEF StartDirectly, CheckOwner, Launch, StopServing
  <2>2. ~Gone(s) /\ step[s] \notin GuardSteps /\ UNCHANGED <<lock, guard>>
    BY <1>0, <1>2 DEF StartDirectly, CheckOwner, Launch, StopServing, files, Gone,
                      LockJobs, OwnerJobs, GuardSteps
  <2> QED BY <1>0, <2>1, <2>2, GotoKeepsLocks DEF Jobs
<1>3. ASSUME Claim(s) \/ Publish(s) \/ RemoveOwn(s) PROVE LockInv'
  BY <1>0, <1>3, SwapKeepsLocks DEF Claim, Publish, RemoveOwn, OwnerJobs
<1>4. ASSUME CheckHandoff(s) \/ AdoptLock(s) PROVE LockInv'
  <2>1. PICK next \in {"rename", "lost", "won"} :
          Step(s, next) /\ (AdoptLock(s) => next = "won") /\ (CheckHandoff(s) => next # "won")
    BY <1>4 DEF CheckHandoff, AdoptLock, Step, TypeInv, Types
  <2>2. step'[s] = next /\ pc' = pc /\ \A q \in Procs \ {s} : Rests(q)
    BY <1>0, <2>1, StepRests DEF Steps
  <2>3. pc[s] = "adopt" /\ Lock(s) = "startup" /\ step[s] \in GuardSteps
    BY <1>0, <1>4 DEF CheckHandoff, AdoptLock, LockInv, StepsFit, Lock, OwnerJobs, GuardSteps
  <2>4. lock'["owner"] = lock["owner"] /\ UNCHANGED guard
    BY <1>4 DEF CheckHandoff, AdoptLock, files, TypeInv, Types
  <2>5. guard["startup"] = s /\ guard \in [Locks -> Procs \cup {None}]
    BY <1>0, <2>3 DEF LockInv, GuardsAreOwn, Guards, GuardSteps, TypeInv, Types
  <2> QED
    BY <1>0, <2>1, <2>2, <2>3, <2>4, <2>5, LocksMoveOn DEF GuardSteps, Steps, OwnerJobs
<1> QED BY <1>1, <1>2, <1>3, <1>4 DEF Server

LEMMA CrashKeepsLocks ==
  ASSUME TypeInv, LockInv, NEW p \in Procs, Crash(p)
  PROVE  LockInv'
<1>1. ~Gone(p) /\ Goto(p, "gone") /\ "gone" \in Jobs /\ UNCHANGED guard
  BY DEF Crash, Gone, Jobs
<1>2. Begins(p) /\ pc'[p] = "gone" /\ \A q \in Procs \ {p} : Rests(q)
  BY <1>1, GotoBegins
<1>3. lock'["owner"] = lock["owner"] \/ lock["owner"] = None
  BY DEF Crash, TypeInv, Types
<1> QED BY <1>1, <1>2, <1>3, LocksGivenUp

LEMMA LocksHold == Spec => [](TypeInv /\ LockInv)
<1>1. Init => LockInv
  BY DEF Init, LockInv, StepsFit, GuardIsAttended, GuardsAreOwn, UnlinkedIsDead,
         OwnersAreNamed, Guards, HasOwnerLock, OwnerJobs, LockJobs
<1>2. TypeInv /\ LockInv /\ [Next]_vars => LockInv'
  <2> SUFFICES ASSUME TypeInv, LockInv, [Next]_vars PROVE LockInv'
    OBVIOUS
  <2>1. CASE Next
    BY <2>1, LockingKeepsLocks, CrashKeepsLocks, InvocationKeepsLocks, ServerKeepsLocks
    DEF Next
  <2>2. CASE UNCHANGED vars
    BY <2>2, LocksAtRest DEF vars, Rests
  <2> QED BY <2>1, <2>2
<1> QED BY <1>1, <1>2, TypesHold, PTL DEF Spec

\* Every variable has its type, and every guard file has a process behind it that
\* is going to remove it, or a dead one.
THEOREM TypesAreCorrect == Spec => []TypeOK
BY LocksHold, PTL DEF TypeInv, LockInv, TypeOK

\* The record is read and written by one process at a time, which the owner lock
\* names: however many replace the lock of a dead process, and whenever they
\* looked for its guard.
THEOREM RecordIsSwappedByOne == Spec => []OwnerLockIsExclusive
<1>1. LockInv => OwnerLockIsExclusive
  BY DEF LockInv, OwnersAreNamed, OwnerLockIsExclusive
<1> QED BY <1>1, LocksHold, PTL

-----------------------------------------------------------------------------
(* The record and the servers.                                             *)

LEMMA RefusedServes ==
  ASSUME TypeInv, NEW p \in Procs, Refused(p)
  PROVE  /\ \A q \in Procs \ {p} : Rests(q)
         /\ \/ pc'[p] = pc[p] /\ pc[p] # "publish"
            \/ pc'[p] = "gone"
            \/ pc'[p] = "leave" /\ pc[p] \in {"claim", "undo", "drop"}
            \/ pc'[p] = "undo" /\ pc[p] = "publish"
BY DEF Refused, Goto, Step, TypeInv, Types, Rests

LEMMA ReleasedServes ==
  ASSUME TypeInv, NEW p \in Procs, Released(p)
  PROVE  /\ \A q \in Procs \ {p} : Rests(q)
         /\ \/ pc'[p] \in {"gone", "serve"} /\ pc[p] # "claim"
            \/ pc[p] = "claim" /\ pc'[p] \in {"starting", "leave"}
            \/ pc[p] = "publish" /\ pc'[p] = IF p \in ready THEN "leave" ELSE "undo"
            \/ pc[p] \notin {"leave", "claim", "publish", "resign"} /\ pc'[p] = "leave"
         /\ pc'[p] = "serve" => pc[p] = "leave"
BY DEF Released, Goto, TypeInv, Types, Rests

\* One process goes on and leaves the record as it is.
LEMMA ServingMovesOn ==
  ASSUME TypeInv, ServerInv, NEW p \in Procs, ~Gone(p), \A q \in Procs \ {p} : Rests(q),
         UNCHANGED <<record, ready, dropped>>, seen' \in [Procs -> Servers \cup {None}],
         p \in ready =>
           \/ pc'[p] \in {"gone", "resign"}
           \/ pc'[p] \in {"leave", "serve"} /\ pc[p] \in {"publish", "leave", "serve"}
           \/ pc' = pc /\ (pc[p] = "publish" => step'[p] \in {"release", "remove"}),
         \A q \in Servers \ {p} : seen'[q] = seen[q],
         p \in Servers /\ pc'[p] = "claim" =>
           \/ seen'[p] = None \/ Gone(seen'[p])
           \/ pc[p] = "claim" /\ seen'[p] = seen[p]
  PROVE  ServerInv'
<1> USE DEF ServerInv, Rests
<1>1. ReadyIsPublished'
  <2> SUFFICES ASSUME NEW s \in ready
               PROVE  /\ pc'[s] \in {"publish", "leave", "serve"}
                           => record = s \/ s \in dropped
                      /\ pc'[s] \in {"publish", "leave", "serve", "resign", "gone"}
                      /\ pc'[s] = "publish" => step'[s] \in {"release", "remove"}
    BY DEF ReadyIsPublished
  <2>1. s \in Procs
    BY DEF TypeInv, Types
  <2>2. CASE s = p
    BY <2>2 DEF ReadyIsPublished, Gone
  <2>3. CASE s # p
    BY <2>1, <2>3 DEF ReadyIsPublished
  <2> QED BY <2>2, <2>3
<1>2. ClaimsAreOfDead'
  <2> SUFFICES ASSUME NEW s \in Servers, pc'[s] = "claim"
               PROVE  (seen[s] = None \/ Gone(seen[s]))'
    BY DEF ClaimsAreOfDead
  <2>1. seen'[s] = None \/ Gone(seen'[s])
    BY DEF ClaimsAreOfDead
  <2>2. seen'[s] # None => seen'[s] \in Procs
    OBVIOUS
  <2> QED BY <2>1, <2>2 DEF Gone
<1> QED BY <1>1, <1>2

LEMMA LockingServes ==
  ASSUME TypeInv, LockInv, ServerInv, NEW p \in Procs, Locking(p)
  PROVE  ServerInv'
<1>0. /\ ~Gone(p) /\ step[p] # "none" /\ UNCHANGED <<record, ready, dropped, seen>>
      /\ pc[p] \in LockJobs \cup {"leave"}
  BY StepsAreOfTheLiving
  DEF Locking, Look, Create, TakeGuard, Reread, UnlinkDead, Recreate, Unguard,
      ReadOwnLock, RemoveLock, files, facts
<1>t. seen' \in [Procs -> Servers \cup {None}]
  BY <1>0 DEF TypeInv, Types
<1>1. CASE step[p] \in {"release", "remove"}
  <2>1. Released(p) \/ Step(p, "remove")
    BY <1>1 DEF Locking, Look, Create, TakeGuard, Reread, UnlinkDead, Recreate, Unguard,
                ReadOwnLock, RemoveLock
  <2>2. CASE Released(p)
    BY <1>0, <1>t, <2>2, ReleasedServes, ServingMovesOn
    DEF ServerInv, ReadyIsPublished, LockJobs, OwnerJobs
  <2>3. CASE Step(p, "remove")
    BY <1>0, <1>t, <2>3, StepRests, ServingMovesOn DEF Steps
  <2> QED BY <2>1, <2>2, <2>3
<1>2. CASE step[p] \notin {"release", "remove"}
  <2>1. Refused(p) \/ \E next \in Steps : Step(p, next)
    BY <1>2 DEF Locking, Look, Create, TakeGuard, Reread, UnlinkDead, Recreate, Unguard,
                ReadOwnLock, RemoveLock, Steps
  <2>2. p \in ready => pc[p] \in {"leave", "serve", "resign"}
    BY <1>0, <1>2 DEF ServerInv, ReadyIsPublished, LockJobs, OwnerJobs
  <2>3. CASE Refused(p)
    BY <1>0, <1>t, <2>2, <2>3, RefusedServes, ServingMovesOn
  <2>4. ASSUME NEW next \in Steps, Step(p, next) PROVE ServerInv'
    BY <1>0, <1>t, <2>2, <2>4, StepRests, ServingMovesOn
  <2> QED BY <2>1, <2>3, <2>4
<1> QED BY <1>1, <1>2

LEMMA InvocationServes ==
  ASSUME TypeInv, LockInv, ServerInv, NEW c \in Clis, Invocation(c)
  PROVE  ServerInv'
<1>0. c \in Procs /\ c \notin ready /\ c \notin Servers
  BY DEF TypeInv, Types
<1>t. seen' \in [Procs -> Servers \cup {None}]
  BY InvocationKeepsTypes DEF TypeInv, Types
<1>1. ASSUME \/ \E kind \in Kinds : Invoke(c, kind)
             \/ Probe(c) \/ ReadUnderLock(c) \/ Inspect(c) \/ Disconnect(c) \/ Judge(c)
             \/ AwaitExit(c) \/ Wait(c)
      PROVE  ServerInv'
  <2>1. PICK job : Goto(c, job)
    BY <1>1 DEF Invoke, Probe, ReadUnderLock, Inspect, Disconnect, Judge, AwaitExit, Wait
  <2>2. \A q \in Procs \ {c} : Rests(q)
    BY <2>1 DEF Goto, Rests, TypeInv, Types
  <2>3. /\ UNCHANGED <<record, ready, dropped>> /\ ~Gone(c)
        /\ \A q \in Servers : seen'[q] = seen[q]
    BY <1>0, <1>1 DEF Invoke, Probe, ReadUnderLock, Inspect, Disconnect, Judge, AwaitExit,
                      Wait, files, facts, Gone, TypeInv, Types
  <2> QED BY <1>0, <1>t, <2>2, <2>3, ServingMovesOn
<1>2. ASSUME Drop(c) PROVE ServerInv'
  <2>1. pc' = pc /\ \A q \in Procs \ {c} : Rests(q)
    BY <1>0, <1>2, StepRests DEF Drop, Swap, Steps
  <2>2. seen' = seen /\ ready' = ready
    BY <1>2 DEF Drop, Swap
  <2>3. \A s \in ready : record = s \/ s \in dropped => record' = s \/ s \in dropped' \/ Gone(s)
    BY <1>2 DEF Drop, Swap
  <2>4. \A s \in ready : s \in Procs \ {c}
    BY <1>0 DEF TypeInv, Types
  <2> QED BY <2>1, <2>2, <2>3, <2>4
          DEF ServerInv, ReadyIsPublished, ClaimsAreOfDead, Gone, Rests
<1>3. ASSUME Kill(c) PROVE ServerInv'
  <2>1. /\ \A q \in Procs \ {c, seen[c]} : Rests(q)
        /\ UNCHANGED <<record, ready, dropped, seen>>
        /\ seen[c] \in Procs => pc'[seen[c]] = "gone"
    BY <1>0, <1>3 DEF Kill, files, facts, Rests, TypeInv, Types, SeenFits, LookingJobs
  <2>2. \A s \in Servers : pc'[s] = "gone" \/ Rests(s)
    BY <1>0, <2>1
  <2>3. ~Gone(c)
    BY <1>3 DEF Kill, Gone
  <2>4. ready \subseteq Servers /\ seen \in [Procs -> Servers \cup {None}]
    BY DEF TypeInv, Types
  <2>5. \A s \in Servers : Gone(s) => Gone(s)'
    BY <2>2 DEF Gone, Rests
  <2>6. ReadyIsPublished'
    BY <2>1, <2>2, <2>4 DEF ServerInv, ReadyIsPublished, Rests
  <2>7. ClaimsAreOfDead'
    BY <2>1, <2>2, <2>4, <2>5 DEF ServerInv, ClaimsAreOfDead, Rests, Gone
  <2> QED BY <2>6, <2>7 DEF ServerInv
<1>4. ASSUME NEW s \in Servers, Spawn(c, s) PROVE ServerInv'
  <2>1. /\ \A q \in Procs \ {c, s} : Rests(q)
        /\ UNCHANGED <<record, ready, dropped>> /\ \A q \in Servers : seen'[q] = seen[q]
        /\ pc[s] = "new" /\ pc'[s] = "adopt"
    BY <1>0, <1>4 DEF Spawn, files, Rests, TypeInv, Types
  <2>2. ready \subseteq Servers /\ seen \in [Procs -> Servers \cup {None}]
    BY DEF TypeInv, Types
  <2>3. s \notin ready
    BY <2>1 DEF ServerInv, ReadyIsPublished
  <2>4. \A q \in Servers : Gone(q) => Gone(q)'
    BY <1>0, <2>1 DEF Gone, Rests
  <2>5. ReadyIsPublished'
    BY <1>0, <2>1, <2>2, <2>3 DEF ServerInv, ReadyIsPublished, Rests
  <2>6. ClaimsAreOfDead'
    BY <1>0, <2>1, <2>2, <2>4 DEF ServerInv, ClaimsAreOfDead, Rests, Gone
  <2> QED BY <2>5, <2>6 DEF ServerInv
<1> QED BY <1>1, <1>2, <1>3, <1>4 DEF Invocation

LEMMA ServerServes ==
  ASSUME TypeInv, LockInv, ServerInv, NEW s \in Servers, Server(s)
  PROVE  ServerInv'
<1>0. s \in Procs /\ ready \subseteq Servers /\ ~(s \in Clis)
  BY DEF TypeInv, Types
<1>t. seen' \in [Procs -> Servers \cup {None}] /\ seen \in [Procs -> Servers \cup {None}]
  BY ServerKeepsTypes DEF TypeInv, Types
<1>1. ASSUME \/ StartDirectly(s) \/ CheckOwner(s) \/ ReadOwner(s) \/ Launch(s)
             \/ StopServing(s)
      PROVE  ServerInv'
  <2>1. PICK job \in {"enter", "claim", "check", "leave", "publish", "undo", "resign"} :
          /\ Goto(s, job)
          /\ s \in ready => job = "resign"
          /\ job = "claim" => seen'[s] = None \/ Gone(seen'[s])
    BY <1>0, <1>1, <1>t
    DEF StartDirectly, CheckOwner, ReadOwner, Launch, StopServing, ServerInv,
        ReadyIsPublished, Status, Decide, TypeInv, Types
  <2>2. pc'[s] = job /\ \A q \in Procs \ {s} : Rests(q)
    BY <1>0, <2>1 DEF Goto, Rests, TypeInv, Types
  <2>3. /\ UNCHANGED <<record, ready, dropped>> /\ ~Gone(s)
        /\ \A q \in Servers \ {s} : seen'[q] = seen[q]
    BY <1>0, <1>1, <1>t
    DEF StartDirectly, CheckOwner, ReadOwner, Launch, StopServing, files, facts,
        Gone
  <2> QED BY <1>0, <1>t, <2>1, <2>2, <2>3, ServingMovesOn
<1>2. ASSUME CheckHandoff(s) \/ AdoptLock(s) PROVE ServerInv'
  <2>1. PICK next \in Steps : Step(s, next)
    BY <1>2 DEF CheckHandoff, AdoptLock, Steps
  <2>2. pc' = pc /\ \A q \in Procs \ {s} : Rests(q)
    BY <1>0, <2>1, StepRests
  <2>3. UNCHANGED <<record, ready, dropped, seen>> /\ pc[s] = "adopt"
    BY <1>0, <1>2 DEF CheckHandoff, AdoptLock, files, facts, LockInv, StepsFit
  <2> QED BY <1>0, <1>t, <2>2, <2>3, ServingMovesOn DEF Gone
<1>3. ASSUME Claim(s) \/ Publish(s) \/ RemoveOwn(s) PROVE ServerInv'
  <2>1. step'[s] = "release" /\ pc' = pc /\ \A q \in Procs \ {s} : Rests(q)
    BY <1>0, <1>3, StepRests DEF Claim, Publish, RemoveOwn, Swap, Steps
  <2>2. UNCHANGED <<seen, dropped>> /\ pc[s] \in {"claim", "publish", "undo", "resign"}
    BY <1>3 DEF Claim, Publish, RemoveOwn, Swap, facts
  <2>3. ClaimsAreOfDead'
    BY <2>1, <2>2 DEF ServerInv, ClaimsAreOfDead, Gone
  <2>4. ReadyIsPublished'
    <3>1. CASE Claim(s)
      <4>1. ready' = ready /\ record' = IF record = seen[s] THEN s ELSE record
        BY <3>1 DEF Claim, Swap, facts
      <4>2. s \notin ready /\ (seen[s] = None \/ Gone(seen[s]))
        BY <3>1 DEF Claim, Swap, ServerInv, ReadyIsPublished, ClaimsAreOfDead
      <4> QED BY <1>0, <2>1, <2>2, <4>1, <4>2
              DEF ServerInv, ReadyIsPublished, Rests, Gone
    <3>2. CASE Publish(s)
      <4>1. ready' = (IF record = s THEN ready \cup {s} ELSE ready) /\ record' = record
            /\ pc[s] = "publish"
        BY <3>2 DEF Publish, Swap
      <4> QED BY <1>0, <2>1, <2>2, <4>1 DEF ServerInv, ReadyIsPublished, Rests
    <3>3. CASE RemoveOwn(s)
      <4>1. /\ ready' = ready /\ (record' = record \/ record = s)
            /\ pc[s] \in {"undo", "resign"}
        BY <3>3 DEF RemoveOwn, Swap, facts
      <4> QED BY <1>0, <2>1, <2>2, <4>1 DEF ServerInv, ReadyIsPublished, Rests
    <3> QED BY <1>3, <3>1, <3>2, <3>3
  <2> QED BY <2>3, <2>4 DEF ServerInv
<1> QED BY <1>1, <1>2, <1>3 DEF Server

LEMMA CrashServes ==
  ASSUME TypeInv, ServerInv, NEW p \in Procs, Crash(p)
  PROVE  ServerInv'
<1>1. pc'[p] = "gone" /\ \A q \in Procs \ {p} : Rests(q)
  BY DEF Crash, Goto, Rests, TypeInv, Types
<1>2. UNCHANGED <<record, ready, dropped, seen>> /\ ~Gone(p)
  BY DEF Crash, Gone
<1>3. seen' \in [Procs -> Servers \cup {None}]
  BY <1>2 DEF TypeInv, Types
<1> QED BY <1>1, <1>2, <1>3, ServingMovesOn

LEMMA ServersHold == Spec => [](TypeInv /\ LockInv /\ ServerInv)
<1>1. Init => ServerInv
  BY DEF Init, ServerInv, ReadyIsPublished, ClaimsAreOfDead
<1>2. TypeInv /\ LockInv /\ ServerInv /\ [Next]_vars => ServerInv'
  <2> SUFFICES ASSUME TypeInv, LockInv, ServerInv, [Next]_vars PROVE ServerInv'
    OBVIOUS
  <2>1. CASE Next
    BY <2>1, LockingServes, CrashServes, InvocationServes, ServerServes DEF Next
  <2>2. CASE UNCHANGED vars
    BY <2>2 DEF vars, ServerInv, ReadyIsPublished, ClaimsAreOfDead, Gone
  <2> QED BY <2>1, <2>2
<1> QED BY <1>1, <1>2, LocksHold, PTL DEF Spec

\* No two servers serve the project, unless a disconnect removed the record of one
\* of them: a server is ready only after it published the record as its own, and
\* keeps it.
THEOREM ServersServeAlone == Spec => []OneServerServes
<1>1. ServerInv => OneServerServes
  BY DEF ServerInv, ReadyIsPublished, OneServerServes
<1> QED BY <1>1, ServersHold, PTL

\* The record of a live server is not replaced: what claims it has found a dead
\* server there, and swaps it only if it still names that one.
THEOREM OwnersAreReplacedDead == Spec => LiveOwnerIsNotReplaced
<1>1. ServerInv /\ [Next]_vars
        => [record # None /\ record' \notin {record, None} => Gone(record)]_vars
  <2> SUFFICES ASSUME ServerInv, Next, record # None, record' \notin {record, None}
               PROVE  Gone(record)
    BY DEF vars
  <2>1. PICK s \in Servers : Claim(s)
    BY DEF Next, Locking, Look, Create, TakeGuard, Reread, UnlinkDead, Recreate, Unguard,
           ReadOwnLock, RemoveLock, Crash, Invocation, Invoke, Probe, ReadUnderLock,
           Inspect, Disconnect, Judge, Drop, AwaitExit, Kill, Spawn, Wait, Server,
           StartDirectly, CheckHandoff, AdoptLock, ReadOwner, CheckOwner, Launch, Publish,
           RemoveOwn, StopServing, Swap, files
  <2>2. record = seen[s] /\ pc[s] = "claim"
    BY <2>1 DEF Claim, Swap
  <2> QED BY <2>2 DEF ServerInv, ClaimsAreOfDead
<1> QED BY <1>1, ServersHold, PTL DEF Spec, LiveOwnerIsNotReplaced

-----------------------------------------------------------------------------
(* The startup lock.                                                       *)

\* The lock file names whoever starts or stops a server, and whoever is going to
\* remove it; what is unlinked under the guard names a dead process; and the lock
\* that a server adopts is the one of an invocation that waits for it, or died.
StartsWell(p) ==
  /\ HasStartupLock(p) => lock["startup"] = p
  /\ pc[p] \notin OwnerJobs /\ step[p] = "remove" => lock["startup"] = p
  /\ pc[p] \notin OwnerJobs /\ step[p] = "unlink" => Dead(lock["startup"])
  /\ pc[p] = "adopt" => step[p] \in {"guard", "reread", "rename", "won", "lost", "held"}
  /\ p \in Servers /\ Adopting(p) =>
       /\ launched[p] \in Clis /\ pc[launched[p]] \in {"wait", "gone"}
       /\ pc[launched[p]] = "wait" => seen[launched[p]] = p
       /\ step[p] = "rename" => lock["startup"] = launched[p]

StartupInv == hasty \/ \A p \in Procs : StartsWell(p)

\* An invocation waits for its server, unless that one has the lock or is gone.
WaitsLast ==
  /\ \A q \in Procs : Gone(q) => Gone(q)'
  /\ \A c \in Clis : pc[c] = "wait" =>
       \/ pc'[c] = "gone"
       \/ pc'[c] = "wait" /\ seen'[c] = seen[c]
       \/ ~Adopting(seen[c])

\* The lock stays, or it is not the one that q relies on.
LockStaysFor(q) ==
  \/ lock'["startup"] = lock["startup"]
  \/ lock["startup"] = None
  \/ /\ lock["startup"] # q \/ pc[q] \in {"wait", "gone"}
     /\ \/ guard["startup"] # q
        \/ lock["startup"] \in Procs /\ pc[lock["startup"]] \notin {"wait", "gone"}

LEMMA OthersStartWell ==
  ASSUME TypeInv, LockInv, NEW q \in Procs, StartsWell(q), Rests(q), LockStaysFor(q),
         WaitsLast, q \in Servers => launched'[q] = launched[q]
  PROVE  StartsWell(q)'
<1> USE DEF Rests
<1>1. ASSUME HasStartupLock(q)' PROVE lock'["startup"] = q
  <2>1. HasStartupLock(q) /\ lock["startup"] = q
    BY <1>1 DEF HasStartupLock, StartsWell
  <2>2. pc[q] \notin {"wait", "gone"} /\ q # None
    BY <2>1 DEF HasStartupLock
  <2> QED BY <2>1, <2>2 DEF LockStaysFor
<1>2. ASSUME pc'[q] \notin OwnerJobs, step'[q] = "remove" PROVE lock'["startup"] = q
  <2>1. lock["startup"] = q /\ q # None
    BY <1>2 DEF StartsWell
  <2>2. pc[q] \notin {"wait", "gone"}
    BY <1>2, StepsAreOfTheLiving DEF Gone, LockJobs, OwnerJobs
  <2> QED BY <2>1, <2>2 DEF LockStaysFor
<1>3. ASSUME pc'[q] \notin OwnerJobs, step'[q] = "unlink" PROVE Dead(lock["startup"])'
  <2>1. Dead(lock["startup"]) /\ guard["startup"] = q
    BY <1>3 DEF StartsWell, LockInv, GuardsAreOwn, Guards, Lock
  <2>2. lock'["startup"] = lock["startup"]
    BY <2>1 DEF LockStaysFor, Dead, Gone
  <2> QED BY <2>1, <2>2 DEF Dead, WaitsLast
<1>4. ASSUME q \in Servers, Adopting(q)'
      PROVE  /\ launched'[q] \in Clis /\ pc'[launched'[q]] \in {"wait", "gone"}
             /\ pc'[launched'[q]] = "wait" => seen'[launched'[q]] = q
             /\ step'[q] = "rename" => lock'["startup"] = launched'[q]
  <2> DEFINE c == launched[q]
  <2>1. /\ Adopting(q) /\ c \in Clis /\ pc[c] \in {"wait", "gone"} /\ launched'[q] = c
        /\ pc[c] = "wait" => seen[c] = q
        /\ step[q] = "rename" => lock["startup"] = c
    BY <1>4 DEF Adopting, StartsWell
  <2>2. pc'[c] \in {"wait", "gone"} /\ (pc'[c] = "wait" => seen'[c] = q)
    BY <2>1, <1>4 DEF WaitsLast, Gone
  <2>3. ASSUME step'[q] = "rename" PROVE lock'["startup"] = c
    <3>1. guard["startup"] = q
      BY <2>1, <2>3 DEF LockInv, GuardsAreOwn, Guards, Lock, Adopting, OwnerJobs
    <3>2. lock["startup"] = c /\ c # None
      BY <2>1, <2>3
    <3> QED BY <2>1, <3>1, <3>2 DEF LockStaysFor
  <2> QED BY <2>1, <2>2, <2>3
<1> QED BY <1>1, <1>2, <1>3, <1>4 DEF StartsWell

\* A process that begins a job begins it with the startup lock, if the job needs it.
LEMMA BeginsWell ==
  ASSUME TypeInv, LockInv, NEW p \in Procs, Begins(p), pc'[p] # "adopt",
         HasStartupLock(p)' => lock'["startup"] = p
  PROVE  StartsWell(p)'
<1>1. step'[p] \in {"look", "guard", "release", "none"}
  BY FirstSteps DEF Begins
<1> QED BY <1>1 DEF StartsWell, Adopting

\* A process begins its next job, and the locks stay.
LEMMA GotoStartsWell ==
  ASSUME TypeInv, LockInv, \A q \in Procs : StartsWell(q),
         NEW p \in Procs, ~Gone(p), NEW job \in Jobs, Goto(p, job), job # "adopt",
         UNCHANGED <<lock, guard, launched>>, \A q \in Procs \ {p} : seen'[q] = seen[q],
         pc[p] = "wait" => job = "gone" \/ ~Adopting(seen[p]),
         job \in {"inspect", "request", "judge", "stop", "drop", "spawn", "check",
                  "claim", "starting", "publish", "undo"} => HasStartupLock(p)
  PROVE  \A q \in Procs : StartsWell(q)'
<1>1. Begins(p) /\ pc'[p] = job /\ \A q \in Procs \ {p} : Rests(q)
  BY GotoBegins
<1>2. WaitsLast
  <2>1. \A q \in Procs : Gone(q) => Gone(q)'
    BY <1>1 DEF Rests, Gone
  <2>2. ASSUME NEW c \in Clis, pc[c] = "wait"
        PROVE  \/ pc'[c] = "gone"
               \/ pc'[c] = "wait" /\ seen'[c] = seen[c]
               \/ ~Adopting(seen[c])
    <3>1. CASE c = p
      BY <1>1, <2>2, <3>1
    <3>2. CASE c # p
      BY <1>1, <2>2, <3>2 DEF Rests
    <3> QED BY <3>1, <3>2
  <2> QED BY <2>1, <2>2 DEF WaitsLast
<1>3. \A q \in Procs \ {p} : StartsWell(q)'
  BY <1>1, <1>2, OthersStartWell DEF LockStaysFor
<1>4. HasStartupLock(p)' => HasStartupLock(p)
  <2>1. step'[p] \notin {"won", "held"}
    BY <1>1, FirstSteps DEF Begins
  <2> QED BY <1>1, <2>1 DEF HasStartupLock
<1>5. StartsWell(p)'
  BY <1>1, <1>4, BeginsWell DEF StartsWell
<1> QED BY <1>3, <1>5

\* A process goes on in its job.
LEMMA StepStartsWell ==
  ASSUME TypeInv, LockInv, \A q \in Procs : StartsWell(q),
         NEW p \in Procs, step[p] # "none", NEW next \in Steps, Step(p, next),
         UNCHANGED <<seen, launched>>, \A q \in Procs \ {p} : LockStaysFor(q),
         pc[p] \in OwnerJobs => lock'["startup"] = lock["startup"],
         pc[p] \in {"enter", "adopt"} /\ next \in {"won", "held"} => lock'["startup"] = p,
         pc[p] \notin OwnerJobs /\ next = "remove" => lock'["startup"] = p,
         pc[p] \notin OwnerJobs /\ next = "unlink" => Dead(lock'["startup"]),
         pc[p] = "adopt" => next \in {"guard", "reread", "rename", "won", "lost", "held"},
         p \in Servers /\ pc[p] = "adopt" /\ next \in {"guard", "reread", "rename"} =>
           /\ Adopting(p)
           /\ next = "rename" => lock'["startup"] = launched[p]
  PROVE  \A q \in Procs : StartsWell(q)'
<1>1. step'[p] = next /\ pc' = pc /\ \A q \in Procs \ {p} : Rests(q)
  BY StepRests
<1>2. ~Gone(p) /\ pc[p] \in LockJobs \cup {"leave"}
  BY StepsAreOfTheLiving
<1>3. WaitsLast
  BY <1>1 DEF WaitsLast, Gone
<1>4. \A q \in Procs \ {p} : StartsWell(q)'
  BY <1>1, <1>3, OthersStartWell
<1>5. StartsWell(p)'
  <2>1. HasStartupLock(p)' => lock'["startup"] = p
    BY <1>1, <1>2 DEF HasStartupLock, LockJobs, OwnerJobs, StartsWell
  <2>2. p \in Servers /\ Adopting(p)' =>
          /\ launched'[p] \in Clis /\ pc'[launched'[p]] \in {"wait", "gone"}
          /\ pc'[launched'[p]] = "wait" => seen'[launched'[p]] = p
          /\ step'[p] = "rename" => lock'["startup"] = launched'[p]
    BY <1>1 DEF Adopting, StartsWell
  <2>3. Dead(lock["startup"])' <=> Dead(lock'["startup"])
    BY <1>1 DEF Dead, Gone
  <2> QED BY <1>1, <2>1, <2>2, <2>3 DEF StartsWell
<1> QED BY <1>4, <1>5

LEMMA LockingStartsWell ==
  ASSUME TypeInv, LockInv, \A q \in Procs : StartsWell(q), NEW p \in Procs, Locking(p)
  PROVE  \A q \in Procs : StartsWell(q)'
<1>0. /\ ~Gone(p) /\ step[p] # "none" /\ pc[p] \in LockJobs \cup {"leave"}
      /\ UNCHANGED <<record, seen, launched>>
  BY StepsAreOfTheLiving
  DEF Locking, Look, Create, TakeGuard, Reread, UnlinkDead, Recreate, Unguard,
      ReadOwnLock, RemoveLock, files, facts
<1>1. /\ guard \in [Locks -> Procs \cup {None}]
      /\ lock \in [Locks -> Procs \cup {None, Empty}]
  BY DEF TypeInv, Types
<1>2. {"look", "create", "held", "guard", "reread", "unlink", "lost", "recreate", "won",
       "remove", "release"} \subseteq Steps
  BY DEF Steps
<1>3. Lock(p) = IF pc[p] \in OwnerJobs THEN "owner" ELSE "startup"
  BY DEF Lock
<1>4. step[p] \in GuardSteps => guard[Lock(p)] = p
  BY <1>3 DEF LockInv, GuardsAreOwn, Guards, GuardSteps
<1>5. pc[p] \notin {"wait", "gone"}
  BY <1>0 DEF LockJobs, OwnerJobs
\* What a process becomes that begins another job.
<1>6. ASSUME Refused(p) \/ Released(p),
             \A q \in Procs \ {p} : LockStaysFor(q),
             pc[p] \in OwnerJobs => lock'["startup"] = lock["startup"]
      PROVE  \A q \in Procs : StartsWell(q)'
  <2>1. Begins(p) /\ \A q \in Procs \ {p} : Rests(q)
    BY <1>0, <1>6, RefusedBegins, ReleasedBegins
  <2>2. WaitsLast
    BY <1>0, <1>5, <2>1 DEF WaitsLast, Rests, Gone
  <2>3. \A q \in Procs \ {p} : StartsWell(q)'
    BY <1>0, <1>6, <2>1, <2>2, OthersStartWell
  <2>4. pc'[p] # "adopt" /\ (HasStartupLock(p)' => pc[p] \in {"claim", "publish", "undo"})
    <3>1. pc \in [Procs -> Jobs] /\ step \in [Procs -> Steps]
      BY DEF TypeInv, Types
    <3>2. CASE Refused(p)
      BY <1>0, <3>1, <3>2 DEF Refused, Goto, Step, HasStartupLock, FirstStep, OwnerJobs
    <3>3. CASE Released(p)
      BY <1>0, <3>1, <3>3 DEF Released, Goto, HasStartupLock, FirstStep, OwnerJobs
    <3> QED BY <1>6, <3>2, <3>3
  <2>5. HasStartupLock(p)' => lock'["startup"] = p
    BY <1>6, <2>4 DEF StartsWell, HasStartupLock, OwnerJobs
  <2>6. StartsWell(p)'
    BY <2>1, <2>4, <2>5, BeginsWell
  <2> QED BY <2>3, <2>6
<1>7. lock' = lock => \A q \in Procs : LockStaysFor(q)
  BY DEF LockStaysFor
<1>a. pc[p] = "adopt" => step[p] \in {"guard", "reread", "rename", "won", "lost", "held"}
  BY DEF StartsWell
<1>8. ASSUME Look(p) \/ TakeGuard(p) PROVE \A q \in Procs : StartsWell(q)'
  <2>1. lock' = lock
    BY <1>8 DEF Look, TakeGuard, files
  <2>2. CASE Refused(p)
    BY <1>6, <1>7, <1>8, <2>1, <2>2
    DEF Look, TakeGuard
  <2>3. CASE step[p] = "look" /\ Step(p, "create")
    BY <1>0, <1>2, <1>7, <1>a, <2>1, <2>3, StepStartsWell
  <2>4. CASE step[p] = "guard" /\ Step(p, "reread")
    BY <1>0, <1>2, <1>7, <2>1, <2>4, StepStartsWell DEF Adopting
  <2> QED BY <1>8, <2>2, <2>3, <2>4 DEF Look, TakeGuard
<1>9. ASSUME Create(p) PROVE \A q \in Procs : StartsWell(q)'
  <2>1. CASE lock[Lock(p)] = None
    <3>1. lock' = [lock EXCEPT ![Lock(p)] = p] /\ Step(p, "held")
      BY <1>9, <2>1 DEF Create
    <3>2. /\ \A q \in Procs : LockStaysFor(q)
          /\ pc[p] \in OwnerJobs => lock'["startup"] = lock["startup"]
          /\ pc[p] \notin OwnerJobs => lock'["startup"] = p
      BY <1>1, <1>3, <2>1, <3>1 DEF LockStaysFor
    <3> QED BY <1>0, <1>2, <3>1, <3>2, StepStartsWell DEF OwnerJobs
  <2>2. CASE lock[Lock(p)] # None
    <3>1. lock' = lock /\ Step(p, "guard")
      BY <1>9, <2>2 DEF Create
    <3>2. pc[p] # "adopt"
      BY <1>9 DEF Create, StartsWell
    <3> QED BY <1>0, <1>2, <1>7, <3>1, <3>2, StepStartsWell
  <2> QED BY <2>1, <2>2
<1>10. ASSUME Reread(p) PROVE \A q \in Procs : StartsWell(q)'
  <2>1. PICK next \in {"unlink", "lost"} :
          Step(p, next) /\ lock' = lock /\ (next = "unlink" => Dead(lock[Lock(p)]))
    BY <1>10 DEF Reread, files
  <2> QED BY <1>0, <1>2, <1>3, <1>7, <1>10, <2>1, StepStartsWell DEF Reread
<1>11. ASSUME UnlinkDead(p) PROVE \A q \in Procs : StartsWell(q)'
  <2>1. PICK next \in {"lost", "recreate"} : Step(p, next)
    BY <1>11 DEF UnlinkDead
  <2>2. pc[p] \in OwnerJobs => lock'["startup"] = lock["startup"]
    BY <1>1, <1>3, <1>11 DEF UnlinkDead
  <2>3. pc[p] \notin OwnerJobs => Dead(lock["startup"]) /\ guard["startup"] = p
    BY <1>3, <1>4, <1>11 DEF UnlinkDead, StartsWell, GuardSteps
  <2>4. \A q \in Procs \ {p} : LockStaysFor(q)
    BY <2>2, <2>3 DEF LockStaysFor, Dead, Gone
  <2>5. pc[p] # "adopt"
    BY <1>11, <1>a DEF UnlinkDead
  <2> QED BY <1>0, <1>2, <2>1, <2>2, <2>4, <2>5, StepStartsWell
<1>12. ASSUME Recreate(p) PROVE \A q \in Procs : StartsWell(q)'
  <2>1. PICK next \in {"won", "lost"} :
          Step(p, next) /\ (next = "won" <=> lock[Lock(p)] = None)
    BY <1>12 DEF Recreate
  <2>2. lock' = [lock EXCEPT ![Lock(p)] = IF lock[Lock(p)] = None THEN p ELSE lock[Lock(p)]]
    BY <1>12 DEF Recreate
  <2>3. /\ \A q \in Procs : LockStaysFor(q)
        /\ pc[p] \in OwnerJobs => lock'["startup"] = lock["startup"]
        /\ pc[p] \notin OwnerJobs /\ next = "won" => lock'["startup"] = p
    BY <1>1, <1>3, <2>1, <2>2 DEF LockStaysFor
  <2> QED BY <1>0, <1>2, <2>1, <2>3, StepStartsWell DEF OwnerJobs
<1>13. ASSUME Unguard(p) PROVE \A q \in Procs : StartsWell(q)'
  <2>1. lock' = lock
    BY <1>13 DEF Unguard
  <2>2. CASE step[p] = "won"
    <3>1. Step(p, "held") /\ (pc[p] \in {"enter", "adopt"} => lock["startup"] = p)
      BY <1>13, <2>2 DEF Unguard, StartsWell, HasStartupLock
    <3> QED BY <1>0, <1>2, <1>7, <2>1, <3>1, StepStartsWell
  <2>3. CASE step[p] # "won"
    BY <1>6, <1>7, <1>13, <2>1, <2>3 DEF Unguard
  <2> QED BY <2>2, <2>3
<1>14. ASSUME ReadOwnLock(p) PROVE \A q \in Procs : StartsWell(q)'
  <2>1. lock' = lock
    BY <1>14 DEF ReadOwnLock, files
  <2>2. CASE lock[Lock(p)] = p
    <3>1. Step(p, "remove") /\ (pc[p] \notin OwnerJobs => lock["startup"] = p)
      BY <1>3, <1>14, <2>2 DEF ReadOwnLock
    <3>2. pc[p] # "adopt"
      BY <1>14, <1>a DEF ReadOwnLock
    <3> QED BY <1>0, <1>2, <1>7, <2>1, <3>1, <3>2, StepStartsWell
  <2>3. CASE lock[Lock(p)] # p
    BY <1>6, <1>7, <1>14, <2>1, <2>3 DEF ReadOwnLock
  <2> QED BY <2>2, <2>3
<1>15. ASSUME RemoveLock(p) PROVE \A q \in Procs : StartsWell(q)'
  <2>1. pc[p] \in OwnerJobs => lock'["startup"] = lock["startup"]
    BY <1>1, <1>3, <1>15 DEF RemoveLock
  <2>2. pc[p] \notin OwnerJobs => lock["startup"] = p
    BY <1>15 DEF RemoveLock, StartsWell
  <2>3. \A q \in Procs \ {p} : LockStaysFor(q)
    BY <1>5, <2>1, <2>2 DEF LockStaysFor
  <2>4. Released(p)
    BY <1>15 DEF RemoveLock
  <2> QED BY <1>6, <2>1, <2>3, <2>4
<1> QED
  BY <1>8, <1>9, <1>10, <1>11, <1>12, <1>13, <1>14, <1>15 DEF Locking

LEMMA InvocationStartsWell ==
  ASSUME TypeInv, LockInv, \A q \in Procs : StartsWell(q), NEW c \in Clis, Invocation(c),
         ~hasty'
  PROVE  \A q \in Procs : StartsWell(q)'
<1>0. c \in Procs /\ pc \in [Procs -> Jobs] /\ step \in [Procs -> Steps]
      /\ seen \in [Procs -> Servers \cup {None}]
  BY DEF TypeInv, Types
<1>1. ASSUME \E kind \in Kinds : Invoke(c, kind) PROVE \A q \in Procs : StartsWell(q)'
  <2>1. PICK job \in {"probe", "gone", "enter"} : Goto(c, job)
    BY <1>1 DEF Invoke
  <2> QED BY <1>0, <1>1, <2>1, GotoStartsWell DEF Invoke, files, Jobs, Gone
<1>2. ASSUME Probe(c) PROVE \A q \in Procs : StartsWell(q)'
  <2>1. PICK job \in {"gone", "enter"} : Goto(c, job)
    BY <1>2 DEF Probe
  <2> QED BY <1>0, <1>2, <2>1, GotoStartsWell DEF Probe, files, Jobs, Gone
<1>3. ASSUME ReadUnderLock(c) PROVE \A q \in Procs : StartsWell(q)'
  <2>1. PICK job \in {"leave", "spawn", "request", "inspect"} : Goto(c, job)
    BY <1>3 DEF ReadUnderLock
  <2> QED BY <1>0, <1>3, <2>1, GotoStartsWell
          DEF ReadUnderLock, files, facts, Jobs, Gone, HasStartupLock
<1>4. ASSUME Inspect(c) \/ Disconnect(c) \/ Judge(c) \/ AwaitExit(c)
      PROVE  \A q \in Procs : StartsWell(q)'
  <2>1. PICK job \in {"leave", "spawn", "judge", "stop", "drop"} : Goto(c, job)
    BY <1>4 DEF Inspect, AfterInspection, Disconnect, Judge, AwaitExit, AfterStop
  <2>2. /\ pc[c] \in {"inspect", "request", "judge", "stop"}
        /\ UNCHANGED <<lock, guard, launched, seen>>
    BY <1>4 DEF Inspect, Disconnect, Judge, AwaitExit, files, facts
  <2> QED BY <1>0, <2>1, <2>2, GotoStartsWell DEF Jobs, Gone, HasStartupLock
<1>5. ASSUME Wait(c) PROVE \A q \in Procs : StartsWell(q)'
  <2>1. Goto(c, "leave") /\ pc[c] = "wait" /\ ~Adopting(seen[c])
    BY <1>5 DEF Wait
  <2> QED BY <1>0, <1>5, <2>1, GotoStartsWell DEF Wait, files, Jobs, Gone
<1>6. ASSUME Drop(c) PROVE \A q \in Procs : StartsWell(q)'
  <2>1. /\ Step(c, "release") /\ pc[c] = "drop" /\ step[c] = "held"
        /\ UNCHANGED <<lock, guard, seen, launched>>
    BY <1>6 DEF Drop, Swap
  <2> QED BY <1>0, <2>1, StepStartsWell DEF LockStaysFor, Steps, OwnerJobs
<1>7. ASSUME Kill(c) PROVE \A q \in Procs : StartsWell(q)'
  <2>1. AfterStop(c) \in {"drop", "spawn"} /\ AfterStop(c) \in Jobs
    BY DEF AfterStop, Jobs
  <2>2. /\ pc' = [pc EXCEPT ![seen[c]] = "gone", ![c] = AfterStop(c)]
        /\ step' = [step EXCEPT ![seen[c]] = "none", ![c] = FirstStep(AfterStop(c))]
        /\ ~Gone(c) /\ pc[c] = "stop" /\ UNCHANGED <<lock, guard, seen, launched>>
    BY <1>7 DEF Kill, files, facts, Gone
  <2>3. seen[c] \in Servers /\ c # seen[c]
    BY <1>0, <2>2 DEF TypeInv, SeenFits, LookingJobs
  <2>4. \A q \in Procs \ {c, seen[c]} : Rests(q)
    BY <1>0, <2>2 DEF Rests
  <2>5. /\ pc'[c] = AfterStop(c) /\ step'[c] = FirstStep(AfterStop(c))
        /\ pc'[seen[c]] = "gone" /\ step'[seen[c]] = "none"
    BY <1>0, <2>2, <2>3
  <2>6. WaitsLast
    <3>1. \A q \in Procs : Gone(q) => Gone(q)'
      BY <2>2, <2>4, <2>5 DEF Rests, Gone
    <3>2. \A d \in Clis : pc[d] = "wait" => pc'[d] = "wait" /\ seen'[d] = seen[d]
      BY <2>2, <2>3, <2>4 DEF Rests
    <3> QED BY <3>1, <3>2 DEF WaitsLast
  <2>7. \A q \in Procs \ {c, seen[c]} : StartsWell(q)'
    BY <2>2, <2>4, <2>6, OthersStartWell DEF LockStaysFor
  <2>8. StartsWell(c)'
    <3>1. Begins(c) /\ pc'[c] # "adopt"
      BY <2>1, <2>2, <2>5 DEF Begins
    <3>2. lock'["startup"] = c
      BY <1>0, <2>2 DEF StartsWell, HasStartupLock
    <3> QED BY <1>0, <3>1, <3>2, BeginsWell
  <2>9. StartsWell(seen[c])'
    <3>1. PICK s \in Servers : s = seen[c]
      BY <2>3
    <3>2. StartsWell(s)'
      BY <2>5, <3>1 DEF StartsWell, HasStartupLock, Adopting
    <3> QED BY <2>2, <3>1, <3>2
  <2> QED BY <2>7, <2>8, <2>9, <2>2
<1>8. ASSUME NEW s \in Servers, Spawn(c, s) PROVE \A q \in Procs : StartsWell(q)'
  <2>1. /\ pc' = [pc EXCEPT ![s] = "adopt", ![c] = "wait"]
        /\ step' = [step EXCEPT ![s] = FirstStep("adopt"), ![c] = "none"]
        /\ launched' = [launched EXCEPT ![s] = c] /\ seen' = [seen EXCEPT ![c] = s]
        /\ launched \in [Servers -> Clis \cup {None}]
        /\ pc[c] = "spawn" /\ pc[s] = "new" /\ s \in Procs /\ s # c
        /\ UNCHANGED <<lock, guard>>
    BY <1>8 DEF Spawn, files, TypeInv, Types
  <2>2. FirstStep("adopt") = "guard"
    BY DEF FirstStep, OwnerJobs
  <2>3. /\ pc'[c] = "wait" /\ step'[c] = "none" /\ seen'[c] = s
        /\ pc'[s] = "adopt" /\ step'[s] = "guard" /\ launched'[s] = c
    BY <1>0, <2>1, <2>2
  <2>4. \A q \in Procs \ {c, s} : Rests(q) /\ seen'[q] = seen[q]
    BY <1>0, <2>1 DEF Rests
  <2>5. \A q \in Servers \ {s} : launched'[q] = launched[q]
    BY <2>1
  <2>6. WaitsLast
    BY <2>1, <2>4 DEF WaitsLast, Rests, Gone
  <2>7. \A q \in Procs \ {c, s} : StartsWell(q)'
    BY <2>1, <2>4, <2>5, <2>6, OthersStartWell DEF LockStaysFor
  <2>8. StartsWell(c)'
    BY <2>3 DEF StartsWell, HasStartupLock, Adopting
  <2>9. StartsWell(s)'
    BY <2>3 DEF StartsWell, HasStartupLock, Adopting
  <2> QED BY <2>7, <2>8, <2>9
<1> QED BY <1>1, <1>2, <1>3, <1>4, <1>5, <1>6, <1>7, <1>8 DEF Invocation

LEMMA ServerStartsWell ==
  ASSUME TypeInv, LockInv, \A q \in Procs : StartsWell(q), NEW s \in Servers, Server(s)
  PROVE  \A q \in Procs : StartsWell(q)'
<1>0. s \in Procs
  OBVIOUS
<1>1. ASSUME ReadOwner(s) PROVE \A q \in Procs : StartsWell(q)'
  <2>1. PICK job \in {"claim", "check"} : Goto(s, job)
    BY <1>1 DEF ReadOwner
  <2> QED BY <1>0, <1>1, <2>1, GotoStartsWell
          DEF ReadOwner, files, facts, Jobs, Gone, HasStartupLock, TypeInv, Types
<1>2. ASSUME StartDirectly(s) \/ CheckOwner(s) \/ Launch(s) \/ StopServing(s)
      PROVE  \A q \in Procs : StartsWell(q)'
  <2>1. PICK job \in {"enter", "claim", "leave", "publish", "undo", "resign"} :
          /\ Goto(s, job)
          /\ job \in {"claim", "publish", "undo"} => pc[s] \in {"check", "starting"}
    BY <1>2 DEF StartDirectly, CheckOwner, Launch, StopServing
  <2>2. pc[s] \in {"new", "check", "starting", "serve"} /\ UNCHANGED <<lock, guard, seen, launched>>
    BY <1>2 DEF StartDirectly, CheckOwner, Launch, StopServing, files, facts
  <2> QED BY <1>0, <2>1, <2>2, GotoStartsWell DEF Jobs, Gone, HasStartupLock
<1>3. ASSUME Claim(s) \/ Publish(s) \/ RemoveOwn(s) PROVE \A q \in Procs : StartsWell(q)'
  <2>1. /\ Step(s, "release") /\ pc[s] \in OwnerJobs /\ step[s] = "held"
        /\ UNCHANGED <<lock, guard, seen, launched>>
    BY <1>3 DEF Claim, Publish, RemoveOwn, Swap, OwnerJobs, facts
  <2> QED BY <1>0, <2>1, StepStartsWell DEF LockStaysFor, Steps, OwnerJobs
<1>4. ASSUME CheckHandoff(s) PROVE \A q \in Procs : StartsWell(q)'
  <2>1. PICK next \in {"rename", "lost"} :
          Step(s, next) /\ (next = "rename" => lock["startup"] = launched[s])
    BY <1>4 DEF CheckHandoff
  <2> QED BY <1>0, <1>4, <2>1, StepStartsWell
          DEF CheckHandoff, LockStaysFor, Steps, OwnerJobs, Adopting, files, facts
<1>5. ASSUME AdoptLock(s) PROVE \A q \in Procs : StartsWell(q)'
  <2>1. /\ Step(s, "won") /\ step[s] = "rename" /\ lock' = [lock EXCEPT !["startup"] = s]
        /\ UNCHANGED <<guard, seen, launched>> /\ lock \in [Locks -> Procs \cup {None, Empty}]
    BY <1>5 DEF AdoptLock, facts, TypeInv, Types
  <2>2. pc[s] = "adopt" /\ Adopting(s) /\ guard["startup"] = s
    BY <1>0, <2>1 DEF LockInv, StepsFit, GuardsAreOwn, Guards, Lock, Adopting, OwnerJobs
  <2>3. lock["startup"] = launched[s] /\ pc[launched[s]] \in {"wait", "gone"}
    BY <1>0, <2>1, <2>2 DEF StartsWell
  <2>4. \A q \in Procs \ {s} : LockStaysFor(q)
    BY <2>2, <2>3 DEF LockStaysFor
  <2> QED BY <1>0, <2>1, <2>2, <2>4, StepStartsWell DEF Steps, OwnerJobs
<1> QED BY <1>1, <1>2, <1>3, <1>4, <1>5 DEF Server

LEMMA CrashStartsWell ==
  ASSUME TypeInv, LockInv, \A q \in Procs : StartsWell(q), NEW p \in Procs, Crash(p)
  PROVE  \A q \in Procs : StartsWell(q)'
<1>1. ~Gone(p) /\ Goto(p, "gone") /\ "gone" \in Jobs /\ UNCHANGED <<guard, seen, launched>>
  BY DEF Crash, Gone, Jobs
<1>2. Begins(p) /\ pc'[p] = "gone" /\ \A q \in Procs \ {p} : Rests(q)
  BY <1>1, GotoBegins
<1>3. lock'["startup"] = lock["startup"] \/ lock["startup"] = None
  BY DEF Crash, TypeInv, Types
<1>4. WaitsLast
  BY <1>1, <1>2 DEF WaitsLast, Rests, Gone
<1>5. \A q \in Procs \ {p} : StartsWell(q)'
  BY <1>1, <1>2, <1>3, <1>4, OthersStartWell DEF LockStaysFor
<1>6. StartsWell(p)'
  BY <1>2, BeginsWell, FirstSteps DEF HasStartupLock
<1> QED BY <1>5, <1>6

LEMMA StartsHold == Spec => [](TypeInv /\ LockInv /\ StartupInv)
<1>1. Init => StartupInv
  BY DEF Init, StartupInv, StartsWell, HasStartupLock, Adopting
<1>2. TypeInv /\ LockInv /\ StartupInv /\ [Next]_vars => StartupInv'
  <2> SUFFICES ASSUME TypeInv, LockInv, StartupInv, [Next]_vars, ~hasty'
               PROVE  \A q \in Procs : StartsWell(q)'
    BY DEF StartupInv
  <2>1. CASE UNCHANGED vars
    <3>1. ~hasty
      BY <2>1 DEF vars
    <3> QED BY <2>1, <3>1 DEF vars, StartupInv, StartsWell, HasStartupLock, Adopting, Dead, Gone
  <2>2. CASE Next
    <3>1. ~hasty
      BY <2>2 DEF Next, Locking, Look, Create, TakeGuard, Reread, UnlinkDead, Recreate, Unguard,
         ReadOwnLock, RemoveLock, Crash, Invocation, Invoke, Probe, ReadUnderLock, Inspect,
         Disconnect, Judge, Drop, AwaitExit, Kill, Spawn, Wait, Server, StartDirectly,
         CheckHandoff, AdoptLock, ReadOwner, CheckOwner, Claim, Launch, Publish, RemoveOwn,
         StopServing, facts
    <3>2. \A q \in Procs : StartsWell(q)
      BY <3>1 DEF StartupInv
    <3> QED BY <2>2, <3>2, LockingStartsWell, CrashStartsWell, InvocationStartsWell,
               ServerStartsWell
            DEF Next
  <2> QED BY <2>1, <2>2
<1> QED BY <1>1, <1>2, LocksHold, PTL DEF Spec

\* Only one process at a time starts or stops a server, however many find the startup
\* lock of a dead one, and while the lock is handed from an invocation to the server
\* that it spawned: as long as no invocation gave up waiting for a server that was
\* about to adopt its lock.
THEOREM ServersStartAlone == Spec => []StartupIsExclusive
<1>1. StartupInv => StartupIsExclusive
  BY DEF StartupInv, StartsWell, StartupIsExclusive
<1> QED BY <1>1, StartsHold, PTL
=============================================================================
