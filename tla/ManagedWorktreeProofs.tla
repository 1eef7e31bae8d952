------------------------ MODULE ManagedWorktreeProofs ------------------------
(***************************************************************************)
(* For any number of creates, names, tickets, kills and failures: unless a *)
(* create lost one of the races the design leaves open, a claim has its    *)
(* lease, an active lease has its checkout and its claim, and no work is   *)
(* thrown away.                                                            *)
(***************************************************************************)
EXTENDS ManagedWorktree, TLAPS

Finding == {"inspect", "recover", "discard", "forget"}
Looking == {"reconcile"} \cup Finding
Cleaning == {"rollback", "release"}
Steps ==
  {"idle", "check", "add", "publish", "claim", "activate", "probe", "remove", "abort",
   "drop", "shell", "done"} \cup Looking \cup Cleaning

Finds == [name : Names \cup {None}, lease : Leases \cup {NoLease}]
Jobs ==
  [name : Names \cup {None}, ticket : Tickets \cup {None}, base : Creators \cup {None},
   created : BOOLEAN, claimed : BOOLEAN, todo : SUBSET Names, found : Finds]

Preparing == {"prepare", "push", "integrated"}
Removing == {"remove", "evidence", "manifest"}
Finishes ==
  [step : {"idle", "locked", "record"} \cup Preparing \cup Removing,
   lease : Leases \cup {NoLease}]

TicketRecords ==
  [status : {"ready", "claimed", "blocked", "verified", "cancelled"},
   claim : Creators \cup {None}, commit : Creators \cup {None}]

\* What a create remembers at its steps.
JobFits(p) ==
  /\ Running(p) => job[p].name \in Names
  /\ pc[p] \in Looking \cup {"claim", "activate"} => job[p].ticket # None
  /\ pc[p] \in Finding => job[p].found.name \in Names /\ job[p].found.lease \in Leases
  /\ pc[p] \in Cleaning => /\ job[p].found.lease \in Leases
                           /\ job[p].found.lease.ticket # None
  /\ pc[p] = "abort" => job[p].found.lease \in Leases
  /\ job[p].claimed => job[p].ticket # None

\* What a finish remembers at its steps.
FinishFits(n) ==
  LET lease == finish[n].lease IN
  /\ finish[n].step \notin {"idle", "locked"} => lease \in Leases
  /\ finish[n].step \in Preparing => lease.status = "active"
  /\ finish[n].step \in {"push", "integrated"} => lease.prepared
  /\ finish[n].step \in Removing \cup {"record"} =>
       lease.status = "integrated" /\ lease.prepared

IntegratedIsPrepared(n) ==
  manifest[n].lease # None /\ manifest[n].status = "integrated" => manifest[n].prepared

JobTypes ==
  /\ pc \in [Creators -> Steps] /\ job \in [Creators -> Jobs]
  /\ \A p \in Creators : JobFits(p)
FileTypes ==
  /\ manifest \in [Names -> Leases \cup {NoLease}]
  /\ checkout \in [Names -> [lease : Creators \cup {None}, work : BOOLEAN]]
  /\ \A n \in Names : IntegratedIsPrepared(n)
MapTypes == ticket \in [Tickets -> TicketRecords] /\ fresh \subseteq Creators
FinishTypes ==
  /\ source \in Seq(Creators) /\ finished \subseteq Creators
  /\ finish \in [Names -> Finishes]
  /\ \A n \in Names : FinishFits(n)
RacedTypes == raced \subseteq {"live", "stale", "name", "cleanup"}

TypeInv == JobTypes /\ FileTypes /\ MapTypes /\ FinishTypes /\ RacedTypes

-----------------------------------------------------------------------------
(* The invariant.                                                          *)

Gone(p) == pc[p] \in {"shell", "done"}

NoClaims(p) == \A t \in Tickets : ticket[t].claim # p
ClaimsOnly(p, t) == \A u \in Tickets : ticket[u].claim = p => u = t
NoLeases(p) == \A n \in Names : manifest[n].lease # p
NoTrees(p) == \A n \in Names : checkout[n].lease # p

\* Its claim, if it still succeeds, is of a ticket nobody has.
Fresh(p) ==
  p \in fresh /\ job[p].ticket # None => ticket[job[p].ticket].claim = None

OwnTree(p) == checkout[job[p].name].lease = p /\ ~checkout[job[p].name].work
Has(p, status) ==
  LET lease == manifest[job[p].name] IN
  /\ lease.lease = p /\ lease.status = status
  /\ lease.ticket = job[p].ticket /\ ~lease.prepared
Holds(p) == job[p].ticket # None => ticket[job[p].ticket].claim = p
FoundOwn(p) ==
  job[p].found.lease.lease = p /\ job[p].found.lease.ticket = job[p].ticket

\* How far a create has come.
CreateInv(p) ==
  /\ pc[p] \in Looking \cup {"idle", "check", "add"} =>
       NoLeases(p) /\ NoTrees(p) /\ NoClaims(p)
  /\ pc[p] \in {"reconcile", "check", "add"} => job[p].found.lease.lease \in {p, None}
  /\ pc[p] \in {"check", "add", "publish", "claim"} => Fresh(p)
  /\ pc[p] \in Looking \cup {"check", "add", "publish", "claim"} => ~job[p].claimed
  /\ pc[p] \in {"publish", "claim"} => NoClaims(p)
  /\ pc[p] \in {"publish", "claim", "activate", "remove", "probe", "abort"} => OwnTree(p)
  /\ pc[p] = "publish" => NoLeases(p)
  /\ pc[p] \in {"claim", "activate"} => Has(p, "pending")
  /\ pc[p] = "remove" => Has(p, "pending") \/ (NoLeases(p) /\ ~job[p].claimed)
  /\ pc[p] = "remove" /\ ~job[p].claimed => NoClaims(p)
  /\ pc[p] \in {"activate", "probe", "abort"} => Holds(p)
  /\ pc[p] = "activate" => job[p].claimed
  /\ pc[p] = "probe" => Has(p, "active")
  /\ pc[p] = "abort" => Has(p, "aborting")
  /\ pc[p] \in Cleaning \cup {"abort"} => FoundOwn(p)
  /\ pc[p] \in Cleaning => Has(p, "aborting") \/ (Has(p, "pending") /\ job[p].claimed)
  /\ pc[p] = "release" /\ p \in fresh => Holds(p)
  /\ pc[p] \in Cleaning \cup {"activate", "remove", "probe", "abort"} =>
       ClaimsOnly(p, job[p].ticket)
  /\ pc[p] = "drop" =>
       /\ NoClaims(p) /\ job[p].found.lease.lease \in {p, None}
       /\ NoLeases(p) \/ Has(p, "pending") \/ Has(p, "aborting")

\* What a create finds pending is of one that died, and stays as it is.
FinderInv(q) ==
  pc[q] \in Finding =>
    LET found == job[q].found
        owner == found.lease.lease
    IN /\ found.lease.status = "pending" /\ ~found.lease.prepared
       /\ found.lease.ticket = job[q].ticket
       /\ pc[owner] = "done" /\ ClaimsOnly(owner, job[q].ticket)
       /\ pc[q] = "recover" => ticket[job[q].ticket].claim = owner
       /\ pc[q] \in {"discard", "forget"} => NoClaims(owner)

\* What the manifest of a name says of the checkout, the create and the claim.
LeaseInv(n) ==
  LET lease == manifest[n]
      p == lease.lease
  IN p # None =>
    /\ checkout[n].lease \in {p, None}
    /\ lease.status = "pending" =>
         /\ pc[p] \in Cleaning \cup {"claim", "activate", "remove", "drop", "done"}
         /\ ~lease.prepared /\ ~checkout[n].work /\ ClaimsOnly(p, lease.ticket)
         /\ pc[p] = "done" => NoClaims(p) \/ checkout[n].lease = p
    /\ lease.status = "active" =>
         pc[p] \in {"probe", "shell", "done"} /\ checkout[n].lease = p
    /\ lease.status = "aborting" => pc[p] \in Cleaning \cup {"abort", "drop", "done"}
    /\ lease.status = "integrated" \/ lease.prepared => Gone(p)
    /\ lease.status \in {"active", "integrated"} /\ lease.ticket # None =>
         ticket[lease.ticket].claim = p

TreeInv(n) == checkout[n].work => checkout[n].lease # None /\ Gone(checkout[n].lease)
NameInv(n) == LeaseInv(n) /\ TreeInv(n)

\* A finish works on the lease the manifest has.
FinishInv(n) ==
  finish[n].step \notin {"idle", "locked"} =>
    LET lease == manifest[n] IN
    /\ finish[n].lease = lease /\ lease.lease # None /\ Gone(lease.lease)
    /\ finish[n].step \in Removing =>
         /\ lease.lease \in Range(source)
         /\ lease.ticket # None => ticket[lease.ticket].commit = lease.lease

TicketInv(t) ==
  LET p == ticket[t].claim IN
  /\ ticket[t].commit # None => ticket[t].commit = p /\ ticket[t].status = "verified"
  /\ p # None /\ ticket[t].commit = None =>
       \E n \in Names : manifest[n].lease = p /\ manifest[n].ticket = t

OneManifest ==
  \A n, m \in Names : manifest[n].lease = manifest[m].lease /\ manifest[n].lease # None
                        => n = m

Creates == \A p \in Creators : CreateInv(p) /\ FinderInv(p)
Kept == \A n \in Names : NameInv(n) /\ FinishInv(n)
Settled == OneManifest /\ \A t \in Tickets : TicketInv(t)

Good == Creates /\ Kept /\ Settled
Inv == TypeInv /\ (raced = {} => Good)

USE WorktreeAssumption DEF WorktreeAssumption

-----------------------------------------------------------------------------
(* Types.                                                                  *)

\* A lease is not the absence of one.
LEMMA LeaseIsThere ==
  ASSUME NEW lease \in Leases
  PROVE  /\ lease.lease \in Creators /\ lease.lease # None /\ lease # NoLease
         /\ lease.ticket \in Tickets \cup {None} /\ lease.status \in Statuses
         /\ lease.prepared \in BOOLEAN
BY DEF Leases, NoLease

\* The lease that a create writes into its manifest.
LEMMA LeaseTypes ==
  ASSUME JobTypes, NEW p \in Creators, NEW status \in Statuses
  PROVE  /\ Lease(p, status) \in Leases
         /\ Lease(p, status).lease = p /\ Lease(p, status).ticket = job[p].ticket
         /\ Lease(p, status).status = status /\ Lease(p, status).prepared = FALSE
BY DEF JobTypes, Jobs, Lease, Leases

\* A create, its step and what it remembers are typed.
LEMMA JobIsTyped ==
  ASSUME TypeInv
  PROVE  \A p \in Creators :
           /\ pc[p] \in Steps /\ job[p] \in Jobs /\ JobFits(p)
           /\ Running(p) => job[p].name \in Names
           /\ job[p].ticket \in Tickets \cup {None} /\ job[p].found \in Finds
BY DEF TypeInv, JobTypes, JobFits, Jobs

\* The head of the source branch is a create that pushed to it, if any.
LEMMA HeadTypes ==
  ASSUME source \in Seq(Creators)
  PROVE  /\ head \in Creators \cup {None}
         /\ head \in Creators => head \in Range(source)
<1>1. CASE source = <<>>
  BY <1>1 DEF head
<1>2. CASE source # <<>>
  <2>1. Len(source) \in DOMAIN source /\ head = source[Len(source)]
    BY <1>2 DEF head
  <2>2. source[Len(source)] \in Creators
    BY <2>1
  <2> QED BY <2>1, <2>2 DEF Range
<1> QED BY <1>1, <1>2

\* What a create remembers before it starts and after it is over.
LEMMA NoJobTypes ==
  /\ NoJob \in Jobs /\ NoFind \in Finds
  /\ NoJob.claimed = FALSE
BY DEF NoJob, NoFind, Jobs, Finds

\* The create p moves on.
Moves(p) ==
  /\ pc' \in [Creators -> Steps] /\ job' \in [Creators -> Jobs]
  /\ \A q \in Creators \ {p} : pc'[q] = pc[q] /\ job'[q] = job[q]

SameTask(p) == job'[p].name = job[p].name /\ job'[p].ticket = job[p].ticket

\* A create that moves alone keeps the types of all, if its own memory fits.
LEMMA MovesTypes ==
  ASSUME JobTypes, NEW p \in Creators, Moves(p), JobFits(p)'
  PROVE  JobTypes'
<1>1. \A q \in Creators \ {p} : JobFits(q)'
  BY DEF Moves, JobTypes, JobFits, Running
<1> QED BY <1>1 DEF Moves, JobTypes

\* A create goes on and remembers what it did.
LEMMA Going ==
  ASSUME JobTypes, NEW p \in Creators, NEW step \in Steps, Goto(p, step), UNCHANGED job
  PROVE  Moves(p) /\ pc'[p] = step /\ job'[p] = job[p]
BY DEF Moves, JobTypes, Goto

\* A create is over and remembers nothing.
LEMMA Exiting ==
  ASSUME JobTypes, NEW p \in Creators, Exit(p)
  PROVE  /\ Moves(p) /\ pc'[p] = "done" /\ job'[p] = NoJob
         /\ JobFits(p)'
<1>1. Moves(p) /\ pc'[p] = "done" /\ job'[p] = NoJob
  BY NoJobTypes DEF Moves, JobTypes, Goto, Exit, Steps
<1> QED BY <1>1, NoJobTypes DEF JobFits, Running, Looking, Finding, Cleaning

\* A create goes on with the lease it found.
LEMMA Remembering ==
  ASSUME JobTypes, NEW p \in Creators, NEW step \in Steps, Goto(p, step),
         NEW found \in Finds, job' = [job EXCEPT ![p].found = found]
  PROVE  /\ Moves(p) /\ pc'[p] = step /\ SameTask(p)
         /\ job'[p].claimed = job[p].claimed /\ job'[p].found = found
BY DEF Moves, JobTypes, Goto, Jobs, SameTask

-----------------------------------------------------------------------------
(* What a step of somebody else leaves alone.                              *)

ClaimsStay(q) == \A t \in Tickets : ticket'[t].claim = q <=> ticket[t].claim = q

\* Nothing that the create q relies on changes.
Rests(q) ==
  /\ pc'[q] = pc[q] /\ job'[q] = job[q] /\ ClaimsStay(q)
  /\ q \in fresh' => q \in fresh /\ \A t \in Tickets : ticket'[t].claim = ticket[t].claim
  /\ ~Gone(q) => \A n \in Names :
       /\ q \in {manifest[n].lease, manifest'[n].lease} => manifest'[n] = manifest[n]
       /\ q \in {checkout[n].lease, checkout'[n].lease} => checkout'[n] = checkout[n]

\* A create that is over stays so and neither claims nor releases.
GoneRest == \A o \in Creators : Gone(o) => pc'[o] = pc[o] /\ ClaimsStay(o)

CommitsStay ==
  \A t \in Tickets : ticket[t].commit # None => ticket'[t].commit = ticket[t].commit

\* A create stays as far as it has come when nothing it relies on changes.
LEMMA OthersKeep ==
  ASSUME TypeInv, Creates, GoneRest, NEW q \in Creators, Rests(q)
  PROVE  CreateInv(q)' /\ FinderInv(q)'
<1>1. CASE Gone(q)
  BY <1>1 DEF Gone, Rests, CreateInv, FinderInv, Looking, Finding, Cleaning
<1>2. CASE ~Gone(q)
  <2>1. pc'[q] = pc[q] /\ job'[q] = job[q]
    BY DEF Rests
  <2>2. /\ NoLeases(q) => NoLeases(q)'
        /\ NoTrees(q) => NoTrees(q)'
    BY <1>2 DEF Rests, NoLeases, NoTrees
  <2>3. /\ NoClaims(q) => NoClaims(q)'
        /\ \A t : ClaimsOnly(q, t) => ClaimsOnly(q, t)'
    BY DEF Rests, ClaimsStay, NoClaims, ClaimsOnly
  <2>4. /\ Holds(q) => Holds(q)'
        /\ Fresh(q) => Fresh(q)'
    BY <2>1, JobIsTyped DEF Rests, ClaimsStay, Holds, Fresh
  <2>5. ASSUME Running(q), OwnTree(q) PROVE OwnTree(q)'
    BY <1>2, <2>1, <2>5, JobIsTyped DEF Rests, OwnTree
  <2>6. ASSUME Running(q), NEW status, Has(q, status) PROVE Has(q, status)'
    BY <1>2, <2>1, <2>6, JobIsTyped DEF Rests, Has
  <2>7. FoundOwn(q) => FoundOwn(q)'
    BY <2>1 DEF FoundOwn
  <2>8. CreateInv(q)'
    <3>1. CASE Running(q)
      BY <3>1, <2>1, <2>2, <2>3, <2>4, <2>5, <2>6, <2>7 DEF Creates, CreateInv, Rests
    <3>2. CASE ~Running(q)
      BY <3>2, <1>2, <2>1, <2>2, <2>3, <2>4
         DEF Creates, CreateInv, Running, Gone, Looking, Finding, Cleaning
    <3> QED BY <3>1, <3>2
  <2>9. FinderInv(q)'
    <3> SUFFICES ASSUME pc[q] \in Finding
                 PROVE  FinderInv(q)'
      BY <2>1 DEF FinderInv
    <3> DEFINE found == job[q].found
               owner == found.lease.lease
    <3>1. owner \in Creators /\ found.lease.ticket \in Tickets /\ job[q].ticket \in Tickets
      BY JobIsTyped, LeaseIsThere DEF TypeInv, JobTypes, JobFits, Looking, Creates, FinderInv
    <3>2. /\ found.lease.status = "pending" /\ ~found.lease.prepared
          /\ found.lease.ticket = job[q].ticket
          /\ pc[owner] = "done" /\ ClaimsOnly(owner, job[q].ticket)
          /\ pc[q] = "recover" => ticket[job[q].ticket].claim = owner
          /\ pc[q] \in {"discard", "forget"} => NoClaims(owner)
      BY DEF Creates, FinderInv
    <3>3. pc'[owner] = "done" /\ ClaimsStay(owner)
      BY <3>1, <3>2 DEF GoneRest, Gone
    <3>4. /\ ClaimsOnly(owner, job[q].ticket)'
          /\ pc[q] = "recover" => ticket'[job[q].ticket].claim = owner
          /\ pc[q] \in {"discard", "forget"} => NoClaims(owner)'
      BY <2>1, <3>1, <3>2, <3>3 DEF ClaimsStay, ClaimsOnly, NoClaims
    <3> QED BY <2>1, <3>2, <3>3, <3>4 DEF FinderInv
  <2> QED BY <2>8, <2>9
<1> QED BY <1>1, <1>2

\* A manifest without a lease is no manifest.
LEMMA LeaseIsTyped ==
  ASSUME TypeInv, NEW n \in Names
  PROVE  /\ manifest[n].lease \in Creators \cup {None}
         /\ manifest[n].lease = None <=> manifest[n] = NoLease
         /\ manifest[n].lease # None => manifest[n] \in Leases
         /\ checkout[n].lease \in Creators \cup {None} /\ checkout[n].work \in BOOLEAN
BY LeaseIsThere DEF TypeInv, FileTypes, NoLease

\* What a manifest says stays true while its files, create and claim rest.
LEMMA LeaseKeeps ==
  ASSUME TypeInv, NEW n \in Names, LeaseInv(n),
         manifest'[n] = manifest[n], checkout'[n] = checkout[n],
         manifest[n].lease # None =>
           pc'[manifest[n].lease] = pc[manifest[n].lease] /\ ClaimsStay(manifest[n].lease)
  PROVE  LeaseInv(n)'
<1> DEFINE p == manifest[n].lease
<1> SUFFICES ASSUME p # None
             PROVE  LeaseInv(n)'
  BY DEF LeaseInv
<1>1. pc'[p] = pc[p] /\ ClaimsStay(p) /\ manifest[n] \in Leases
  BY LeaseIsTyped
<1>2. manifest[n].ticket \in Tickets \cup {None}
  BY <1>1, LeaseIsThere
<1>3. /\ ClaimsOnly(p, manifest[n].ticket) => ClaimsOnly(p, manifest[n].ticket)'
      /\ NoClaims(p) => NoClaims(p)'
      /\ manifest[n].ticket # None /\ ticket[manifest[n].ticket].claim = p
           => ticket'[manifest[n].ticket].claim = p
  BY <1>1, <1>2 DEF ClaimsStay, ClaimsOnly, NoClaims
<1> QED BY <1>1, <1>3 DEF LeaseInv, Gone

\* Work stays in the checkout of a create that is over.
LEMMA TreeKeeps ==
  ASSUME TypeInv, GoneRest, NEW n \in Names, TreeInv(n), checkout'[n] = checkout[n]
  PROVE  TreeInv(n)'
BY LeaseIsTyped DEF TreeInv, GoneRest, Gone

\* A finish keeps the lease it works on while its manifest rests.
LEMMA FinishKeeps ==
  ASSUME TypeInv, GoneRest, CommitsStay, Range(source) \subseteq Range(source)',
         NEW n \in Names, FinishInv(n), finish'[n] = finish[n],
         finish[n].step \notin {"idle", "locked"} => manifest'[n] = manifest[n]
  PROVE  FinishInv(n)'
<1> SUFFICES ASSUME finish[n].step \notin {"idle", "locked"}
             PROVE  FinishInv(n)'
  BY DEF FinishInv
<1> DEFINE lease == manifest[n]
<1>1. /\ finish[n].lease = lease /\ lease.lease # None /\ Gone(lease.lease)
      /\ finish[n].step \in Removing =>
           /\ lease.lease \in Range(source)
           /\ lease.ticket # None => ticket[lease.ticket].commit = lease.lease
  BY DEF FinishInv
<1>2. lease.lease \in Creators /\ lease.ticket \in Tickets \cup {None}
  BY <1>1, LeaseIsTyped, LeaseIsThere
<1>3. Gone(lease.lease)'
  BY <1>1, <1>2 DEF GoneRest, Gone
<1>4. ASSUME finish[n].step \in Removing, lease.ticket # None
      PROVE  ticket'[lease.ticket].commit = lease.lease
  BY <1>1, <1>2, <1>4 DEF CommitsStay
<1> QED BY <1>1, <1>3, <1>4 DEF FinishInv

\* A claim keeps its manifest while its ticket and that manifest rest.
LEMMA TicketKeeps ==
  ASSUME NEW t \in Tickets, TicketInv(t),
         ticket'[t].claim = ticket[t].claim, ticket'[t].commit = ticket[t].commit,
         ticket[t].commit # None => ticket'[t].status = ticket[t].status,
         \A n \in Names :
           manifest[n].lease = ticket[t].claim /\ manifest[n].ticket = t
             /\ ticket[t].claim # None /\ ticket[t].commit = None
           => manifest'[n].lease = manifest[n].lease /\ manifest'[n].ticket = manifest[n].ticket
  PROVE  TicketInv(t)'
BY DEF TicketInv

\* The create p moves and changes at most the files of one name, which are its own.
LEMMA CreateWrites ==
  ASSUME TypeInv, Good, NEW p \in Creators, ~Gone(p), Moves(p), NEW n \in Names,
         UNCHANGED <<ticket, finishing>>, fresh' \subseteq fresh \cup {p},
         \A m \in Names \ {n} : manifest'[m] = manifest[m] /\ checkout'[m] = checkout[m],
         manifest'[n] # manifest[n] =>
           manifest[n].lease \in {p, None} /\ manifest'[n].lease \in {p, None},
         checkout'[n] # checkout[n] =>
           checkout[n].lease \in {p, None} /\ checkout'[n].lease \in {p, None},
         \A m \in Names \ {n} : manifest[m].lease # p,
         CreateInv(p)', FinderInv(p)', NameInv(n)',
         \A t \in Tickets :
           ticket[t].claim = p /\ ticket[t].commit = None
             /\ manifest[n].lease = p /\ manifest[n].ticket = t
           => manifest'[n].lease = p /\ manifest'[n].ticket = t
  PROVE  Good'
<1>1. GoneRest
  BY DEF GoneRest, Moves, ClaimsStay
<1>2. ASSUME NEW q \in Creators \ {p} PROVE Rests(q)
  <2>1. pc'[q] = pc[q] /\ job'[q] = job[q] /\ ClaimsStay(q)
    BY DEF Moves, ClaimsStay
  <2>2. q # None
    OBVIOUS
  <2>3. \A m \in Names :
          /\ q \in {manifest[m].lease, manifest'[m].lease} => manifest'[m] = manifest[m]
          /\ q \in {checkout[m].lease, checkout'[m].lease} => checkout'[m] = checkout[m]
    BY <2>2
  <2> QED BY <2>1, <2>3 DEF Rests
<1>3. Creates'
  BY <1>1, <1>2, OthersKeep DEF Good, Creates
<1>4. CommitsStay /\ UNCHANGED <<finish, source>>
  BY DEF CommitsStay, finishing
<1>5. ASSUME NEW m \in Names PROVE NameInv(m)'
  <2>1. CASE m = n
    BY <2>1
  <2>2. CASE m # n
    <3>1. manifest[m].lease \in Creators \cup {None} /\ manifest[m].lease # p
      BY <2>2, LeaseIsTyped
    <3>2. manifest[m].lease # None => pc'[manifest[m].lease] = pc[manifest[m].lease]
                                      /\ ClaimsStay(manifest[m].lease)
      BY <3>1 DEF Moves, ClaimsStay
    <3> QED BY <2>2, <3>2, <1>1, LeaseKeeps, TreeKeeps DEF Good, Kept, NameInv
  <2> QED BY <2>1, <2>2
<1>6. ASSUME NEW m \in Names PROVE FinishInv(m)'
  <2>1. FinishInv(m)
    BY DEF Good, Kept
  <2>2. finish[m].step \notin {"idle", "locked"} =>
          manifest[m].lease \notin {p, None}
    BY <2>1 DEF FinishInv
  <2>3. finish[m].step \notin {"idle", "locked"} => manifest'[m] = manifest[m]
    BY <2>2
  <2> QED BY <2>1, <2>3, <1>1, <1>4, FinishKeeps
<1>7. OneManifest'
  BY DEF Good, Settled, OneManifest
<1>8. ASSUME NEW t \in Tickets PROVE TicketInv(t)'
  <2>1. TicketInv(t)
    BY DEF Good, Settled
  <2>2. \A m \in Names :
          manifest[m].lease = ticket[t].claim /\ manifest[m].ticket = t
            /\ ticket[t].claim # None /\ ticket[t].commit = None
          => manifest'[m].lease = manifest[m].lease /\ manifest'[m].ticket = manifest[m].ticket
    OBVIOUS
  <2> QED BY <2>1, <2>2, TicketKeeps
<1> QED BY <1>3, <1>5, <1>6, <1>7, <1>8 DEF Good, Kept, Settled

\* The create p moves and changes no file.
LEMMA CreateMoves ==
  ASSUME TypeInv, Good, NEW p \in Creators, ~Gone(p), Moves(p),
         UNCHANGED <<files, ticket, finishing>>, fresh' \subseteq fresh \cup {p},
         CreateInv(p)', FinderInv(p)',
         \A n \in Names : manifest[n].lease = p => LeaseInv(n)'
  PROVE  Good'
<1>0. UNCHANGED <<manifest, checkout>>
  BY DEF files
<1>1. GoneRest
  BY DEF GoneRest, Moves, ClaimsStay
<1>2. ASSUME NEW q \in Creators \ {p} PROVE Rests(q)
  BY <1>0 DEF Rests, Moves, ClaimsStay
<1>3. Creates'
  BY <1>1, <1>2, OthersKeep DEF Good, Creates
<1>4. CommitsStay /\ UNCHANGED <<finish, source>>
  BY DEF CommitsStay, finishing
<1>5. ASSUME NEW n \in Names PROVE NameInv(n)'
  <2>1. LeaseInv(n)'
    <3>1. CASE manifest[n].lease = p
      BY <3>1
    <3>2. CASE manifest[n].lease # p
      <4>1. manifest[n].lease # None => pc'[manifest[n].lease] = pc[manifest[n].lease]
                                        /\ ClaimsStay(manifest[n].lease)
        BY <3>2, LeaseIsTyped DEF Moves, ClaimsStay
      <4> QED BY <1>0, <4>1, LeaseKeeps DEF Good, Kept, NameInv
    <3> QED BY <3>1, <3>2
  <2> QED BY <2>1, <1>0, <1>1, TreeKeeps DEF Good, Kept, NameInv
<1>6. ASSUME NEW n \in Names PROVE FinishInv(n)'
  BY <1>0, <1>1, <1>4, FinishKeeps DEF Good, Kept
<1>7. OneManifest'
  BY <1>0 DEF Good, Settled, OneManifest
<1>8. ASSUME NEW t \in Tickets PROVE TicketInv(t)'
  BY <1>0, TicketKeeps DEF Good, Settled
<1> QED BY <1>3, <1>5, <1>6, <1>7, <1>8 DEF Good, Kept, Settled

-----------------------------------------------------------------------------
(* A create looks for what a killed one left.                              *)

LEMMA CreateTypes ==
  ASSUME TypeInv, NEW p \in Creators, Moves(p), JobFits(p)',
         UNCHANGED <<ticket, finishing>>, FileTypes',
         fresh' \subseteq fresh \cup {p}, RacedTypes'
  PROVE  TypeInv'
<1>1. JobTypes'
  BY MovesTypes DEF TypeInv
<1>2. MapTypes'
  BY DEF TypeInv, MapTypes
<1>3. FinishTypes'
  BY DEF TypeInv, FinishTypes, finishing, FinishFits
<1> QED BY <1>1, <1>2, <1>3 DEF TypeInv

\* Files that rest keep their types.
LEMMA FilesRest ==
  ASSUME TypeInv, UNCHANGED files
  PROVE  FileTypes'
BY DEF TypeInv, FileTypes, files, IntegratedIsPrepared

\* writeManifest changes the manifest of one name.
LEMMA Writing ==
  ASSUME TypeInv, NEW n \in Names, NEW lease \in Leases \cup {NoLease}, WriteManifest(n, lease),
         lease # NoLease /\ lease.status = "integrated" => lease.prepared,
         UNCHANGED checkout
  PROVE  /\ FileTypes' /\ manifest'[n] = lease
         /\ \A m \in Names \ {n} : manifest'[m] = manifest[m]
<1>1. /\ manifest' \in [Names -> Leases \cup {NoLease}] /\ manifest'[n] = lease
      /\ \A m \in Names \ {n} : manifest'[m] = manifest[m]
  BY DEF TypeInv, FileTypes, WriteManifest
<1>2. NoLease.lease = None
  BY DEF NoLease
<1> QED BY <1>1, <1>2 DEF TypeInv, FileTypes, IntegratedIsPrepared

\* Removing a checkout changes that of one name.
LEMMA Clearing ==
  ASSUME TypeInv, NEW n \in Names, RemoveTree(n), UNCHANGED manifest
  PROVE  /\ FileTypes' /\ checkout'[n] = NoTree
         /\ checkout'[n].lease = None /\ checkout'[n].work = FALSE
         /\ \A m \in Names \ {n} : checkout'[m] = checkout[m]
<1>1. NoTree \in [lease : Creators \cup {None}, work : BOOLEAN]
  BY DEF NoTree
<1> QED BY <1>1 DEF TypeInv, FileTypes, RemoveTree, IntegratedIsPrepared, NoTree

\* createManagedWorktree starts.
LEMMA StartCreateKeeps ==
  ASSUME TypeInv, NEW p \in Creators, NEW n \in Names, NEW t \in Tickets \cup {None},
         StartCreate(p, n, t)
  PROVE  TypeInv' /\ (Good => Good')
<1> DEFINE j == [NoJob EXCEPT !.name = n, !.ticket = t, !.base = head,
                              !.todo = IF t = None THEN {} ELSE Names]
<1>1. head \in Creators \cup {None}
  BY HeadTypes DEF TypeInv, FinishTypes
<1>2. /\ j \in Jobs /\ j.name = n /\ j.ticket = t /\ j.claimed = FALSE
      /\ j.found = NoFind
  BY <1>1 DEF NoJob, Jobs, NoFind, Finds
<1>3. pc[p] = "idle" /\ UNCHANGED <<files, ticket, fresh, finishing, raced>>
  BY DEF StartCreate, CreateLeaves, map
<1>4. Goto(p, IF t = None THEN "check" ELSE "reconcile") /\ job' = [job EXCEPT ![p] = j]
  BY DEF StartCreate
<1> HIDE DEF j
<1>5. Moves(p) /\ pc'[p] = (IF t = None THEN "check" ELSE "reconcile") /\ job'[p] = j
  BY <1>2, <1>4 DEF TypeInv, JobTypes, Moves, Goto, Steps, Looking
<1>6. JobFits(p)'
  BY <1>2, <1>5 DEF JobFits, Running, Looking, Finding, Cleaning
<1>7. TypeInv'
  BY <1>3, <1>5, <1>6, CreateTypes, FilesRest DEF TypeInv, RacedTypes
<1>8. ASSUME Good PROVE Good'
  <2>1. NoLeases(p) /\ NoTrees(p) /\ NoClaims(p)
    BY <1>3, <1>8 DEF Good, Creates, CreateInv
  <2>2. (NoLeases(p) /\ NoTrees(p) /\ NoClaims(p))'
    BY <1>3, <2>1 DEF files, NoLeases, NoTrees, NoClaims
  <2>3. job'[p].found.lease.lease = None
    BY <1>2, <1>5 DEF NoFind, NoLease
  <2>4. pc'[p] = "check" => Fresh(p)'
    BY <1>2, <1>5 DEF Fresh
  <2>5. CreateInv(p)' /\ FinderInv(p)'
    BY <1>2, <1>5, <2>2, <2>3, <2>4 DEF CreateInv, FinderInv, Looking, Finding, Cleaning
  <2> QED BY <1>3, <1>5, <1>8, <2>1, <2>5, CreateMoves DEF Gone, NoLeases
<1> QED BY <1>7, <1>8

\* A create that ends without a claim, or with its checkout, leaves a lease others find.
LEMMA EndsWell ==
  ASSUME TypeInv, Good, NEW p \in Creators, ~Gone(p), pc'[p] = "done",
         UNCHANGED <<files, ticket>>,
         NEW n \in Names, manifest[n].lease = p,
         manifest[n].status = "pending" => NoClaims(p) \/ checkout[n].lease = p
  PROVE  LeaseInv(n)'
<1>1. LeaseInv(n) /\ UNCHANGED <<manifest, checkout, ticket>> /\ p # None
  BY DEF Good, Kept, NameInv, files
<1>2. /\ ClaimsOnly(p, manifest[n].ticket) => ClaimsOnly(p, manifest[n].ticket)'
      /\ NoClaims(p) => NoClaims(p)'
  BY <1>1 DEF ClaimsOnly, NoClaims
<1> QED BY <1>1, <1>2 DEF LeaseInv, Gone

\* A create ends with nothing, or leaves a lease that others find.
LEMMA ExitKeeps ==
  ASSUME TypeInv, NEW p \in Creators, ~Gone(p), Exit(p), UNCHANGED <<files, ticket, finishing>>,
         fresh' \subseteq fresh, RacedTypes',
         raced' = {} /\ Good => \A n \in Names :
           manifest[n].lease = p /\ manifest[n].status = "pending"
             => NoClaims(p) \/ checkout[n].lease = p
  PROVE  TypeInv' /\ (raced' = {} /\ Good => Good')
<1>1. Moves(p) /\ pc'[p] = "done" /\ JobFits(p)'
  BY Exiting DEF TypeInv
<1>2. TypeInv'
  BY <1>1, CreateTypes, FilesRest
<1>3. ASSUME raced' = {}, Good PROVE Good'
  <2>1. CreateInv(p)' /\ FinderInv(p)'
    BY <1>1 DEF CreateInv, FinderInv, Looking, Finding, Cleaning
  <2>2. \A n \in Names : manifest[n].lease = p => LeaseInv(n)'
    BY <1>1, <1>3, EndsWell
  <2> QED BY <1>1, <1>3, <2>1, <2>2, CreateMoves
<1> QED BY <1>2, <1>3

\* What a create that has nothing yet may rely on.
LEMMA HasNothing ==
  ASSUME Good, NEW p \in Creators, pc[p] \in Looking \cup {"idle", "check", "add"},
         UNCHANGED <<files, ticket>>
  PROVE  /\ NoLeases(p) /\ NoTrees(p) /\ NoClaims(p)
         /\ NoLeases(p)' /\ NoTrees(p)' /\ NoClaims(p)'
         /\ pc[p] # "idle" => ~job[p].claimed
BY DEF Good, Creates, CreateInv, files, NoLeases, NoTrees, NoClaims

\* A create reads the pending leases of its ticket, one manifest at a time.
LEMMA ReadPendingKeeps ==
  ASSUME TypeInv, NEW p \in Creators, NEW n \in Names, ReadPending(p, n)
  PROVE  TypeInv' /\ (raced' = {} /\ Good => Good')
<1> DEFINE isPending == /\ manifest[n] # NoLease
                        /\ manifest[n].status = "pending"
                        /\ manifest[n].ticket = job[p].ticket
           found == [name |-> n, lease |-> manifest[n]]
<1>1. /\ pc[p] = "reconcile" /\ UNCHANGED <<files, ticket, fresh, finishing>>
      /\ UNCHANGED <<manifest, checkout>>
  BY DEF ReadPending, CreateLeaves, map, files
<1>2. job[p].name \in Names /\ job[p].ticket # None /\ JobFits(p) /\ ~Gone(p)
  BY <1>1, JobIsTyped DEF JobFits, Running, Looking, Gone
<1>3. CASE isPending
  <2>1. manifest[n] \in Leases /\ found \in Finds
        /\ found.name = n /\ found.lease = manifest[n]
    BY <1>3, LeaseIsTyped DEF Finds, TypeInv, FileTypes
  <2>2. /\ Goto(p, "inspect") /\ job' = [job EXCEPT ![p].found = found]
        /\ raced' = IF Running(manifest[n].lease) THEN raced \cup {"live"} ELSE raced
    BY <1>3 DEF ReadPending
  <2> HIDE DEF found
  <2>3. /\ Moves(p) /\ pc'[p] = "inspect" /\ SameTask(p)
        /\ job'[p].claimed = job[p].claimed /\ job'[p].found = found
    BY <2>1, <2>2, Remembering DEF TypeInv, Steps, Looking, Finding
  <2>4. JobFits(p)'
    BY <1>2, <2>1, <2>3 DEF JobFits, SameTask, Cleaning
  <2>5. TypeInv'
    BY <1>1, <2>2, <2>3, <2>4, CreateTypes, FilesRest DEF TypeInv, RacedTypes
  <2>6. ASSUME raced' = {}, Good PROVE Good'
    <3> DEFINE owner == manifest[n].lease
    <3>1. owner \in Creators /\ owner # None
      BY <2>1, LeaseIsThere
    <3>2. ~Running(owner)
      BY <2>2, <2>6
    <3>3. LeaseInv(n)
      BY <2>6 DEF Good, Kept, NameInv
    <3>4. /\ pc[owner] = "done" /\ ~manifest[n].prepared
          /\ ClaimsOnly(owner, job[p].ticket)
      BY <1>3, <3>1, <3>2, <3>3 DEF LeaseInv, Running, Cleaning
    <3>5. pc'[owner] = "done" /\ ClaimsOnly(owner, job[p].ticket)'
      BY <1>1, <2>3, <3>1, <3>4 DEF Moves, SameTask, ClaimsOnly
    <3>6. FinderInv(p)'
      BY <1>1, <1>3, <2>1, <2>3, <3>4, <3>5 DEF FinderInv, SameTask, ClaimsOnly
    <3>7. CreateInv(p)'
      BY <1>1, <2>3, <2>6, HasNothing DEF CreateInv, Looking, Finding, Cleaning
    <3> QED BY <1>1, <1>2, <2>3, <2>6, <3>6, <3>7, HasNothing, CreateMoves
            DEF Looking, NoLeases
  <2> QED BY <2>5, <2>6
<1>4. CASE ~isPending
  <2>1. /\ UNCHANGED <<pc, raced>> /\ job' = [job EXCEPT ![p].todo = @ \ {n}]
    BY <1>4 DEF ReadPending
  <2>2. /\ Moves(p) /\ pc'[p] = "reconcile" /\ SameTask(p)
        /\ job'[p].claimed = job[p].claimed /\ job'[p].found = job[p].found
    BY <1>1, <2>1 DEF TypeInv, JobTypes, Jobs, Moves, SameTask
  <2>3. JobFits(p)'
    BY <1>2, <2>2 DEF JobFits, SameTask, Finding, Cleaning
  <2>4. TypeInv'
    BY <1>1, <2>1, <2>2, <2>3, CreateTypes, FilesRest DEF TypeInv, RacedTypes
  <2>5. ASSUME Good PROVE Good'
    <3>1. job[p].found.lease.lease \in {p, None}
      BY <1>1, <2>5 DEF Good, Creates, CreateInv
    <3>2. CreateInv(p)' /\ FinderInv(p)'
      BY <1>1, <2>2, <2>5, <3>1, HasNothing
         DEF CreateInv, FinderInv, Looking, Finding, Cleaning
    <3> QED BY <1>1, <1>2, <2>2, <2>5, <3>2, HasNothing, CreateMoves DEF Looking, NoLeases
  <2> QED BY <2>4, <2>5
<1> QED BY <1>3, <1>4

\* A create asks the ticket whether a pending lease came to its claim.
LEMMA InspectPendingKeeps ==
  ASSUME TypeInv, NEW p \in Creators, InspectPending(p)
  PROVE  TypeInv' /\ (raced' = {} /\ Good => Good')
<1> DEFINE pending == job[p].found.lease.lease
           rec == ticket[job[p].ticket]
<1>1. /\ pc[p] = "inspect" /\ UNCHANGED <<files, ticket, fresh, finishing, raced>>
      /\ RacedTypes'
  BY DEF InspectPending, CreateLeaves, map, TypeInv, RacedTypes
<1>2. /\ JobFits(p) /\ ~Gone(p) /\ Running(p)
      /\ job[p].ticket \in Tickets /\ pending \in Creators
  BY <1>1, JobIsTyped, LeaseIsThere DEF JobFits, Looking, Finding, Gone, Running
<1>3. Good => NoLeases(p) /\ CreateInv(p) /\ FinderInv(p)
  BY <1>1, HasNothing DEF Good, Creates, Looking, Finding
<1>4. ASSUME Exit(p) PROVE TypeInv' /\ (raced' = {} /\ Good => Good')
  BY <1>1, <1>2, <1>3, <1>4, ExitKeeps DEF NoLeases
<1>5. ASSUME NEW step \in {"recover", "discard"}, Goto(p, step), UNCHANGED job,
             step = "recover" => rec.claim = pending, step = "discard" => rec.claim = None
      PROVE  TypeInv' /\ (raced' = {} /\ Good => Good')
  <2>1. Moves(p) /\ pc'[p] = step /\ job'[p] = job[p]
    BY <1>5, Going DEF TypeInv, Steps, Looking, Finding
  <2>2. JobFits(p)'
    BY <1>1, <1>2, <2>1 DEF JobFits, Running, Looking, Finding, Cleaning
  <2>3. TypeInv'
    BY <1>1, <2>1, <2>2, CreateTypes, FilesRest
  <2>4. ASSUME Good PROVE Good'
    <3>1. CreateInv(p)'
      BY <1>1, <2>1, <2>4, HasNothing DEF CreateInv, Looking, Finding, Cleaning
    <3>2. /\ job[p].found.lease.status = "pending" /\ ~job[p].found.lease.prepared
          /\ job[p].found.lease.ticket = job[p].ticket
          /\ pc[pending] = "done" /\ ClaimsOnly(pending, job[p].ticket)
      BY <1>1, <2>4 DEF Good, Creates, FinderInv, Finding
    <3>3. step = "discard" => NoClaims(pending)
      BY <1>2, <1>5, <3>2 DEF NoClaims, ClaimsOnly
    <3>4. /\ pc'[pending] = "done" /\ ClaimsOnly(pending, job[p].ticket)'
          /\ step = "discard" => NoClaims(pending)'
      BY <1>1, <1>2, <2>1, <3>2, <3>3 DEF Moves, ClaimsOnly, NoClaims
    <3>5. FinderInv(p)'
      BY <1>1, <1>5, <2>1, <3>2, <3>4 DEF FinderInv
    <3> QED BY <1>1, <1>2, <1>3, <2>1, <2>4, <3>1, <3>5, CreateMoves DEF NoLeases
  <2> QED BY <2>3, <2>4
<1>6. \/ Goto(p, "recover") /\ UNCHANGED job /\ rec.claim = pending
      \/ Goto(p, "discard") /\ UNCHANGED job /\ rec.claim = None
      \/ Exit(p)
  BY DEF InspectPending
<1> QED BY <1>4, <1>5, <1>6

\* A create reads the ticket again, or finds it claimed.
LEMMA ReadBindingKeeps ==
  ASSUME TypeInv, NEW p \in Creators, ReadBinding(p)
  PROVE  TypeInv' /\ (raced' = {} /\ Good => Good')
<1>1. /\ pc[p] = "reconcile" /\ UNCHANGED <<files, ticket, finishing, raced>>
      /\ RacedTypes'
  BY DEF ReadBinding, CreateLeaves, TypeInv, RacedTypes
<1>2. JobFits(p) /\ ~Gone(p) /\ Running(p) /\ job[p].ticket \in Tickets
  BY <1>1, JobIsTyped DEF JobFits, Looking, Gone, Running
<1>3. Good => NoLeases(p) /\ CreateInv(p)
  BY <1>1, HasNothing DEF Good, Creates, Looking
<1>4. ASSUME Exit(p), UNCHANGED fresh PROVE TypeInv' /\ (raced' = {} /\ Good => Good')
  BY <1>1, <1>2, <1>3, <1>4, ExitKeeps DEF NoLeases
<1>5. ASSUME ticket[job[p].ticket].claim = None, fresh' = fresh \cup {p},
             Goto(p, "check"), UNCHANGED job
      PROVE  TypeInv' /\ (Good => Good')
  <2>1. Moves(p) /\ pc'[p] = "check" /\ job'[p] = job[p]
    BY <1>5, Going DEF TypeInv, Steps
  <2>2. JobFits(p)'
    BY <1>2, <2>1 DEF JobFits, Running, Looking, Finding, Cleaning
  <2>3. TypeInv'
    BY <1>1, <1>5, <2>1, <2>2, CreateTypes, FilesRest
  <2>4. ASSUME Good PROVE Good'
    <3>1. Fresh(p)' /\ job[p].found.lease.lease \in {p, None}
      BY <1>1, <1>3, <1>5, <2>1, <2>4 DEF Fresh, CreateInv
    <3>2. CreateInv(p)' /\ FinderInv(p)'
      BY <1>1, <2>1, <2>4, <3>1, HasNothing
         DEF CreateInv, FinderInv, Looking, Finding, Cleaning
    <3> QED BY <1>1, <1>2, <1>3, <1>5, <2>1, <2>4, <3>2, CreateMoves DEF NoLeases
  <2> QED BY <2>3, <2>4
<1> QED BY <1>4, <1>5 DEF ReadBinding

\* A create finds its name free.
LEMMA CheckNameKeeps ==
  ASSUME TypeInv, NEW p \in Creators, CheckName(p)
  PROVE  TypeInv' /\ (raced' = {} /\ Good => Good')
<1>1. /\ pc[p] = "check" /\ UNCHANGED <<files, ticket, fresh, finishing, raced>>
      /\ RacedTypes'
  BY DEF CheckName, CreateLeaves, map, TypeInv, RacedTypes
<1>2. JobFits(p) /\ ~Gone(p) /\ Running(p)
  BY <1>1, JobIsTyped DEF Gone, Running
<1>3. Good => NoLeases(p) /\ CreateInv(p)
  BY <1>1, HasNothing DEF Good, Creates
<1>4. ASSUME Exit(p) PROVE TypeInv' /\ (raced' = {} /\ Good => Good')
  BY <1>1, <1>2, <1>3, <1>4, ExitKeeps DEF NoLeases
<1>5. ASSUME Goto(p, "add"), UNCHANGED job PROVE TypeInv' /\ (Good => Good')
  <2>1. Moves(p) /\ pc'[p] = "add" /\ job'[p] = job[p]
    BY <1>5, Going DEF TypeInv, Steps
  <2>2. JobFits(p)'
    BY <1>2, <2>1 DEF JobFits, Running, Looking, Finding, Cleaning
  <2>3. TypeInv'
    BY <1>1, <2>1, <2>2, CreateTypes, FilesRest
  <2>4. ASSUME Good PROVE Good'
    <3>1. Fresh(p)' /\ job[p].found.lease.lease \in {p, None}
      BY <1>1, <1>3, <2>1, <2>4 DEF CreateInv, Fresh
    <3>2. CreateInv(p)' /\ FinderInv(p)'
      BY <1>1, <2>1, <2>4, <3>1, HasNothing
         DEF CreateInv, FinderInv, Looking, Finding, Cleaning
    <3> QED BY <1>1, <1>2, <1>3, <2>1, <2>4, <3>2, CreateMoves DEF NoLeases
  <2> QED BY <2>3, <2>4
<1> QED BY <1>4, <1>5 DEF CheckName

-----------------------------------------------------------------------------
(* A create makes its checkout, publishes its lease and claims its ticket. *)

\* A name that a create writes to has nobody else's manifest, or it is a race.
LEMMA NoOther ==
  ASSUME NEW n, NEW leases, NoteOther(n, leases)
  PROVE  /\ RacedTypes => RacedTypes'
         /\ raced' = {} => manifest[n].lease \in leases \cup {None}
BY DEF NoteOther, RacedTypes

\* git worktree add.
LEMMA AddTreeKeeps ==
  ASSUME TypeInv, NEW p \in Creators, AddTree(p)
  PROVE  TypeInv' /\ (raced' = {} /\ Good => Good')
<1>0. pc[p] = "add"
  BY DEF AddTree
<1>n. PICK n \in Names : n = job[p].name
  BY <1>0, JobIsTyped DEF Running
<1>1. /\ pc[p] = "add" /\ UNCHANGED <<manifest, ticket, fresh, finishing>>
      /\ NoteOther(n, {p})
  BY <1>n DEF AddTree, CreateLeaves, map
<1>2. JobFits(p) /\ ~Gone(p) /\ job[p].name = n
  BY <1>1, <1>n, JobIsTyped DEF Gone, Running
<1>3. RacedTypes'
  BY <1>1, NoOther DEF TypeInv
<1>4. ASSUME Good
      PROVE  /\ NoLeases(p) /\ NoClaims(p) /\ Fresh(p) /\ NoTrees(p)
             /\ job[p].found.lease.lease \in {p, None} /\ ~job[p].claimed
  BY <1>1, <1>4 DEF Good, Creates, CreateInv
<1>5. ASSUME Good PROVE (NoLeases(p) /\ NoClaims(p))'
  BY <1>1, <1>4, <1>5 DEF NoLeases, NoClaims
<1>6. CASE checkout[n] = NoTree
  <2> DEFINE tree == [lease |-> p, work |-> FALSE]
  <2>1. /\ Goto(p, "publish") /\ checkout' = [checkout EXCEPT ![n] = tree]
        /\ job' = [job EXCEPT ![p].created = TRUE]
    BY <1>2, <1>6 DEF AddTree
  <2>0. /\ tree \in [lease : Creators \cup {None}, work : BOOLEAN]
        /\ tree.lease = p /\ tree.work = FALSE
    OBVIOUS
  <2> HIDE DEF tree
  <2>9. pc \in [Creators -> Steps] /\ job \in [Creators -> Jobs]
    BY DEF TypeInv, JobTypes
  <2>2. /\ Moves(p) /\ pc'[p] = "publish" /\ SameTask(p)
        /\ job'[p].claimed = job[p].claimed
    <3>1. pc' \in [Creators -> Steps] /\ pc'[p] = "publish"
      BY <2>1, <2>9 DEF Goto, Steps
    <3>2. job' \in [Creators -> Jobs] /\ job'[p] = [job[p] EXCEPT !.created = TRUE]
      BY <2>1, <2>9 DEF Jobs
    <3> QED BY <2>1, <2>9, <3>1, <3>2 DEF Moves, Goto, SameTask, Jobs
  <2>3. FileTypes' /\ checkout'[n] = tree /\ \A m \in Names \ {n} : checkout'[m] = checkout[m]
    BY <1>1, <1>2, <2>0, <2>1 DEF TypeInv, FileTypes, IntegratedIsPrepared
  <2>4. JobFits(p)'
    BY <1>1, <1>2, <2>2 DEF JobFits, SameTask, Running, Looking, Finding, Cleaning
  <2>5. TypeInv'
    BY <1>1, <1>3, <2>2, <2>3, <2>4, CreateTypes
  <2>6. ASSUME raced' = {}, Good PROVE Good'
    <3>1. manifest[n].lease = None
      BY <1>1, <1>2, <1>4, <2>6, NoOther DEF NoLeases
    <3>2. NameInv(n)'
      BY <1>1, <2>0, <2>3, <3>1 DEF NameInv, LeaseInv, TreeInv
    <3>3. OwnTree(p)' /\ Fresh(p)'
      BY <1>1, <1>2, <1>4, <2>0, <2>2, <2>3, <2>6 DEF OwnTree, Fresh, SameTask
    <3>4. CreateInv(p)' /\ FinderInv(p)'
      BY <1>5, <2>2, <1>4, <2>6, <3>3
         DEF CreateInv, FinderInv, Looking, Finding, Cleaning
    <3>5. checkout[n].lease = None
      BY <1>6 DEF NoTree
    <3> QED BY <1>1, <1>2, <1>4, <2>2, <2>0, <2>3, <2>6, <3>2, <3>4, <3>5, CreateWrites
            DEF NoLeases
  <2> QED BY <2>5, <2>6
<1>7. CASE checkout[n] # NoTree
  <2>1. Goto(p, "drop") /\ UNCHANGED <<checkout, job, files>>
    BY <1>1, <1>2, <1>7 DEF AddTree, files
  <2>2. Moves(p) /\ pc'[p] = "drop" /\ job'[p] = job[p]
    BY <2>1, Going DEF TypeInv, Steps
  <2>3. JobFits(p)'
    BY <1>1, <1>2, <2>2 DEF JobFits, Running, Looking, Finding, Cleaning
  <2>4. TypeInv'
    BY <1>1, <1>3, <2>1, <2>2, <2>3, CreateTypes, FilesRest
  <2>5. ASSUME Good PROVE Good'
    <3>1. CreateInv(p)' /\ FinderInv(p)'
      BY <1>4, <1>5, <2>2, <2>5 DEF CreateInv, FinderInv, Looking, Finding, Cleaning
    <3> QED BY <1>1, <1>2, <1>4, <2>1, <2>2, <2>5, <3>1, CreateMoves DEF NoLeases
  <2> QED BY <2>4, <2>5
<1> QED BY <1>6, <1>7

\* After a write of its lease, the name of a create has it.
LEMMA HasLease ==
  ASSUME JobTypes, NEW p \in Creators, NEW n \in Names, n = job[p].name,
         NEW status \in Statuses, manifest'[n] = Lease(p, status), SameTask(p)
  PROVE  /\ Has(p, status)'
         /\ manifest'[n].lease = p /\ manifest'[n].status = status
         /\ manifest'[n].ticket = job[p].ticket /\ ~manifest'[n].prepared
<1>1. /\ manifest'[n].lease = p /\ manifest'[n].status = status
      /\ manifest'[n].ticket = job[p].ticket /\ manifest'[n].prepared = FALSE
  <2>1. Lease(p, status).lease = p /\ Lease(p, status).status = status
    BY LeaseTypes
  <2>2. Lease(p, status).ticket = job[p].ticket
    BY LeaseTypes
  <2>3. Lease(p, status).prepared = FALSE
    BY LeaseTypes
  <2> QED BY <2>1, <2>2, <2>3
<1>2. job'[p].name = n /\ job'[p].ticket = job[p].ticket
  BY DEF SameTask
<1> QED BY <1>1, <1>2 DEF Has

\* The pending lease is written.
LEMMA PublishLeaseKeeps ==
  ASSUME TypeInv, NEW p \in Creators, PublishLease(p)
  PROVE  TypeInv' /\ (raced' = {} /\ Good => Good')
<1>0. pc[p] = "publish"
  BY DEF PublishLease
<1>n. PICK n \in Names : n = job[p].name
  BY <1>0, JobIsTyped DEF Running
<1>1. /\ UNCHANGED <<checkout, job, ticket, fresh, finishing>>
      /\ NoteOther(n, {p})
  BY <1>n DEF PublishLease, CreateLeaves, map
<1>2. JobFits(p) /\ ~Gone(p) /\ job[p].ticket \in Tickets \cup {None}
  BY <1>0, JobIsTyped DEF Gone
<1>3. RacedTypes'
  BY <1>1, NoOther DEF TypeInv
<1>4. ASSUME Good
      PROVE  /\ NoLeases(p) /\ NoClaims(p) /\ Fresh(p) /\ OwnTree(p) /\ ~job[p].claimed
  BY <1>0, <1>4 DEF Good, Creates, CreateInv
<1>5. PICK status \in {"active", "pending"} :
        /\ WriteManifest(n, Lease(p, status))
        /\ Goto(p, IF status = "active" THEN "probe" ELSE "claim")
        /\ status = "active" <=> job[p].ticket = None
  BY <1>n DEF PublishLease
<1>6. /\ Moves(p) /\ pc'[p] = (IF status = "active" THEN "probe" ELSE "claim")
      /\ job'[p] = job[p] /\ SameTask(p)
  BY <1>1, <1>5, Going DEF TypeInv, Steps, SameTask
<1>7. /\ FileTypes' /\ manifest'[n] = Lease(p, status)
      /\ \A m \in Names \ {n} : manifest'[m] = manifest[m]
  <2>1. Lease(p, status) \in Leases /\ Lease(p, status).status # "integrated"
    BY LeaseTypes DEF TypeInv, Statuses
  <2> QED BY <1>1, <1>5, <2>1, Writing
<1>8. /\ Has(p, status)' /\ manifest'[n].lease = p /\ manifest'[n].status = status
      /\ manifest'[n].ticket = job[p].ticket /\ ~manifest'[n].prepared
  BY <1>n, <1>6, <1>7, HasLease DEF TypeInv, Statuses
<1>9. JobFits(p)'
  BY <1>2, <1>5, <1>6, <1>0 DEF JobFits, Running, Looking, Finding, Cleaning
<1>10. TypeInv'
  BY <1>1, <1>3, <1>6, <1>7, <1>9, CreateTypes
<1>11. ASSUME raced' = {}, Good PROVE Good'
  <2>1. manifest[n].lease = None
    BY <1>1, <1>4, <1>11, NoOther DEF NoLeases
  <2>2. checkout'[n].lease = p /\ ~checkout'[n].work
    BY <1>n, <1>1, <1>4, <1>11 DEF OwnTree
  <2>3. NoClaims(p)' /\ Fresh(p)' /\ OwnTree(p)'
    BY <1>n, <1>1, <1>4, <1>6, <1>11, <2>2 DEF NoClaims, Fresh, OwnTree
  <2>4. \A t : ClaimsOnly(p, t)'
    BY <2>3 DEF ClaimsOnly, NoClaims
  <2>5. NameInv(n)'
    BY <1>5, <1>6, <1>8, <2>2, <2>4 DEF NameInv, LeaseInv, TreeInv
  <2>6. status = "active" => Holds(p)'
    BY <1>5, <1>6 DEF Holds
  <2>7. CreateInv(p)' /\ FinderInv(p)'
    BY <1>4, <1>6, <1>8, <1>11, <2>3, <2>4, <2>6
       DEF CreateInv, FinderInv, Looking, Finding, Cleaning
  <2> QED BY <1>1, <1>2, <1>4, <1>6, <1>7, <1>8, <1>11, <2>1, <2>5, <2>7, CreateWrites
          DEF NoLeases
<1> QED BY <1>10, <1>11

\* The lease becomes active.
LEMMA ActivateLeaseKeeps ==
  ASSUME TypeInv, NEW p \in Creators, ActivateLease(p)
  PROVE  TypeInv' /\ (raced' = {} /\ Good => Good')
<1>0. pc[p] = "activate"
  BY DEF ActivateLease
<1>n. PICK n \in Names : n = job[p].name
  BY <1>0, JobIsTyped DEF Running
<1>1. /\ UNCHANGED <<checkout, job, ticket, fresh, finishing, raced>>
      /\ RacedTypes'
      /\ WriteManifest(n, Lease(p, "active")) /\ Goto(p, "probe")
  BY <1>n DEF ActivateLease, CreateLeaves, map, TypeInv, RacedTypes
<1>2. JobFits(p) /\ ~Gone(p) /\ job[p].ticket \in Tickets
  BY <1>0, JobIsTyped DEF Gone, JobFits
<1>3. Moves(p) /\ pc'[p] = "probe" /\ job'[p] = job[p] /\ SameTask(p)
  BY <1>1, Going DEF TypeInv, Steps, SameTask
<1>4. /\ FileTypes' /\ manifest'[n] = Lease(p, "active")
      /\ \A m \in Names \ {n} : manifest'[m] = manifest[m]
  <2>1. Lease(p, "active") \in Leases /\ Lease(p, "active").status = "active"
    BY LeaseTypes DEF TypeInv, Statuses
  <2> QED BY <1>1, <2>1, Writing
<1>5. /\ Has(p, "active")' /\ manifest'[n].lease = p /\ manifest'[n].status = "active"
      /\ manifest'[n].ticket = job[p].ticket /\ ~manifest'[n].prepared
  BY <1>n, <1>3, <1>4, HasLease DEF TypeInv, Statuses
<1>6. JobFits(p)'
  BY <1>0, <1>2, <1>3 DEF JobFits, Running, Looking, Finding, Cleaning
<1>7. TypeInv'
  BY <1>1, <1>3, <1>4, <1>6, CreateTypes
<1>8. ASSUME Good PROVE Good'
  <2>1. /\ Has(p, "pending") /\ OwnTree(p) /\ Holds(p) /\ ClaimsOnly(p, job[p].ticket)
    BY <1>0, <1>8 DEF Good, Creates, CreateInv
  <2>2. manifest[n].lease = p /\ checkout'[n].lease = p /\ ~checkout'[n].work
    BY <1>n, <1>1, <2>1 DEF OwnTree, Has
  <2>3. OwnTree(p)' /\ Holds(p)' /\ ClaimsOnly(p, job[p].ticket)'
    BY <1>n, <1>1, <1>3, <2>1, <2>2 DEF OwnTree, Holds, ClaimsOnly
  <2>4. ticket'[job[p].ticket].claim = p
    BY <1>1, <1>2, <2>1 DEF Holds
  <2>5. NameInv(n)'
    BY <1>3, <1>5, <2>2, <2>4 DEF NameInv, LeaseInv, TreeInv
  <2>6. CreateInv(p)' /\ FinderInv(p)'
    BY <1>3, <1>5, <2>3 DEF CreateInv, FinderInv, Looking, Finding, Cleaning
  <2>7. \A m \in Names \ {n} : manifest[m].lease # p
    BY <1>8, <2>2 DEF Good, Settled, OneManifest
  <2>8. \A t \in Tickets : ticket[t].claim = p => manifest'[n].ticket = t
    BY <1>5, <2>1 DEF ClaimsOnly
  <2> QED BY <1>1, <1>2, <1>3, <1>4, <1>5, <1>8, <2>2, <2>5, <2>6, <2>7, <2>8, CreateWrites
<1> QED BY <1>7, <1>8

\* The create p moves and takes or gives up the claim of one ticket.
LEMMA CreateSaves ==
  ASSUME TypeInv, Good, NEW p \in Creators, ~Gone(p), Moves(p), NEW t \in Tickets,
         UNCHANGED <<files, finishing>>, fresh' = {},
         \A u \in Tickets \ {t} : ticket'[u] = ticket[u],
         ticket[t].commit = None, ticket'[t].commit = None,
         ticket[t].claim \in {p, None}, ticket'[t].claim \in {p, None},
         ticket'[t].claim = p => \E n \in Names : manifest[n].lease = p /\ manifest[n].ticket = t,
         CreateInv(p)', FinderInv(p)',
         \A n \in Names : manifest[n].lease = p => LeaseInv(n)'
  PROVE  Good'
<1>0. UNCHANGED <<manifest, checkout, finish, source>>
  BY DEF files, finishing
<1>1. ASSUME NEW q \in Creators \ {p} PROVE ClaimsStay(q)
  BY DEF ClaimsStay
<1>2. GoneRest
  BY <1>1 DEF GoneRest, Moves
<1>3. ASSUME NEW q \in Creators \ {p} PROVE Rests(q)
  BY <1>0, <1>1 DEF Rests, Moves
<1>4. Creates'
  BY <1>2, <1>3, OthersKeep DEF Good, Creates
<1>5. CommitsStay
  BY DEF CommitsStay
<1>6. ASSUME NEW n \in Names PROVE NameInv(n)'
  <2>1. LeaseInv(n)'
    <3>1. CASE manifest[n].lease = p
      BY <3>1
    <3>2. CASE manifest[n].lease # p
      <4>1. manifest[n].lease # None => pc'[manifest[n].lease] = pc[manifest[n].lease]
                                        /\ ClaimsStay(manifest[n].lease)
        BY <1>1, <3>2, LeaseIsTyped DEF Moves
      <4> QED BY <1>0, <4>1, LeaseKeeps DEF Good, Kept, NameInv
    <3> QED BY <3>1, <3>2
  <2> QED BY <2>1, <1>0, <1>2, TreeKeeps DEF Good, Kept, NameInv
<1>7. ASSUME NEW n \in Names PROVE FinishInv(n)'
  BY <1>0, <1>2, <1>5, FinishKeeps DEF Good, Kept
<1>8. OneManifest'
  BY <1>0 DEF Good, Settled, OneManifest
<1>9. ASSUME NEW u \in Tickets PROVE TicketInv(u)'
  <2>1. CASE u = t
    BY <1>0, <2>1 DEF TicketInv
  <2>2. CASE u # t
    BY <1>0, <2>2, TicketKeeps DEF Good, Settled
  <2> QED BY <2>1, <2>2
<1> QED BY <1>4, <1>6, <1>7, <1>8, <1>9 DEF Good, Kept, Settled

\* An update of the map replaces one ticket and ends all earlier reads.
LEMMA Saving ==
  ASSUME TypeInv, NEW t \in Tickets, NEW rec \in TicketRecords, Save(t, rec)
  PROVE  /\ MapTypes' /\ ticket'[t] = rec /\ fresh' = {}
         /\ \A u \in Tickets \ {t} : ticket'[u] = ticket[u]
BY DEF TypeInv, MapTypes, Save

\* The name of a create has its lease, and no other name has.
LEMMA OwnName ==
  ASSUME Good, NEW p \in Creators, NEW n \in Names, n = job[p].name, NEW status,
         Has(p, status)
  PROVE  /\ manifest[n].lease = p /\ manifest[n].status = status
         /\ manifest[n].ticket = job[p].ticket /\ LeaseInv(n) /\ TreeInv(n)
         /\ \A m \in Names \ {n} : manifest[m].lease # p
BY DEF Good, Settled, OneManifest, Has, Kept, NameInv

\* An update of the map by a create leaves files and finishes typed.
LEMMA SavingTypes ==
  ASSUME TypeInv, NEW p \in Creators, Moves(p), JobFits(p)', MapTypes',
         UNCHANGED <<files, finishing>>, RacedTypes'
  PROVE  TypeInv'
<1>1. JobTypes'
  BY MovesTypes DEF TypeInv
<1>2. FinishTypes'
  BY DEF TypeInv, FinishTypes, finishing, FinishFits
<1> QED BY <1>1, <1>2, FilesRest DEF TypeInv

\* The ticket is claimed for the lease, or the create fails.
LEMMA ClaimTicketKeeps ==
  ASSUME TypeInv, NEW p \in Creators, ClaimTicket(p)
  PROVE  TypeInv' /\ (raced' = {} /\ Good => Good')
<1>0. pc[p] = "claim"
  BY DEF ClaimTicket
<1>n. PICK n \in Names : n = job[p].name
  BY <1>0, JobIsTyped DEF Running
<1>t. PICK t \in Tickets : t = job[p].ticket
  BY <1>0, JobIsTyped DEF JobFits
<1>1. UNCHANGED <<files, manifest, checkout, finishing, raced>> /\ RacedTypes'
  BY DEF ClaimTicket, CreateLeaves, TypeInv, RacedTypes, files
<1>2. JobFits(p) /\ ~Gone(p)
  BY <1>0, JobIsTyped DEF Gone
<1>3. ASSUME Good
      PROVE  /\ Has(p, "pending") /\ NoClaims(p) /\ Fresh(p) /\ OwnTree(p) /\ ~job[p].claimed
             /\ manifest[n].lease = p /\ manifest[n].status = "pending"
             /\ manifest[n].ticket = t /\ LeaseInv(n)
             /\ \A m \in Names \ {n} : manifest[m].lease # p
  <2>1. Has(p, "pending") /\ NoClaims(p) /\ Fresh(p) /\ OwnTree(p) /\ ~job[p].claimed
    BY <1>0, <1>3 DEF Good, Creates, CreateInv
  <2> QED BY <2>1, <1>3, <1>n, <1>t, OwnName
<1>4. CASE p \in fresh
  <2> DEFINE rec == [ticket[t] EXCEPT !.status = "claimed", !.claim = p]
  <2>1. /\ Save(t, rec) /\ Goto(p, "activate")
        /\ job' = [job EXCEPT ![p].claimed = TRUE]
    BY <1>t, <1>4 DEF ClaimTicket
  <2>2. rec \in TicketRecords /\ rec.claim = p /\ rec.commit = ticket[t].commit
    BY DEF TypeInv, MapTypes, TicketRecords
  <2> HIDE DEF rec
  <2>9. pc \in [Creators -> Steps] /\ job \in [Creators -> Jobs]
    BY DEF TypeInv, JobTypes
  <2>3. /\ Moves(p) /\ pc'[p] = "activate" /\ SameTask(p)
        /\ job'[p].claimed = TRUE /\ job'[p].found = job[p].found
    <3>1. pc' \in [Creators -> Steps] /\ pc'[p] = "activate"
      BY <2>1, <2>9 DEF Goto, Steps
    <3>2. job' \in [Creators -> Jobs] /\ job'[p] = [job[p] EXCEPT !.claimed = TRUE]
      BY <2>1, <2>9 DEF Jobs
    <3> QED BY <2>1, <2>9, <3>1, <3>2 DEF Moves, Goto, SameTask, Jobs
  <2>4. /\ MapTypes' /\ ticket'[t] = rec /\ fresh' = {}
        /\ \A u \in Tickets \ {t} : ticket'[u] = ticket[u]
    BY <2>1, <2>2, Saving
  <2>5. JobFits(p)'
    BY <1>0, <1>2, <1>t, <2>3 DEF JobFits, SameTask, Running, Looking, Finding, Cleaning
  <2>6. TypeInv'
    BY <1>1, <2>3, <2>4, <2>5, SavingTypes
  <2>7. ASSUME Good PROVE Good'
    <3>1. ticket[t].claim = None /\ ticket[t].commit = None
      <4>1. ticket[t].claim = None
        BY <1>3, <1>4, <1>t, <2>7 DEF Fresh
      <4> QED BY <4>1, <2>7 DEF Good, Settled, TicketInv
    <3>2. OwnTree(p)' /\ Has(p, "pending")'
      BY <1>1, <1>3, <2>3, <2>7 DEF OwnTree, Has, SameTask
    <3>3. ClaimsOnly(p, t)' /\ ClaimsOnly(p, job[p].ticket)'
      BY <1>3, <1>t, <2>3, <2>4, <2>7 DEF NoClaims, ClaimsOnly, SameTask
    <3>4. Holds(p)'
      BY <1>t, <2>2, <2>3, <2>4 DEF Holds, SameTask
    <3>5. CreateInv(p)' /\ FinderInv(p)'
      BY <2>3, <3>2, <3>3, <3>4 DEF CreateInv, FinderInv, Looking, Finding, Cleaning
    <3>6. ASSUME NEW m \in Names, manifest[m].lease = p PROVE LeaseInv(m)'
      <4>1. m = n
        BY <1>3, <2>7, <3>6
      <4>2. ClaimsOnly(p, manifest[n].ticket)'
        BY <1>1, <1>3, <2>7, <3>3 DEF ClaimsOnly
      <4> QED BY <1>1, <1>3, <2>3, <2>7, <4>1, <4>2 DEF LeaseInv
    <3>7. \E m \in Names : manifest[m].lease = p /\ manifest[m].ticket = t
      BY <1>3, <2>7
    <3> QED BY <1>1, <1>2, <2>2, <2>3, <2>4, <2>7, <3>1, <3>5, <3>6, <3>7, CreateSaves
  <2> QED BY <2>6, <2>7
<1>5. CASE p \notin fresh
  <2>1. Goto(p, "remove") /\ UNCHANGED <<map, job>> /\ UNCHANGED <<ticket, fresh>>
    BY <1>5 DEF ClaimTicket, map
  <2>2. Moves(p) /\ pc'[p] = "remove" /\ job'[p] = job[p]
    BY <2>1, Going DEF TypeInv, Steps
  <2>3. JobFits(p)'
    BY <1>0, <1>2, <2>2 DEF JobFits, Running, Looking, Finding, Cleaning
  <2>4. TypeInv'
    BY <1>1, <2>1, <2>2, <2>3, CreateTypes, FilesRest
  <2>5. ASSUME Good PROVE Good'
    <3>1. OwnTree(p)' /\ Has(p, "pending")' /\ NoClaims(p)'
      BY <1>1, <1>3, <2>1, <2>2, <2>5 DEF OwnTree, Has, NoClaims
    <3>2. \A u : ClaimsOnly(p, u)'
      BY <3>1 DEF ClaimsOnly, NoClaims
    <3>3. CreateInv(p)' /\ FinderInv(p)'
      BY <1>3, <2>2, <2>5, <3>1, <3>2 DEF CreateInv, FinderInv, Looking, Finding, Cleaning
    <3>4. ASSUME NEW m \in Names, manifest[m].lease = p PROVE LeaseInv(m)'
      <4>1. m = n
        BY <1>3, <2>5, <3>4
      <4> QED BY <1>1, <1>3, <2>1, <2>2, <2>5, <3>2, <4>1 DEF LeaseInv
    <3> QED BY <1>1, <1>2, <2>1, <2>2, <2>5, <3>3, <3>4, CreateMoves
  <2> QED BY <2>4, <2>5
<1> QED BY <1>4, <1>5

-----------------------------------------------------------------------------
(* A create fails, cleans up or is killed.                                 *)

LEMMA FailCreateKeeps ==
  ASSUME TypeInv, NEW p \in Creators, FailCreate(p)
  PROVE  TypeInv' /\ (raced' = {} /\ Good => Good')
<1>0. /\ pc[p] \in {"publish", "claim", "activate"}
      /\ UNCHANGED <<files, manifest, checkout, ticket, fresh, finishing, job, raced>>
      /\ Goto(p, "remove") /\ RacedTypes'
  BY DEF FailCreate, TypeInv, RacedTypes, map, files
<1>n. PICK n \in Names : n = job[p].name
  BY <1>0, JobIsTyped DEF Running
<1>2. JobFits(p) /\ ~Gone(p)
  BY <1>0, JobIsTyped DEF Gone
<1>3. Moves(p) /\ pc'[p] = "remove" /\ job'[p] = job[p]
  BY <1>0, Going DEF TypeInv, Steps
<1>4. JobFits(p)'
  BY <1>0, <1>2, <1>3 DEF JobFits, Running, Looking, Finding, Cleaning
<1>5. TypeInv'
  BY <1>0, <1>3, <1>4, CreateTypes, FilesRest
<1>6. ASSUME Good PROVE Good'
  <2>1. /\ Has(p, "pending") \/ (NoLeases(p) /\ ~job[p].claimed)
        /\ ~job[p].claimed => NoClaims(p)
        /\ NoClaims(p) \/ ClaimsOnly(p, job[p].ticket)
    BY <1>0, <1>6 DEF Good, Creates, CreateInv
  <2>2. OwnTree(p)
    BY <1>0, <1>6 DEF Good, Creates, CreateInv
  <2>3. /\ OwnTree(p)'
        /\ Has(p, "pending") => Has(p, "pending")'
        /\ NoLeases(p) => NoLeases(p)'
    BY <1>0, <1>3, <2>2 DEF OwnTree, Has, NoLeases
  <2>4. /\ NoClaims(p) => NoClaims(p)'
        /\ ClaimsOnly(p, job[p].ticket)'
    BY <1>0, <1>3, <2>1 DEF NoClaims, ClaimsOnly
  <2>5. CreateInv(p)' /\ FinderInv(p)'
    BY <1>0, <1>3, <2>1, <2>2, <2>3, <2>4 DEF CreateInv, FinderInv, Looking, Finding, Cleaning
  <2>6. ASSUME NEW m \in Names, manifest[m].lease = p PROVE LeaseInv(m)'
    <3>1. Has(p, "pending")
      BY <2>1, <2>6 DEF NoLeases
    <3>2. m = n /\ LeaseInv(m) /\ manifest[m].status = "pending"
      BY <1>n, <1>6, <2>6, <3>1, OwnName
    <3>3. ClaimsOnly(p, manifest[m].ticket) => ClaimsOnly(p, manifest[m].ticket)'
      BY <1>0 DEF ClaimsOnly
    <3> QED BY <1>0, <1>3, <2>6, <3>2, <3>3 DEF LeaseInv
  <2> QED BY <1>0, <1>2, <1>3, <1>6, <2>5, <2>6, CreateMoves
<1> QED BY <1>5, <1>6

\* A create that failed removes the checkout it made.
LEMMA RemoveCreatedKeeps ==
  ASSUME TypeInv, NEW p \in Creators, RemoveCreated(p)
  PROVE  TypeInv' /\ (raced' = {} /\ Good => Good')
<1>0. pc[p] = "remove"
  BY DEF RemoveCreated
<1>n. PICK n \in Names : n = job[p].name
  BY <1>0, JobIsTyped DEF Running
<1>1. /\ UNCHANGED <<manifest, ticket, fresh, finishing, raced>> /\ RacedTypes'
      /\ RemoveTree(n)
  BY <1>n DEF RemoveCreated, CreateLeaves, map, TypeInv, RacedTypes
<1>2. JobFits(p) /\ ~Gone(p) /\ job[p].claimed \in BOOLEAN
  BY <1>0, JobIsTyped DEF Gone, Jobs
<1> DEFINE step == IF job[p].claimed THEN "rollback" ELSE "drop"
           found == [name |-> n, lease |-> Lease(p, "pending")]
<1>3. /\ Lease(p, "pending") \in Leases /\ Lease(p, "pending").lease = p
      /\ Lease(p, "pending").ticket = job[p].ticket
  BY LeaseTypes DEF TypeInv, Statuses
<1>4. found \in Finds /\ found.lease = Lease(p, "pending")
  BY <1>3 DEF Finds
<1>5. Goto(p, step) /\ job' = [job EXCEPT ![p].found = found] /\ step \in Steps
  BY <1>n DEF RemoveCreated, Steps, Cleaning
<1> HIDE DEF found
<1>6. /\ Moves(p) /\ pc'[p] = step /\ SameTask(p)
      /\ job'[p].claimed = job[p].claimed /\ job'[p].found = found
  BY <1>4, <1>5, Remembering DEF TypeInv
<1>7. JobFits(p)'
  BY <1>n, <1>2, <1>3, <1>4, <1>6 DEF JobFits, SameTask, Running, Looking, Finding, Cleaning
<1>8. /\ FileTypes' /\ checkout'[n].lease = None /\ checkout'[n].work = FALSE
      /\ \A m \in Names \ {n} : checkout'[m] = checkout[m]
  BY <1>1, Clearing
<1>9. TypeInv'
  BY <1>1, <1>6, <1>7, <1>8, CreateTypes
<1>10. ASSUME Good PROVE Good'
  <2>1. /\ Has(p, "pending") \/ (NoLeases(p) /\ ~job[p].claimed)
        /\ ~job[p].claimed => NoClaims(p)
        /\ ClaimsOnly(p, job[p].ticket)
    BY <1>0, <1>10 DEF Good, Creates, CreateInv
  <2>2. checkout[n].lease = p /\ ~checkout[n].work
    BY <1>0, <1>n, <1>10 DEF Good, Creates, CreateInv, OwnTree
  <2>3. /\ Has(p, "pending") => Has(p, "pending")'
        /\ NoLeases(p) => NoLeases(p)'
        /\ NoClaims(p) => NoClaims(p)'
        /\ ClaimsOnly(p, job[p].ticket)' /\ FoundOwn(p)'
    BY <1>1, <1>3, <1>4, <1>6, <2>1
       DEF Has, NoLeases, NoClaims, ClaimsOnly, FoundOwn, SameTask
  <2>4. job'[p].found.lease.lease = p
    BY <1>3, <1>4, <1>6
  <2>5. CreateInv(p)' /\ FinderInv(p)'
    BY <1>6, <2>1, <2>3, <2>4 DEF CreateInv, FinderInv, Looking, Finding, Cleaning
  <2>6. NameInv(n)' /\ \A m \in Names \ {n} : manifest[m].lease # p
    <3>1. CASE Has(p, "pending")
      <4>1. /\ manifest[n].lease = p /\ manifest[n].status = "pending" /\ LeaseInv(n)
            /\ \A m \in Names \ {n} : manifest[m].lease # p
        BY <1>n, <1>10, <3>1, OwnName
      <4>2. ClaimsOnly(p, manifest[n].ticket) => ClaimsOnly(p, manifest[n].ticket)'
        BY <1>1 DEF ClaimsOnly
      <4> QED BY <1>1, <1>6, <1>8, <4>1, <4>2 DEF NameInv, LeaseInv, TreeInv, Cleaning
    <3>2. CASE NoLeases(p)
      <4>1. manifest[n].lease = None
        BY <1>10, <2>2, <3>2 DEF Good, Kept, NameInv, LeaseInv, NoLeases
      <4> QED BY <1>1, <1>8, <3>2, <4>1 DEF NameInv, LeaseInv, TreeInv, NoLeases
    <3> QED BY <2>1, <3>1, <3>2
  <2> QED BY <1>1, <1>2, <1>6, <1>8, <1>10, <2>2, <2>5, <2>6, CreateWrites
<1> QED BY <1>9, <1>10

\* The lease of a create that cleans up, while nothing but its step changes.
LEMMA CleaningLease ==
  ASSUME TypeInv, Good, NEW p \in Creators, pc[p] \in Cleaning,
         UNCHANGED <<files, ticket>>, pc'[p] \in Cleaning \cup {"drop"},
         NEW n \in Names, manifest[n].lease = p
  PROVE  LeaseInv(n)'
<1>1. UNCHANGED <<manifest, checkout>>
  BY DEF files
<1>2. Has(p, "pending") \/ Has(p, "aborting")
  BY DEF Good, Creates, CreateInv
<1>m. PICK m \in Names : m = job[p].name
  BY JobIsTyped DEF Running, Cleaning
<1>3. n = m /\ LeaseInv(n) /\ manifest[n].status \in {"pending", "aborting"}
  BY <1>2, <1>m, OwnName
<1>4. ClaimsOnly(p, manifest[n].ticket) => ClaimsOnly(p, manifest[n].ticket)'
  BY <1>1 DEF ClaimsOnly
<1> QED BY <1>1, <1>3, <1>4 DEF LeaseInv, Cleaning, Gone

\* A create cleans up the claim of its own ticket.
LEMMA CleaningTicket ==
  ASSUME TypeInv, NEW p \in Creators, pc[p] \in Cleaning
  PROVE  /\ job[p].found.lease.ticket \in Tickets /\ job[p].name \in Names
         /\ ~Gone(p) /\ JobFits(p) /\ Running(p)
         /\ Good => /\ job[p].found.lease.lease = p
                    /\ job[p].found.lease.ticket = job[p].ticket
                    /\ ClaimsOnly(p, job[p].ticket)
                    /\ Has(p, "aborting") \/ (Has(p, "pending") /\ job[p].claimed)
<1>1. Running(p) /\ ~Gone(p)
  BY DEF Running, Gone, Cleaning
<1>2. job[p].found.lease.ticket \in Tickets /\ job[p].name \in Names /\ JobFits(p)
  BY <1>1, JobIsTyped, LeaseIsThere DEF JobFits
<1>3. ASSUME Good
      PROVE  /\ FoundOwn(p) /\ ClaimsOnly(p, job[p].ticket)
             /\ Has(p, "aborting") \/ (Has(p, "pending") /\ job[p].claimed)
  BY <1>3 DEF Good, Creates, CreateInv
<1> QED BY <1>1, <1>2, <1>3 DEF FoundOwn

\* A create that failed reads its claim.
LEMMA ReadClaimKeeps ==
  ASSUME TypeInv, NEW p \in Creators, ReadClaim(p)
  PROVE  TypeInv' /\ (raced' = {} /\ Good => Good')
<1>0. /\ pc[p] = "rollback" /\ UNCHANGED <<files, manifest, checkout, ticket, finishing, raced>>
      /\ RacedTypes' /\ pc[p] \in Cleaning
  BY DEF ReadClaim, CreateLeaves, TypeInv, RacedTypes, files, Cleaning
<1>1. /\ job[p].found.lease.ticket \in Tickets /\ ~Gone(p) /\ JobFits(p) /\ Running(p)
      /\ Good => /\ job[p].found.lease.lease = p
                 /\ job[p].found.lease.ticket = job[p].ticket
                 /\ ClaimsOnly(p, job[p].ticket)
                 /\ Has(p, "aborting") \/ (Has(p, "pending") /\ job[p].claimed)
  BY <1>0, CleaningTicket
<1> DEFINE claim == ticket[job[p].found.lease.ticket].claim
<1>2. Good /\ claim # p => NoClaims(p)
  BY <1>1 DEF ClaimsOnly, NoClaims
<1>3. ASSUME Exit(p), UNCHANGED fresh, claim # job[p].found.lease.lease
      PROVE  TypeInv' /\ (raced' = {} /\ Good => Good')
  <2>1. Good => NoClaims(p)
    BY <1>1, <1>2, <1>3
  <2> QED BY <1>0, <1>1, <1>3, <2>1, ExitKeeps
<1>4. ASSUME NEW step \in {"drop", "release"}, Goto(p, step), UNCHANGED job,
             fresh' \subseteq fresh \cup {p},
             step = "drop" => claim = None,
             step = "release" => claim = job[p].found.lease.lease
      PROVE  TypeInv' /\ (Good => Good')
  <2>1. Moves(p) /\ pc'[p] = step /\ job'[p] = job[p]
    BY <1>4, Going DEF TypeInv, Steps, Cleaning
  <2>2. JobFits(p)'
    BY <1>0, <1>1, <2>1 DEF JobFits, Running, Looking, Finding, Cleaning
  <2>3. TypeInv'
    BY <1>0, <1>4, <2>1, <2>2, CreateTypes, FilesRest
  <2>4. ASSUME Good PROVE Good'
    <3>1. /\ ClaimsOnly(p, job[p].ticket)' /\ FoundOwn(p)'
          /\ Has(p, "pending") => Has(p, "pending")'
          /\ Has(p, "aborting") => Has(p, "aborting")'
      BY <1>0, <1>1, <2>1, <2>4 DEF ClaimsOnly, FoundOwn, Has
    <3>2. step = "drop" => NoClaims(p)'
      BY <1>0, <1>2, <1>4, <2>4 DEF NoClaims
    <3>3. step = "release" => Holds(p)'
      BY <1>0, <1>1, <1>4, <2>1, <2>4 DEF Holds
    <3>4. CreateInv(p)' /\ FinderInv(p)'
      BY <1>1, <2>1, <2>4, <3>1, <3>2, <3>3
         DEF CreateInv, FinderInv, Looking, Finding, Cleaning
    <3>5. \A n \in Names : manifest[n].lease = p => LeaseInv(n)'
      BY <1>0, <2>1, <2>4, CleaningLease DEF Cleaning
    <3> QED BY <1>0, <1>1, <1>4, <2>1, <2>4, <3>4, <3>5, CreateMoves
  <2> QED BY <2>3, <2>4
<1>5. \/ claim = None /\ Goto(p, "drop") /\ UNCHANGED <<job, fresh>>
      \/ /\ claim = job[p].found.lease.lease /\ Goto(p, "release") /\ UNCHANGED job
         /\ fresh' = fresh \cup {p}
      \/ claim # job[p].found.lease.lease /\ Exit(p) /\ UNCHANGED fresh
  BY DEF ReadClaim
<1> QED BY <1>3, <1>4, <1>5

\* Who stops in its clean-up has no claim, or lost the race.
LEMMA StuckKeeps ==
  ASSUME TypeInv, NEW p \in Creators, pc[p] \in Cleaning \cup {"drop"}, Stuck(p),
         UNCHANGED <<files, ticket, finishing>>, fresh' \subseteq fresh
  PROVE  TypeInv' /\ (raced' = {} /\ Good => Good')
<1>1. /\ raced' = (IF job[p].claimed THEN raced \cup {"cleanup"} ELSE raced) /\ Exit(p)
      /\ RacedTypes'
  BY DEF Stuck, TypeInv, RacedTypes
<1>2. ~Gone(p) /\ Running(p)
  BY DEF Gone, Running, Cleaning
<1>n. PICK n \in Names : n = job[p].name
  BY <1>2, JobIsTyped
<1>3. ASSUME raced' = {}, Good, NEW m \in Names,
             manifest[m].lease = p, manifest[m].status = "pending"
      PROVE  NoClaims(p)
  <2>1. ~job[p].claimed
    BY <1>1, <1>3
  <2>2. CASE pc[p] = "drop"
    BY <1>3, <2>2 DEF Good, Creates, CreateInv
  <2>3. CASE pc[p] \in Cleaning
    <3>1. Has(p, "aborting")
      BY <1>3, <2>1, <2>3, CleaningTicket
    <3>2. m = n /\ manifest[n].status = "aborting"
      BY <1>3, <1>n, <3>1, OwnName
    <3> QED BY <1>3, <3>2
  <2> QED BY <2>2, <2>3
<1> QED BY <1>1, <1>2, <1>3, ExitKeeps

\* A create that failed releases its claim.
LEMMA ReleaseClaimKeeps ==
  ASSUME TypeInv, NEW p \in Creators, ReleaseClaim(p)
  PROVE  TypeInv' /\ (raced' = {} /\ Good => Good')
<1>0. /\ pc[p] = "release" /\ UNCHANGED <<files, manifest, checkout, finishing>>
      /\ pc[p] \in Cleaning
  BY DEF ReleaseClaim, CreateLeaves, files, Cleaning
<1>t. PICK t \in Tickets : t = job[p].found.lease.ticket
  BY <1>0, CleaningTicket
<1>1. /\ ~Gone(p) /\ JobFits(p) /\ Running(p)
      /\ Good => /\ job[p].found.lease.lease = p /\ t = job[p].ticket
                 /\ ClaimsOnly(p, job[p].ticket)
                 /\ Has(p, "aborting") \/ (Has(p, "pending") /\ job[p].claimed)
  BY <1>0, <1>t, CleaningTicket
<1> DEFINE rec == [ticket[t] EXCEPT !.claim = None,
                                    !.status = IF @ = "claimed" THEN "ready" ELSE @]
<1>2. ASSUME Stuck(p), UNCHANGED map PROVE TypeInv' /\ (raced' = {} /\ Good => Good')
  BY <1>0, <1>2, StuckKeeps DEF map
<1>3. ASSUME Goto(p, "rollback"), UNCHANGED <<map, job, raced>>
      PROVE  TypeInv' /\ (Good => Good')
  <2>0. UNCHANGED <<ticket, fresh>> /\ RacedTypes'
    BY <1>3 DEF map, TypeInv, RacedTypes
  <2>1. Moves(p) /\ pc'[p] = "rollback" /\ job'[p] = job[p]
    BY <1>3, Going DEF TypeInv, Steps, Cleaning
  <2>2. JobFits(p)'
    BY <1>0, <1>1, <2>1 DEF JobFits, Running, Looking, Finding, Cleaning
  <2>3. TypeInv'
    BY <1>0, <2>0, <2>1, <2>2, CreateTypes, FilesRest
  <2>4. ASSUME Good PROVE Good'
    <3>1. /\ ClaimsOnly(p, job[p].ticket)' /\ FoundOwn(p)'
          /\ Has(p, "pending") => Has(p, "pending")'
          /\ Has(p, "aborting") => Has(p, "aborting")'
      BY <1>0, <1>1, <1>t, <2>0, <2>1, <2>4 DEF ClaimsOnly, FoundOwn, Has
    <3>2. CreateInv(p)' /\ FinderInv(p)'
      BY <1>1, <2>1, <2>4, <3>1 DEF CreateInv, FinderInv, Looking, Finding, Cleaning
    <3>3. \A n \in Names : manifest[n].lease = p => LeaseInv(n)'
      BY <1>0, <2>0, <2>1, <2>4, CleaningLease DEF Cleaning
    <3> QED BY <1>0, <1>1, <2>0, <2>1, <2>4, <3>2, <3>3, CreateMoves
  <2> QED BY <2>3, <2>4
<1>4. ASSUME p \in fresh, ticket[t].status \in {"claimed", "blocked", "cancelled"},
             Save(t, rec), Goto(p, "drop"), UNCHANGED <<job, raced>>
      PROVE  TypeInv' /\ (Good => Good')
  <2>1. Moves(p) /\ pc'[p] = "drop" /\ job'[p] = job[p] /\ RacedTypes'
    BY <1>4, Going DEF TypeInv, Steps, RacedTypes
  <2>2. rec \in TicketRecords /\ rec.claim = None /\ rec.commit = ticket[t].commit
    BY DEF TypeInv, MapTypes, TicketRecords
  <2> HIDE DEF rec
  <2>3. /\ MapTypes' /\ ticket'[t] = rec /\ fresh' = {}
        /\ \A u \in Tickets \ {t} : ticket'[u] = ticket[u]
    BY <1>4, <2>2, Saving
  <2>4. JobFits(p)'
    BY <1>0, <1>1, <2>1 DEF JobFits, Running, Looking, Finding, Cleaning
  <2>5. TypeInv'
    BY <1>0, <2>1, <2>3, <2>4, SavingTypes
  <2>6. ASSUME Good PROVE Good'
    <3>1. ticket[t].claim = p /\ ticket[t].commit = None
      <4>1. Holds(p)
        BY <1>0, <1>4, <2>6 DEF Good, Creates, CreateInv
      <4>2. TicketInv(t)
        BY <2>6 DEF Good, Settled
      <4> QED BY <1>1, <1>4, <2>6, <4>1, <4>2 DEF Holds, TicketInv
    <3>2. NoClaims(p)'
      BY <1>1, <2>2, <2>3, <2>6 DEF NoClaims, ClaimsOnly
    <3>3. \A u : ClaimsOnly(p, u)'
      BY <3>2 DEF NoClaims, ClaimsOnly
    <3>4. /\ Has(p, "pending") => Has(p, "pending")'
          /\ Has(p, "aborting") => Has(p, "aborting")'
      BY <1>0, <2>1 DEF Has
    <3>5. CreateInv(p)' /\ FinderInv(p)'
      BY <1>1, <2>1, <2>6, <3>2, <3>3, <3>4
         DEF CreateInv, FinderInv, Looking, Finding, Cleaning
    <3>6. ASSUME NEW m \in Names, manifest[m].lease = p PROVE LeaseInv(m)'
      <4>n. PICK n \in Names : n = job[p].name
        BY <1>1, JobIsTyped
      <4>1. m = n /\ LeaseInv(m) /\ manifest[m].status \in {"pending", "aborting"}
        BY <1>1, <2>6, <3>6, <4>n, OwnName
      <4> QED BY <1>0, <2>1, <3>3, <3>6, <4>1 DEF LeaseInv, Gone
    <3> QED BY <1>0, <1>1, <2>1, <2>2, <2>3, <2>6, <3>1, <3>5, <3>6, CreateSaves
  <2> QED BY <2>5, <2>6
<1>5. \/ /\ p \in fresh /\ ticket[t].status \in {"claimed", "blocked", "cancelled"}
         /\ Save(t, rec) /\ Goto(p, "drop") /\ UNCHANGED <<job, raced>>
      \/ Stuck(p) /\ UNCHANGED map
      \/ Goto(p, "rollback") /\ UNCHANGED <<map, job, raced>>
  BY <1>t DEF ReleaseClaim
<1> QED BY <1>2, <1>3, <1>4, <1>5

\* Creates that are over rest while another, not over, moves.
LEMMA CreateRest ==
  ASSUME NEW p \in Creators, ~Gone(p), Moves(p), UNCHANGED ticket
  PROVE  GoneRest
BY DEF GoneRest, Moves, ClaimsStay

\* A create that failed removes its manifest.
LEMMA DropManifestKeeps ==
  ASSUME TypeInv, NEW p \in Creators, DropManifest(p)
  PROVE  TypeInv' /\ (raced' = {} /\ Good => Good')
<1>0. pc[p] = "drop"
  BY DEF DropManifest
<1>n. PICK n \in Names : n = job[p].name
  BY <1>0, JobIsTyped DEF Running
<1>1. /\ UNCHANGED <<checkout, ticket, fresh, finishing>> /\ Exit(p)
      /\ WriteManifest(n, NoLease) /\ NoteOther(n, {p, job[p].found.lease.lease})
  BY <1>n DEF DropManifest, CreateLeaves, map, RemoveManifest
<1>2. ~Gone(p) /\ RacedTypes'
  BY <1>0, <1>1, NoOther DEF Gone, TypeInv
<1>3. Moves(p) /\ pc'[p] = "done" /\ JobFits(p)'
  BY <1>1, Exiting DEF TypeInv
<1>4. /\ FileTypes' /\ manifest'[n] = NoLease
      /\ \A m \in Names \ {n} : manifest'[m] = manifest[m]
  BY <1>1, Writing
<1>5. TypeInv'
  BY <1>1, <1>2, <1>3, <1>4, CreateTypes
<1>6. ASSUME raced' = {}, Good PROVE Good'
  <2>1. /\ NoClaims(p) /\ job[p].found.lease.lease \in {p, None}
        /\ NoLeases(p) \/ Has(p, "pending") \/ Has(p, "aborting")
    BY <1>0, <1>6 DEF Good, Creates, CreateInv
  <2>2. manifest[n].lease \in {p, None}
    BY <1>1, <1>6, <2>1, NoOther
  <2>3. \A m \in Names \ {n} : manifest[m].lease # p
    BY <1>6, <1>n, <2>1, OwnName DEF NoLeases
  <2>4. manifest'[n].lease = None
    BY <1>4 DEF NoLease
  <2>5. TreeInv(n)'
    BY <1>1, <1>2, <1>3, <1>6, CreateRest, TreeKeeps DEF Good, Kept, NameInv
  <2>6. NameInv(n)'
    BY <2>4, <2>5 DEF NameInv, LeaseInv
  <2>7. CreateInv(p)' /\ FinderInv(p)'
    BY <1>3 DEF CreateInv, FinderInv, Looking, Finding, Cleaning
  <2> QED BY <1>1, <1>2, <1>3, <1>4, <1>6, <2>1, <2>2, <2>3, <2>4, <2>6, <2>7, CreateWrites
          DEF NoClaims
<1> QED BY <1>5, <1>6

\* A create is killed at any of its steps.
LEMMA KillCreateKeeps ==
  ASSUME TypeInv, NEW p \in Creators, KillCreate(p)
  PROVE  TypeInv' /\ (raced' = {} /\ Good => Good')
<1>0. /\ Running(p) /\ ~Gone(p) /\ UNCHANGED <<files, ticket, fresh, finishing>>
  BY DEF KillCreate, Running, Gone, map
<1>1. CASE pc[p] \in Cleaning \cup {"drop"}
  <2>1. Stuck(p)
    BY <1>1 DEF KillCreate, Cleaning
  <2> QED BY <1>0, <1>1, <2>1, StuckKeeps
<1>2. CASE pc[p] \notin Cleaning \cup {"drop"}
  <2>1. Exit(p) /\ RacedTypes'
    BY <1>2 DEF KillCreate, Cleaning, TypeInv, RacedTypes
  <2>n. PICK n \in Names : n = job[p].name
    BY <1>0, JobIsTyped
  <2>2. ASSUME Good, NEW m \in Names, manifest[m].lease = p, manifest[m].status = "pending"
        PROVE  NoClaims(p) \/ checkout[m].lease = p
    <3>1. CASE pc[p] \in Looking \cup {"check", "add", "publish"}
      BY <2>2, <3>1 DEF Good, Creates, CreateInv, NoLeases
    <3>2. CASE pc[p] \in {"claim", "activate", "remove", "probe", "abort"}
      <4>1. OwnTree(p)
        BY <2>2, <3>2 DEF Good, Creates, CreateInv
      <4>2. Has(p, "pending") \/ Has(p, "active") \/ Has(p, "aborting")
        BY <2>2, <3>2 DEF Good, Creates, CreateInv, NoLeases
      <4>3. m = n
        BY <2>2, <2>n, <4>2, OwnName
      <4> QED BY <2>n, <4>1, <4>3 DEF OwnTree
    <3>3. pc[p] \in Looking \cup {"check", "add", "publish", "claim", "activate", "remove",
                                  "probe", "abort"}
      BY <1>0, <1>2, JobIsTyped DEF Steps, Running, Looking, Finding
    <3> QED BY <3>1, <3>2, <3>3
  <2> QED BY <1>0, <2>1, <2>2, ExitKeeps
<1> QED BY <1>1, <1>2

-----------------------------------------------------------------------------
(* The probe of a create succeeds, or its lease is aborted.                *)

LEMMA ProbeSucceedsKeeps ==
  ASSUME TypeInv, NEW p \in Creators, ProbeSucceeds(p)
  PROVE  TypeInv' /\ (raced' = {} /\ Good => Good')
<1>0. /\ pc[p] = "probe" /\ UNCHANGED <<files, manifest, checkout, ticket, fresh, finishing>>
      /\ Goto(p, "shell") /\ job' = [job EXCEPT ![p] = NoJob] /\ RacedTypes'
  BY DEF ProbeSucceeds, CreateLeaves, TypeInv, RacedTypes, files, map
<1>1. ~Gone(p) /\ Running(p)
  BY <1>0 DEF Gone, Running
<1>n. PICK n \in Names : n = job[p].name
  BY <1>1, JobIsTyped
<1>2. Moves(p) /\ pc'[p] = "shell" /\ job'[p] = NoJob
  BY <1>0, NoJobTypes DEF Moves, TypeInv, JobTypes, Goto, Steps
<1>3. JobFits(p)'
  BY <1>2, NoJobTypes DEF JobFits, Running, Looking, Finding, Cleaning
<1>4. TypeInv'
  BY <1>0, <1>2, <1>3, CreateTypes, FilesRest
<1>5. ASSUME Good PROVE Good'
  <2>1. CreateInv(p)' /\ FinderInv(p)'
    BY <1>2 DEF CreateInv, FinderInv, Looking, Finding, Cleaning
  <2>2. Has(p, "active")
    BY <1>0, <1>5 DEF Good, Creates, CreateInv
  <2>3. ASSUME NEW m \in Names, manifest[m].lease = p PROVE LeaseInv(m)'
    <3>1. LeaseInv(m) /\ manifest[m].status = "active"
      BY <1>5, <1>n, <2>2, <2>3, OwnName
    <3> QED BY <1>0, <1>2, <2>3, <3>1 DEF LeaseInv, Gone
  <2> QED BY <1>0, <1>1, <1>2, <1>5, <2>1, <2>3, CreateMoves
<1> QED BY <1>4, <1>5

\* The probe failed: the lease is marked aborting.
LEMMA StartAbortKeeps ==
  ASSUME TypeInv, NEW p \in Creators, StartAbort(p)
  PROVE  TypeInv' /\ (raced' = {} /\ Good => Good')
<1>0. pc[p] = "probe"
  BY DEF StartAbort
<1>1. ~Gone(p) /\ Running(p) /\ JobFits(p)
  BY <1>0, JobIsTyped DEF Gone, Running
<1>n. PICK n \in Names : n = job[p].name
  BY <1>1, JobIsTyped
<1>2. UNCHANGED <<checkout, ticket, fresh, finishing, raced>> /\ RacedTypes'
  BY DEF StartAbort, CreateLeaves, TypeInv, RacedTypes, map
<1>3. ASSUME Good
      PROVE  /\ Has(p, "active") /\ OwnTree(p) /\ Holds(p) /\ ClaimsOnly(p, job[p].ticket)
             /\ manifest[n].lease = p /\ manifest[n].status = "active"
             /\ manifest[n].ticket = job[p].ticket /\ LeaseInv(n) /\ TreeInv(n)
             /\ \A m \in Names \ {n} : manifest[m].lease # p
  <2>1. Has(p, "active") /\ OwnTree(p) /\ Holds(p) /\ ClaimsOnly(p, job[p].ticket)
    BY <1>0, <1>3 DEF Good, Creates, CreateInv
  <2> QED BY <1>3, <1>n, <2>1, OwnName
<1>4. ASSUME Exit(p), UNCHANGED manifest
      PROVE  TypeInv' /\ (raced' = {} /\ Good => Good')
  <2>1. ASSUME Good, NEW m \in Names, manifest[m].lease = p PROVE manifest[m].status = "active"
    BY <1>3, <2>1
  <2> QED BY <1>1, <1>2, <1>4, <2>1, ExitKeeps DEF files
<1> DEFINE lease == [manifest[n] EXCEPT !.status = "aborting"]
           found == [name |-> n, lease |-> manifest[n]]
<1>5. ASSUME manifest[n] # NoLease, WriteManifest(n, lease), Goto(p, "abort"),
             job' = [job EXCEPT ![p].found = found]
      PROVE  TypeInv' /\ (Good => Good')
  <2>1. manifest[n] \in Leases
    BY <1>5, LeaseIsTyped
  <2>2. /\ lease \in Leases /\ lease.lease = manifest[n].lease
        /\ lease.ticket = manifest[n].ticket /\ lease.status = "aborting"
        /\ lease.prepared = manifest[n].prepared
    BY <2>1 DEF Leases, Statuses
  <2>3. found \in Finds /\ found.lease = manifest[n]
    BY <2>1 DEF Finds
  <2> HIDE DEF lease, found
  <2>4. /\ Moves(p) /\ pc'[p] = "abort" /\ SameTask(p)
        /\ job'[p].claimed = job[p].claimed /\ job'[p].found = found
    BY <1>5, <2>3, Remembering DEF TypeInv, Steps
  <2>5. JobFits(p)'
    BY <1>1, <2>1, <2>3, <2>4 DEF JobFits, SameTask, Running, Looking, Finding, Cleaning
  <2>6. /\ FileTypes' /\ manifest'[n] = lease
        /\ \A m \in Names \ {n} : manifest'[m] = manifest[m]
    BY <1>2, <1>5, <2>2, Writing
  <2>7. TypeInv'
    BY <1>2, <2>4, <2>5, <2>6, CreateTypes
  <2>8. ASSUME Good PROVE Good'
    <3>1. /\ Has(p, "aborting")' /\ OwnTree(p)' /\ Holds(p)' /\ ClaimsOnly(p, job[p].ticket)'
          /\ FoundOwn(p)'
      BY <1>n, <1>2, <1>3, <2>2, <2>3, <2>4, <2>6, <2>8
         DEF Has, OwnTree, Holds, ClaimsOnly, FoundOwn, SameTask
    <3>2. CreateInv(p)' /\ FinderInv(p)'
      BY <2>4, <3>1 DEF CreateInv, FinderInv, Looking, Finding, Cleaning
    <3>3. TreeInv(n)'
      BY <1>1, <1>2, <1>3, <2>4, <2>8, CreateRest, TreeKeeps
    <3>4. LeaseInv(n)'
      BY <1>1, <1>2, <1>3, <2>2, <2>4, <2>6, <2>8 DEF LeaseInv
    <3>5. NameInv(n)' /\ manifest'[n].lease = p /\ manifest'[n].ticket = manifest[n].ticket
      BY <1>3, <2>2, <2>6, <2>8, <3>3, <3>4 DEF NameInv
    <3> QED BY <1>1, <1>2, <1>3, <2>4, <2>6, <2>8, <3>2, <3>5, CreateWrites
  <2> QED BY <2>7, <2>8
<1>6. \/ /\ manifest[n] # NoLease /\ WriteManifest(n, lease) /\ Goto(p, "abort")
         /\ job' = [job EXCEPT ![p].found = found]
      \/ Exit(p) /\ UNCHANGED manifest
  BY <1>n DEF StartAbort
<1> QED BY <1>4, <1>5, <1>6

\* The checkout of an aborting lease is removed.
LEMMA AbortTreeKeeps ==
  ASSUME TypeInv, NEW p \in Creators, AbortTree(p)
  PROVE  TypeInv' /\ (raced' = {} /\ Good => Good')
<1>0. pc[p] = "abort"
  BY DEF AbortTree
<1>1. ~Gone(p) /\ Running(p) /\ JobFits(p) /\ job[p].found.lease \in Leases
  BY <1>0, JobIsTyped DEF Gone, Running, JobFits
<1>n. PICK n \in Names : n = job[p].name
  BY <1>1, JobIsTyped
<1> DEFINE step == IF job[p].found.lease.ticket = None THEN "drop" ELSE "rollback"
<1>2. /\ UNCHANGED <<manifest, job, ticket, fresh, finishing, raced>> /\ RacedTypes'
      /\ RemoveTree(n) /\ Goto(p, step) /\ step \in Steps
  BY <1>n DEF AbortTree, CreateLeaves, TypeInv, RacedTypes, map, Steps, Cleaning
<1>3. Moves(p) /\ pc'[p] = step /\ job'[p] = job[p]
  BY <1>2, Going DEF TypeInv
<1>4. JobFits(p)'
  BY <1>1, <1>3 DEF JobFits, Running, Looking, Finding, Cleaning
<1>5. /\ FileTypes' /\ checkout'[n].lease = None /\ checkout'[n].work = FALSE
      /\ \A m \in Names \ {n} : checkout'[m] = checkout[m]
  BY <1>2, Clearing
<1>6. TypeInv'
  BY <1>2, <1>3, <1>4, <1>5, CreateTypes
<1>7. ASSUME Good PROVE Good'
  <2>1. /\ Has(p, "aborting") /\ OwnTree(p) /\ FoundOwn(p) /\ ClaimsOnly(p, job[p].ticket)
    BY <1>0, <1>7 DEF Good, Creates, CreateInv
  <2>2. /\ manifest[n].lease = p /\ manifest[n].status = "aborting" /\ LeaseInv(n)
        /\ \A m \in Names \ {n} : manifest[m].lease # p
    BY <1>7, <1>n, <2>1, OwnName
  <2>3. checkout[n].lease = p
    BY <1>n, <2>1 DEF OwnTree
  <2>4. /\ Has(p, "aborting")' /\ FoundOwn(p)' /\ ClaimsOnly(p, job[p].ticket)'
        /\ step = "drop" => NoClaims(p)' /\ job[p].found.lease.lease = p
    BY <1>2, <1>3, <2>1 DEF Has, FoundOwn, ClaimsOnly, NoClaims
  <2>5. CreateInv(p)' /\ FinderInv(p)'
    BY <1>3, <2>4 DEF CreateInv, FinderInv, Looking, Finding, Cleaning
  <2>6. NameInv(n)'
    BY <1>1, <1>2, <1>3, <1>5, <2>2 DEF NameInv, LeaseInv, TreeInv, Cleaning
  <2> QED BY <1>1, <1>2, <1>3, <1>5, <1>7, <2>2, <2>3, <2>5, <2>6, CreateWrites
<1> QED BY <1>6, <1>7

-----------------------------------------------------------------------------
(* A create recovers or discards what a killed one left.                   *)

\* Where nothing raced, the lease p found is still there, and its create is over.
Found(p, n, o) ==
  /\ n = job[p].found.name /\ manifest[n] = job[p].found.lease
  /\ manifest[n].lease = o /\ manifest[n].status = "pending" /\ ~manifest[n].prepared
  /\ pc[o] = "done" /\ o # None /\ o # p
  /\ job[p].found.lease.ticket = job[p].ticket /\ ClaimsOnly(o, job[p].ticket)

\* A create that did not act on a stale lease finds it as it read it.
LEMMA NotStale ==
  ASSUME TypeInv, NEW p \in Creators, pc[p] \in Finding, NoteStale(p)
  PROVE  /\ RacedTypes'
         /\ raced' = {} /\ Good =>
              \E n \in Names, o \in Creators : Found(p, n, o)
<1>1. job[p].found.name \in Names /\ job[p].found.lease \in Leases
  BY JobIsTyped DEF JobFits
<1>2. job[p].found.lease.lease \in Creators
  BY <1>1, LeaseIsThere
<1>3. RacedTypes'
  BY DEF NoteStale, TypeInv, RacedTypes
<1>4. ASSUME raced' = {}, Good
      PROVE  Found(p, job[p].found.name, job[p].found.lease.lease)
  <2>1. manifest[job[p].found.name] = job[p].found.lease
    BY <1>4 DEF NoteStale
  <2>2. FinderInv(p)
    BY <1>4 DEF Good, Creates
  <2> QED BY <1>2, <2>1, <2>2 DEF FinderInv, Found, Finding
<1> QED BY <1>1, <1>2, <1>3, <1>4

\* A create changes the lease it found and nothing else.
LEMMA FinderWrites ==
  ASSUME TypeInv, Good, NEW p \in Creators, pc[p] \in Finding, Moves(p),
         NEW n \in Names, NEW o \in Creators, Found(p, n, o),
         UNCHANGED <<ticket, fresh, finishing>>,
         \A m \in Names \ {n} : manifest'[m] = manifest[m] /\ checkout'[m] = checkout[m],
         manifest'[n].lease \in {o, None},
         checkout'[n] # checkout[n] => checkout'[n].lease \in {o, None},
         CreateInv(p)', FinderInv(p)', NameInv(n)',
         \A t \in Tickets :
           ticket[t].claim = o /\ manifest[n].ticket = t
           => manifest'[n].lease = o /\ manifest'[n].ticket = t
  PROVE  Good'
<1>0. ~Gone(p) /\ GoneRest
  BY CreateRest DEF Gone, Finding
<1>f. manifest[n].lease = o /\ manifest[n].status = "pending" /\ pc[o] = "done" /\ o # p
  BY DEF Found
<1>1. checkout[n].lease \in {o, None}
  BY <1>f DEF Good, Kept, NameInv, LeaseInv
<1>2. ASSUME NEW q \in Creators \ {p} PROVE Rests(q)
  <2>1. pc'[q] = pc[q] /\ job'[q] = job[q] /\ ClaimsStay(q)
    BY DEF Moves, ClaimsStay
  <2>2. ~Gone(q) => q \notin {o, None}
    BY <1>f DEF Gone
  <2>3. \A m \in Names : ~Gone(q) =>
          /\ q \in {manifest[m].lease, manifest'[m].lease} => manifest'[m] = manifest[m]
          /\ q \in {checkout[m].lease, checkout'[m].lease} => checkout'[m] = checkout[m]
    BY <1>1, <1>f, <2>2
  <2> QED BY <2>1, <2>3 DEF Rests
<1>3. Creates'
  BY <1>0, <1>2, OthersKeep DEF Good, Creates
<1>4. CommitsStay /\ UNCHANGED <<finish, source>>
  BY DEF CommitsStay, finishing
<1>5. ASSUME NEW m \in Names PROVE NameInv(m)'
  <2>1. CASE m = n
    BY <2>1
  <2>2. CASE m # n
    <3>1. manifest[m].lease \in Creators \cup {None} /\ manifest[m].lease # p
      BY LeaseIsTyped DEF Good, Creates, CreateInv, NoLeases, Looking
    <3>2. manifest[m].lease # None => pc'[manifest[m].lease] = pc[manifest[m].lease]
                                      /\ ClaimsStay(manifest[m].lease)
      BY <3>1 DEF Moves, ClaimsStay
    <3> QED BY <2>2, <3>2, <1>0, LeaseKeeps, TreeKeeps DEF Good, Kept, NameInv
  <2> QED BY <2>1, <2>2
<1>6. ASSUME NEW m \in Names PROVE FinishInv(m)'
  <2>1. FinishInv(m)
    BY DEF Good, Kept
  <2>2. finish[m].step \in Preparing \cup Removing \cup {"idle", "locked", "record"}
    BY DEF TypeInv, FinishTypes, Finishes
  <2>3. ASSUME m = n PROVE finish[m].step \in {"idle", "locked"}
    <3>1. finish[n].step \notin {"idle", "locked"} => finish[n].lease.status = "pending"
      BY <1>f, <2>1, <2>3 DEF FinishInv
    <3> QED BY <2>2, <2>3, <3>1 DEF TypeInv, FinishTypes, FinishFits, Preparing, Removing
  <2> QED BY <2>1, <2>3, <1>0, <1>4, FinishKeeps
<1>7. OneManifest'
  BY <1>f DEF Good, Settled, OneManifest
<1>8. ASSUME NEW t \in Tickets PROVE TicketInv(t)'
  <2>1. TicketInv(t)
    BY DEF Good, Settled
  <2>2. \A m \in Names :
          manifest[m].lease = ticket[t].claim /\ manifest[m].ticket = t
            /\ ticket[t].claim # None /\ ticket[t].commit = None
          => manifest'[m].lease = manifest[m].lease /\ manifest'[m].ticket = manifest[m].ticket
    BY <1>f
  <2> QED BY <2>1, <2>2, TicketKeeps
<1> QED BY <1>3, <1>5, <1>6, <1>7, <1>8 DEF Good, Kept, Settled

\* A pending lease with its claim is activated.
LEMMA RecoverPendingKeeps ==
  ASSUME TypeInv, NEW p \in Creators, RecoverPending(p)
  PROVE  TypeInv' /\ (raced' = {} /\ Good => Good')
<1>0. pc[p] = "recover" /\ pc[p] \in Finding
  BY DEF RecoverPending, Finding
<1>1. /\ job[p].found.lease \in Leases /\ job[p].ticket \in Tickets
      /\ job[p].found.name \in Names
  BY <1>0, JobIsTyped DEF JobFits, Looking
<1>m. PICK m \in Names : m = job[p].found.name
  BY <1>1
<1>2. /\ UNCHANGED <<checkout, ticket, fresh, finishing>> /\ Exit(p) /\ NoteStale(p)
      /\ WriteManifest(m, [job[p].found.lease EXCEPT !.status = "active"])
  BY <1>m DEF RecoverPending, CreateLeaves, map
<1> DEFINE lease == [job[p].found.lease EXCEPT !.status = "active"]
<1>3. /\ lease \in Leases /\ lease.lease = job[p].found.lease.lease
      /\ lease.ticket = job[p].found.lease.ticket
      /\ lease.prepared = job[p].found.lease.prepared /\ lease.status = "active"
  BY <1>1 DEF Leases, Statuses
<1>4. Moves(p) /\ pc'[p] = "done" /\ JobFits(p)'
  BY <1>2, Exiting DEF TypeInv
<1> HIDE DEF lease
<1>5. /\ FileTypes' /\ manifest'[m] = lease
      /\ \A l \in Names \ {m} : manifest'[l] = manifest[l]
  BY <1>2, <1>3, Writing DEF lease
<1>6. TypeInv'
  BY <1>0, <1>2, <1>4, <1>5, CreateTypes, NotStale
<1>7. ASSUME raced' = {}, Good PROVE Good'
  <2>1. PICK n \in Names, o \in Creators : Found(p, n, o)
    BY <1>0, <1>2, <1>7, NotStale
  <2>2. /\ n = m /\ manifest[n] = job[p].found.lease /\ manifest[n].lease = o
        /\ manifest[n].status = "pending" /\ ~manifest[n].prepared /\ pc[o] = "done"
        /\ o # p /\ manifest[n].ticket = job[p].ticket
    BY <1>m, <2>1 DEF Found
  <2>3. ticket[job[p].ticket].claim = o
    BY <1>0, <1>7, <2>2 DEF Good, Creates, FinderInv
  <2>4. checkout[n].lease = o
    BY <1>1, <1>7, <2>2, <2>3 DEF Good, Kept, NameInv, LeaseInv, NoClaims
  <2>5. pc'[o] = "done"
    BY <1>4, <2>2 DEF Moves
  <2>6. manifest'[n].lease = o /\ manifest'[n].ticket = manifest[n].ticket
    BY <1>3, <1>5, <2>2
  <2>7. LeaseInv(n)'
    BY <1>2, <1>3, <1>5, <2>2, <2>3, <2>4, <2>5 DEF LeaseInv, Gone
  <2>8. TreeInv(n)'
    BY <1>0, <1>2, <1>4, <1>7, CreateRest, TreeKeeps DEF Good, Kept, NameInv, Gone
  <2>9. CreateInv(p)' /\ FinderInv(p)'
    BY <1>4 DEF CreateInv, FinderInv, Looking, Finding, Cleaning
  <2> QED BY <1>0, <1>2, <1>4, <1>5, <1>7, <2>1, <2>2, <2>6, <2>7, <2>8, <2>9, FinderWrites
          DEF NameInv
<1> QED BY <1>6, <1>7

\* The checkout of a pending lease without a claim is removed.
LEMMA DiscardTreeKeeps ==
  ASSUME TypeInv, NEW p \in Creators, DiscardTree(p)
  PROVE  TypeInv' /\ (raced' = {} /\ Good => Good')
<1>0. pc[p] = "discard" /\ pc[p] \in Finding /\ ~Gone(p)
  BY DEF DiscardTree, Finding, Gone
<1>1. job[p].found.lease \in Leases /\ job[p].found.name \in Names /\ JobFits(p)
  BY <1>0, JobIsTyped DEF JobFits
<1>m. PICK m \in Names : m = job[p].found.name
  BY <1>1
<1>2. UNCHANGED <<manifest, ticket, fresh, finishing>>
  BY DEF DiscardTree, CreateLeaves, map
<1>3. ASSUME Exit(p), UNCHANGED <<checkout, raced>>
      PROVE  TypeInv' /\ (raced' = {} /\ Good => Good')
  <2>1. Good => NoLeases(p)
    BY <1>0 DEF Good, Creates, CreateInv, Looking
  <2> QED BY <1>0, <1>2, <1>3, <2>1, ExitKeeps DEF files, NoLeases, TypeInv, RacedTypes
<1>4. ASSUME RemoveTree(m), Goto(p, "forget"), UNCHANGED job, NoteStale(p)
      PROVE  TypeInv' /\ (raced' = {} /\ Good => Good')
  <2>1. Moves(p) /\ pc'[p] = "forget" /\ job'[p] = job[p]
    BY <1>4, Going DEF TypeInv, Steps, Looking, Finding
  <2>2. JobFits(p)'
    BY <1>0, <1>1, <2>1 DEF JobFits, Running, Looking, Finding, Cleaning
  <2>3. /\ FileTypes' /\ checkout'[m].lease = None /\ checkout'[m].work = FALSE
        /\ \A l \in Names \ {m} : checkout'[l] = checkout[l]
    BY <1>2, <1>4, Clearing
  <2>4. TypeInv'
    BY <1>0, <1>2, <1>4, <2>1, <2>2, <2>3, CreateTypes, NotStale
  <2>5. ASSUME raced' = {}, Good PROVE Good'
    <3>1. PICK n \in Names, o \in Creators : Found(p, n, o)
      BY <1>0, <1>4, <2>5, NotStale
    <3>2. /\ n = m /\ manifest[n] = job[p].found.lease /\ manifest[n].lease = o
          /\ manifest[n].status = "pending" /\ ~manifest[n].prepared /\ pc[o] = "done"
          /\ o # p /\ o # None /\ ClaimsOnly(o, job[p].ticket)
          /\ manifest[n].ticket = job[p].ticket
      BY <1>m, <3>1 DEF Found
    <3>3. NoClaims(o)
      BY <1>0, <2>5, <3>2 DEF Good, Creates, FinderInv
    <3>4. NoClaims(o)' /\ ClaimsOnly(o, job[p].ticket)' /\ pc'[o] = "done"
      BY <1>2, <2>1, <3>2, <3>3 DEF NoClaims, ClaimsOnly, Moves
    <3>5. LeaseInv(n)'
      BY <1>2, <2>1, <2>3, <3>2, <3>4 DEF LeaseInv, ClaimsOnly, NoClaims, Gone
    <3>6. NameInv(n)'
      BY <2>3, <3>2, <3>5 DEF NameInv, TreeInv
    <3>7. NoLeases(p) /\ NoTrees(p) /\ NoClaims(p) /\ ~job[p].claimed
      BY <1>0, <2>5 DEF Good, Creates, CreateInv, Looking
    <3>8. (NoLeases(p) /\ NoTrees(p) /\ NoClaims(p))'
      BY <1>2, <2>3, <3>7 DEF NoLeases, NoTrees, NoClaims
    <3>9. CreateInv(p)'
      BY <2>1, <3>7, <3>8 DEF CreateInv, Looking, Finding, Cleaning
    <3>10. FinderInv(p)'
      BY <2>1, <3>2, <3>4 DEF FinderInv, NoClaims, ClaimsOnly
    <3> QED BY <1>0, <1>2, <2>1, <2>3, <2>5, <3>1, <3>2, <3>6, <3>9, <3>10, FinderWrites
  <2> QED BY <2>4, <2>5
<1> QED BY <1>3, <1>4, <1>m DEF DiscardTree

\* The manifest of a pending lease without a claim is removed.
LEMMA DiscardManifestKeeps ==
  ASSUME TypeInv, NEW p \in Creators, DiscardManifest(p)
  PROVE  TypeInv' /\ (raced' = {} /\ Good => Good')
<1>0. pc[p] = "forget" /\ pc[p] \in Finding /\ ~Gone(p) /\ Running(p)
  BY DEF DiscardManifest, Finding, Gone, Running
<1>1. /\ job[p].found.lease \in Leases /\ job[p].found.name \in Names /\ JobFits(p)
      /\ job[p].ticket # None
  BY <1>0, JobIsTyped DEF JobFits, Looking
<1>m. PICK m \in Names : m = job[p].found.name
  BY <1>1
<1>2. /\ UNCHANGED <<checkout, ticket, fresh, finishing>> /\ NoteStale(p)
      /\ WriteManifest(m, NoLease) /\ Goto(p, "reconcile")
      /\ job' = [job EXCEPT ![p].todo = @ \ {job[p].found.name}, ![p].found = NoFind]
  BY <1>m DEF DiscardManifest, CreateLeaves, map, RemoveManifest
<1>3. /\ Moves(p) /\ pc'[p] = "reconcile" /\ SameTask(p)
      /\ job'[p].claimed = job[p].claimed /\ job'[p].found = NoFind
  BY <1>2, NoJobTypes DEF Moves, Goto, SameTask, TypeInv, JobTypes, Jobs, Steps, Looking
<1>4. JobFits(p)'
  BY <1>0, <1>1, <1>3 DEF JobFits, SameTask, Running, Looking, Finding, Cleaning
<1>5. /\ FileTypes' /\ manifest'[m] = NoLease
      /\ \A l \in Names \ {m} : manifest'[l] = manifest[l]
  BY <1>2, Writing
<1>6. TypeInv'
  BY <1>0, <1>2, <1>3, <1>4, <1>5, CreateTypes, NotStale
<1>7. ASSUME raced' = {}, Good PROVE Good'
  <2>1. PICK n \in Names, o \in Creators : Found(p, n, o)
    BY <1>0, <1>2, <1>7, NotStale
  <2>2. /\ n = m /\ manifest[n] = job[p].found.lease /\ manifest[n].lease = o /\ o # p
        /\ pc[o] = "done"
    BY <1>m, <2>1 DEF Found
  <2>3. NoClaims(o)
    BY <1>0, <1>7, <2>2 DEF Good, Creates, FinderInv
  <2>4. manifest'[n].lease = None
    BY <1>5, <2>2 DEF NoLease
  <2>5. TreeInv(n)'
    BY <1>0, <1>2, <1>3, <1>7, CreateRest, TreeKeeps DEF Good, Kept, NameInv
  <2>6. NameInv(n)'
    BY <2>4, <2>5 DEF NameInv, LeaseInv
  <2>7. NoLeases(p) /\ NoTrees(p) /\ NoClaims(p) /\ ~job[p].claimed
    BY <1>0, <1>7 DEF Good, Creates, CreateInv, Looking
  <2>8. (NoLeases(p) /\ NoTrees(p) /\ NoClaims(p))'
    BY <1>2, <1>5, <2>2, <2>4, <2>7 DEF NoLeases, NoTrees, NoClaims
  <2>9. job'[p].found.lease.lease = None
    BY <1>3 DEF NoFind, NoLease
  <2>10. CreateInv(p)' /\ FinderInv(p)'
    BY <1>3, <2>7, <2>8, <2>9 DEF CreateInv, FinderInv, Looking, Finding, Cleaning
  <2> QED BY <1>0, <1>2, <1>3, <1>5, <1>7, <2>1, <2>2, <2>3, <2>4, <2>6, <2>10, FinderWrites
          DEF NoClaims
<1> QED BY <1>6, <1>7

-----------------------------------------------------------------------------
(* A finish, step by step.                                                 *)

\* No create moves, no claim or commit goes, and only leases of creates that are
\* over change.
LEMMA StaysGood ==
  ASSUME TypeInv, Good, UNCHANGED <<pc, job>>, fresh' \subseteq fresh,
         \A t \in Tickets : ticket'[t].claim = ticket[t].claim,
         CommitsStay, Range(source) \subseteq Range(source)',
         \A n \in Names :
           \/ manifest'[n] = manifest[n] /\ checkout'[n] = checkout[n]
           \/ /\ Gone(manifest[n].lease)
              /\ manifest'[n].lease \in {manifest[n].lease, None}
              /\ checkout'[n] # checkout[n] =>
                   \A p \in {checkout[n].lease, checkout'[n].lease} : p = None \/ Gone(p)
              /\ NameInv(n)',
         \A n \in Names :
           (manifest'[n] = manifest[n] /\ finish'[n] = finish[n]) \/ FinishInv(n)',
         \A t \in Tickets : TicketInv(t)'
  PROVE  Good'
<1>1. \A q \in Creators : ClaimsStay(q)
  BY DEF ClaimsStay
<1>2. GoneRest
  BY <1>1 DEF GoneRest
<1>3. ASSUME NEW q \in Creators PROVE Rests(q)
  <2>1. ASSUME ~Gone(q), NEW n \in Names
        PROVE  /\ q \in {manifest[n].lease, manifest'[n].lease} => manifest'[n] = manifest[n]
               /\ q \in {checkout[n].lease, checkout'[n].lease} => checkout'[n] = checkout[n]
    <3>1. q # None
      OBVIOUS
    <3> QED BY <2>1, <3>1
  <2> QED BY <1>1, <2>1 DEF Rests
<1>4. Creates'
  BY <1>2, <1>3, OthersKeep DEF Good, Creates
<1>5. ASSUME NEW n \in Names PROVE NameInv(n)'
  <2>1. CASE manifest'[n] = manifest[n] /\ checkout'[n] = checkout[n]
    <3>1. manifest[n].lease # None => ClaimsStay(manifest[n].lease)
      BY <1>1, LeaseIsTyped
    <3> QED BY <1>2, <2>1, <3>1, LeaseKeeps, TreeKeeps DEF Good, Kept, NameInv
  <2> QED BY <2>1
<1>6. ASSUME NEW n \in Names PROVE FinishInv(n)'
  BY <1>2, FinishKeeps DEF Good, Kept
<1>7. OneManifest'
  <2>1. \A n \in Names : manifest'[n].lease \in {manifest[n].lease, None}
    OBVIOUS
  <2> QED BY <2>1 DEF Good, Settled, OneManifest
<1> QED BY <1>4, <1>5, <1>6, <1>7 DEF Good, Kept, Settled

\* Creates that rest keep their types.
LEMMA JobsRest ==
  ASSUME TypeInv, UNCHANGED <<pc, job>>
  PROVE  JobTypes'
BY DEF TypeInv, JobTypes, JobFits, Running

\* A map that rests keeps its types.
LEMMA MapRests ==
  ASSUME TypeInv, UNCHANGED map
  PROVE  MapTypes' /\ UNCHANGED <<ticket, fresh>>
BY DEF TypeInv, MapTypes, map

\* What a finish may do to the lease of its name.
LEMMA Relabelled ==
  ASSUME TypeInv, Good, NEW n \in Names, UNCHANGED <<pc, ticket>>, checkout'[n] = checkout[n],
         Gone(manifest[n].lease), manifest[n].lease # None,
         manifest[n].status \in {"active", "integrated"},
         manifest'[n].lease = manifest[n].lease, manifest'[n].ticket = manifest[n].ticket,
         manifest'[n].status \in {manifest[n].status, "integrated"}
  PROVE  NameInv(n)'
<1>1. LeaseInv(n) /\ TreeInv(n)
  BY DEF Good, Kept, NameInv
<1>2. LeaseInv(n)'
  BY <1>1 DEF LeaseInv, Gone
<1>3. TreeInv(n)'
  BY <1>1 DEF TreeInv, Gone
<1> QED BY <1>2, <1>3 DEF NameInv

\* A ticket is what it was, and its manifest still names its claim.
LEMMA TicketsRest ==
  ASSUME Good, UNCHANGED ticket,
         \A n \in Names : manifest'[n].lease = manifest[n].lease
                            /\ manifest'[n].ticket = manifest[n].ticket
  PROVE  \A t \in Tickets : TicketInv(t)'
BY TicketKeeps DEF Good, Settled

FinishSteps == {"idle", "locked", "record"} \cup Preparing \cup Removing

\* A finish goes on with a lease that fits its next step.
LEMMA Continuing ==
  ASSUME TypeInv, NEW n \in Names, NEW step \in FinishSteps, NEW lease \in Leases \cup {NoLease},
         Continue(n, step, lease),
         step \notin {"idle", "locked"} => lease \in Leases,
         step \in Preparing => lease.status = "active",
         step \in {"push", "integrated"} => lease.prepared,
         step \in Removing \cup {"record"} => lease.status = "integrated" /\ lease.prepared,
         source' \in Seq(Creators), finished' \subseteq Creators
  PROVE  /\ FinishTypes' /\ finish'[n].step = step /\ finish'[n].lease = lease
         /\ \A m \in Names \ {n} : finish'[m] = finish[m]
<1> DEFINE new == [step |-> step, lease |-> lease]
<1>1. new \in Finishes /\ new.step = step /\ new.lease = lease
  BY DEF Finishes, FinishSteps
<1>2. finish' = [finish EXCEPT ![n] = new]
  BY DEF Continue
<1> HIDE DEF new
<1>3. /\ finish' \in [Names -> Finishes] /\ finish'[n] = new
      /\ \A m \in Names \ {n} : finish'[m] = finish[m]
  BY <1>1, <1>2 DEF TypeInv, FinishTypes
<1>4. FinishFits(n)'
  BY <1>1, <1>3 DEF FinishFits
<1>5. \A m \in Names \ {n} : FinishFits(m)'
  BY <1>3 DEF FinishFits, TypeInv, FinishTypes
<1> QED BY <1>1, <1>3, <1>4, <1>5 DEF FinishTypes

\* A finish is over.
LEMMA Stopping ==
  ASSUME TypeInv, NEW n \in Names, Stop(n), source' \in Seq(Creators), finished' \subseteq Creators
  PROVE  /\ FinishTypes' /\ finish'[n].step = "idle"
         /\ \A m \in Names \ {n} : finish'[m] = finish[m]
<1>1. Continue(n, "idle", NoLease)
  BY DEF Stop, Continue, NoFinish
<1> QED BY <1>1, Continuing DEF FinishSteps, Preparing, Removing

\* An appended element is in the range, and none is lost.
LEMMA AppendRange ==
  ASSUME NEW S, NEW s \in Seq(S), NEW x \in S
  PROVE  Append(s, x) \in Seq(S) /\ Range(s) \subseteq Range(Append(s, x))
<1>1. /\ Append(s, x) \in Seq(S)
      /\ \A i \in DOMAIN s : i \in DOMAIN Append(s, x) /\ Append(s, x)[i] = s[i]
  OBVIOUS
<1> QED BY <1>1 DEF Range

\* What a finish remembers once it has read its lease.
LEMMA FinishTyped ==
  ASSUME TypeInv, NEW n \in Names, finish[n].step \notin {"idle", "locked"}
  PROVE  /\ finish[n].lease \in Leases /\ FinishFits(n)
         /\ finish[n].step \in Preparing \cup Removing \cup {"record"}
         /\ finish[n].lease.status \in {"active", "integrated"}
         /\ Good => /\ finish[n].lease = manifest[n] /\ manifest[n].lease # None
                    /\ Gone(manifest[n].lease) /\ FinishInv(n) /\ LeaseInv(n) /\ TreeInv(n)
<1>1. finish[n].lease \in Leases /\ FinishFits(n)
  BY DEF TypeInv, FinishTypes, FinishFits
<1>2. finish[n].step \in Preparing \cup Removing \cup {"record"}
  BY DEF TypeInv, FinishTypes, Finishes
<1>3. finish[n].lease.status \in {"active", "integrated"}
  BY <1>1, <1>2 DEF FinishFits
<1>4. Good => /\ finish[n].lease = manifest[n] /\ manifest[n].lease # None
              /\ Gone(manifest[n].lease) /\ FinishInv(n) /\ LeaseInv(n) /\ TreeInv(n)
  BY DEF Good, Kept, NameInv, FinishInv
<1> QED BY <1>1, <1>2, <1>3, <1>4

\* Creates rest while a finish moves.
LEMMA FinishRest ==
  ASSUME TypeInv, FinishLeaves
  PROVE  JobTypes' /\ RacedTypes' /\ UNCHANGED <<pc, job, raced>>
BY JobsRest DEF FinishLeaves, TypeInv, RacedTypes

\* The finish of n relabels its lease, leaves its ticket alone and goes on or stops.
LEMMA FinishRelabels ==
  ASSUME TypeInv, Good, NEW n \in Names, FinishLeaves, UNCHANGED <<checkout, ticket, fresh>>,
         Range(source) \subseteq Range(source)',
         Gone(manifest[n].lease), manifest[n].lease # None,
         manifest[n].status \in {"active", "integrated"},
         manifest'[n].lease = manifest[n].lease, manifest'[n].ticket = manifest[n].ticket,
         manifest'[n].status \in {manifest[n].status, "integrated"},
         \A m \in Names \ {n} : manifest'[m] = manifest[m] /\ finish'[m] = finish[m],
         \/ finish'[n].step \in {"idle", "locked"}
         \/ finish'[n].lease = manifest'[n] /\ finish'[n].step \notin Removing
  PROVE  Good'
<1>1. UNCHANGED <<pc, job>>
  BY FinishRest
<1>2. NameInv(n)'
  BY <1>1, Relabelled
<1>3. FinishInv(n)'
  BY <1>1 DEF FinishInv, Gone
<1>4. \A t \in Tickets : TicketInv(t)'
  <2>1. \A m \in Names : manifest'[m].lease = manifest[m].lease
                           /\ manifest'[m].ticket = manifest[m].ticket
    OBVIOUS
  <2> QED BY <2>1, TicketsRest
<1>5. CommitsStay
  BY DEF CommitsStay
<1> QED BY <1>1, <1>2, <1>3, <1>4, <1>5, StaysGood

\* finishManagedWorktree locks its name and reads the manifest.
LEMMA StartFinishKeeps ==
  ASSUME TypeInv, NEW n \in Names, StartFinish(n)
  PROVE  TypeInv' /\ (Good => Good')
<1> DEFINE lease == manifest[n]
           integrated == [lease EXCEPT !.status = "integrated"]
           cleared == [lease EXCEPT !.prepared = FALSE]
<1>0. /\ finish[n].step = "idle" /\ manifest[n] # NoLease /\ lease \in Leases
      /\ UNCHANGED <<checkout, source, finished, ticket, fresh>> /\ MapTypes'
      /\ FinishLeaves
  BY LeaseIsTyped, MapRests DEF StartFinish
<1>1. lease.lease # None /\ lease.lease \in Creators
  BY <1>0, LeaseIsThere
<1>2. /\ integrated \in Leases /\ integrated.status = "integrated"
      /\ integrated.lease = lease.lease /\ integrated.ticket = lease.ticket
      /\ integrated.prepared = lease.prepared
  BY <1>0 DEF Leases, Statuses
<1>3. /\ cleared \in Leases /\ cleared.status = lease.status
      /\ cleared.lease = lease.lease /\ cleared.ticket = lease.ticket
  BY <1>0 DEF Leases
<1>4. IntegratedIsPrepared(n) /\ source' \in Seq(Creators) /\ finished' \subseteq Creators
  BY <1>0 DEF TypeInv, FileTypes, FinishTypes
<1>g. Good => LeaseInv(n) /\ TreeInv(n)
  BY DEF Good, Kept, NameInv
<1>5. \/ lease.status = "integrated" /\ Continue(n, "record", lease) /\ UNCHANGED manifest
      \/ /\ lease.status = "active" /\ lease.prepared
         /\ WriteManifest(n, integrated) /\ Continue(n, "record", integrated)
      \/ /\ lease.status = "active" /\ Integrable(n, lease)
         /\ WriteManifest(n, cleared) /\ Continue(n, "prepare", cleared)
      \/ /\ lease.status = "active" /\ lease.prepared
         /\ WriteManifest(n, cleared) /\ UNCHANGED finish
  BY DEF StartFinish
<1> HIDE DEF integrated, cleared
<1>6. CASE lease.status = "integrated" /\ Continue(n, "record", lease) /\ UNCHANGED manifest
  <2>1. /\ FinishTypes' /\ finish'[n].step = "record" /\ finish'[n].lease = lease
        /\ \A m \in Names \ {n} : finish'[m] = finish[m]
    BY <1>0, <1>1, <1>4, <1>6, Continuing
       DEF FinishSteps, Preparing, Removing, IntegratedIsPrepared
  <2>2. TypeInv'
    BY <1>0, <1>6, <2>1, FinishRest, FilesRest DEF TypeInv, files
  <2>3. Good => Gone(lease.lease)
    BY <1>g, <1>1, <1>6 DEF LeaseInv
  <2> QED BY <1>0, <1>1, <1>6, <2>1, <2>2, <2>3, FinishRelabels DEF Removing
<1>7. CASE /\ lease.status = "active" /\ lease.prepared
           /\ WriteManifest(n, integrated) /\ Continue(n, "record", integrated)
  <2>1. /\ FinishTypes' /\ finish'[n].step = "record" /\ finish'[n].lease = integrated
        /\ \A m \in Names \ {n} : finish'[m] = finish[m]
    BY <1>2, <1>4, <1>7, Continuing DEF FinishSteps, Preparing, Removing
  <2>2. /\ FileTypes' /\ manifest'[n] = integrated
        /\ \A m \in Names \ {n} : manifest'[m] = manifest[m]
    BY <1>0, <1>2, <1>7, Writing
  <2>3. TypeInv'
    BY <1>0, <2>1, <2>2, FinishRest DEF TypeInv
  <2>4. Good => Gone(lease.lease)
    BY <1>g, <1>1, <1>7 DEF LeaseInv
  <2> QED BY <1>0, <1>1, <1>2, <1>7, <2>1, <2>2, <2>3, <2>4, FinishRelabels DEF Removing
<1>8. CASE /\ lease.status = "active" /\ Integrable(n, lease)
           /\ WriteManifest(n, cleared) /\ Continue(n, "prepare", cleared)
  <2>1. /\ FinishTypes' /\ finish'[n].step = "prepare" /\ finish'[n].lease = cleared
        /\ \A m \in Names \ {n} : finish'[m] = finish[m]
    BY <1>3, <1>4, <1>8, Continuing DEF FinishSteps, Preparing, Removing
  <2>2. /\ FileTypes' /\ manifest'[n] = cleared
        /\ \A m \in Names \ {n} : manifest'[m] = manifest[m]
    BY <1>0, <1>3, <1>8, Writing
  <2>3. TypeInv'
    BY <1>0, <2>1, <2>2, FinishRest DEF TypeInv
  <2>4. Good => Gone(lease.lease)
    BY <1>g, <1>1, <1>8 DEF TreeInv, Integrable
  <2> QED BY <1>0, <1>1, <1>3, <1>8, <2>1, <2>2, <2>3, <2>4, FinishRelabels DEF Removing
<1>9. CASE /\ lease.status = "active" /\ lease.prepared
           /\ WriteManifest(n, cleared) /\ UNCHANGED finish
  <2>1. FinishTypes'
    BY <1>0, <1>9 DEF TypeInv, FinishTypes, FinishFits
  <2>2. /\ FileTypes' /\ manifest'[n] = cleared
        /\ \A m \in Names \ {n} : manifest'[m] = manifest[m]
    BY <1>0, <1>3, <1>9, Writing
  <2>3. TypeInv'
    BY <1>0, <2>1, <2>2, FinishRest DEF TypeInv
  <2>4. Good => Gone(lease.lease)
    BY <1>g, <1>1, <1>9 DEF LeaseInv
  <2> QED BY <1>0, <1>1, <1>3, <1>9, <2>2, <2>3, <2>4, FinishRelabels
<1> QED BY <1>5, <1>6, <1>7, <1>8, <1>9

\* The commit is made, and the manifest says so.
LEMMA PrepareCommitKeeps ==
  ASSUME TypeInv, NEW n \in Names, PrepareCommit(n)
  PROVE  TypeInv' /\ (Good => Good')
<1> DEFINE lease == [finish[n].lease EXCEPT !.prepared = TRUE]
<1>0. /\ finish[n].step = "prepare"
      /\ UNCHANGED <<checkout, source, finished, ticket, fresh>> /\ MapTypes'
      /\ FinishLeaves /\ WriteManifest(n, lease) /\ Continue(n, "push", lease)
  BY MapRests DEF PrepareCommit
<1>1. /\ finish[n].lease \in Leases /\ finish[n].lease.status = "active"
      /\ source' \in Seq(Creators) /\ finished' \subseteq Creators
      /\ Good => /\ finish[n].lease = manifest[n] /\ manifest[n].lease # None
                 /\ Gone(manifest[n].lease)
  BY <1>0, FinishTyped DEF FinishFits, Preparing, TypeInv, FinishTypes
<1>2. /\ lease \in Leases /\ lease.status = "active" /\ lease.prepared
      /\ lease.lease = finish[n].lease.lease /\ lease.ticket = finish[n].lease.ticket
  BY <1>1 DEF Leases
<1> HIDE DEF lease
<1>3. /\ FinishTypes' /\ finish'[n].step = "push" /\ finish'[n].lease = lease
      /\ \A m \in Names \ {n} : finish'[m] = finish[m]
  BY <1>0, <1>1, <1>2, Continuing DEF FinishSteps, Preparing, Removing
<1>4. /\ FileTypes' /\ manifest'[n] = lease
      /\ \A m \in Names \ {n} : manifest'[m] = manifest[m]
  BY <1>0, <1>2, Writing
<1>5. TypeInv'
  BY <1>0, <1>3, <1>4, FinishRest DEF TypeInv
<1> QED BY <1>0, <1>1, <1>2, <1>3, <1>4, <1>5, FinishRelabels DEF Removing

\* The source branch receives the commit.
LEMMA PushCommitKeeps ==
  ASSUME TypeInv, NEW n \in Names, PushCommit(n)
  PROVE  TypeInv' /\ (Good => Good')
<1> DEFINE cleared == [finish[n].lease EXCEPT !.prepared = FALSE]
<1>0. /\ finish[n].step = "push"
      /\ UNCHANGED <<checkout, finished, ticket, fresh>> /\ MapTypes' /\ FinishLeaves
  BY MapRests DEF PushCommit
<1>1. /\ finish[n].lease \in Leases /\ finish[n].lease.status = "active"
      /\ finish[n].lease.prepared
      /\ source \in Seq(Creators) /\ finished' \subseteq Creators
      /\ Good => /\ finish[n].lease = manifest[n] /\ manifest[n].lease # None
                 /\ Gone(manifest[n].lease)
  BY <1>0, FinishTyped DEF FinishFits, Preparing, TypeInv, FinishTypes
<1>2. CASE /\ source' = Append(source, finish[n].lease.lease)
           /\ Continue(n, "integrated", finish[n].lease) /\ UNCHANGED manifest
  <2>1. source' \in Seq(Creators) /\ Range(source) \subseteq Range(source')
    BY <1>1, <1>2, LeaseIsThere, AppendRange
  <2>2. /\ FinishTypes' /\ finish'[n].step = "integrated" /\ finish'[n].lease = finish[n].lease
        /\ \A m \in Names \ {n} : finish'[m] = finish[m]
    BY <1>1, <1>2, <2>1, Continuing DEF FinishSteps, Preparing, Removing
  <2>3. TypeInv'
    BY <1>0, <1>2, <2>2, FinishRest, FilesRest DEF TypeInv, files
  <2> QED BY <1>0, <1>1, <1>2, <2>1, <2>2, <2>3, FinishRelabels DEF Removing
<1>3. CASE WriteManifest(n, cleared) /\ Stop(n) /\ UNCHANGED source
  <2>1. /\ cleared \in Leases /\ cleared.status = "active"
        /\ cleared.lease = finish[n].lease.lease /\ cleared.ticket = finish[n].lease.ticket
    BY <1>1 DEF Leases
  <2> HIDE DEF cleared
  <2>2. /\ FinishTypes' /\ finish'[n].step = "idle"
        /\ \A m \in Names \ {n} : finish'[m] = finish[m]
    BY <1>1, <1>3, Stopping
  <2>3. /\ FileTypes' /\ manifest'[n] = cleared
        /\ \A m \in Names \ {n} : manifest'[m] = manifest[m]
    BY <1>0, <1>3, <2>1, Writing
  <2>4. TypeInv'
    BY <1>0, <2>2, <2>3, FinishRest DEF TypeInv
  <2> QED BY <1>0, <1>1, <1>3, <2>1, <2>2, <2>3, <2>4, FinishRelabels
<1> QED BY <1>2, <1>3 DEF PushCommit

\* The lease is marked integrated.
LEMMA SaveIntegratedKeeps ==
  ASSUME TypeInv, NEW n \in Names, SaveIntegrated(n)
  PROVE  TypeInv' /\ (Good => Good')
<1> DEFINE lease == [finish[n].lease EXCEPT !.status = "integrated"]
<1>0. /\ finish[n].step = "integrated"
      /\ UNCHANGED <<checkout, source, finished, ticket, fresh>> /\ MapTypes'
      /\ FinishLeaves
  BY MapRests DEF SaveIntegrated
<1>1. /\ finish[n].lease \in Leases /\ finish[n].lease.status = "active"
      /\ finish[n].lease.prepared
      /\ source' \in Seq(Creators) /\ finished' \subseteq Creators
      /\ Good => /\ finish[n].lease = manifest[n] /\ manifest[n].lease # None
                 /\ Gone(manifest[n].lease)
  BY <1>0, FinishTyped DEF FinishFits, Preparing, TypeInv, FinishTypes
<1>2. /\ lease \in Leases /\ lease.status = "integrated" /\ lease.prepared
      /\ lease.lease = finish[n].lease.lease /\ lease.ticket = finish[n].lease.ticket
  BY <1>1 DEF Leases, Statuses
<1>3. \/ WriteManifest(n, lease) /\ Continue(n, "record", lease)
      \/ Stop(n) /\ UNCHANGED manifest
  BY DEF SaveIntegrated
<1> HIDE DEF lease
<1>4. CASE WriteManifest(n, lease) /\ Continue(n, "record", lease)
  <2>1. /\ FinishTypes' /\ finish'[n].step = "record" /\ finish'[n].lease = lease
        /\ \A m \in Names \ {n} : finish'[m] = finish[m]
    BY <1>1, <1>2, <1>4, Continuing DEF FinishSteps, Preparing, Removing
  <2>2. /\ FileTypes' /\ manifest'[n] = lease
        /\ \A m \in Names \ {n} : manifest'[m] = manifest[m]
    BY <1>0, <1>2, <1>4, Writing
  <2>3. TypeInv'
    BY <1>0, <2>1, <2>2, FinishRest DEF TypeInv
  <2> QED BY <1>0, <1>1, <1>2, <2>1, <2>2, <2>3, FinishRelabels DEF Removing
<1>5. CASE Stop(n) /\ UNCHANGED manifest
  <2>1. /\ FinishTypes' /\ finish'[n].step = "idle"
        /\ \A m \in Names \ {n} : finish'[m] = finish[m]
    BY <1>1, <1>5, Stopping
  <2>2. TypeInv'
    BY <1>0, <1>5, <2>1, FinishRest, FilesRest DEF TypeInv, files
  <2> QED BY <1>0, <1>1, <1>5, <2>1, <2>2, FinishRelabels
<1> QED BY <1>3, <1>4, <1>5

\* The ticket records the commit.
LEMMA RecordCommitKeeps ==
  ASSUME TypeInv, NEW n \in Names, RecordCommit(n)
  PROVE  TypeInv' /\ (Good => Good')
<1> DEFINE lease == finish[n].lease
<1>0. /\ finish[n].step = "record"
      /\ UNCHANGED <<files, manifest, checkout, source, finished>> /\ FinishLeaves
  BY DEF RecordCommit, files
<1>1. /\ lease \in Leases /\ lease.status = "integrated" /\ lease.prepared
      /\ lease.lease \in Creators /\ lease.ticket \in Tickets \cup {None}
      /\ source \in Seq(Creators) /\ source' \in Seq(Creators) /\ finished' \subseteq Creators
  BY <1>0, FinishTyped, LeaseIsThere DEF FinishFits, TypeInv, FinishTypes
<1>2. Good => /\ lease = manifest[n] /\ manifest[n].lease # None /\ LeaseInv(n)
              /\ Gone(manifest[n].lease)
  BY <1>0, FinishTyped
<1>3. ASSUME Stop(n), UNCHANGED map PROVE TypeInv' /\ (Good => Good')
  <2>1. /\ FinishTypes' /\ finish'[n].step = "idle"
        /\ \A m \in Names \ {n} : finish'[m] = finish[m]
    BY <1>1, <1>3, Stopping
  <2>2. MapTypes' /\ UNCHANGED <<ticket, fresh>>
    BY <1>3, MapRests
  <2>3. TypeInv'
    BY <1>0, <2>1, <2>2, FinishRest, FilesRest DEF TypeInv
  <2> QED BY <1>0, <1>1, <1>2, <2>1, <2>2, <2>3, FinishRelabels
<1>4. ASSUME head = lease.lease, Continue(n, "remove", lease), fresh' \subseteq fresh,
             \A t \in Tickets : ticket'[t].claim = ticket[t].claim,
             CommitsStay, MapTypes', Good => \A t \in Tickets : TicketInv(t)',
             lease.ticket # None => ticket'[lease.ticket].commit = lease.lease
      PROVE  TypeInv' /\ (Good => Good')
  <2>1. /\ FinishTypes' /\ finish'[n].step = "remove" /\ finish'[n].lease = lease
        /\ \A m \in Names \ {n} : finish'[m] = finish[m]
    BY <1>1, <1>4, Continuing DEF FinishSteps, Preparing, Removing
  <2>2. TypeInv'
    BY <1>0, <1>4, <2>1, FinishRest, FilesRest DEF TypeInv
  <2>3. lease.lease \in Range(source)
    BY <1>1, <1>4, HeadTypes
  <2>4. ASSUME Good PROVE Good'
    <3>1. FinishInv(n)'
      BY <1>0, <1>2, <1>4, <2>1, <2>3, <2>4, FinishRest DEF FinishInv, Gone
    <3>2. \A m \in Names :
            (manifest'[m] = manifest[m] /\ finish'[m] = finish[m]) \/ FinishInv(m)'
      BY <1>0, <2>1, <3>1
    <3> QED BY <1>0, <1>4, <2>4, <3>2, FinishRest, StaysGood
  <2> QED BY <2>2, <2>4
<1>5. ASSUME head = lease.lease, Continue(n, "remove", lease), UNCHANGED map,
             lease.ticket # None => ticket[lease.ticket].commit = lease.lease
      PROVE  TypeInv' /\ (Good => Good')
  <2>1. MapTypes' /\ UNCHANGED <<ticket, fresh>>
    BY <1>5, MapRests
  <2>2. CommitsStay
    BY <2>1 DEF CommitsStay
  <2>3. Good => \A t \in Tickets : TicketInv(t)'
    BY <1>0, <2>1, TicketsRest
  <2> QED BY <1>4, <1>5, <2>1, <2>2, <2>3
<1>6. ASSUME NEW t \in Tickets, t = lease.ticket, head = lease.lease,
             Continue(n, "remove", lease), ticket[t].commit = None,
             ticket[t].status = "verified",
             Save(t, [ticket[t] EXCEPT !.commit = lease.lease])
      PROVE  TypeInv' /\ (Good => Good')
  <2> DEFINE rec == [ticket[t] EXCEPT !.commit = lease.lease]
  <2>1. /\ rec \in TicketRecords /\ rec.claim = ticket[t].claim
        /\ rec.status = "verified" /\ rec.commit = lease.lease
    BY <1>1, <1>6 DEF TypeInv, MapTypes, TicketRecords
  <2> HIDE DEF rec
  <2>2. /\ MapTypes' /\ ticket'[t] = rec /\ fresh' = {}
        /\ \A u \in Tickets \ {t} : ticket'[u] = ticket[u]
    BY <1>6, <2>1, Saving DEF rec
  <2>3. CommitsStay
    BY <1>6, <2>2 DEF CommitsStay
  <2>4. ASSUME Good, NEW u \in Tickets PROVE TicketInv(u)'
    <3>1. CASE u = t
      <4>1. ticket[t].claim = lease.lease
        BY <1>1, <1>2, <1>6, <2>4 DEF LeaseInv
      <4> QED BY <1>1, <2>1, <2>2, <3>1, <4>1 DEF TicketInv
    <3>2. CASE u # t
      BY <1>0, <2>2, <2>4, <3>2, TicketKeeps DEF Good, Settled
    <3> QED BY <3>1, <3>2
  <2>5. lease.ticket # None => ticket'[lease.ticket].commit = lease.lease
    BY <1>6, <2>1, <2>2
  <2> QED BY <1>4, <1>6, <2>1, <2>2, <2>3, <2>4, <2>5
<1>7. \/ Stop(n) /\ UNCHANGED map
      \/ /\ head = lease.lease /\ Continue(n, "remove", lease) /\ UNCHANGED map
         /\ lease.ticket # None => ticket[lease.ticket].commit = lease.lease
      \/ /\ lease.ticket # None /\ head = lease.lease /\ Continue(n, "remove", lease)
         /\ ticket[lease.ticket].commit = None /\ ticket[lease.ticket].status = "verified"
         /\ Save(lease.ticket, [ticket[lease.ticket] EXCEPT !.commit = lease.lease])
  BY DEF RecordCommit
<1> QED BY <1>1, <1>3, <1>5, <1>6, <1>7

\* The checkout of an integrated lease is removed.
LEMMA FinishTreeKeeps ==
  ASSUME TypeInv, NEW n \in Names, FinishTree(n)
  PROVE  TypeInv' /\ (Good => Good')
<1>0. /\ finish[n].step = "remove" /\ finish[n].step \in Removing
      /\ UNCHANGED <<manifest, source, finished, ticket, fresh>> /\ MapTypes'
      /\ FinishLeaves /\ RemoveTree(n) /\ Continue(n, "evidence", finish[n].lease)
  BY MapRests DEF FinishTree, Removing
<1>1. /\ finish[n].lease \in Leases /\ finish[n].lease.status = "integrated"
      /\ finish[n].lease.prepared
      /\ source' \in Seq(Creators) /\ finished' \subseteq Creators
      /\ Good => /\ finish[n].lease = manifest[n] /\ manifest[n].lease # None
                 /\ Gone(manifest[n].lease) /\ FinishInv(n) /\ LeaseInv(n)
  BY <1>0, FinishTyped DEF FinishFits, TypeInv, FinishTypes
<1>2. /\ FinishTypes' /\ finish'[n].step = "evidence" /\ finish'[n].lease = finish[n].lease
      /\ \A m \in Names \ {n} : finish'[m] = finish[m]
  BY <1>0, <1>1, Continuing DEF FinishSteps, Preparing, Removing
<1>3. /\ FileTypes' /\ checkout'[n].lease = None /\ checkout'[n].work = FALSE
      /\ \A m \in Names \ {n} : checkout'[m] = checkout[m]
  BY <1>0, Clearing
<1>4. TypeInv'
  BY <1>0, <1>2, <1>3, FinishRest DEF TypeInv
<1>5. ASSUME Good PROVE Good'
  <2>1. UNCHANGED <<pc, job>>
    BY <1>0, FinishRest
  <2>2. NameInv(n)'
    BY <1>0, <1>1, <1>3, <1>5, <2>1 DEF NameInv, LeaseInv, TreeInv, Gone
  <2>3. FinishInv(n)'
    BY <1>0, <1>1, <1>2, <1>5, <2>1 DEF FinishInv, Gone
  <2>4. \A t \in Tickets : TicketInv(t)'
    BY <1>0, <1>5, TicketsRest
  <2>5. checkout[n].lease \in {manifest[n].lease, None}
    BY <1>1, <1>5 DEF LeaseInv
  <2>6. \A m \in Names :
          (manifest'[m] = manifest[m] /\ finish'[m] = finish[m]) \/ FinishInv(m)'
    BY <1>0, <1>2, <2>3
  <2>7. CommitsStay
    BY <1>0 DEF CommitsStay
  <2>8. \A m \in Names :
          \/ manifest'[m] = manifest[m] /\ checkout'[m] = checkout[m]
          \/ /\ Gone(manifest[m].lease)
             /\ manifest'[m].lease \in {manifest[m].lease, None}
             /\ checkout'[m] # checkout[m] =>
                  \A p \in {checkout[m].lease, checkout'[m].lease} : p = None \/ Gone(p)
             /\ NameInv(m)'
    BY <1>0, <1>1, <1>3, <1>5, <2>2, <2>5
  <2> QED BY <1>0, <1>5, <2>1, <2>4, <2>6, <2>7, <2>8, StaysGood
<1> QED BY <1>4, <1>5

\* The evidence of the finish is written.
LEMMA WriteEvidenceKeeps ==
  ASSUME TypeInv, NEW n \in Names, WriteEvidence(n)
  PROVE  TypeInv' /\ (Good => Good')
<1>0. /\ finish[n].step = "evidence" /\ finish[n].step \in Removing
      /\ UNCHANGED <<files, manifest, checkout, source, ticket, fresh>> /\ MapTypes'
      /\ FinishLeaves /\ Continue(n, "manifest", finish[n].lease)
      /\ finished' = finished \cup {finish[n].lease.lease}
  BY MapRests DEF WriteEvidence, Removing, files
<1>1. /\ finish[n].lease \in Leases /\ finish[n].lease.status = "integrated"
      /\ finish[n].lease.prepared
      /\ source' \in Seq(Creators) /\ finished' \subseteq Creators
      /\ Good => FinishInv(n)
  BY <1>0, FinishTyped, LeaseIsThere DEF FinishFits, TypeInv, FinishTypes
<1>2. /\ FinishTypes' /\ finish'[n].step = "manifest" /\ finish'[n].lease = finish[n].lease
      /\ \A m \in Names \ {n} : finish'[m] = finish[m]
  BY <1>0, <1>1, Continuing DEF FinishSteps, Preparing, Removing
<1>3. TypeInv'
  BY <1>0, <1>2, FinishRest, FilesRest DEF TypeInv
<1>4. ASSUME Good PROVE Good'
  <2>1. UNCHANGED <<pc, job>>
    BY <1>0, FinishRest
  <2>2. FinishInv(n)'
    BY <1>0, <1>1, <1>2, <1>4, <2>1 DEF FinishInv, Gone
  <2>3. \A t \in Tickets : TicketInv(t)'
    BY <1>0, <1>4, TicketsRest
  <2>4. \A m \in Names :
          (manifest'[m] = manifest[m] /\ finish'[m] = finish[m]) \/ FinishInv(m)'
    BY <1>0, <1>2, <2>2
  <2>5. CommitsStay
    BY <1>0 DEF CommitsStay
  <2> QED BY <1>0, <1>4, <2>1, <2>3, <2>4, <2>5, StaysGood
<1> QED BY <1>3, <1>4

\* The manifest of an integrated lease is removed.
LEMMA FinishManifestKeeps ==
  ASSUME TypeInv, NEW n \in Names, FinishManifest(n)
  PROVE  TypeInv' /\ (Good => Good')
<1>0. /\ finish[n].step = "manifest" /\ finish[n].step \in Removing
      /\ UNCHANGED <<checkout, source, finished, ticket, fresh>> /\ MapTypes'
      /\ FinishLeaves /\ WriteManifest(n, NoLease) /\ Stop(n)
  BY MapRests DEF FinishManifest, Removing, RemoveManifest
<1>1. /\ source' \in Seq(Creators) /\ finished' \subseteq Creators
      /\ Good => /\ manifest[n].lease # None /\ Gone(manifest[n].lease)
                 /\ FinishInv(n) /\ TreeInv(n)
  BY <1>0, FinishTyped DEF TypeInv, FinishTypes
<1>2. /\ FinishTypes' /\ finish'[n].step = "idle"
      /\ \A m \in Names \ {n} : finish'[m] = finish[m]
  BY <1>0, <1>1, Stopping
<1>3. /\ FileTypes' /\ manifest'[n].lease = None
      /\ \A m \in Names \ {n} : manifest'[m] = manifest[m]
  BY <1>0, Writing DEF NoLease
<1>4. TypeInv'
  BY <1>0, <1>2, <1>3, FinishRest DEF TypeInv
<1>5. ASSUME Good PROVE Good'
  <2>1. UNCHANGED <<pc, job>>
    BY <1>0, FinishRest
  <2>2. NameInv(n)'
    BY <1>0, <1>1, <1>3, <1>5, <2>1 DEF NameInv, LeaseInv, TreeInv, Gone
  <2>3. FinishInv(n)'
    BY <1>2 DEF FinishInv
  <2>4. ASSUME NEW t \in Tickets PROVE TicketInv(t)'
    <3>1. TicketInv(t)
      BY <1>5 DEF Good, Settled
    <3>2. manifest[n].ticket = t => ticket[t].commit # None
      BY <1>0, <1>1, <1>5 DEF FinishInv
    <3>3. \A m \in Names :
            manifest[m].lease = ticket[t].claim /\ manifest[m].ticket = t
              /\ ticket[t].claim # None /\ ticket[t].commit = None
            => manifest'[m].lease = manifest[m].lease /\ manifest'[m].ticket = manifest[m].ticket
      BY <1>3, <3>2
    <3> QED BY <1>0, <3>1, <3>3, TicketKeeps
  <2>5. CommitsStay
    BY <1>0 DEF CommitsStay
  <2>6. \A m \in Names :
          (manifest'[m] = manifest[m] /\ finish'[m] = finish[m]) \/ FinishInv(m)'
    BY <1>2, <1>3, <2>3
  <2>7. \A m \in Names :
          \/ manifest'[m] = manifest[m] /\ checkout'[m] = checkout[m]
          \/ /\ Gone(manifest[m].lease)
             /\ manifest'[m].lease \in {manifest[m].lease, None}
             /\ checkout'[m] # checkout[m] =>
                  \A p \in {checkout[m].lease, checkout'[m].lease} : p = None \/ Gone(p)
             /\ NameInv(m)'
    BY <1>0, <1>1, <1>3, <1>5, <2>2
  <2> QED BY <1>0, <1>5, <2>1, <2>4, <2>5, <2>6, <2>7, StaysGood
<1> QED BY <1>4, <1>5

\* A finish is killed, or its lock removed.
LEMMA FinishEndsKeeps ==
  ASSUME TypeInv, NEW n \in Names, KillFinish(n) \/ RemoveLock(n)
  PROVE  TypeInv' /\ (Good => Good')
<1>0. /\ UNCHANGED <<files, manifest, checkout, source, finished, ticket, fresh, pc, job, raced>>
      /\ MapTypes' /\ RacedTypes' /\ JobTypes'
  BY MapRests, JobsRest
     DEF KillFinish, RemoveLock, FinishLeaves, TypeInv, RacedTypes, files
<1>1. source' \in Seq(Creators) /\ finished' \subseteq Creators
  BY <1>0 DEF TypeInv, FinishTypes
<1>2. /\ FinishTypes' /\ finish'[n].step \in {"idle", "locked"}
      /\ \A m \in Names \ {n} : finish'[m] = finish[m]
  <2>1. CASE KillFinish(n)
    BY <1>1, <2>1, Continuing DEF KillFinish, FinishSteps, Preparing, Removing
  <2>2. CASE RemoveLock(n)
    BY <1>1, <2>2, Stopping DEF RemoveLock
  <2> QED BY <2>1, <2>2
<1>3. TypeInv'
  BY <1>0, <1>2, FilesRest DEF TypeInv
<1>4. ASSUME Good PROVE Good'
  <2>1. FinishInv(n)'
    BY <1>2 DEF FinishInv
  <2>2. \A m \in Names :
          (manifest'[m] = manifest[m] /\ finish'[m] = finish[m]) \/ FinishInv(m)'
    BY <1>0, <1>2, <2>1
  <2>3. \A t \in Tickets : TicketInv(t)'
    BY <1>0, <1>4, TicketsRest
  <2>4. CommitsStay
    BY <1>0 DEF CommitsStay
  <2> QED BY <1>0, <1>4, <2>2, <2>3, <2>4, StaysGood
<1> QED BY <1>3, <1>4

-----------------------------------------------------------------------------
(* What others do.                                                         *)

LEMMA OthersRest ==
  ASSUME TypeInv, OthersLeave
  PROVE  /\ JobTypes' /\ FinishTypes' /\ RacedTypes'
         /\ UNCHANGED <<source, finish, pc, job, raced>>
BY JobsRest DEF OthersLeave, finishing, TypeInv, FinishTypes, FinishFits, RacedTypes

\* Somebody works in a checkout.
LEMMA WorkKeeps ==
  ASSUME TypeInv, NEW n \in Names, Work(n)
  PROVE  TypeInv' /\ (Good => Good')
<1>0. /\ UNCHANGED <<manifest, ticket, fresh>> /\ MapTypes' /\ OthersLeave
      /\ checkout' = [checkout EXCEPT ![n].work = TRUE]
      /\ checkout[n] # NoTree /\ ~checkout[n].work
      /\ \/ pc[checkout[n].lease] = "shell"
         \/ /\ pc[checkout[n].lease] = "done"
            /\ manifest[n].lease = checkout[n].lease /\ manifest[n].status = "active"
  BY MapRests DEF Work
<1>1. checkout[n] \in [lease : Creators \cup {None}, work : BOOLEAN]
  BY DEF TypeInv, FileTypes
<1>2. checkout[n].lease # None
  BY <1>0, <1>1 DEF NoTree
<1>3. /\ FileTypes' /\ checkout'[n].lease = checkout[n].lease /\ checkout'[n].work = TRUE
      /\ \A m \in Names \ {n} : checkout'[m] = checkout[m]
  BY <1>0, <1>1 DEF TypeInv, FileTypes, IntegratedIsPrepared
<1>4. TypeInv'
  BY <1>0, <1>3, OthersRest DEF TypeInv
<1>5. ASSUME Good PROVE Good'
  <2>1. UNCHANGED <<source, finish, pc, job>>
    BY <1>0, OthersRest
  <2>2. LeaseInv(n) /\ TreeInv(n) /\ Gone(checkout[n].lease)
    BY <1>0, <1>5 DEF Good, Kept, NameInv, Gone
  <2>3. manifest[n].lease # None => manifest[n].lease = checkout[n].lease
    BY <1>2, <2>2 DEF LeaseInv
  <2>4. manifest[n].lease # None => manifest[n].status # "pending"
    BY <1>0, <2>2, <2>3 DEF LeaseInv, Cleaning
  <2>5. LeaseInv(n)'
    BY <1>0, <1>3, <2>1, <2>2, <2>3, <2>4 DEF LeaseInv, Gone
  <2>6. TreeInv(n)'
    BY <1>2, <1>3, <2>1, <2>2 DEF TreeInv, Gone
  <2>7. ASSUME NEW q \in Creators PROVE Rests(q)
    BY <1>0, <1>3, <2>1, <2>2 DEF Rests, ClaimsStay
  <2>8. GoneRest /\ CommitsStay
    BY <1>0, <2>1 DEF GoneRest, CommitsStay, ClaimsStay
  <2>9. Creates'
    BY <1>5, <2>7, <2>8, OthersKeep DEF Good, Creates
  <2>10. ASSUME NEW m \in Names PROVE NameInv(m)'
    <3>1. CASE m = n
      BY <2>5, <2>6, <3>1 DEF NameInv
    <3>2. CASE m # n
      <4>1. manifest[m].lease # None => ClaimsStay(manifest[m].lease)
        BY <1>0 DEF ClaimsStay
      <4> QED BY <1>0, <1>3, <1>5, <2>1, <2>8, <3>2, <4>1, LeaseKeeps, TreeKeeps
              DEF Good, Kept, NameInv
    <3> QED BY <3>1, <3>2
  <2>11. \A m \in Names : FinishInv(m)'
    BY <1>0, <1>5, <2>1, <2>8, FinishKeeps DEF Good, Kept
  <2>12. OneManifest' /\ \A t \in Tickets : TicketInv(t)'
    BY <1>0, <1>5, TicketsRest DEF Good, Settled, OneManifest
  <2> QED BY <2>9, <2>10, <2>11, <2>12 DEF Good, Kept, Settled
<1> QED BY <1>4, <1>5

\* The status of a ticket without a commit changes.
LEMMA StatusKeeps ==
  ASSUME TypeInv, NEW t \in Tickets,
         NEW status \in {"ready", "claimed", "blocked", "verified", "cancelled"},
         ticket[t].status # "verified", Save(t, [ticket[t] EXCEPT !.status = status]),
         UNCHANGED files, OthersLeave
  PROVE  TypeInv' /\ (Good => Good')
<1> DEFINE rec == [ticket[t] EXCEPT !.status = status]
<1>1. rec \in TicketRecords /\ rec.claim = ticket[t].claim /\ rec.commit = ticket[t].commit
  BY DEF TypeInv, MapTypes, TicketRecords
<1> HIDE DEF rec
<1>2. /\ MapTypes' /\ ticket'[t] = rec /\ fresh' = {}
      /\ \A u \in Tickets \ {t} : ticket'[u] = ticket[u]
  BY <1>1, Saving DEF rec
<1>3. TypeInv'
  BY <1>2, OthersRest, FilesRest DEF TypeInv
<1>4. ASSUME Good PROVE Good'
  <2>1. UNCHANGED <<source, finish, pc, job, manifest, checkout>>
    BY OthersRest DEF files
  <2>2. CommitsStay /\ \A u \in Tickets : ticket'[u].claim = ticket[u].claim
    BY <1>1, <1>2 DEF CommitsStay
  <2>3. ASSUME NEW u \in Tickets PROVE TicketInv(u)'
    <3>1. TicketInv(u)
      BY <1>4 DEF Good, Settled
    <3>2. ticket'[u].commit = ticket[u].commit
      BY <1>1, <1>2
    <3>3. ticket[u].commit # None => ticket'[u].status = ticket[u].status
      BY <1>2, <3>1 DEF TicketInv
    <3> QED BY <2>1, <2>2, <3>1, <3>2, <3>3, TicketKeeps
  <2> QED BY <1>2, <1>4, <2>1, <2>2, <2>3, StaysGood
<1> QED BY <1>3, <1>4

\* Every step of others: work, verification, block, resume, cancel, other updates.
LEMMA OthersKeepInv ==
  ASSUME TypeInv, Others
  PROVE  TypeInv' /\ (Good => Good')
<1>1. CASE \E n \in Names : Work(n)
  BY <1>1, WorkKeeps
<1>2. ASSUME NEW n \in Names, Verify(n) PROVE TypeInv' /\ (Good => Good')
  <2>1. manifest[n].ticket \in Tickets
    BY <1>2, LeaseIsTyped, LeaseIsThere DEF Verify, NoLease
  <2> QED BY <1>2, <2>1, StatusKeeps DEF Verify
<1>3. ASSUME NEW t \in Tickets, Block(t) \/ Resume(t) \/ Cancel(t)
      PROVE  TypeInv' /\ (Good => Good')
  BY <1>3, StatusKeeps DEF Block, Resume, Cancel
<1>4. CASE UpdateOther
  <2>1. /\ UNCHANGED <<files, ticket>> /\ fresh' = {} /\ OthersLeave /\ MapTypes'
        /\ UNCHANGED <<source, finish, pc, job, manifest, checkout>>
    BY <1>4, OthersRest DEF UpdateOther, TypeInv, MapTypes, files
  <2>2. TypeInv'
    BY <2>1, OthersRest, FilesRest DEF TypeInv
  <2>3. CommitsStay
    BY <2>1 DEF CommitsStay
  <2>4. Good => \A t \in Tickets : TicketInv(t)'
    BY <2>1, TicketsRest
  <2> QED BY <2>1, <2>2, <2>3, <2>4, StaysGood
<1> QED BY <1>1, <1>2, <1>3, <1>4 DEF Others

-----------------------------------------------------------------------------
(* The invariant.                                                          *)

LEMMA CreateKeeps ==
  ASSUME TypeInv, NEW p \in Creators, Create(p)
  PROVE  TypeInv' /\ (raced' = {} /\ Good => Good')
BY ReadPendingKeeps, InspectPendingKeeps, RecoverPendingKeeps, DiscardTreeKeeps,
   DiscardManifestKeeps, ReadBindingKeeps, CheckNameKeeps, AddTreeKeeps,
   PublishLeaseKeeps, ClaimTicketKeeps, ActivateLeaseKeeps, RemoveCreatedKeeps,
   ReadClaimKeeps, ReleaseClaimKeeps, DropManifestKeeps, ProbeSucceedsKeeps,
   StartAbortKeeps, AbortTreeKeeps
DEF Create

\* Every step of a finish.
LEMMA FinishKeepsInv ==
  ASSUME TypeInv, NEW n \in Names, Finish(n)
  PROVE  TypeInv' /\ (Good => Good')
BY StartFinishKeeps, PrepareCommitKeeps, PushCommitKeeps, SaveIntegratedKeeps,
   RecordCommitKeeps, FinishTreeKeeps, WriteEvidenceKeeps, FinishManifestKeeps
DEF Finish

\* A race that was lost stays lost.
LEMMA RacesStay ==
  ASSUME Next
  PROVE  raced \subseteq raced'
<1>1. ASSUME NEW p \in Creators, Create(p) PROVE raced \subseteq raced'
  <2>1. ASSUME NEW n \in Names, ReadPending(p, n) PROVE raced \subseteq raced'
    BY <2>1 DEF ReadPending
  <2>2. ASSUME \/ InspectPending(p) \/ ReadBinding(p) \/ CheckName(p) \/ ClaimTicket(p)
               \/ ActivateLease(p) \/ RemoveCreated(p) \/ ReadClaim(p) \/ ProbeSucceeds(p)
               \/ StartAbort(p) \/ AbortTree(p)
        PROVE  raced' = raced
    BY <2>2 DEF InspectPending, ReadBinding, CheckName, ClaimTicket, ActivateLease,
                RemoveCreated, ReadClaim, ProbeSucceeds, StartAbort, AbortTree
  <2>3. ASSUME \/ RecoverPending(p) \/ DiscardTree(p) \/ DiscardManifest(p) \/ AddTree(p)
               \/ PublishLease(p) \/ DropManifest(p)
        PROVE  raced \subseteq raced'
    BY <2>3 DEF RecoverPending, DiscardTree, DiscardManifest, AddTree, PublishLease,
                DropManifest, NoteStale, NoteOther
  <2>4. CASE ReleaseClaim(p)
    BY <2>4 DEF ReleaseClaim, Stuck
  <2> QED BY <1>1, <2>1, <2>2, <2>3, <2>4 DEF Create
<1>2. ASSUME NEW n \in Names, Finish(n) PROVE raced' = raced
  BY <1>2 DEF Finish, StartFinish, PrepareCommit, PushCommit, SaveIntegrated, RecordCommit,
              FinishTree, WriteEvidence, FinishManifest, FinishLeaves
<1>3. ASSUME Others PROVE raced' = raced
  BY <1>3 DEF Others, Work, Verify, Block, Resume, Cancel, UpdateOther, OthersLeave
<1>4. ASSUME Faults PROVE raced \subseteq raced'
  BY <1>4 DEF Faults, FailCreate, KillCreate, KillFinish, RemoveLock, FinishLeaves, Stuck
<1>5. ASSUME NEW p \in Creators, NEW n \in Names, NEW t \in Tickets \cup {None},
             StartCreate(p, n, t)
      PROVE  raced' = raced
  BY <1>5 DEF StartCreate
<1> QED BY <1>1, <1>2, <1>3, <1>4, <1>5 DEF Next

\* Nothing has happened yet.
LEMMA InitInv == Init => Inv
<1> SUFFICES ASSUME Init
             PROVE  Inv
  OBVIOUS
<1>1. NoLease.lease = None /\ NoTree.lease = None /\ NoTree.work = FALSE
  BY DEF NoLease, NoTree
<1>2. JobTypes
  BY NoJobTypes DEF Init, JobTypes, JobFits, Steps, Running, Looking, Finding, Cleaning
<1>3. FileTypes
  BY <1>1 DEF Init, FileTypes, IntegratedIsPrepared, NoTree
<1>4. MapTypes
  BY DEF Init, MapTypes, TicketRecords
<1>5. FinishTypes
  <2>1. NoFinish \in Finishes /\ NoFinish.step = "idle"
    BY DEF NoFinish, Finishes
  <2> QED BY <2>1 DEF Init, FinishTypes, FinishFits, Preparing, Removing
<1>6. RacedTypes
  BY DEF Init, RacedTypes
<1>7. Creates
  BY <1>1 DEF Init, Creates, CreateInv, FinderInv, NoLeases, NoTrees, NoClaims, Looking,
              Finding, Cleaning
<1>8. Kept
  BY <1>1 DEF Init, Kept, NameInv, LeaseInv, TreeInv, FinishInv, NoFinish
<1>9. Settled
  BY <1>1 DEF Init, Settled, OneManifest, TicketInv
<1> QED BY <1>2, <1>3, <1>4, <1>5, <1>6, <1>7, <1>8, <1>9 DEF Inv, TypeInv, Good

\* Every step keeps the invariant.
LEMMA NextInv ==
  ASSUME Inv, [Next]_vars
  PROVE  Inv'
<1>1. TypeInv /\ (raced = {} => Good)
  BY DEF Inv
<1>2. CASE Next
  <2>1. TypeInv' /\ (raced' = {} /\ Good => Good')
    <3>1. CASE \E p \in Creators, n \in Names, t \in Tickets \cup {None} : StartCreate(p, n, t)
      BY <1>1, <3>1, StartCreateKeeps
    <3>2. CASE \E p \in Creators : Create(p)
      BY <1>1, <3>2, CreateKeeps
    <3>3. CASE \E n \in Names : Finish(n)
      BY <1>1, <3>3, FinishKeepsInv
    <3>4. CASE Others
      BY <1>1, <3>4, OthersKeepInv
    <3>5. CASE Faults
      BY <1>1, <3>5, FailCreateKeeps, KillCreateKeeps, FinishEndsKeeps DEF Faults
    <3> QED BY <1>2, <3>1, <3>2, <3>3, <3>4, <3>5 DEF Next
  <2>2. raced' = {} => raced = {}
    BY <1>2, RacesStay
  <2> QED BY <1>1, <2>1, <2>2 DEF Inv
<1>3. CASE UNCHANGED vars
  <2>1. UNCHANGED <<pc, job, files, map, finishing, raced>>
    BY <1>3 DEF vars, files, map, finishing
  <2>2. TypeInv' = TypeInv
    BY <2>1 DEF files, map, finishing, TypeInv, JobTypes, JobFits, Running, FileTypes,
       IntegratedIsPrepared, MapTypes, FinishTypes, FinishFits, RacedTypes
  <2>3. Creates' = Creates
    BY <2>1 DEF files, map, Creates, CreateInv, FinderInv, NoLeases, NoTrees, NoClaims,
       ClaimsOnly, Fresh, OwnTree, Has, Holds, FoundOwn, Gone
  <2>4. Kept' = Kept
    BY <2>1 DEF files, map, finishing, Kept, NameInv, LeaseInv, TreeInv, FinishInv, Gone,
       NoClaims, ClaimsOnly
  <2>5. Settled' = Settled
    BY <2>1 DEF files, map, Settled, OneManifest, TicketInv
  <2> QED BY <1>1, <2>1, <2>2, <2>3, <2>4, <2>5 DEF Inv, Good
<1> QED BY <1>2, <1>3

\* The invariant, always.
LEMMA InvHolds == Spec => []Inv
BY InitInv, NextInv, PTL DEF Spec

-----------------------------------------------------------------------------
(* The theorems.                                                           *)

\* Files, tickets, creates and finishes keep their types (StartCreate to
\* FinishManifest), and what is marked integrated has a prepared commit.
THEOREM WorktreeTypes == Spec => []TypeOK
<1>1. Inv => TypeOK
  BY DEF Inv, TypeInv, FileTypes, IntegratedIsPrepared, MapTypes, TicketRecords,
         FinishTypes, RacedTypes, TypeOK
<1> QED BY <1>1, InvHolds, PTL

\* Whichever step a create, an abort or a finish is killed at, a claim without a
\* commit has the manifest of its lease (rollbackClaimWithRetry releases the claim
\* before the manifest is removed).
THEOREM ClaimKeepsItsLease == Spec => []ClaimHasItsLease
<1>1. Inv => ClaimHasItsLease
  BY DEF Inv, Good, Settled, TicketInv, ClaimHasItsLease
<1> QED BY <1>1, InvHolds, PTL

\* An active lease has its checkout and the claim of its ticket, whether its create
\* activated it or a later one recovered it.
THEOREM ActiveLeaseStaysUsable == Spec => []ActiveLeaseIsUsable
<1>1. ASSUME Inv, raced = {}, NEW n \in Names,
             manifest[n].lease # None, manifest[n].status = "active"
      PROVE  /\ checkout[n].lease = manifest[n].lease
             /\ manifest[n].ticket # None =>
                  ticket[manifest[n].ticket].claim = manifest[n].lease
  BY <1>1 DEF Inv, Good, Kept, NameInv, LeaseInv
<1>2. Inv => ActiveLeaseIsUsable
  BY <1>1 DEF ActiveLeaseIsUsable
<1> QED BY <1>2, InvHolds, PTL

\* Where nothing raced, only a finish removes a checkout with work in it.
LEMMA OnlyFinishRemoves ==
  ASSUME Inv, Next, raced' = {}, NEW n \in Names, checkout[n].work,
         checkout'[n] # checkout[n]
  PROVE  FinishTree(n)
<1>1. TypeInv /\ Good
  BY RacesStay DEF Inv
<1>2. ASSUME NEW p \in Creators, AddTree(p) PROVE FALSE
  BY <1>1, <1>2 DEF AddTree, NoTree, TypeInv, FileTypes
<1>3. ASSUME NEW p \in Creators, RemoveCreated(p) \/ AbortTree(p) PROVE FALSE
  <2>1. OwnTree(p)
    BY <1>1, <1>3 DEF Good, Creates, CreateInv, RemoveCreated, AbortTree
  <2>2. n = job[p].name
    BY <1>1, <1>3 DEF RemoveCreated, AbortTree, RemoveTree, TypeInv, FileTypes
  <2> QED BY <2>1, <2>2 DEF OwnTree
<1>4. ASSUME NEW p \in Creators, DiscardTree(p) PROVE FALSE
  <2>1. pc[p] \in Finding /\ NoteStale(p) /\ n = job[p].found.name
    BY <1>1, <1>4 DEF DiscardTree, Finding, RemoveTree, TypeInv, FileTypes
  <2>2. PICK m \in Names, o \in Creators : Found(p, m, o)
    BY <1>1, <2>1, NotStale
  <2>3. manifest[n].lease # None /\ manifest[n].status = "pending"
    BY <2>1, <2>2 DEF Found
  <2> QED BY <1>1, <2>3 DEF Good, Kept, NameInv, LeaseInv
<1>5. ASSUME NEW p \in Creators, Create(p) PROVE FALSE
  <2>1. \/ UNCHANGED checkout
        \/ AddTree(p) \/ RemoveCreated(p) \/ AbortTree(p) \/ DiscardTree(p)
    BY <1>5 DEF Create, ReadPending, InspectPending, RecoverPending, DiscardManifest,
       ReadBinding, CheckName, PublishLease, ClaimTicket, ActivateLease, ReadClaim,
       ReleaseClaim, DropManifest, ProbeSucceeds, StartAbort, files
  <2> QED BY <2>1, <1>2, <1>3, <1>4
<1>6. ASSUME NEW m \in Names, Finish(m) PROVE FinishTree(n)
  <2>1. UNCHANGED checkout \/ FinishTree(m)
    BY <1>6 DEF Finish, StartFinish, PrepareCommit, PushCommit, SaveIntegrated,
       RecordCommit, WriteEvidence, FinishManifest, files
  <2>2. ASSUME FinishTree(m) PROVE m = n
    BY <1>1, <2>2 DEF FinishTree, RemoveTree, TypeInv, FileTypes
  <2> QED BY <2>1, <2>2
<1>7. ASSUME Others PROVE FALSE
  <2>1. ASSUME NEW m \in Names, Work(m) PROVE FALSE
    BY <1>1, <2>1 DEF Work, TypeInv, FileTypes
  <2>2. UNCHANGED checkout \/ \E m \in Names : Work(m)
    BY <1>7 DEF Others, Verify, Block, Resume, Cancel, UpdateOther, files
  <2> QED BY <2>1, <2>2
<1>8. ASSUME \/ Faults
             \/ \E p \in Creators, m \in Names, t \in Tickets \cup {None} : StartCreate(p, m, t)
      PROVE  FALSE
  BY <1>8 DEF Faults, FailCreate, KillCreate, KillFinish, RemoveLock, StartCreate, files
<1> QED BY <1>5, <1>6, <1>7, <1>8 DEF Next

\* Work is removed only after the source branch has its commit and its ticket
\* records it (FinishTree after RecordCommit).
THEOREM WorkStaysKept == Spec => WorkIsKept
<1> DEFINE Kept1(n) ==
      LET p == checkout[n].lease IN
      checkout[n].work /\ checkout'[n] # checkout[n] =>
        /\ p \in Range(source)
        /\ \A t \in Tickets : ticket[t].claim = p => ticket[t].commit = p
<1>1. ASSUME Inv, Next, raced' = {}, NEW n \in Names PROVE Kept1(n)
  <2> DEFINE p == checkout[n].lease
  <2> SUFFICES ASSUME checkout[n].work, checkout'[n] # checkout[n]
               PROVE  /\ p \in Range(source)
                      /\ \A t \in Tickets : ticket[t].claim = p => ticket[t].commit = p
    OBVIOUS
  <2>1. TypeInv /\ Good
    BY <1>1, RacesStay DEF Inv
  <2>2. finish[n].step = "remove"
    BY <1>1, OnlyFinishRemoves DEF FinishTree
  <2>3. /\ manifest[n].lease # None /\ LeaseInv(n) /\ TreeInv(n) /\ FinishInv(n)
    BY <2>1, <2>2, FinishTyped
  <2>4. p = manifest[n].lease
    BY <2>3 DEF LeaseInv, TreeInv
  <2>5. /\ manifest[n].lease \in Range(source)
        /\ manifest[n].ticket # None => ticket[manifest[n].ticket].commit = manifest[n].lease
    BY <2>2, <2>3 DEF FinishInv, Removing
  <2>6. ASSUME NEW t \in Tickets, ticket[t].claim = p PROVE ticket[t].commit = p
    <3>1. CASE ticket[t].commit # None
      BY <2>1, <2>6, <3>1 DEF Good, Settled, TicketInv
    <3>2. CASE ticket[t].commit = None
      <4>1. PICK m \in Names : manifest[m].lease = p /\ manifest[m].ticket = t
        BY <2>1, <2>3, <2>4, <2>6, <3>2 DEF Good, Settled, TicketInv
      <4>2. m = n
        BY <2>1, <2>3, <2>4, <4>1 DEF Good, Settled, OneManifest
      <4> QED BY <2>4, <2>5, <4>1, <4>2
    <3> QED BY <3>1, <3>2
  <2> QED BY <2>4, <2>5, <2>6
<1>2. Inv /\ [Next]_vars => [raced' = {} => \A n \in Names : Kept1(n)]_vars
  BY <1>1
<1> QED BY <1>2, InvHolds, PTL DEF Spec, WorkIsKept
=============================================================================
