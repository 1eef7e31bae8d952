------------------------- MODULE WorkMapStoreProofs -------------------------
(***************************************************************************)
(* For any number of processes, revisions, crashes and failing writes: the *)
(* lock excludes, the journal can be recovered from wherever it stopped,   *)
(* the files agree, nothing acknowledged is lost, and the store is the     *)
(* register its callers see, as long as no lock is taken from its live     *)
(* owner and no opener finishes the journal of a create under it.          *)
(***************************************************************************)
EXTENDS WorkMapStore, SequenceTheorems, TLAPS

Maps == {m \in Seq(Processes) : Revision(m) <= MaxRevision}
Transactions == [before : Seq(Processes), map : Maps, create : BOOLEAN]
OneChange(t) == \E q \in Processes : t.map = Append(t.before, q)

Asking == {"lock", "contended", "ownerCheck", "ownerRead", "steal"}
Applying == {"event", "markdown", "map", "pointer", "clear"}
Steps == {"idle", "recover", "read", "commit", "release", "cleanup"} \cup Asking \cup Applying
Calls == {"none", "create", "open", "read", "update"}

\* The steps a call goes through, and what it holds at them.
CallFits(p) ==
  /\ op[p] = "none" <=> pc[p] = "idle"
  /\ op[p] = "create" => p = Creator /\ pc[p] \in {"commit", "recover", "cleanup"} \cup Applying
  /\ op[p] # "create" => pc[p] # "cleanup" /\ (pc[p] = "commit" => op[p] = "update")
  /\ pc[p] \in {"commit"} \cup Applying => tx[p] # None
  /\ op[p] = "update" => Revision(seen[p]) < MaxRevision

Types ==
  /\ dir \in BOOLEAN /\ pointer \in BOOLEAN
  /\ lock \in Processes \cup {None, Dead}
  /\ txn \in Transactions \cup {None}
  /\ events \in Seq(Seq(Processes)) /\ markdown \in Seq(Processes) /\ map \in Maps
  /\ pc \in [Processes -> Steps] /\ op \in [Processes -> Calls]
  /\ tx \in [Processes -> Transactions \cup {None}]
  /\ mine \in [Processes -> Seq(Processes)] /\ seen \in [Processes -> Seq(Processes)]
  /\ crashes \in 0 .. MaxCrashes /\ failures \in 0 .. MaxFailures
  /\ acked \subseteq Seq(Processes)
  /\ broken \subseteq {"stolen", "overtaken"}

TypeInv ==
  /\ Types
  /\ txn # None => OneChange(txn)
  /\ \A p \in Processes : CallFits(p) /\ (tx[p] # None => OneChange(tx[p]))

-----------------------------------------------------------------------------
(* Sequences.                                                              *)

LEMMA AppendedMap ==
  ASSUME NEW m \in Seq(Processes), NEW q \in Processes
  PROVE  /\ Append(m, q) \in Seq(Processes) /\ Append(m, q) # <<>>
         /\ Revision(Append(m, q)) = Revision(m) + 1
         /\ Front(Append(m, q)) = m
<1>1. /\ Append(m, q) \in Seq(Processes) /\ Append(m, q) # <<>>
      /\ Len(Append(m, q)) = Len(m) + 1
      /\ \A i \in 1 .. Len(m) : Append(m, q)[i] = m[i]
  BY AppendProperties
<1>2. Len(m) \in Nat
  BY LenProperties
<1>3. /\ Front(Append(m, q)) \in Seq(Processes)
      /\ Len(Front(Append(m, q))) = Len(m)
      /\ \A i \in 1 .. Len(m) : Front(Append(m, q))[i] = m[i]
  BY <1>1, <1>2, SubSeqProperties DEF Front
<1>4. Front(Append(m, q)) = m
  BY <1>3, SeqEqual, Zenon
<1> QED BY <1>1, <1>4 DEF Revision

LEMMA PrefixOfItself ==
  ASSUME NEW m \in Seq(Processes)
  PROVE  IsPrefix(m, m) /\ IsPrefix(<<>>, m)
<1>1. Len(m) \in Nat /\ Len(<<>>) = 0
  BY LenProperties, EmptySeq
<1>2. SubSeq(<<>>, 1, 0) = SubSeq(m, 1, 0)
  BY EmptySeq, SubSeqEmpty
<1> QED BY <1>1, <1>2 DEF IsPrefix

LEMMA PrefixStays ==
  ASSUME NEW m \in Seq(Processes), NEW n \in Seq(Processes), NEW q \in Processes,
         IsPrefix(m, n)
  PROVE  IsPrefix(m, Append(n, q))
<1>1. Len(m) \in Nat /\ Len(n) \in Nat /\ Len(m) <= Len(n)
      /\ SubSeq(m, 1, Len(m)) = SubSeq(n, 1, Len(m))
  BY LenProperties DEF IsPrefix
<1>2. /\ Append(n, q) \in Seq(Processes)
      /\ Len(Append(n, q)) = Len(n) + 1
      /\ \A i \in 1 .. Len(n) : Append(n, q)[i] = n[i]
  BY AppendProperties
<1>3. SubSeq(n, 1, Len(m)) = SubSeq(Append(n, q), 1, Len(m))
  <2>1. /\ SubSeq(n, 1, Len(m)) \in Seq(Processes)
        /\ Len(SubSeq(n, 1, Len(m))) = Len(m)
        /\ \A i \in 1 .. Len(m) : SubSeq(n, 1, Len(m))[i] = n[i]
    BY <1>1, SubSeqProperties
  <2>2. /\ SubSeq(Append(n, q), 1, Len(m)) \in Seq(Processes)
        /\ Len(SubSeq(Append(n, q), 1, Len(m))) = Len(m)
        /\ \A i \in 1 .. Len(m) : SubSeq(Append(n, q), 1, Len(m))[i] = Append(n, q)[i]
    BY <1>1, <1>2, SubSeqProperties
  <2>3. \A i \in 1 .. Len(m) : SubSeq(n, 1, Len(m))[i] = SubSeq(Append(n, q), 1, Len(m))[i]
    BY <1>1, <1>2, <2>1, <2>2
  <2> QED BY <2>1, <2>2, <2>3, SeqEqual
<1> QED BY <1>1, <1>2, <1>3 DEF IsPrefix

LEMMA PrefixOfSameRevision ==
  ASSUME NEW m \in Seq(Processes), NEW n \in Seq(Processes),
         IsPrefix(m, n), Revision(m) = Revision(n)
  PROVE  m = n
<1>1. SubSeq(m, 1, Len(m)) = m /\ SubSeq(n, 1, Len(n)) = n
  BY SubSeqFull
<1> QED BY <1>1 DEF IsPrefix, Revision

-----------------------------------------------------------------------------
(* Types.                                                                  *)

USE StoreAssumption DEF StoreAssumption

LEMMA FirstMap ==
  ASSUME NEW p \in Processes
  PROVE  /\ <<>> \in Seq(Processes) /\ Revision(<<>>) = 0
         /\ <<p>> = Append(<<>>, p) /\ <<p>> \in Maps
<1>1. <<>> \in Seq(Processes) /\ Len(<<>>) = 0
  BY EmptySeq
<1>2. <<p>> \in Seq(Processes) /\ Len(<<p>>) = 1 /\ <<p>> = Append(<<>>, p)
  OBVIOUS
<1> QED BY <1>1, <1>2 DEF Maps, Revision

LEMMA TransactionIsThere ==
  ASSUME NEW t \in Transactions
  PROVE  /\ t # None /\ t.before \in Seq(Processes) /\ t.map \in Maps
         /\ t.map \in Seq(Processes) /\ t.create \in BOOLEAN
<1>1. t.before \in Seq(Processes) /\ t.map \in Seq(Processes)
      /\ t \in [before : Seq(Processes), map : Seq(Processes), create : BOOLEAN]
  BY DEF Transactions, Maps
<1> QED BY <1>1 DEF Transactions

LEMMA InitTypes == Init => TypeInv
<1> SUFFICES ASSUME Init PROVE TypeInv
  OBVIOUS
<1>1. <<>> \in Seq(Seq(Processes)) /\ <<>> \in Maps /\ <<>> \in Seq(Processes)
  BY EmptySeq DEF Maps, Revision
<1>2. Types
  <2>1. /\ pc \in [Processes -> Steps] /\ op \in [Processes -> Calls]
        /\ tx \in [Processes -> Transactions \cup {None}]
    BY DEF Init, Steps, Calls
  <2>2. mine \in [Processes -> Seq(Processes)] /\ seen \in [Processes -> Seq(Processes)]
    BY <1>1 DEF Init
  <2>3. crashes \in 0 .. MaxCrashes /\ failures \in 0 .. MaxFailures
    BY DEF Init
  <2> QED BY <1>1, <2>1, <2>2, <2>3, Zenon DEF Init, Types
<1>3. \A p \in Processes : CallFits(p)
  BY DEF Init, CallFits, Applying
<1> QED BY <1>2, <1>3 DEF TypeInv, Init

\* What a call leaves alone: another process, and its own expectations.
Leaves(p) ==
  \A q \in Processes \ {p} :
    pc'[q] = pc[q] /\ op'[q] = op[q] /\ tx'[q] = tx[q] /\ mine'[q] = mine[q]
    /\ seen'[q] = seen[q]

\* The processes have their types after a step of p, if p has.
LEMMA ProcessTypes ==
  ASSUME TypeInv, NEW p \in Processes, Leaves(p), CallFits(p)',
         (tx[p] # None => OneChange(tx[p]))'
  PROVE  \A q \in Processes : CallFits(q)' /\ (tx[q] # None => OneChange(tx[q]))'
<1> SUFFICES ASSUME NEW q \in Processes, q # p
             PROVE  CallFits(q)' /\ (tx[q] # None => OneChange(tx[q]))'
  OBVIOUS
<1>1. pc'[q] = pc[q] /\ op'[q] = op[q] /\ tx'[q] = tx[q] /\ seen'[q] = seen[q]
  BY DEF Leaves
<1>2. CallFits(q) /\ (tx[q] # None => OneChange(tx[q]))
  BY DEF TypeInv
<1>3. CallFits(q)'
  BY <1>1, <1>2 DEF CallFits
<1>4. (tx[q] # None => OneChange(tx[q]))'
  BY <1>1, <1>2 DEF OneChange
<1> QED BY <1>3, <1>4

\* After a step of p the variables of the processes have their types.
ProcessesFit(p) ==
  /\ pc' \in [Processes -> Steps] /\ op' \in [Processes -> Calls]
  /\ tx' \in [Processes -> Transactions \cup {None}]
  /\ mine' \in [Processes -> Seq(Processes)] /\ seen' \in [Processes -> Seq(Processes)]
  /\ Leaves(p)
  /\ CallFits(p)' /\ (tx[p] # None => OneChange(tx[p]))'

\* A call goes on and nothing but its place changes.
LEMMA GoesOn ==
  ASSUME TypeInv, NEW p \in Processes, NEW step \in Steps, Goto(p, step),
         UNCHANGED local, pc[p] # "idle", step # "idle",
         op[p] = "create" => step \in {"recover", "cleanup"} \cup Applying,
         op[p] # "create" => step \notin {"cleanup", "commit"},
         step \in Applying => tx[p] # None
  PROVE  ProcessesFit(p)
<1>1. CallFits(p) /\ (tx[p] # None => OneChange(tx[p])) /\ Types
  BY DEF TypeInv
<1>2. pc' \in [Processes -> Steps] /\ pc'[p] = step /\ Leaves(p)
  BY <1>1 DEF Goto, Types, Leaves, local
<1>3. CallFits(p)'
  BY <1>1, <1>2 DEF CallFits, local, Applying
<1>4. (tx[p] # None => OneChange(tx[p]))'
  BY <1>1 DEF OneChange, local
<1> QED BY <1>1, <1>2, <1>3, <1>4 DEF ProcessesFit, Types, local

LEMMA ThrowFits ==
  ASSUME TypeInv, NEW p \in Processes, Throw(p), pc[p] # "idle"
  PROVE  ProcessesFit(p)
<1>1. CallFits(p) /\ Types
  BY DEF TypeInv
<1>2. <<>> \in Seq(Processes)
  BY EmptySeq
<1>3. /\ pc' \in [Processes -> Steps] /\ tx' \in [Processes -> Transactions \cup {None}]
      /\ mine' \in [Processes -> Seq(Processes)]
      /\ pc'[p] = IF op[p] = "create" THEN "cleanup" ELSE "release"
      /\ tx'[p] = None /\ Leaves(p)
  BY <1>1, <1>2 DEF Throw, Goto, Types, Leaves, Steps
<1>4. CallFits(p)'
  BY <1>1, <1>3 DEF CallFits, Throw, Applying
<1> QED BY <1>1, <1>3, <1>4 DEF ProcessesFit, Types, Throw

LEMMA ReturnFits ==
  ASSUME TypeInv, NEW p \in Processes, Return(p),
         seen' \in [Processes -> Seq(Processes)], \A q \in Processes \ {p} : seen'[q] = seen[q]
  PROVE  ProcessesFit(p)
<1>1. Types
  BY DEF TypeInv
<1>2. <<>> \in Seq(Processes)
  BY EmptySeq
<1>3. /\ pc' \in [Processes -> Steps] /\ tx' \in [Processes -> Transactions \cup {None}]
      /\ mine' \in [Processes -> Seq(Processes)] /\ op' \in [Processes -> Calls]
      /\ pc'[p] = "idle" /\ op'[p] = "none" /\ tx'[p] = None /\ Leaves(p)
  BY <1>1, <1>2 DEF Return, Goto, Types, Leaves, Steps, Calls
<1>4. CallFits(p)'
  BY <1>3 DEF CallFits, Applying
<1> QED BY <1>3, <1>4 DEF ProcessesFit

LEMMA GiveUpFits ==
  ASSUME TypeInv, NEW p \in Processes, GiveUp(p)
  PROVE  ProcessesFit(p)
<1>1. seen' \in [Processes -> Seq(Processes)] /\ \A q \in Processes \ {p} : seen'[q] = seen[q]
  BY DEF GiveUp, TypeInv, Types
<1> QED BY <1>1, ReturnFits DEF GiveUp

\* A call that is over leaves what it returns to its caller.
LEMMA SeenFits ==
  ASSUME Types, NEW p \in Processes, NEW m \in Seq(Processes),
         seen' = [seen EXCEPT ![p] = m]
  PROVE  seen' \in [Processes -> Seq(Processes)] /\ \A q \in Processes \ {p} : seen'[q] = seen[q]
BY DEF Types

LEMMA AfterRecoveryFits ==
  ASSUME TypeInv, NEW p \in Processes, AfterRecovery(p), pc[p] \in {"recover", "clear"}
  PROVE  ProcessesFit(p) /\ acked' \subseteq Seq(Processes)
<1>1. CallFits(p) /\ Types
  BY DEF TypeInv
<1>2. CASE op[p] = "create"
  <2>1. mine[p] \in Seq(Processes) /\ acked' = acked \cup {mine[p]}
        /\ seen' = [seen EXCEPT ![p] = mine[p]] /\ Return(p)
    BY <1>1, <1>2 DEF AfterRecovery, Types
  <2> QED BY <1>1, <2>1, SeenFits, ReturnFits DEF Types
<1>3. CASE op[p] # "create"
  <2>1. /\ pc' \in [Processes -> Steps] /\ tx' \in [Processes -> Transactions \cup {None}]
        /\ pc'[p] \in {"release", "read"} /\ tx'[p] = None /\ Leaves(p)
        /\ UNCHANGED <<op, mine, acked, seen>>
    BY <1>1, <1>3 DEF AfterRecovery, Goto, Types, Leaves, Steps
  <2>2. CallFits(p)'
    BY <1>1, <1>3, <2>1 DEF CallFits, Applying
  <2> QED BY <1>1, <2>1, <2>2 DEF ProcessesFit, Types
<1> QED BY <1>2, <1>3

DiskTypes ==
  /\ dir \in BOOLEAN /\ pointer \in BOOLEAN
  /\ lock \in Processes \cup {None, Dead}
  /\ txn \in Transactions \cup {None} /\ (txn # None => OneChange(txn))
  /\ events \in Seq(Seq(Processes)) /\ markdown \in Seq(Processes) /\ map \in Maps

FaultTypes ==
  /\ crashes \in 0 .. MaxCrashes /\ failures \in 0 .. MaxFailures
  /\ broken \subseteq {"stolen", "overtaken"}

LEMMA TypesCompose ==
  ASSUME TypeInv, NEW p \in Processes, ProcessesFit(p), DiskTypes', FaultTypes',
         acked' \subseteq Seq(Processes)
  PROVE  TypeInv'
<1>1. \A q \in Processes : CallFits(q)' /\ (tx[q] # None => OneChange(tx[q]))'
  BY ProcessTypes DEF ProcessesFit
<1>2. Types'
  BY DEF ProcessesFit, DiskTypes, FaultTypes, Types
<1>3. (txn # None => OneChange(txn))'
  BY DEF DiskTypes
<1> QED BY <1>1, <1>2, <1>3 DEF TypeInv

LEMMA TypesDecompose ==
  ASSUME TypeInv
  PROVE  /\ DiskTypes /\ FaultTypes /\ acked \subseteq Seq(Processes)
         /\ (UNCHANGED disk => DiskTypes')
         /\ (UNCHANGED <<faults, broken>> => FaultTypes')
<1>1. DiskTypes /\ FaultTypes /\ acked \subseteq Seq(Processes)
  BY DEF TypeInv, Types, DiskTypes, FaultTypes
<1>2. UNCHANGED disk => DiskTypes'
  BY <1>1 DEF DiskTypes, disk, OneChange
<1>3. UNCHANGED <<faults, broken>> => FaultTypes'
  BY <1>1 DEF FaultTypes, faults
<1> QED BY <1>1, <1>2, <1>3

LEMMA StartTypes ==
  ASSUME TypeInv, NEW p \in Processes, Start(p)
  PROVE  TypeInv'
<1> USE TypesDecompose
<1>1. CallFits(p) /\ Types
  BY DEF TypeInv
<1>2. ASSUME pc[p] = "idle", NEW call \in {"open", "read", "update"},
             op' = [op EXCEPT ![p] = call], Goto(p, "lock"), UNCHANGED <<mine, tx, seen>>,
             call = "update" => Revision(seen[p]) < MaxRevision
      PROVE  ProcessesFit(p)
  <2>1. /\ pc' \in [Processes -> Steps] /\ op' \in [Processes -> Calls]
        /\ pc'[p] = "lock" /\ op'[p] = call /\ Leaves(p)
    BY <1>1, <1>2 DEF Goto, Types, Leaves, Steps, Calls, Asking
  <2>2. CallFits(p)'
    BY <1>1, <1>2, <2>1 DEF CallFits, Applying
  <2>3. (tx[p] # None => OneChange(tx[p]))'
    BY <1>2 DEF TypeInv, OneChange
  <2> QED BY <1>1, <1>2, <2>1, <2>2, <2>3 DEF ProcessesFit, Types
<1>3. CASE StartCreate(p)
  <2> DEFINE t == [before |-> <<>>, map |-> <<p>>, create |-> TRUE]
  <2>1. t \in Transactions /\ OneChange(t) /\ t # None
    BY FirstMap, TransactionIsThere DEF Transactions, OneChange
  <2>2. /\ pc' \in [Processes -> Steps] /\ op' \in [Processes -> Calls]
        /\ tx' \in [Processes -> Transactions \cup {None}]
        /\ pc'[p] = "commit" /\ op'[p] = "create" /\ tx'[p] = t /\ Leaves(p)
    BY <1>1, <1>3, <2>1 DEF StartCreate, Goto, Types, Leaves, Steps, Calls
  <2>3. CallFits(p)'
    BY <1>3, <2>1, <2>2 DEF CallFits, StartCreate
  <2>4. (tx[p] # None => OneChange(tx[p]))'
    BY <2>1, <2>2 DEF OneChange
  <2>5. ProcessesFit(p)
    BY <1>1, <1>3, <2>2, <2>3, <2>4 DEF ProcessesFit, StartCreate, Types
  <2>6. DiskTypes'
    BY <1>3 DEF StartCreate, DiskTypes, OneChange
  <2> QED BY <1>3, <2>5, <2>6, TypesCompose DEF StartCreate
<1>4. CASE StartOpen(p)
  <2>1. ProcessesFit(p)
    BY <1>2, <1>4 DEF StartOpen
  <2> QED BY <1>4, <2>1, TypesCompose DEF StartOpen
<1>5. CASE StartRead(p)
  <2>1. ProcessesFit(p)
    BY <1>2, <1>5 DEF StartRead
  <2> QED BY <1>5, <2>1, TypesCompose DEF StartRead
<1>6. CASE StartUpdate(p)
  <2>1. ProcessesFit(p)
    BY <1>2, <1>6 DEF StartUpdate
  <2> QED BY <1>6, <2>1, TypesCompose DEF StartUpdate
<1> QED BY <1>3, <1>4, <1>5, <1>6 DEF Start

LEMMA LockingTypes ==
  ASSUME TypeInv, NEW p \in Processes,
         \/ AcquireLock(p) \/ FindLock(p) \/ FindOwner(p) \/ ReadOwner(p) \/ StealLock(p)
         \/ ReleaseLock(p)
  PROVE  TypeInv'
<1> USE TypesDecompose
<1>1. CallFits(p) /\ Types
  BY DEF TypeInv
<1>2. pc[p] \in Asking => op[p] # "create"
  BY <1>1 DEF CallFits, Asking, Applying
<1>3. "recover" \in Steps /\ Asking \subseteq Steps /\ Asking \cap Applying = {}
      /\ Asking \cap {"idle", "cleanup", "commit"} = {}
  BY DEF Steps, Asking, Applying
<1>4. CASE AcquireLock(p)
  <2>1. ProcessesFit(p)
    BY <1>2, <1>3, <1>4, GoesOn, GiveUpFits DEF AcquireLock, Asking, Applying
  <2>2. DiskTypes'
    BY <1>4 DEF AcquireLock, DiskTypes, OneChange
  <2>3. UNCHANGED <<faults, broken>> /\ acked' = acked
    BY <1>4 DEF AcquireLock, GiveUp, Return
  <2> QED BY <2>1, <2>2, <2>3, TypesCompose
<1>5. CASE FindLock(p)
  <2>1. ProcessesFit(p)
    BY <1>2, <1>3, <1>5, GoesOn, GiveUpFits DEF FindLock, Asking, Applying
  <2> QED BY <1>5, <2>1, TypesCompose DEF FindLock
<1>6. CASE FindOwner(p)
  <2>1. ProcessesFit(p)
    BY <1>2, <1>3, <1>6, GoesOn DEF FindOwner, Asking, Applying
  <2> QED BY <1>6, <2>1, TypesCompose DEF FindOwner
<1>7. CASE ReadOwner(p)
  <2>1. ProcessesFit(p)
    BY <1>2, <1>3, <1>7, GoesOn, GiveUpFits DEF ReadOwner, Asking, Applying
  <2> QED BY <1>7, <2>1, TypesCompose DEF ReadOwner
<1>8. CASE StealLock(p)
  <2>1. ProcessesFit(p)
    BY <1>2, <1>3, <1>8, GoesOn, GiveUpFits DEF StealLock, Asking, Applying
  <2>2. DiskTypes'
    BY <1>8 DEF StealLock, DiskTypes, OneChange
  <2>3. FaultTypes' /\ acked' = acked
    BY <1>8 DEF StealLock, FaultTypes, faults
  <2> QED BY <2>1, <2>2, <2>3, TypesCompose
<1>9. CASE ReleaseLock(p)
  <2>1. mine[p] \in Seq(Processes) /\ seen[p] \in Seq(Processes)
    BY <1>1 DEF Types
  <2>2. \/ UNCHANGED seen
        \/ seen' = [seen EXCEPT ![p] = IF mine[p] # <<>> THEN mine[p] ELSE seen[p]]
    BY <1>9 DEF ReleaseLock
  <2>3. seen' \in [Processes -> Seq(Processes)] /\ \A q \in Processes \ {p} : seen'[q] = seen[q]
    BY <1>1, <2>1, <2>2 DEF Types
  <2>4. ProcessesFit(p)
    BY <1>9, <2>3, ReturnFits DEF ReleaseLock
  <2>5. DiskTypes'
    BY <1>9 DEF ReleaseLock, DiskTypes, OneChange
  <2>6. acked' \subseteq Seq(Processes) /\ UNCHANGED <<faults, broken>>
    BY <1>9, <2>1 DEF ReleaseLock
  <2> QED BY <2>4, <2>5, <2>6, TypesCompose
<1> QED BY <1>4, <1>5, <1>6, <1>7, <1>8, <1>9

LEMMA RecoveryTypes ==
  ASSUME TypeInv, NEW p \in Processes,
         \/ FindTransaction(p) \/ WriteEvent(p) \/ WriteMarkdown(p) \/ WriteMap(p)
         \/ WritePointer(p) \/ ClearTransaction(p)
  PROVE  TypeInv'
<1> USE TypesDecompose
<1>1. CallFits(p) /\ Types
  BY DEF TypeInv
<1>2. /\ Applying \subseteq Steps /\ "release" \in Steps
      /\ pc[p] \in Applying => tx[p] \in Transactions
  BY <1>1 DEF Steps, CallFits, Types
<1>3. pc[p] \in Applying => tx[p].map \in Maps /\ tx[p].map \in Seq(Processes)
  BY <1>2, TransactionIsThere
<1>4. CASE FindTransaction(p)
  <2>1. ASSUME AfterRecovery(p) PROVE ProcessesFit(p) /\ acked' \subseteq Seq(Processes)
    BY <1>4, <2>1, AfterRecoveryFits DEF FindTransaction
  <2>2. ASSUME txn # None, tx' = [tx EXCEPT ![p] = txn], Goto(p, "event"),
               UNCHANGED <<mine, op, seen, acked>>
        PROVE  ProcessesFit(p) /\ acked' \subseteq Seq(Processes)
    <3>1. /\ pc' \in [Processes -> Steps] /\ tx' \in [Processes -> Transactions \cup {None}]
          /\ pc'[p] = "event" /\ tx'[p] = txn /\ Leaves(p)
      BY <1>1, <1>2, <2>2 DEF Goto, Types, Leaves, Applying
    <3>2. CallFits(p)' /\ (tx[p] # None => OneChange(tx[p]))'
      BY <1>1, <1>4, <2>2, <3>1 DEF FindTransaction, CallFits, TypeInv, OneChange, Applying
    <3> QED BY <1>1, <2>2, <3>1, <3>2 DEF ProcessesFit, Types
  <2>3. ASSUME Throw(p) PROVE ProcessesFit(p) /\ acked' \subseteq Seq(Processes)
    BY <1>4, <2>3, ThrowFits DEF FindTransaction, Throw
  <2>4. ProcessesFit(p) /\ acked' \subseteq Seq(Processes)
    BY <1>4, <2>1, <2>2, <2>3 DEF FindTransaction
  <2> QED BY <1>4, <2>4, TypesCompose DEF FindTransaction
<1>5. CASE WriteEvent(p)
  <2>1. ProcessesFit(p)
    BY <1>2, <1>5, GoesOn, ThrowFits DEF WriteEvent, CallFits, TypeInv, Applying
  <2>2. events' \in Seq(Seq(Processes)) /\ UNCHANGED <<acked, faults, broken>>
    <3>1. tx[p].map \in Seq(Processes) /\ events \in Seq(Seq(Processes))
      BY <1>1, <1>3, <1>5 DEF WriteEvent, Types, Applying
    <3>2. Append(events, tx[p].map) \in Seq(Seq(Processes))
      BY <3>1, AppendProperties
    <3> QED BY <1>5, <3>1, <3>2 DEF WriteEvent, Throw
  <2>3. DiskTypes'
    BY <1>5, <2>2 DEF WriteEvent, DiskTypes, OneChange
  <2> QED BY <2>1, <2>2, <2>3, TypesCompose
<1>6. CASE WriteMarkdown(p)
  <2>1. ProcessesFit(p)
    BY <1>2, <1>6, GoesOn DEF WriteMarkdown, CallFits, TypeInv, Applying
  <2>2. DiskTypes'
    BY <1>3, <1>6 DEF WriteMarkdown, DiskTypes, OneChange, Applying
  <2> QED BY <1>6, <2>1, <2>2, TypesCompose DEF WriteMarkdown
<1>7. CASE WriteMap(p)
  <2>1. ProcessesFit(p)
    BY <1>2, <1>7, GoesOn DEF WriteMap, CallFits, TypeInv, Applying
  <2>2. DiskTypes'
    BY <1>3, <1>7 DEF WriteMap, DiskTypes, OneChange, Applying
  <2> QED BY <1>7, <2>1, <2>2, TypesCompose DEF WriteMap
<1>8. CASE WritePointer(p)
  <2>1. ProcessesFit(p)
    BY <1>2, <1>8, GoesOn DEF WritePointer, CallFits, TypeInv, Applying
  <2>2. DiskTypes'
    BY <1>8 DEF WritePointer, DiskTypes, OneChange
  <2> QED BY <1>8, <2>1, <2>2, TypesCompose DEF WritePointer
<1>9. CASE ClearTransaction(p)
  <2>1. ProcessesFit(p) /\ acked' \subseteq Seq(Processes)
    BY <1>9, AfterRecoveryFits, ThrowFits DEF ClearTransaction, Throw
  <2>2. DiskTypes' /\ FaultTypes'
    BY <1>9 DEF ClearTransaction, DiskTypes, FaultTypes, faults
  <2> QED BY <2>1, <2>2, TypesCompose
<1> QED BY <1>4, <1>5, <1>6, <1>7, <1>8, <1>9

LEMMA CommitTypes ==
  ASSUME TypeInv, NEW p \in Processes, ReadMap(p) \/ CommitTransaction(p) \/ Cleanup(p)
  PROVE  TypeInv'
<1> USE TypesDecompose
<1>1. CallFits(p) /\ Types /\ (tx[p] # None => OneChange(tx[p]))
  BY DEF TypeInv
<1>2. CASE ReadMap(p)
  <2>1. ASSUME op[p] = "read", mine' = [mine EXCEPT ![p] = map], Goto(p, "release"),
               UNCHANGED <<op, tx, seen>>
        PROVE  ProcessesFit(p)
    <3>1. /\ pc' \in [Processes -> Steps] /\ mine' \in [Processes -> Seq(Processes)]
          /\ pc'[p] = "release" /\ Leaves(p)
      BY <1>1, <2>1 DEF Goto, Types, Leaves, Steps, Maps
    <3>2. CallFits(p)' /\ (tx[p] # None => OneChange(tx[p]))'
      BY <1>1, <2>1, <3>1 DEF CallFits, OneChange, Applying
    <3> QED BY <1>1, <2>1, <3>1, <3>2 DEF ProcessesFit, Types
  <2>2. ASSUME op[p] = "update", Revision(seen[p]) = Revision(map),
               tx' = [tx EXCEPT ![p] =
                       [before |-> map, map |-> Append(map, p), create |-> FALSE]],
               Goto(p, "commit"), UNCHANGED <<op, mine, seen>>
        PROVE  ProcessesFit(p)
    <3> DEFINE t == [before |-> map, map |-> Append(map, p), create |-> FALSE]
    <3>1. map \in Seq(Processes) /\ Revision(map) < MaxRevision /\ Revision(map) \in Nat
      BY <1>1, <2>2, LenProperties DEF CallFits, Types, Maps, Revision
    <3>a. Append(map, p) \in Maps
      BY <3>1, AppendedMap DEF Maps
    <3>2. t \in Transactions /\ OneChange(t) /\ t # None
      BY <3>1, <3>a, TransactionIsThere DEF Transactions, OneChange
    <3>3. /\ pc' \in [Processes -> Steps] /\ tx' \in [Processes -> Transactions \cup {None}]
          /\ pc'[p] = "commit" /\ tx'[p] = t /\ Leaves(p)
      BY <1>1, <2>2, <3>2 DEF Goto, Types, Leaves, Steps
    <3>4. CallFits(p)' /\ (tx[p] # None => OneChange(tx[p]))'
      BY <1>1, <2>2, <3>2, <3>3 DEF CallFits, OneChange
    <3> QED BY <1>1, <2>2, <3>3, <3>4 DEF ProcessesFit, Types
  <2>3. ProcessesFit(p)
    BY <1>2, <2>1, <2>2, ThrowFits DEF ReadMap
  <2>4. acked' = acked
    BY <1>2 DEF ReadMap, Throw
  <2> QED BY <1>2, <2>3, <2>4, TypesCompose DEF ReadMap
<1>3. CASE CommitTransaction(p)
  <2>1. tx[p] \in Transactions /\ OneChange(tx[p]) /\ tx[p].map \in Seq(Processes)
    BY <1>1, <1>3, TransactionIsThere DEF CommitTransaction, CallFits, Types
  <2>2. /\ pc' \in [Processes -> Steps] /\ mine' \in [Processes -> Seq(Processes)]
        /\ pc'[p] = "recover" /\ Leaves(p)
    BY <1>1, <1>3, <2>1 DEF CommitTransaction, Goto, Types, Leaves, Steps
  <2>3. CallFits(p)' /\ (tx[p] # None => OneChange(tx[p]))'
    BY <1>1, <1>3, <2>2 DEF CommitTransaction, CallFits, OneChange, Applying
  <2>4. ProcessesFit(p)
    BY <1>1, <1>3, <2>2, <2>3 DEF CommitTransaction, ProcessesFit, Types
  <2>5. DiskTypes'
    BY <1>3, <2>1 DEF CommitTransaction, DiskTypes, OneChange
  <2> QED BY <1>3, <2>4, <2>5, TypesCompose DEF CommitTransaction
<1>4. CASE Cleanup(p)
  <2>1. ProcessesFit(p)
    BY <1>1, <1>4, ReturnFits DEF Cleanup, Types
  <2>2. <<>> \in Seq(Seq(Processes)) /\ <<>> \in Seq(Processes) /\ <<>> \in Maps
    BY EmptySeq DEF Maps, Revision
  <2>3. DiskTypes'
    BY <1>4, <2>2 DEF Cleanup, DiskTypes, OneChange
  <2> QED BY <1>4, <2>1, <2>3, TypesCompose DEF Cleanup
<1> QED BY <1>2, <1>3, <1>4

LEMMA FaultsTypes ==
  ASSUME TypeInv, NEW p \in Processes, WriteFails(p) \/ DirectoryGone(p) \/ Crash(p)
  PROVE  TypeInv'
<1> USE TypesDecompose
<1>1. CASE WriteFails(p) \/ DirectoryGone(p)
  <2>1. Throw(p) /\ pc[p] # "idle" /\ UNCHANGED <<disk, acked>>
    BY <1>1 DEF WriteFails, DirectoryGone, WriteSteps, Throw
  <2>2. FaultTypes'
    BY <1>1 DEF WriteFails, DirectoryGone, FaultTypes, faults
  <2> QED BY <2>1, <2>2, ThrowFits, TypesCompose
<1>2. CASE Crash(p)
  <2>1. seen' \in [Processes -> Seq(Processes)] /\ \A q \in Processes \ {p} : seen'[q] = seen[q]
    BY <1>2, EmptySeq, SeenFits DEF Crash, TypeInv
  <2>2. DiskTypes' /\ FaultTypes'
    BY <1>2 DEF Crash, DiskTypes, FaultTypes, OneChange
  <2> QED BY <1>2, <2>1, <2>2, ReturnFits, TypesCompose DEF Crash
<1> QED BY <1>1, <1>2

LEMMA StepTypes == TypeInv /\ [Next]_vars => TypeInv'
<1> SUFFICES ASSUME TypeInv, [Next]_vars PROVE TypeInv'
  OBVIOUS
<1>1. CASE UNCHANGED vars
  BY <1>1 DEF vars, disk, local, faults, TypeInv, Types, CallFits, OneChange
<1>2. CASE Next
  BY <1>2, StartTypes, LockingTypes, RecoveryTypes, CommitTypes, FaultsTypes
  DEF Next, Continue
<1> QED BY <1>1, <1>2

\* The store's variables have their types, whatever crashes, fails or races.
THEOREM StoreTypesAreCorrect == Spec => []TypeOK
<1>1. TypeInv => TypeOK
  BY TransactionIsThere DEF TypeInv, Types, TypeOK, Maps
<1> QED BY <1>1, InitTypes, StepTypes, PTL DEF Spec

-----------------------------------------------------------------------------
(* What holds as long as neither race happened: of a call of p ...         *)

\* Before the first journal there is nobody but a creator.
Early(p) ==
  Committed = <<>> /\ pc[p] # "idle" => op[p] = "create" /\ pc[p] \in {"commit", "cleanup"}

LockIsOwn(p) == Locked(p) => lock = p

\* A create that has written its journal has it until it clears it.
CreateFits(p) ==
  op[p] = "create" =>
    /\ pc[p] = "commit" => Committed = <<>> /\ tx[p].before = <<>>
    /\ pc[p] \in {"recover"} \cup Applying => txn # None
    /\ pc[p] = "cleanup" => txn # None \/ Committed = <<>>

\* Whoever applies a journal applies the one on disk, or that of a create which
\* cleared it meanwhile, and has written what it is past.
ApplyFits(p) ==
  pc[p] \in Applying =>
    /\ txn = tx[p] \/ (txn = None /\ map = tx[p].map)
    /\ pc[p] # "event" => events # <<>> /\ Last(events) = tx[p].map
    /\ pc[p] \in {"map", "pointer", "clear"} => markdown = tx[p].map
    /\ pc[p] \in {"pointer", "clear"} => map = tx[p].map

\* An update is a change of the map on disk, which is the one its caller saw.
UpdateFits(p) ==
  op[p] # "create" =>
    /\ pc[p] \in {"read", "commit"} => txn = None
    /\ pc[p] = "commit" => tx[p].before = map /\ tx[p].before = seen[p]

\* What p knows of the map stays in it.
Knows(p) ==
  /\ IsPrefix(mine[p], Committed) /\ IsPrefix(seen[p], Committed)
  /\ op[p] = "update" /\ mine[p] # <<>> => Front(mine[p]) = seen[p]
  /\ op[p] = "none" => mine[p] = <<>>

CallInv(p) ==
  Early(p) /\ LockIsOwn(p) /\ CreateFits(p) /\ ApplyFits(p) /\ UpdateFits(p) /\ Knows(p)

(* ... and of the files.                                                   *)

Blank ==
  Committed = <<>> =>
    lock = None /\ events = <<>> /\ markdown = <<>> /\ map = <<>> /\ ~pointer

Recoverable ==
  txn # None =>
    /\ map \in {txn.before, txn.map}
    /\ \/ events = <<>> /\ txn.before = <<>>
       \/ events # <<>> /\ Last(events) \in {txn.before, txn.map}

Agree ==
  /\ txn = None /\ map # <<>> => markdown = map /\ events # <<>> /\ Last(events) = map
  /\ Committed # <<>> => dir

History ==
  \A i \in DOMAIN events :
    /\ Revision(events[i]) = i
    /\ i > 1 => events[i - 1] = Front(events[i])

Acknowledged == \A m \in acked : IsPrefix(m, Committed)

FilesInv == Blank /\ Recoverable /\ Agree /\ History /\ Acknowledged

StoreInv == FilesInv /\ \A p \in Processes : CallInv(p)

Inv == TypeInv /\ (broken = {} => StoreInv)

\* A call of another process than the one that steps is undisturbed.
LEMMA Undisturbed ==
  ASSUME NEW p \in Processes, NEW q \in Processes \ {p}, Leaves(p), CallInv(q),
         UNCHANGED <<txn, events, markdown, map>>, Locked(q) => lock' = q
  PROVE  CallInv(q)'
<1>1. /\ pc'[q] = pc[q] /\ op'[q] = op[q] /\ tx'[q] = tx[q] /\ mine'[q] = mine[q]
      /\ seen'[q] = seen[q]
  BY DEF Leaves
<1>2. Committed' = Committed
  BY DEF Committed
<1>3. Early(q)' /\ CreateFits(q)' /\ UpdateFits(q)' /\ Knows(q)'
  BY <1>1, <1>2 DEF CallInv, Early, CreateFits, UpdateFits, Knows
<1>4. ApplyFits(q)'
  BY <1>1 DEF CallInv, ApplyFits
<1>5. LockIsOwn(q)'
  BY <1>1 DEF CallInv, LockIsOwn, Locked
<1> QED BY <1>3, <1>4, <1>5 DEF CallInv

\* A step that writes no file but the lock.
LEMMA OnlyTheLock ==
  ASSUME StoreInv, NEW p \in Processes, Leaves(p), CallInv(p)',
         UNCHANGED <<dir, txn, events, markdown, map, pointer>>,
         \A q \in Processes \ {p} : Locked(q) => lock' = q,
         lock = None => lock' = None \/ Committed # <<>>,
         Acknowledged'
  PROVE  StoreInv'
<1>1. \A q \in Processes \ {p} : CallInv(q)'
  BY Undisturbed DEF StoreInv
<1>2. Committed' = Committed
  BY DEF Committed
<1>3. Blank' /\ Recoverable' /\ Agree' /\ History'
  BY <1>2 DEF StoreInv, FilesInv, Blank, Recoverable, Agree, History
<1> QED BY <1>1, <1>3 DEF StoreInv, FilesInv

LEMMA CommittedIsAMap ==
  ASSUME TypeInv
  PROVE  Committed \in Seq(Processes) /\ (txn # None => Committed # <<>>)
<1>1. CASE txn = None
  BY <1>1 DEF Committed, TypeInv, Types, Maps
<1>2. CASE txn # None
  <2>1. txn \in Transactions /\ OneChange(txn)
    BY <1>2 DEF TypeInv, Types
  <2>2. PICK q \in Processes : txn.map = Append(txn.before, q)
    BY <2>1 DEF OneChange
  <2> QED BY <1>2, <2>1, <2>2, TransactionIsThere, AppendedMap DEF Committed
<1> QED BY <1>1, <1>2

LEMMA ReturnKeeps ==
  ASSUME TypeInv, StoreInv, NEW p \in Processes, Return(p), UNCHANGED <<txn, map>>,
         IsPrefix(seen'[p], Committed)
  PROVE  CallInv(p)'
<1>1. pc'[p] = "idle" /\ op'[p] = "none" /\ mine'[p] = <<>>
  BY DEF Return, Goto, TypeInv, Types
<1>2. Committed' = Committed /\ IsPrefix(<<>>, Committed)
  BY CommittedIsAMap, PrefixOfItself DEF Committed
<1> QED BY <1>1, <1>2 DEF CallInv, Early, LockIsOwn, Locked, CreateFits, ApplyFits, UpdateFits,
                          Knows, Applying, WriteSteps

LEMMA ThrowKeeps ==
  ASSUME TypeInv, StoreInv, NEW p \in Processes, Throw(p), UNCHANGED <<txn, map, lock>>,
         pc[p] \in {"recover", "read"} \cup WriteSteps
  PROVE  CallInv(p)'
<1>1. /\ pc'[p] = IF op[p] = "create" THEN "cleanup" ELSE "release"
      /\ mine'[p] = <<>> /\ op'[p] = op[p] /\ seen'[p] = seen[p]
  BY DEF Throw, Goto, TypeInv, Types
<1>2. Committed' = Committed /\ IsPrefix(<<>>, Committed)
  BY CommittedIsAMap, PrefixOfItself DEF Committed
<1>3. CallInv(p) /\ CallFits(p)
  BY DEF StoreInv, TypeInv
<1>4. Early(p)' /\ CreateFits(p)'
  BY <1>1, <1>2, <1>3 DEF CallInv, CallFits, Early, CreateFits, Applying, WriteSteps
<1>5. LockIsOwn(p)'
  BY <1>1, <1>3 DEF CallInv, LockIsOwn, Locked
<1>6. ApplyFits(p)' /\ UpdateFits(p)' /\ Knows(p)'
  BY <1>1, <1>2, <1>3 DEF CallInv, ApplyFits, UpdateFits, Knows, Applying
<1> QED BY <1>4, <1>5, <1>6 DEF CallInv

LEMMA AfterRecoveryKeeps ==
  ASSUME TypeInv, StoreInv, NEW p \in Processes, AfterRecovery(p),
         pc[p] \in {"recover", "clear"}, Committed' = Committed, lock' = lock,
         txn' = None, Committed # <<>>
  PROVE  CallInv(p)' /\ Acknowledged' /\ ProcessesFit(p)
<1>1. CallInv(p) /\ Acknowledged /\ Types /\ CallFits(p)
  BY DEF StoreInv, FilesInv, TypeInv
<1>2. IsPrefix(mine[p], Committed) /\ IsPrefix(<<>>, Committed)
  BY <1>1, CommittedIsAMap, PrefixOfItself DEF CallInv, Knows
<1>3. CASE op[p] = "create"
  <2>1. /\ pc'[p] = "idle" /\ op'[p] = "none" /\ mine'[p] = <<>> /\ seen'[p] = mine[p]
        /\ acked' = acked \cup {mine[p]}
    BY <1>1, <1>3 DEF AfterRecovery, Return, Goto, Types
  <2> QED BY <1>1, <1>2, <2>1, AfterRecoveryFits
          DEF CallInv, Early, LockIsOwn, Locked, CreateFits, ApplyFits, UpdateFits, Knows,
              Applying, WriteSteps, Acknowledged
<1>4. CASE op[p] # "create"
  <2>1. /\ pc'[p] \in {"release", "read"} /\ UNCHANGED <<op, mine, acked, seen>>
    BY <1>1, <1>4 DEF AfterRecovery, Goto, Types
  <2>2. Locked(p)
    BY <1>4 DEF Locked, WriteSteps
  <2> QED BY <1>1, <1>2, <1>4, <2>1, <2>2, AfterRecoveryFits
          DEF CallInv, Early, LockIsOwn, CreateFits, ApplyFits, UpdateFits, Knows,
              Applying, Acknowledged
<1> QED BY <1>3, <1>4

LEMMA StartKeeps ==
  ASSUME TypeInv, StoreInv, NEW p \in Processes, Start(p)
  PROVE  StoreInv'
<1>1. CallInv(p) /\ Types /\ CallFits(p) /\ FilesInv
  BY DEF StoreInv, TypeInv
<1>2. Committed' = Committed /\ Acknowledged' /\ lock' = lock
  BY <1>1 DEF Start, StartCreate, StartOpen, StartRead, StartUpdate, disk, Committed,
              FilesInv, Acknowledged
<1>3. CASE StartCreate(p)
  <2>1. Committed = <<>> /\ pc'[p] = "commit" /\ op'[p] = "create" /\ Leaves(p)
        /\ mine' = mine /\ seen' = seen /\ tx'[p].before = <<>>
    BY <1>1, <1>3 DEF StartCreate, FilesInv, Agree, Goto, Types, Leaves
  <2>2. CallInv(p)'
    BY <1>1, <1>2, <2>1 DEF CallInv, Early, LockIsOwn, Locked, CreateFits, ApplyFits,
                            UpdateFits, Knows, Applying
  <2>3. \A q \in Processes \ {p} : CallInv(q)'
    BY <1>2, <1>3, <2>1, Undisturbed DEF StoreInv, StartCreate, CallInv, LockIsOwn
  <2>4. FilesInv'
    BY <1>1, <1>2, <1>3 DEF FilesInv, StartCreate, Blank, Recoverable, Agree, History
  <2> QED BY <2>2, <2>3, <2>4 DEF StoreInv
<1>4. CASE StartOpen(p) \/ StartRead(p) \/ StartUpdate(p)
  <2>1. /\ pc'[p] = "lock" /\ op'[p] \in {"open", "read", "update"} /\ Leaves(p)
        /\ UNCHANGED <<disk, mine, seen>>
    BY <1>1, <1>4 DEF StartOpen, StartRead, StartUpdate, Goto, Types, Leaves
  <2>2. Committed # <<>>
    BY <1>1, <1>4, CommittedIsAMap DEF StartOpen, StartRead, StartUpdate, FilesInv, Blank
  <2>3. op[p] = "none" /\ pc[p] = "idle"
    BY <1>1, <1>4 DEF StartOpen, StartRead, StartUpdate, CallFits
  <2>4. mine[p] = <<>>
    BY <1>1, <2>3 DEF CallInv, Knows
  <2>5. CallInv(p)'
    BY <1>1, <1>2, <2>1, <2>2, <2>4 DEF CallInv, Early, LockIsOwn, Locked, CreateFits,
                            ApplyFits, UpdateFits, Knows, Applying, WriteSteps
  <2> QED BY <1>2, <2>1, <2>5, OnlyTheLock DEF disk, StoreInv, CallInv, LockIsOwn
<1> QED BY <1>3, <1>4 DEF Start

LEMMA LockingKeeps ==
  ASSUME TypeInv, StoreInv, NEW p \in Processes, broken' = {},
         \/ AcquireLock(p) \/ FindLock(p) \/ FindOwner(p) \/ ReadOwner(p) \/ StealLock(p)
         \/ ReleaseLock(p)
  PROVE  StoreInv'
<1>1. CallInv(p) /\ Types /\ CallFits(p) /\ Acknowledged /\ p # None
  BY DEF StoreInv, TypeInv, FilesInv
<1>2. /\ UNCHANGED <<dir, txn, events, markdown, map, pointer>> /\ Committed' = Committed
  BY DEF AcquireLock, FindLock, FindOwner, ReadOwner, StealLock, ReleaseLock, disk, Committed
<1>3. \A q \in Processes : Locked(q) => lock = q
  BY DEF StoreInv, CallInv, LockIsOwn
<1>4. IsPrefix(seen[p], Committed) /\ IsPrefix(mine[p], Committed)
  BY <1>1 DEF CallInv, Knows
<1>5. CASE ReleaseLock(p)
  <2>1. op[p] # "create" /\ Locked(p) /\ lock = p
    BY <1>1, <1>3, <1>5 DEF ReleaseLock, CallFits, Locked, Applying
  <2>2. /\ lock' = None /\ Return(p) /\ acked' \subseteq acked \cup {mine[p]}
        /\ seen' = [seen EXCEPT ![p] = IF mine[p] # <<>> THEN mine[p] ELSE seen[p]]
    BY <1>5, <2>1 DEF ReleaseLock
  <2>3. seen'[p] \in {mine[p], seen[p]} /\ Acknowledged' /\ Leaves(p)
    BY <1>1, <1>2, <1>4, <2>2 DEF Types, Acknowledged, Leaves, Return, Goto
  <2>4. CallInv(p)'
    BY <1>2, <1>4, <2>2, <2>3, ReturnKeeps
  <2> QED BY <1>2, <1>3, <2>1, <2>2, <2>3, <2>4, OnlyTheLock
<1>6. ASSUME pc[p] \in Asking, lock' = lock \/ lock = None \/ lock = Dead,
             \/ GiveUp(p) /\ lock' = lock
             \/ /\ UNCHANGED local
                /\ \E step \in Asking \cup {"recover"} :
                     Goto(p, step) /\ (step = "recover" => lock' = p)
                /\ lock' \in {lock, None, p},
             acked' = acked
      PROVE  StoreInv'
  <2>1. /\ op[p] # "create" /\ op[p] # "none" /\ pc[p] # "idle" /\ Committed # <<>>
    BY <1>1, <1>6 DEF CallFits, Asking, Applying, CallInv, Early
  <2>2. \A q \in Processes \ {p} : Locked(q) => lock' = q
    BY <1>3, <1>6
  <2>3. Acknowledged'
    BY <1>1, <1>2, <1>6 DEF Acknowledged
  <2>4. CASE GiveUp(p) /\ lock' = lock
    <3>1. Leaves(p) /\ CallInv(p)'
      BY <1>1, <1>2, <1>4, <2>4, GiveUpFits, ReturnKeeps DEF GiveUp, ProcessesFit
    <3> QED BY <1>2, <2>1, <2>2, <2>3, <3>1, OnlyTheLock
  <2>5. CASE /\ UNCHANGED local
             /\ \E step \in Asking \cup {"recover"} :
                  Goto(p, step) /\ (step = "recover" => lock' = p)
    <3>1. PICK step \in Asking \cup {"recover"} :
            Goto(p, step) /\ (step = "recover" => lock' = p)
      BY <2>5
    <3>2. pc'[p] = step /\ Leaves(p) /\ UNCHANGED local
      BY <1>1, <2>5, <3>1 DEF Goto, Types, Leaves, local
    <3>3. CallInv(p)'
      BY <1>1, <1>2, <2>1, <3>1, <3>2
      DEF CallInv, Early, LockIsOwn, Locked, CreateFits, ApplyFits, UpdateFits, Knows,
          Applying, WriteSteps, Asking, local
    <3> QED BY <1>2, <2>1, <2>2, <2>3, <3>2, <3>3, OnlyTheLock
  <2> QED BY <1>6, <2>4, <2>5
<1>7. CASE AcquireLock(p)
  BY <1>6, <1>7 DEF AcquireLock, Asking
<1>8. CASE FindLock(p) \/ FindOwner(p) \/ ReadOwner(p)
  <2>1. lock' = lock /\ acked' = acked /\ pc[p] \in Asking
    BY <1>8 DEF FindLock, FindOwner, ReadOwner, disk, Asking
  <2>2. \/ GiveUp(p)
        \/ UNCHANGED local /\ \E step \in Asking : Goto(p, step)
    BY <1>8 DEF FindLock, FindOwner, ReadOwner, Asking
  <2> QED BY <1>6, <2>1, <2>2 DEF Asking
<1>9. CASE StealLock(p)
  <2>1. pc[p] \in Asking /\ acked' = acked
    BY <1>9 DEF StealLock, Asking
  <2>2. \/ GiveUp(p) /\ lock' = lock
        \/ lock' = None /\ lock = Dead /\ Goto(p, "lock") /\ UNCHANGED local
    BY <1>9 DEF StealLock
  <2> QED BY <1>6, <2>1, <2>2 DEF Asking
<1> QED BY <1>5, <1>7, <1>8, <1>9

LEMMA FindTransactionKeeps ==
  ASSUME TypeInv, StoreInv, NEW p \in Processes, FindTransaction(p)
  PROVE  StoreInv'
<1>1. CallInv(p) /\ Types /\ CallFits(p) /\ Acknowledged
  BY DEF StoreInv, TypeInv, FilesInv
<1>2. /\ UNCHANGED <<dir, lock, txn, events, markdown, map, pointer>> /\ Committed' = Committed
      /\ Committed # <<>> /\ pc[p] = "recover"
  BY <1>1 DEF FindTransaction, disk, Committed, CallInv, Early
<1>3. \A q \in Processes \ {p} : Locked(q) => lock' = q
  BY <1>2 DEF StoreInv, CallInv, LockIsOwn
<1>4. CASE txn = None /\ AfterRecovery(p)
  BY <1>2, <1>3, <1>4, AfterRecoveryKeeps, OnlyTheLock DEF ProcessesFit
<1>5. CASE /\ txn # None /\ tx' = [tx EXCEPT ![p] = txn] /\ Goto(p, "event")
           /\ UNCHANGED <<mine, op, seen, acked>>
  <2>1. pc'[p] = "event" /\ tx'[p] = txn /\ Leaves(p)
    BY <1>1, <1>5 DEF Goto, Types, Leaves
  <2>2. CallInv(p)'
    BY <1>1, <1>2, <1>5, <2>1 DEF CallInv, Early, LockIsOwn, Locked, CreateFits, ApplyFits,
                                  UpdateFits, Knows, Applying, WriteSteps
  <2>3. Acknowledged'
    BY <1>1, <1>2, <1>5 DEF Acknowledged
  <2> QED BY <1>2, <1>3, <2>1, <2>2, <2>3, OnlyTheLock
<1>6. CASE Throw(p)
  <2>1. Acknowledged' /\ Leaves(p)
    BY <1>1, <1>2, <1>6, ThrowFits DEF Acknowledged, Throw, ProcessesFit
  <2> QED BY <1>2, <1>3, <1>6, <2>1, ThrowKeeps, OnlyTheLock
<1> QED BY <1>4, <1>5, <1>6 DEF FindTransaction

LEMMA ThrowKeepsStore ==
  ASSUME TypeInv, StoreInv, NEW p \in Processes, Throw(p), UNCHANGED disk,
         pc[p] \in {"recover", "read"} \cup WriteSteps
  PROVE  StoreInv'
<1>1. /\ UNCHANGED <<dir, lock, txn, events, markdown, map, pointer>> /\ Committed' = Committed
  BY DEF disk, Committed
<1>2. \A q \in Processes \ {p} : Locked(q) => lock' = q
  BY <1>1 DEF StoreInv, CallInv, LockIsOwn
<1>3. Acknowledged' /\ Leaves(p)
  BY <1>1, ThrowFits DEF Acknowledged, Throw, ProcessesFit, StoreInv, FilesInv, WriteSteps
<1> QED BY <1>1, <1>2, <1>3, ThrowKeeps, OnlyTheLock

\* All who apply a journal apply the same one.
LEMMA SameTarget ==
  ASSUME TypeInv, StoreInv, NEW p \in Processes, NEW q \in Processes,
         pc[p] \in Applying, pc[q] \in Applying
  PROVE  /\ tx[p].map = tx[q].map
         /\ IF txn = None THEN map = tx[p].map ELSE txn = tx[p]
BY DEF TypeInv, CallFits, StoreInv, CallInv, ApplyFits

\* A write that brings a file to what the journal says.
LEMMA WriteKeeps ==
  ASSUME TypeInv, StoreInv, NEW p \in Processes, pc[p] \in Applying,
         NEW step \in Applying \ {"event"}, Goto(p, step), UNCHANGED local, acked' = acked,
         UNCHANGED <<dir, lock, txn>>,
         map' \in {map, tx[p].map}, markdown' \in {markdown, tx[p].map},
         events' = events \/ (events' # <<>> /\ Last(events') = tx[p].map),
         pointer' # pointer => Committed # <<>>,
         events' # <<>> /\ Last(events') = tx[p].map,
         step \in {"map", "pointer", "clear"} => markdown' = tx[p].map,
         step \in {"pointer", "clear"} => map' = tx[p].map,
         History'
  PROVE  StoreInv'
<1>1. CallInv(p) /\ Types /\ CallFits(p) /\ FilesInv
  BY DEF StoreInv, TypeInv
<1>2. pc'[p] = step /\ Leaves(p)
  BY <1>1 DEF Goto, Types, Leaves, local
<1>3. IF txn = None THEN map = tx[p].map ELSE txn = tx[p]
  BY SameTarget
<1>4. Committed' = Committed /\ Committed # <<>>
  BY <1>1, <1>3 DEF Committed, CallInv, Early, Applying
<1>5. CallInv(p)'
  BY <1>1, <1>2, <1>3, <1>4
  DEF CallInv, Early, LockIsOwn, Locked, CreateFits, ApplyFits, UpdateFits, Knows, Applying,
      WriteSteps, local
<1>6. ASSUME NEW q \in Processes \ {p} PROVE CallInv(q)'
  <2>1. /\ pc'[q] = pc[q] /\ UNCHANGED local /\ CallInv(q)
    BY <1>2 DEF Leaves, StoreInv
  <2>2. Early(q)' /\ LockIsOwn(q)' /\ CreateFits(q)' /\ Knows(q)'
    BY <1>4, <2>1 DEF CallInv, Early, LockIsOwn, Locked, CreateFits, Knows, local
  <2>3. ApplyFits(q)'
    <3>1. CASE pc[q] \in Applying
      <4>1. tx[p].map = tx[q].map
        BY <3>1, SameTarget
      <4> QED BY <1>3, <2>1, <4>1 DEF CallInv, ApplyFits, local
    <3> QED BY <2>1, <3>1 DEF ApplyFits
  <2>4. UpdateFits(q)'
    <3>1. CASE txn = None
      BY <1>3, <2>1, <3>1 DEF CallInv, UpdateFits, local
    <3>2. CASE txn # None
      BY <2>1, <3>2 DEF CallInv, UpdateFits, local
    <3> QED BY <3>1, <3>2
  <2> QED BY <2>2, <2>3, <2>4 DEF CallInv
<1>7. FilesInv'
  BY <1>1, <1>3, <1>4 DEF FilesInv, Blank, Recoverable, Agree, Acknowledged
<1> QED BY <1>5, <1>6, <1>7 DEF StoreInv

\* The log grows by the event that follows its last one, or not at all.
LEMMA EventIsNext ==
  ASSUME TypeInv, StoreInv, NEW p \in Processes, WriteEvent(p), ~Throw(p)
  PROVE  events' # <<>> /\ Last(events') = tx[p].map /\ History'
<1> DEFINE new == tx[p].map
           logged == {e \in ToSet(events) : Revision(e) = Revision(new)}
<1>1. pc[p] \in Applying /\ tx[p] \in Transactions /\ OneChange(tx[p]) /\ Types
  BY DEF WriteEvent, Applying, TypeInv, Types, CallFits
<1>2. PICK r \in Processes : new = Append(tx[p].before, r)
  BY <1>1 DEF OneChange
<1>3. /\ tx[p].before \in Seq(Processes) /\ new \in Seq(Processes) /\ new # <<>>
      /\ Revision(new) = Revision(tx[p].before) + 1 /\ Front(new) = tx[p].before
      /\ Revision(tx[p].before) \in Nat
  BY <1>1, <1>2, TransactionIsThere, AppendedMap, LenProperties DEF Revision
<1>4. /\ events \in Seq(Seq(Processes)) /\ Len(events) \in Nat /\ DOMAIN events = 1 .. Len(events)
      /\ events # <<>> => Len(events) \in DOMAIN events
  BY <1>1, LenProperties, EmptySeq DEF Types
<1>5. \A i \in DOMAIN events :
        Revision(events[i]) = i /\ (i > 1 => events[i - 1] = Front(events[i]))
  BY DEF StoreInv, FilesInv, History
<1>6. \A e \in logged : \E i \in DOMAIN events : e = events[i] /\ i = Revision(new)
  BY <1>5 DEF ToSet
<1>7. IF txn = None THEN map = new ELSE txn = tx[p]
  BY <1>1, SameTarget
<1>8. \/ events = <<>> /\ tx[p].before = <<>>
      \/ events # <<>> /\ Last(events) \in {tx[p].before, new}
  BY <1>3, <1>7 DEF StoreInv, FilesInv, Recoverable, Agree
<1>9. CASE logged = {}
  <2>1. events = <<>> \/ Last(events) # new
    BY <1>4, <1>9 DEF Last, ToSet
  <2>2. IF events = <<>> THEN tx[p].before = <<>> ELSE Last(events) = tx[p].before
    BY <1>8, <2>1
  <2>3. Len(events) = Revision(tx[p].before)
    BY <1>4, <1>5, <2>2, EmptySeq DEF Last, Revision
  <2>4. events' = Append(events, new)
    BY <1>9 DEF WriteEvent
  <2>5. /\ events' \in Seq(Seq(Processes)) /\ events' # <<>> /\ Len(events') = Len(events) + 1
        /\ \A i \in 1 .. Len(events) : events'[i] = events[i]
        /\ events'[Len(events) + 1] = new
    BY <1>3, <1>4, <2>4, AppendProperties
  <2>6. DOMAIN events' = 1 .. Len(events) + 1
    BY <2>5, LenProperties
  <2>7. History'
    <3> SUFFICES ASSUME NEW i \in 1 .. Len(events) + 1
                 PROVE  /\ Revision(events'[i]) = i
                        /\ i > 1 => events'[i - 1] = Front(events'[i])
      BY <2>6 DEF History
    <3>1. CASE i \in 1 .. Len(events)
      <4>1. events'[i] = events[i] /\ i \in DOMAIN events
        BY <1>4, <2>5, <3>1
      <4>2. i > 1 => events'[i - 1] = events[i - 1]
        <5>1. i > 1 => i - 1 \in 1 .. Len(events)
          BY <1>4, <3>1
        <5> QED BY <2>5, <5>1
      <4> QED BY <1>5, <4>1, <4>2
    <3>2. CASE i = Len(events) + 1
      <4>1. events'[i] = new /\ Revision(new) = i
        BY <1>3, <2>3, <2>5, <3>2
      <4>2. i > 1 => events # <<>> /\ i - 1 = Len(events)
        BY <1>4, <3>2, EmptySeq
      <4>3. i > 1 => events'[i - 1] = tx[p].before
        BY <1>4, <2>2, <2>5, <4>2 DEF Last
      <4> QED BY <1>3, <4>1, <4>3
    <3> QED BY <1>4, <3>1, <3>2
  <2>8. Last(events') = new
    BY <2>5 DEF Last
  <2> QED BY <2>5, <2>7, <2>8
<1>10. CASE logged # {}
  <2>1. events' = events
    BY <1>10 DEF WriteEvent
  <2>2. PICK i \in DOMAIN events : i = Revision(new) /\ events[i] \in logged
    BY <1>6, <1>10
  <2>3. logged = {new}
    BY <1>10 DEF WriteEvent
  <2>4. events # <<>> /\ events[i] = new /\ Last(events) \in {tx[p].before, new}
    BY <1>4, <1>8, <2>2, <2>3, EmptySeq
  <2>5. Last(events) # tx[p].before
    BY <1>3, <1>4, <1>5, <2>2, <2>4 DEF Last
  <2> QED BY <2>1, <2>4, <2>5 DEF StoreInv, FilesInv, History
<1> QED BY <1>9, <1>10

LEMMA WritingKeeps ==
  ASSUME TypeInv, StoreInv, NEW p \in Processes,
         WriteEvent(p) \/ WriteMarkdown(p) \/ WriteMap(p) \/ WritePointer(p)
  PROVE  StoreInv'
<1>1. CallInv(p) /\ Types /\ CallFits(p) /\ FilesInv /\ pc[p] \in Applying
  BY DEF StoreInv, TypeInv, WriteEvent, WriteMarkdown, WriteMap, WritePointer, Applying
<1>2. Committed # <<>>
  BY <1>1 DEF CallInv, Early, Applying
<1>3. events' = events => History'
  BY <1>1 DEF FilesInv, History
<1>4. CASE WriteEvent(p)
  <2>1. CASE Throw(p)
    <3>1. events' = events
      BY <1>4, <2>1, <1>1 DEF WriteEvent, Throw, Goto, Types, Applying
    <3> QED BY <1>4, <2>1, <3>1, ThrowKeepsStore DEF WriteEvent, WriteSteps, disk
  <2>2. CASE ~Throw(p)
    BY <1>1, <1>4, <2>2, EventIsNext, WriteKeeps DEF WriteEvent, Applying
  <2> QED BY <2>1, <2>2
<1>5. CASE WriteMarkdown(p)
  BY <1>1, <1>3, <1>5, WriteKeeps DEF WriteMarkdown, CallInv, ApplyFits, Applying
<1>6. CASE WriteMap(p)
  BY <1>1, <1>3, <1>6, WriteKeeps DEF WriteMap, CallInv, ApplyFits, Applying
<1>7. CASE WritePointer(p)
  BY <1>1, <1>2, <1>3, <1>7, WriteKeeps DEF WritePointer, CallInv, ApplyFits, Applying
<1> QED BY <1>4, <1>5, <1>6, <1>7

LEMMA ClearKeeps ==
  ASSUME TypeInv, StoreInv, NEW p \in Processes, ClearTransaction(p), broken' = {}
  PROVE  StoreInv'
<1>1. CallInv(p) /\ Types /\ CallFits(p) /\ FilesInv /\ pc[p] = "clear" /\ pc[p] \in Applying
  BY DEF StoreInv, TypeInv, ClearTransaction, Applying
<1>2. Committed # <<>> /\ UNCHANGED <<dir, lock, events, markdown, map, pointer>>
  BY <1>1 DEF CallInv, Early, ClearTransaction
<1>3. CASE txn = None
  <2>1. Throw(p) /\ UNCHANGED disk
    BY <1>2, <1>3 DEF ClearTransaction, disk
  <2> QED BY <1>1, <2>1, ThrowKeepsStore DEF WriteSteps
<1>4. CASE txn # None
  <2>1. txn' = None /\ AfterRecovery(p) /\ broken = {}
        /\ ~(p # Creator /\ op[Creator] = "create" /\ pc[Creator] \notin {"idle", "commit"})
    BY <1>4 DEF ClearTransaction
  <2>2. /\ map = tx[p].map /\ txn = tx[p] /\ markdown = map /\ events # <<>>
        /\ Last(events) = map
    BY <1>1, <1>4 DEF CallInv, ApplyFits
  <2>3. Committed' = Committed
    BY <1>2, <1>4, <2>1, <2>2 DEF Committed
  <2>4. CallInv(p)' /\ Acknowledged' /\ ProcessesFit(p)
    BY <1>1, <1>2, <2>1, <2>3, AfterRecoveryKeeps
  <2>5. ASSUME NEW q \in Processes \ {p} PROVE CallInv(q)'
    <3>1. /\ pc'[q] = pc[q] /\ op'[q] = op[q] /\ tx'[q] = tx[q] /\ mine'[q] = mine[q]
          /\ seen'[q] = seen[q] /\ CallInv(q) /\ CallFits(q)
      BY <2>4 DEF ProcessesFit, Leaves, StoreInv, TypeInv
    <3>2. op[q] # "create"
      BY <1>2, <2>1, <3>1 DEF CallFits, CallInv, CreateFits
    <3>3. Early(q)' /\ LockIsOwn(q)' /\ CreateFits(q)' /\ Knows(q)' /\ UpdateFits(q)'
      BY <1>2, <1>4, <2>1, <2>3, <3>1, <3>2
      DEF CallInv, Early, LockIsOwn, Locked, CreateFits, Knows, UpdateFits
    <3>4. ApplyFits(q)'
      <4>1. pc[q] \in Applying => tx[q].map = map
        BY <1>1, <2>2, SameTarget
      <4> QED BY <1>2, <2>1, <3>1, <4>1 DEF CallInv, ApplyFits
    <3> QED BY <3>3, <3>4 DEF CallInv
  <2>6. FilesInv'
    BY <1>1, <1>2, <2>1, <2>2, <2>3, <2>4
    DEF FilesInv, Blank, Recoverable, Agree, History
  <2> QED BY <2>4, <2>5, <2>6 DEF StoreInv
<1> QED BY <1>3, <1>4

LEMMA ReadKeeps ==
  ASSUME TypeInv, StoreInv, NEW p \in Processes, ReadMap(p)
  PROVE  StoreInv'
<1>1. CallInv(p) /\ Types /\ CallFits(p) /\ Acknowledged /\ pc[p] = "read"
  BY DEF StoreInv, TypeInv, FilesInv, ReadMap
<1>2. /\ UNCHANGED <<dir, lock, txn, events, markdown, map, pointer>> /\ Committed' = Committed
  BY DEF ReadMap, disk, Committed
<1>3. Committed = map /\ Committed # <<>> /\ op[p] # "create" /\ Locked(p) /\ txn = None
  BY <1>1 DEF CallFits, CallInv, UpdateFits, Early, Committed, Locked, Applying
<1>4. \A q \in Processes \ {p} : Locked(q) => lock' = q
  BY <1>2 DEF StoreInv, CallInv, LockIsOwn
<1>5. CASE Throw(p)
  BY <1>2, <1>1, <1>5, ThrowKeepsStore DEF disk
<1>6. CASE /\ op[p] = "read" /\ mine' = [mine EXCEPT ![p] = map] /\ Goto(p, "release")
           /\ UNCHANGED <<op, tx, seen, acked>>
  <2>1. pc'[p] = "release" /\ mine'[p] = map /\ Leaves(p)
    BY <1>1, <1>6 DEF Goto, Types, Leaves
  <2>2. IsPrefix(map, Committed)
    BY <1>3, CommittedIsAMap, PrefixOfItself
  <2>3. CallInv(p)' /\ Acknowledged'
    BY <1>1, <1>2, <1>3, <1>6, <2>1, <2>2
    DEF CallInv, Early, LockIsOwn, Locked, CreateFits, ApplyFits, UpdateFits, Knows,
        Applying, Acknowledged
  <2> QED BY <1>2, <1>4, <2>1, <2>3, OnlyTheLock
<1>7. CASE /\ op[p] = "update" /\ Revision(seen[p]) = Revision(map)
           /\ tx' = [tx EXCEPT ![p] =
                      [before |-> map, map |-> Append(map, p), create |-> FALSE]]
           /\ Goto(p, "commit") /\ UNCHANGED <<op, mine, seen, acked>>
  <2>1. pc'[p] = "commit" /\ tx'[p].before = map /\ Leaves(p)
    BY <1>1, <1>7 DEF Goto, Types, Leaves
  <2>2. seen[p] = map
    BY <1>1, <1>3, <1>7, CommittedIsAMap, PrefixOfSameRevision DEF CallInv, Knows, Types
  <2>3. CallInv(p)' /\ Acknowledged'
    BY <1>1, <1>2, <1>3, <1>7, <2>1, <2>2
    DEF CallInv, Early, LockIsOwn, Locked, CreateFits, ApplyFits, UpdateFits, Knows,
        Applying, WriteSteps, Acknowledged
  <2> QED BY <1>2, <1>4, <2>1, <2>3, OnlyTheLock
<1> QED BY <1>5, <1>6, <1>7 DEF ReadMap

LEMMA CommitKeeps ==
  ASSUME TypeInv, StoreInv, NEW p \in Processes, CommitTransaction(p)
  PROVE  StoreInv' /\ \E r \in Processes : Committed' = Append(Committed, r)
<1>1. CallInv(p) /\ Types /\ CallFits(p) /\ FilesInv /\ pc[p] = "commit"
  BY DEF StoreInv, TypeInv, CommitTransaction
<1>2. /\ UNCHANGED <<dir, lock, events, markdown, map, pointer, op, tx, seen, acked>>
      /\ txn' = tx[p] /\ dir
  BY DEF CommitTransaction
<1>3. tx[p] \in Transactions /\ OneChange(tx[p]) /\ tx[p] # None
  BY <1>1 DEF CallFits, Types, TypeInv
<1>4. /\ txn = None /\ tx[p].before = map /\ Committed = map
      /\ op[p] # "create" => tx[p].before = seen[p] /\ Locked(p) /\ Committed # <<>>
      /\ op[p] = "create" => Committed = <<>>
  <2>1. CASE op[p] = "create"
    <3>1. Committed = <<>> /\ tx[p].before = <<>>
      BY <1>1, <2>1 DEF CallInv, CreateFits
    <3>2. txn = None
      BY <3>1, CommittedIsAMap
    <3> QED BY <2>1, <3>1, <3>2 DEF Committed
  <2>2. CASE op[p] # "create"
    BY <1>1, <2>2 DEF CallInv, UpdateFits, Committed, Locked, WriteSteps, Early
  <2> QED BY <2>1, <2>2
<1>5. PICK r \in Processes : tx[p].map = Append(tx[p].before, r)
  BY <1>3 DEF OneChange
<1>6. /\ Committed' = tx[p].map /\ Committed' = Append(Committed, r) /\ Committed' # <<>>
      /\ Committed \in Seq(Processes) /\ Committed' \in Seq(Processes)
      /\ Front(tx[p].map) = tx[p].before
  BY <1>2, <1>3, <1>4, <1>5, TransactionIsThere, AppendedMap, CommittedIsAMap DEF Committed
<1>7. \A m \in Seq(Processes) : IsPrefix(m, Committed) => IsPrefix(m, Committed')
  BY <1>6, PrefixStays
<1>8. pc'[p] = "recover" /\ mine'[p] = tx[p].map /\ Leaves(p)
  BY <1>1 DEF CommitTransaction, Goto, Types, Leaves
<1>9. CallInv(p)'
  <2>1. IsPrefix(mine'[p], Committed') /\ IsPrefix(seen'[p], Committed')
    BY <1>1, <1>2, <1>6, <1>7, <1>8, PrefixOfItself DEF CallInv, Knows, Types
  <2>2. Knows(p)'
    BY <1>1, <1>2, <1>4, <1>6, <1>8, <2>1 DEF Knows, CallFits
  <2>3. Early(p)' /\ LockIsOwn(p)' /\ CreateFits(p)' /\ ApplyFits(p)' /\ UpdateFits(p)'
    BY <1>1, <1>2, <1>3, <1>4, <1>6, <1>8
    DEF CallInv, Early, LockIsOwn, Locked, CreateFits, ApplyFits, UpdateFits, Applying
  <2> QED BY <2>2, <2>3 DEF CallInv
<1>10. ASSUME NEW q \in Processes \ {p} PROVE CallInv(q)'
  <2>1. /\ pc'[q] = pc[q] /\ op'[q] = op[q] /\ tx'[q] = tx[q] /\ mine'[q] = mine[q]
        /\ seen'[q] = seen[q] /\ CallInv(q) /\ CallFits(q)
        /\ mine[q] \in Seq(Processes) /\ seen[q] \in Seq(Processes)
    BY <1>1, <1>8 DEF Leaves, StoreInv, TypeInv, Types
  <2>2. ~Locked(q)
    BY <1>1, <1>4, <2>1 DEF CallInv, LockIsOwn, Early, Locked, WriteSteps, CallFits
  <2>3. op[q] # "create"
    BY <1>1, <1>4, <2>1 DEF CallInv, Early, CreateFits, CallFits
  <2>4. pc[q] \notin Applying \cup {"recover", "read", "commit", "release", "cleanup"}
    BY <2>1, <2>2, <2>3 DEF Locked, CallFits, Applying, WriteSteps
  <2>5. Knows(q)'
    BY <1>7, <2>1 DEF CallInv, Knows
  <2>6. Early(q)' /\ LockIsOwn(q)' /\ CreateFits(q)' /\ ApplyFits(q)' /\ UpdateFits(q)'
    BY <1>6, <2>1, <2>3, <2>4
    DEF Early, LockIsOwn, Locked, CreateFits, ApplyFits, UpdateFits, Applying, WriteSteps
  <2> QED BY <2>5, <2>6 DEF CallInv
<1>11. FilesInv'
  <2>1. Acknowledged'
    BY <1>1, <1>2, <1>7 DEF FilesInv, Acknowledged, Types
  <2>2. Recoverable'
    BY <1>1, <1>2, <1>4 DEF FilesInv, Recoverable, Agree, Blank
  <2> QED BY <1>1, <1>2, <1>3, <1>6, <2>1, <2>2 DEF FilesInv, Blank, Agree, History
<1> QED BY <1>6, <1>9, <1>10, <1>11 DEF StoreInv

LEMMA CleanupKeeps ==
  ASSUME TypeInv, StoreInv, NEW p \in Processes, Cleanup(p)
  PROVE  StoreInv'
<1>1. CallInv(p) /\ Types /\ CallFits(p) /\ FilesInv /\ op[p] = "create"
  BY DEF StoreInv, TypeInv, Cleanup, CallFits
<1>2. /\ Return(p) /\ Leaves(p) /\ UNCHANGED <<txn, pointer, seen, acked>>
      /\ IsPrefix(seen[p], Committed)
  BY <1>1 DEF Cleanup, Return, Goto, Types, Leaves, CallInv, Knows
<1>3. CASE txn # None
  <2>1. UNCHANGED <<dir, lock, txn, events, markdown, map, pointer>> /\ Committed' = Committed
    BY <1>2, <1>3 DEF Cleanup, Committed
  <2>2. CallInv(p)' /\ Acknowledged' /\ \A q \in Processes \ {p} : Locked(q) => lock' = q
    BY <1>1, <1>2, <2>1, ReturnKeeps
    DEF Acknowledged, FilesInv, StoreInv, CallInv, LockIsOwn
  <2> QED BY <1>2, <2>1, <2>2, OnlyTheLock
<1>4. CASE txn = None
  <2>1. Committed = <<>> /\ map = <<>> /\ lock = None /\ events = <<>> /\ markdown = <<>>
    BY <1>1, <1>4 DEF CallInv, CreateFits, Cleanup, FilesInv, Blank
  <2>2. UNCHANGED <<lock, txn, events, markdown, map, pointer>> /\ Committed' = Committed
    BY <1>2, <1>4, <2>1 DEF Cleanup, Committed
  <2>3. CallInv(p)' /\ \A q \in Processes \ {p} : CallInv(q)'
    BY <1>2, <2>2, ReturnKeeps, Undisturbed DEF StoreInv, CallInv, LockIsOwn
  <2>4. FilesInv'
    BY <1>1, <1>2, <2>1, <2>2
    DEF FilesInv, Blank, Recoverable, Agree, History, Acknowledged
  <2> QED BY <2>3, <2>4 DEF StoreInv
<1> QED BY <1>3, <1>4

LEMMA FaultsKeep ==
  ASSUME TypeInv, StoreInv, NEW p \in Processes, WriteFails(p) \/ DirectoryGone(p) \/ Crash(p)
  PROVE  StoreInv'
<1>1. CallInv(p) /\ Types /\ FilesInv
  BY DEF StoreInv, TypeInv
<1>2. CASE WriteFails(p) \/ DirectoryGone(p)
  BY <1>2, ThrowKeepsStore DEF WriteFails, DirectoryGone, WriteSteps
<1>3. CASE Crash(p)
  <2>1. /\ UNCHANGED <<dir, txn, events, markdown, map, pointer, acked>>
        /\ lock' = IF lock = p THEN Dead ELSE lock
        /\ Return(p) /\ seen'[p] = <<>> /\ Leaves(p) /\ Committed' = Committed
    BY <1>1, <1>3 DEF Crash, Return, Goto, Types, Leaves, Committed
  <2>2. CallInv(p)' /\ Acknowledged'
    BY <1>1, <2>1, ReturnKeeps, CommittedIsAMap, PrefixOfItself DEF FilesInv, Acknowledged
  <2>3. \A q \in Processes \ {p} : Locked(q) => lock' = q
    BY <2>1 DEF StoreInv, CallInv, LockIsOwn
  <2>4. p # None
    OBVIOUS
  <2> QED BY <2>1, <2>2, <2>3, <2>4, OnlyTheLock
<1> QED BY <1>2, <1>3

-----------------------------------------------------------------------------
(* The theorems.                                                           *)

LEMMA InitInv == Init => Inv
<1> SUFFICES ASSUME Init PROVE StoreInv
  BY InitTypes DEF Inv
<1>1. Committed = <<>> /\ IsPrefix(<<>>, <<>>)
  BY PrefixOfItself, EmptySeq DEF Init, Committed
<1>2. FilesInv
  BY <1>1, EmptySeq
  DEF Init, FilesInv, Blank, Recoverable, Agree, History, Acknowledged
<1>3. \A p \in Processes : CallInv(p)
  BY <1>1 DEF Init, CallInv, Early, LockIsOwn, Locked, CreateFits, ApplyFits, UpdateFits,
              Knows, Applying, WriteSteps
<1> QED BY <1>2, <1>3 DEF StoreInv

\* No step takes a race back.
LEMMA RacesStay == [Next]_vars => broken \subseteq broken'
BY DEF Next, Start, StartCreate, StartOpen, StartRead, StartUpdate, Continue, AcquireLock,
       FindLock, FindOwner, ReadOwner, StealLock, FindTransaction, WriteEvent,
       WriteMarkdown, WriteMap, WritePointer, ClearTransaction, ReadMap,
       CommitTransaction, DirectoryGone, Cleanup, ReleaseLock, WriteFails, Crash, vars

LEMMA StepInv == Inv /\ [Next]_vars => Inv'
<1> SUFFICES ASSUME Inv, [Next]_vars, broken' = {} PROVE StoreInv'
  BY StepTypes DEF Inv
<1>1. TypeInv /\ StoreInv
  BY RacesStay DEF Inv
<1>2. CASE UNCHANGED vars
  BY <1>1, <1>2
  DEF vars, disk, local, StoreInv, FilesInv, Blank, Recoverable, Agree, History,
      Acknowledged, Committed, CallInv, Early, LockIsOwn, Locked, CreateFits, ApplyFits,
      UpdateFits, Knows
<1>3. CASE Next
  BY <1>1, <1>3, StartKeeps, LockingKeeps, FindTransactionKeeps, WritingKeeps, ClearKeeps,
     ReadKeeps, CommitKeeps, CleanupKeeps, FaultsKeep
  DEF Next, Continue
<1> QED BY <1>2, <1>3

LEMMA StoreInvHolds == Spec => []Inv
BY InitInv, StepInv, PTL DEF Spec

\* Two processes are never both inside the section the lock of the map guards,
\* whatever crashes and whoever recovers the lock of a dead owner.
THEOREM LockExcludes == Spec => []MutualExclusion
<1>1. Inv => MutualExclusion
  BY DEF Inv, StoreInv, CallInv, LockIsOwn, MutualExclusion
<1> QED BY <1>1, StoreInvHolds, PTL

\* A journal on disk can be applied from wherever the process that applied it
\* stopped.
THEOREM JournalStaysRecoverable == Spec => []JournalIsRecoverable
<1>1. Inv => JournalIsRecoverable
  BY DEF Inv, StoreInv, FilesInv, Recoverable, JournalIsRecoverable
<1> QED BY <1>1, StoreInvHolds, PTL

\* Without a journal log, markdown and map say the same, and the pointer always
\* names a map that is there.
THEOREM FilesAlwaysAgree == Spec => []FilesAgree
<1>1. Inv => FilesAgree
  <2> SUFFICES ASSUME TypeInv, StoreInv
               PROVE  /\ txn = None /\ dir =>
                           /\ markdown = map
                           /\ IF events = <<>> THEN map = <<>> ELSE map = Last(events)
                      /\ pointer => dir /\ Committed # <<>>
    BY DEF Inv, FilesAgree
  <2>1. FilesInv
    BY DEF StoreInv
  <2> QED BY <2>1 DEF FilesInv, Blank, Agree, Committed
<1> QED BY <1>1, StoreInvHolds, PTL

\* The log has one event for every revision, in their order.
THEOREM HistoryStaysComplete == Spec => []HistoryIsComplete
<1>1. Inv => HistoryIsComplete
  BY DEF Inv, StoreInv, FilesInv, History, HistoryIsComplete
<1> QED BY <1>1, StoreInvHolds, PTL

\* A change that was acknowledged is part of every later map, and an update is one
\* of the very map its caller saw.
THEOREM NothingAcknowledgedIsLost == Spec => []AcknowledgedSurvive
<1>1. Inv => AcknowledgedSurvive
  BY DEF Inv, StoreInv, FilesInv, Acknowledged, CallInv, Knows, AcknowledgedSurvive
<1> QED BY <1>1, StoreInvHolds, PTL

\* What is committed changes by the writing of a journal alone.
LEMMA CommittedChanges ==
  ASSUME Inv, Next, broken' = {}
  PROVE  Committed' = Committed \/ \E r \in Processes : Committed' = Append(Committed, r)
<1>1. TypeInv /\ StoreInv
  BY RacesStay DEF Inv
<1>2. PICK p \in Processes : Start(p) \/ Continue(p) \/ WriteFails(p) \/ Crash(p)
  BY DEF Next
<1>3. CASE CommitTransaction(p)
  BY <1>1, <1>3, CommitKeeps
<1>4. CASE WriteMap(p)
  <2>1. IF txn = None THEN map = tx[p].map ELSE txn = tx[p]
    BY <1>1, <1>4, SameTarget DEF WriteMap, Applying
  <2> QED BY <1>4, <2>1 DEF WriteMap, Committed
<1>5. CASE ClearTransaction(p)
  <2>1. txn # None => map = tx[p].map /\ txn = tx[p]
    BY <1>1, <1>5 DEF ClearTransaction, StoreInv, CallInv, ApplyFits, Applying
  <2> QED BY <1>5, <2>1 DEF ClearTransaction, Committed
<1>6. CASE Cleanup(p)
  <2>1. txn = None => Committed = <<>> /\ map = <<>>
    BY <1>1, <1>6 DEF Cleanup, TypeInv, CallFits, StoreInv, CallInv, CreateFits, FilesInv, Blank
  <2> QED BY <1>6, <2>1 DEF Cleanup, Committed
<1>7. CASE \/ Start(p) \/ AcquireLock(p) \/ FindLock(p) \/ FindOwner(p) \/ ReadOwner(p)
           \/ StealLock(p) \/ ReleaseLock(p) \/ FindTransaction(p) \/ WriteEvent(p)
           \/ WriteMarkdown(p) \/ WritePointer(p) \/ ReadMap(p) \/ DirectoryGone(p)
           \/ WriteFails(p) \/ Crash(p)
  BY <1>7
  DEF Start, StartCreate, StartOpen, StartRead, StartUpdate, AcquireLock, FindLock,
      FindOwner, ReadOwner, StealLock, ReleaseLock, FindTransaction, WriteEvent,
      WriteMarkdown, WritePointer, ReadMap, DirectoryGone, WriteFails, Crash, disk, Committed
<1> QED BY <1>2, <1>3, <1>4, <1>5, <1>6, <1>7 DEF Continue

\* The store is the register its callers see: one value that grows by one change at
\* a time, however many processes crash while they write it.
THEOREM StoreIsARegister == Spec => RegisterSpec
<1>1. Init => Register!Init
  BY DEF Init, Register!Init, Committed
<1>2. Inv /\ [Next]_vars => [Register!Next]_(<<Committed, broken # {}>>)
  <2> SUFFICES ASSUME Inv, [Next]_vars
               PROVE  [Register!Next]_(<<Committed, broken # {}>>)
    OBVIOUS
  <2>1. CASE UNCHANGED vars
    BY <2>1 DEF vars, disk, Committed
  <2>2. CASE Next /\ broken' # {}
    BY <2>2 DEF Register!Next
  <2>3. CASE Next /\ broken' = {}
    <3>1. broken = {}
      BY <2>3, RacesStay
    <3>2. CASE Committed' = Committed
      BY <2>3, <3>1, <3>2
    <3>3. CASE \E r \in Processes : Committed' = Append(Committed, r)
      BY <2>3, <3>3 DEF Register!Next, Register!Change
    <3> QED BY <2>3, <3>2, <3>3, CommittedChanges
  <2> QED BY <2>1, <2>2, <2>3
<1> QED BY <1>1, <1>2, StoreInvHolds, PTL DEF Spec, RegisterSpec, Register!Spec
=============================================================================
