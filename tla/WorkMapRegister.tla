--------------------------- MODULE WorkMapRegister --------------------------
(***************************************************************************)
(* What a store of one Work Map promises its callers, all files, locks and *)
(* crashes left out: the map is one value that grows by one change at a    *)
(* time, and no change that is in it is ever taken out.  Once the lock of  *)
(* the store has been taken from a live owner nothing is promised.         *)
(***************************************************************************)
EXTENDS Sequences

CONSTANT Processes

VARIABLES
  value,   \* the changes the map consists of, oldest first
  faulty   \* has a lock been taken from its live owner?

Init == value = <<>> /\ ~faulty

\* A successful create or update.
Change == \E p \in Processes : value' = Append(value, p)

Next ==
  \/ ~faulty' /\ Change
  \/ faulty'

Spec == Init /\ [][Next]_<<value, faulty>>
=============================================================================
