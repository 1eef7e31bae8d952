-------------------------- MODULE MCManagedWorktree --------------------------
EXTENDS ManagedWorktree, TLC

Symmetry == Permutations(Creators) \cup Permutations(Names)

\* No property says anything about what follows a race.
Unraced == raced = {}
=============================================================================
