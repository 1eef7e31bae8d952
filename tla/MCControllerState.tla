------------------------- MODULE MCControllerState -------------------------
EXTENDS ControllerState, TLC

Symmetry == Permutations(Clis) \cup Permutations(Servers)
=============================================================================
