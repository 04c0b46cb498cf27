----------------------------- MODULE MCDoorStates -----------------------------
EXTENDS DoorStates, TLC
CONSTANTS a, b

Symmetry == Permutations(Clients)
=============================================================================
