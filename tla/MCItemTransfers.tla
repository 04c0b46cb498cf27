-------------------------- MODULE MCItemTransfers --------------------------
(* ItemTransfers on small instances.  Clients are interchangeable. *)
EXTENDS ItemTransfers, TLC

Symmetry == Permutations(Clients)
=============================================================================
