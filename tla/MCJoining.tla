----------------------------- MODULE MCJoining ------------------------------
(* Two sessions and two characters, whose states have the same revision. *)
EXTENDS Joining, TLC

Same == [ch \in Characters |-> 0]
Symmetry == Permutations(Characters)
=============================================================================
