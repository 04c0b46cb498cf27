-------------------------- MODULE MCActorAuthority --------------------------
(* Exterior cells in a row, one grid step apart. *)
EXTENDS ActorAuthority

Column == [x0 |-> 0, x1 |-> 1, x2 |-> 2, x3 |-> 3]

Apart(m, n) == IF m < n THEN n - m ELSE m - n
MCDistance == [c \in Exterior |-> [d \in Exterior |-> Apart(Column[c], Column[d])]]

\* What a client whose engine loads the neighbouring cells reports: the row.
WideReports == {Exterior}
=============================================================================
