------------------------- MODULE MCCollisionInterest -------------------------
(* Cells in a row: a position touches its own cell or two that adjoin. *)
EXTENDS CollisionInterest

RowInterests == {{c} : c \in Cells} \cup {{c, c + 1} : c \in {d \in Cells : d + 1 \in Cells}}
=============================================================================
