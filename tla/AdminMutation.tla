--------------------------- MODULE AdminMutation ---------------------------
(***************************************************************************)
(* What the admin mutation queue promises to the client of a destructive   *)
(* operation, without threads, locks or queues: the operation is performed *)
(* at most once, or it is abandoned for good; and the client is told which *)
(* of the two happened, after it happened.                                 *)
(***************************************************************************)
CONSTANT Requests

VARIABLES
  fate,                      \* what became of the operation
  told                       \* what the client of the operation was told

vars == <<fate, told>>

Init ==
  /\ fate = [r \in Requests |-> "unmade"]
  /\ told = [r \in Requests |-> "nothing"]

\* The operation is accepted.
Open(r) ==
  /\ fate[r] = "unmade"
  /\ fate' = [fate EXCEPT ![r] = "open"]
  /\ UNCHANGED told

\* The operation is performed; this happens once.
Perform(r) ==
  /\ fate[r] = "open"
  /\ fate' = [fate EXCEPT ![r] = "performed"]
  /\ UNCHANGED told

\* The operation is abandoned and can never be performed; the client may
\* learn it at once.
Abandon(r) ==
  /\ fate[r] \in {"unmade", "open"}
  /\ fate' = [fate EXCEPT ![r] = "abandoned"]
  /\ \/ UNCHANGED told
     \/ told' = [told EXCEPT ![r] = "refusal"]

Tell(r) ==
  /\ told[r] = "nothing"
  /\ \/ fate[r] = "performed" /\ told' = [told EXCEPT ![r] = "result"]
     \/ fate[r] = "abandoned" /\ told' = [told EXCEPT ![r] = "refusal"]
  /\ UNCHANGED fate

Settle(r) == fate[r] = "open" /\ (Perform(r) \/ Abandon(r))

Next == \E r \in Requests : Open(r) \/ Perform(r) \/ Abandon(r) \/ Tell(r)

\* An accepted operation is settled, and its client is told.
Fairness == \A r \in Requests : WF_vars(Settle(r)) /\ WF_vars(Tell(r))

SafetySpec == Init /\ [][Next]_vars
Spec == SafetySpec /\ Fairness
=============================================================================
