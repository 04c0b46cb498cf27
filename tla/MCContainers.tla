---------------------------- MODULE MCContainers ----------------------------
(* Two clients, and the lanes by themselves: nobody takes anything. *)
EXTENDS Containers, TLC

ClientSymmetry == Permutations(Clients)

UntouchedNext ==
  \/ \E c \in Clients, w \in {"here", "away"}, o \in Clients \cup {NoClient} : Move(c, w, o)
  \/ Publish
  \/ \E o \in Clients \cup {NoClient} : Reset(o)
  \/ \E c \in Clients : \E i \in DOMAIN toServer[c] : Receive(c, i)
  \/ \E c \in Clients, r \in Rolls : Open(c, r)
  \/ \E c \in Clients, r \in Rolls : \E i \in DOMAIN toClient[c] : Deliver(c, i, r)

UntouchedSpec == Init /\ [][UntouchedNext]_vars
=============================================================================
