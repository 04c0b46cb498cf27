------------------------------ MODULE Sessions ------------------------------
(***************************************************************************)
(* What the server promises the sessions of one account: each plays one    *)
(* character of the account or none, no two play the same, and nobody      *)
(* plays a character that is gone.  Joining implements it.                 *)
(***************************************************************************)

CONSTANTS
  Clients,      \* the connections that log in to the account
  Characters,   \* the names its characters may have
  NoCharacter

VARIABLES
  stored,   \* the characters of the account
  playing   \* whom each client plays

vars == <<stored, playing>>

Init == stored \subseteq Characters /\ playing = [c \in Clients |-> NoCharacter]

Create(ch) ==
  /\ ch \notin stored
  /\ stored' = stored \cup {ch}
  /\ UNCHANGED playing

Start(c, ch) ==
  /\ playing' = [playing EXCEPT ![c] = ch]
  /\ IF ch \in stored
     THEN (\A d \in Clients \ {c} : playing[d] # ch) /\ UNCHANGED stored
     ELSE stored' = stored \cup {ch}

Delete(ch) ==
  /\ \A c \in Clients : playing[c] # ch
  /\ stored' = stored \ {ch}
  /\ UNCHANGED playing

Leave(c) == playing' = [playing EXCEPT ![c] = NoCharacter] /\ UNCHANGED stored

Next ==
  \/ \E ch \in Characters : Create(ch) \/ Delete(ch)
  \/ \E c \in Clients, ch \in Characters : Start(c, ch)
  \/ \E c \in Clients : Leave(c)

Spec == Init /\ [][Next]_vars

-----------------------------------------------------------------------------

\* No character is played, and so saved, by two sessions at a time
\* (Server.cpp:7663 "Existing character - check it isn't already in use by a
\* live session").
Exclusive ==
  \A c, d \in Clients : c # d /\ playing[c] # NoCharacter => playing[c] # playing[d]

\* A character that somebody plays is not deleted (Server.cpp:21309 "Refuse
\* to delete a character that is live in another session").
PlayedIsStored == \A c \in Clients : playing[c] \in stored \cup {NoCharacter}
=============================================================================
