------------------------------ MODULE Joining -------------------------------
(***************************************************************************)
(* From the login to the world: the sessions of one account select, create *)
(* and delete its characters.  The answer to a selection is many packets,  *)
(* on two lanes; the client enters the world when all of them are there.   *)
(*                                                                         *)
(*   apps/openmw-server/Server.cpp   handleHandshake (accepted),           *)
(*       handleCharacterSelect, handleDeleteCharRequest, upsert of dynamic *)
(*       records, onClientDisconnected, sendPacketOnConfiguredLane         *)
(*   apps/openmw/mwmp/Main.cpp   the packet handlers up to the world,      *)
(*       sendCharacterSelect, tryFinalizePendingCharacterData              *)
(*   apps/openmw/mwmp/gui/CharacterSelectDialog.cpp                        *)
(*   components/openmw-mp/RuntimeContentBootstrapGate.hpp,                 *)
(*   components/openmw-mp/SemanticService.hpp                              *)
(*                                                                         *)
(* A connection that ends, ends for both sides in one step.  Definitions   *)
(* always install, packages always verify (else the client disconnects).   *)
(***************************************************************************)
EXTENDS Integers, FiniteSets, SequencesExt

CONSTANTS
  Clients,        \* the connections that log in to the account
  Characters,     \* the names its characters may have
  NoCharacter,
  Revision,       \* of the crime, faction and topic state of each character
  Limit,          \* mMaxCharsPerAccount; 0: none
  Impatient,      \* bound: whose waiting may time out
  MaxRecords,     \* bound: dynamic records
  MaxPackets      \* bound: packets under way when a request is sent

ASSUME CharacterAssumption == NoCharacter \notin Characters
ASSUME RevisionAssumption == Revision \in [Characters -> Nat]
ASSUME BoundAssumption == Limit \in Nat /\ MaxRecords \in Nat /\ MaxPackets \in Nat

VARIABLES
  stored,         \* the characters of the account
  records,        \* the dynamic records are 1 .. records
  selected,       \* charSelectComplete
  slot,           \* slotName
  character,      \* dbCharacterId: what this session saves to
  screen,         \* what the player of each client sees
  gate,           \* what the client has of the answer
  lua,            \* its packages: "none", "staged" or "active"
  defined,        \* the records it has installed
  failed,         \* mCharSelectError
  deleted,        \* mDeleteCharResponseReady
  toServer,       \* packets under way, oldest first
  toClient,
  hurried         \* history: a request was sent before the last was answered

serverVars == <<stored, records, selected, slot, character>>
clientVars == <<screen, gate, lua, defined, failed, deleted, hurried>>
vars == <<serverVars, clientVars, toServer, toClient>>

Nobody == NoCharacter
\* A character to enter the world as, with the records there were when the
\* server said so (history).
Chosen == [char : Characters \cup {Nobody}, records : Nat]
NoData == [char |-> Nobody, records |-> 0]

\* mRuntimeContentBootstrapGate (content, lua, data), the gate of the states
\* (retained, and the three states of PlayerSync), mCharacterDataReady, and
\* the character it was finalized with.
Gate == [content : BOOLEAN, lua : BOOLEAN, data : Chosen, retained : Chosen,
         crime : Characters \cup {Nobody}, faction : Characters \cup {Nobody},
         topic : Characters \cup {Nobody}, ready : BOOLEAN, me : Chosen]
Shut == [content |-> FALSE, lua |-> FALSE, data |-> NoData, retained |-> NoData,
         crime |-> Nobody, faction |-> Nobody, topic |-> Nobody,
         ready |-> FALSE, me |-> NoData]

Select(ch, new) == [kind |-> "select", char |-> ch, isNew |-> new]
Remove_(ch)     == [kind |-> "delete", char |-> ch]
Plain(k)        == [kind |-> k]
State(k, ch)    == [kind |-> k, char |-> ch]
Record(n)       == [kind |-> "record", id |-> n]
Data(ch, n)     == [kind |-> "data", char |-> ch, records |-> n]

ToServer == [kind : {"select"}, char : Characters, isNew : BOOLEAN]
            \cup [kind : {"delete"}, char : Characters]
ToClient == [kind : {"packages", "list", "marker", "error", "deleted"}]
            \cup [kind : {"crime", "faction", "topic"}, char : Characters]
            \cup [kind : {"record"}, id : Nat]
            \cup [kind : {"data"}, char : Characters, records : Nat]

Waiting == {"selecting", "deleting"}     \* State::WaitingForData
Screens == {"off", "connecting", "choosing", "world"} \cup Waiting

TypeOK ==
  /\ stored \subseteq Characters /\ records \in Nat
  /\ selected \in [Clients -> BOOLEAN]
  /\ slot \in [Clients -> Characters \cup {Nobody}]
  /\ character \in [Clients -> Characters \cup {Nobody}]
  /\ screen \in [Clients -> Screens]
  /\ gate \in [Clients -> Gate]
  /\ lua \in [Clients -> {"none", "staged", "active"}]
  /\ defined \in [Clients -> SUBSET Nat]
  /\ failed \in [Clients -> BOOLEAN] /\ deleted \in [Clients -> BOOLEAN]
  /\ toServer \in [Clients -> Seq(ToServer)] /\ toClient \in [Clients -> Seq(ToClient)]
  /\ hurried \in [Clients -> BOOLEAN]

Init ==
  /\ stored \in SUBSET Characters /\ records \in 0 .. MaxRecords
  /\ selected = [c \in Clients |-> FALSE]
  /\ slot = [c \in Clients |-> Nobody] /\ character = [c \in Clients |-> Nobody]
  /\ screen = [c \in Clients |-> "off"]
  /\ gate = [c \in Clients |-> Shut]
  /\ lua = [c \in Clients |-> "none"]
  /\ defined = [c \in Clients |-> {}]
  /\ failed = [c \in Clients |-> FALSE] /\ deleted = [c \in Clients |-> FALSE]
  /\ toServer = [c \in Clients |-> <<>>] /\ toClient = [c \in Clients |-> <<>>]
  /\ hurried = [c \in Clients |-> FALSE]

-----------------------------------------------------------------------------
(* The network *)

\* sendPacketOnConfiguredLane: the other lane may be ahead or behind.
Lane(m) == IF m.kind \in {"crime", "data"} THEN 1 ELSE 0
Arriving(q) ==
  {i \in DOMAIN q : \A j \in 1 .. i - 1 : Lane(q[j]) # Lane(q[i])}

UnderWay == SumFunction([c \in Clients |-> Len(toServer[c]) + Len(toClient[c])])
Room == UnderWay <= MaxPackets

Reply(c, ms) == toClient' = [toClient EXCEPT ![c] = @ \o ms]

-----------------------------------------------------------------------------
(* The connection *)

\* onConnected, the accepted handshake and its answer.
Connect(c) ==
  /\ Room /\ screen[c] = "off"
  /\ screen' = [screen EXCEPT ![c] = "connecting"]
  /\ Reply(c, <<Plain("packages"), Plain("list")>>)
  /\ UNCHANGED <<serverVars, gate, lua, defined, failed, deleted, hurried, toServer>>

\* onClientDisconnected, and onDisconnected of the client; what is under way
\* is lost.
Leave(c) ==
  /\ screen[c] # "off"
  /\ selected' = [selected EXCEPT ![c] = FALSE]
  /\ slot' = [slot EXCEPT ![c] = Nobody]
  /\ character' = [character EXCEPT ![c] = Nobody]
  /\ screen' = [screen EXCEPT ![c] = "off"]
  /\ gate' = [gate EXCEPT ![c] = Shut]
  /\ lua' = [lua EXCEPT ![c] = "none"]
  /\ defined' = [defined EXCEPT ![c] = {}]
  /\ failed' = [failed EXCEPT ![c] = FALSE]
  /\ deleted' = [deleted EXCEPT ![c] = FALSE]
  /\ toServer' = [toServer EXCEPT ![c] = <<>>]
  /\ toClient' = [toClient EXCEPT ![c] = <<>>]
  /\ hurried' = [hurried EXCEPT ![c] = FALSE]
  /\ UNCHANGED <<stored, records>>

-----------------------------------------------------------------------------
(* The server *)

InUse(c, ch) == \E d \in Clients \ {c} : selected[d] /\ slot[d] = ch

Refused(c, m) ==
  IF m.isNew
  THEN m.char \in stored \/ (Limit > 0 /\ Cardinality(stored) >= Limit)
  ELSE m.char \notin stored \/ InUse(c, m.char)

Answer(ch) ==
  [n \in 1 .. records |-> Record(n)]
    \o <<Plain("marker"), State("crime", ch), State("faction", ch), State("topic", ch),
         Data(ch, records)>>

AdmitBeforeNaming(c, m) ==
  /\ m.kind = "select" /\ ~Refused(c, m)
  /\ stored' = stored \cup {m.char}
  /\ character' = [character EXCEPT ![c] = m.char]
  /\ slot' = [slot EXCEPT ![c] = m.char]
  /\ selected' = [selected EXCEPT ![c] = TRUE]
  /\ Reply(c, Answer(slot[c]))
\* handleCharacterSelect.  The database may fail at any point: then what was
\* done so far stays done.
Admit(c, m) ==
  /\ m.kind = "select" /\ ~Refused(c, m)
  /\ stored' = stored \cup {m.char}
  /\ character' = [character EXCEPT ![c] = m.char]
  /\ slot' = [slot EXCEPT ![c] = m.char]
  /\ selected' = [selected EXCEPT ![c] = TRUE]
  /\ Reply(c, Answer(m.char))

Refuse(c, m) ==
  /\ m.kind = "select"
  /\ \/ Refused(c, m) /\ UNCHANGED <<stored, character>>
     \/ ~Refused(c, m) /\ UNCHANGED <<stored, character>>
     \/ /\ ~Refused(c, m)
        /\ stored' = stored \cup {m.char}
        /\ character' = [character EXCEPT ![c] = m.char]
  /\ Reply(c, <<Plain("error")>>)
  /\ UNCHANGED <<selected, slot>>

DeleteOwn(c, m) ==
  /\ m.kind = "delete"
  /\ Reply(c, <<Plain("deleted")>>)
  /\ \/ UNCHANGED stored
     \/ ~InUse(c, m.char) /\ stored' = stored \ {m.char}
  /\ UNCHANGED <<selected, slot, character>>
\* handleDeleteCharRequest.
Delete(c, m) ==
  /\ m.kind = "delete"
  /\ IF selected[c] THEN UNCHANGED <<stored, toClient>>
     ELSE /\ Reply(c, <<Plain("deleted")>>)
          /\ \/ UNCHANGED stored
             \/ ~InUse(c, m.char) /\ stored' = stored \ {m.char}
  /\ UNCHANGED <<selected, slot, character>>

Serve(c) ==
  /\ toServer[c] # <<>>
  /\ LET m == Head(toServer[c]) IN Admit(c, m) \/ Refuse(c, m) \/ Delete(c, m)
  /\ toServer' = [toServer EXCEPT ![c] = Tail(@)]
  /\ UNCHANGED <<records, clientVars>>

\* upsertDynamicRecord, and the other operations that define one.
Define ==
  /\ Room /\ records < MaxRecords
  /\ records' = records + 1
  /\ toClient' = [c \in Clients |->
       IF selected[c] THEN Append(toClient[c], Record(records + 1)) ELSE toClient[c]]
  /\ UNCHANGED <<stored, selected, slot, character, clientVars, toServer>>

-----------------------------------------------------------------------------
(* The gates of the client *)

FinalizedStateless(g) ==
  IF g.content /\ g.lua /\ g.data # NoData
  THEN [g EXCEPT !.data = NoData, !.ready = TRUE, !.me = g.data]
  ELSE g
\* tryFinalizePendingCharacterData
Finalized(g) ==
  LET moves == g.content /\ g.lua /\ g.data # NoData
      h == IF moves THEN [g EXCEPT !.data = NoData, !.retained = g.data] ELSE g
  IN  IF h.retained # NoData /\ Nobody \notin {h.crime, h.faction, h.topic}
      THEN [h EXCEPT !.retained = NoData, !.ready = TRUE, !.me = h.retained]
      ELSE h

\* tryActivateServerLuaPackages
Activates(g, l) == g.content /\ ~g.lua /\ l # "none"

\* RevisionedStateGate::receive: a newer state is taken, an older one is not.
Known(g, k) == CASE k = "crime" -> g.crime [] k = "faction" -> g.faction [] OTHER -> g.topic
Newer(old, ch) == old = Nobody \/ Revision[ch] > Revision[old]
Conflicts(old, ch) == old \notin {Nobody, ch} /\ Revision[ch] = Revision[old]
Taken(g, k, ch) ==
  CASE k = "crime"   -> [g EXCEPT !.crime = ch]
    [] k = "faction" -> [g EXCEPT !.faction = ch]
    [] OTHER         -> [g EXCEPT !.topic = ch]

-----------------------------------------------------------------------------
(* The client *)

OnPackages(c, m) ==
  /\ m.kind = "packages"
  /\ LET a == Activates(gate[c], "staged")
     IN  /\ lua' = [lua EXCEPT ![c] = IF a THEN "active" ELSE "staged"]
         /\ gate' = [gate EXCEPT ![c] = IF a THEN Finalized([@ EXCEPT !.lua = TRUE]) ELSE @]
  /\ UNCHANGED <<screen, defined, failed, deleted>>

\* CharacterList, and the dialog that waits for it.
OnList(c, m) ==
  /\ m.kind = "list"
  /\ screen' = [screen EXCEPT ![c] = "choosing"]
  /\ UNCHANGED <<gate, lua, defined, failed, deleted>>

OnRecord(c, m) ==
  /\ m.kind = "record"
  /\ defined' = [defined EXCEPT ![c] = @ \cup {m.id}]
  /\ UNCHANGED <<screen, gate, lua, failed, deleted>>

\* RuntimeContentBootstrapComplete
OnMarker(c, m) ==
  /\ m.kind = "marker"
  /\ LET g == [gate[c] EXCEPT !.content = TRUE]
         a == Activates(g, lua[c])
     IN  /\ lua' = [lua EXCEPT ![c] = IF a THEN "active" ELSE @]
         /\ gate' = [gate EXCEPT ![c] = Finalized(IF a THEN [g EXCEPT !.lua = TRUE] ELSE g)]
  /\ UNCHANGED <<screen, defined, failed, deleted>>

OnStateQuietly(c, m) ==
  /\ m.kind \in {"crime", "faction", "topic"}
  /\ LET old == Known(gate[c], m.kind)
     IN  /\ ~Conflicts(old, m.char)
         /\ gate' = [gate EXCEPT ![c] = IF Newer(old, m.char) THEN Taken(@, m.kind, m.char) ELSE @]
  /\ UNCHANGED <<screen, lua, defined, failed, deleted>>
\* PlayerBounty, PlayerFaction, PlayerTopic: two states of one revision that
\* differ end the connection (Leave).
OnState(c, m) ==
  /\ m.kind \in {"crime", "faction", "topic"}
  /\ LET old == Known(gate[c], m.kind)
     IN  /\ ~Conflicts(old, m.char)
         /\ gate' = [gate EXCEPT ![c] =
              Finalized(IF Newer(old, m.char) THEN Taken(@, m.kind, m.char) ELSE @)]
  /\ UNCHANGED <<screen, lua, defined, failed, deleted>>

OnData(c, m) ==
  /\ m.kind = "data"
  /\ gate' = [gate EXCEPT ![c] =
       Finalized([@ EXCEPT !.data = [char |-> m.char, records |-> m.records]])]
  /\ UNCHANGED <<screen, lua, defined, failed, deleted>>

OnError(c, m) ==
  /\ m.kind = "error"
  /\ failed' = [failed EXCEPT ![c] = TRUE]
  /\ UNCHANGED <<screen, gate, lua, defined, deleted>>

OnDeleted(c, m) ==
  /\ m.kind = "deleted"
  /\ deleted' = [deleted EXCEPT ![c] = TRUE]
  /\ UNCHANGED <<screen, gate, lua, defined, failed>>

Deliver(c, i) ==
  /\ i \in Arriving(toClient[c])
  /\ toClient' = [toClient EXCEPT ![c] = RemoveAt(@, i)]
  /\ LET m == toClient[c][i]
     IN  OnPackages(c, m) \/ OnList(c, m) \/ OnRecord(c, m) \/ OnMarker(c, m)
           \/ OnState(c, m) \/ OnData(c, m) \/ OnError(c, m) \/ OnDeleted(c, m)
  /\ UNCHANGED <<serverVars, toServer, hurried>>

\* Two states of one revision: Main::disconnect.
Conflict(c) ==
  /\ \E i \in Arriving(toClient[c]) :
       LET m == toClient[c][i]
       IN  /\ m.kind \in {"crime", "faction", "topic"}
           /\ Conflicts(Known(gate[c], m.kind), m.char)
  /\ Leave(c)

Unanswered(c) ==
  \/ toServer[c] # <<>>
  \/ \E i \in DOMAIN toClient[c] : toClient[c][i].kind # "record"
Request(c, m) ==
  /\ toServer' = [toServer EXCEPT ![c] = Append(@, m)]
  /\ hurried' = [hurried EXCEPT ![c] = @ \/ Unanswered(c)]

SendSelectOverOld(c, ch, new) ==
  /\ Room /\ screen[c] = "choosing"
  /\ screen' = [screen EXCEPT ![c] = "selecting"]
  /\ failed' = [failed EXCEPT ![c] = FALSE]
  /\ Request(c, Select(ch, new))
  /\ UNCHANGED <<serverVars, gate, lua, defined, deleted, toClient>>

\* onEnterWorldClicked, onNewCharNameConfirm and Main::sendCharacterSelect.
SendSelect(c, ch, new) ==
  /\ Room /\ screen[c] = "choosing"
  /\ screen' = [screen EXCEPT ![c] = "selecting"]
  /\ gate' = [gate EXCEPT ![c] = Shut]
  /\ failed' = [failed EXCEPT ![c] = FALSE]
  /\ Request(c, Select(ch, new))
  /\ UNCHANGED <<serverVars, lua, defined, deleted, toClient>>

\* onDeleteCharClicked, confirmed
SendDelete(c, ch) ==
  /\ Room /\ screen[c] = "choosing"
  /\ screen' = [screen EXCEPT ![c] = "deleting"]
  /\ Request(c, Remove_(ch))
  /\ UNCHANGED <<serverVars, gate, lua, defined, failed, deleted, toClient>>

\* onFrame of the dialog, in its order.
Frame(c) ==
  /\ screen[c] \in Waiting
  /\ \/ /\ deleted[c]
        /\ deleted' = [deleted EXCEPT ![c] = FALSE]
        /\ screen' = [screen EXCEPT ![c] = "choosing"]
        /\ UNCHANGED failed
     \/ /\ ~deleted[c] /\ failed[c]
        /\ failed' = [failed EXCEPT ![c] = FALSE]
        /\ screen' = [screen EXCEPT ![c] = "choosing"]
        /\ UNCHANGED deleted
     \/ /\ ~deleted[c] /\ ~failed[c] /\ gate[c].ready
        /\ screen' = [screen EXCEPT ![c] = "world"]
        /\ UNCHANGED <<failed, deleted>>
  /\ UNCHANGED <<serverVars, gate, lua, defined, hurried, toServer, toClient>>

\* 15 s, but a deletion may find the timer run down already.
TimeOut(c) ==
  /\ c \in Impatient /\ screen[c] \in Waiting /\ ~deleted[c] /\ ~failed[c]
  /\ screen' = [screen EXCEPT ![c] = "choosing"]
  /\ UNCHANGED <<serverVars, gate, lua, defined, failed, deleted, hurried,
                 toServer, toClient>>

-----------------------------------------------------------------------------
Next ==
  \/ \E c \in Clients : Connect(c) \/ Leave(c) \/ Serve(c) \/ Conflict(c)
  \/ Define
  \/ \E c \in Clients : \E i \in DOMAIN toClient[c] : Deliver(c, i)
  \/ \E c \in Clients, ch \in Characters, new \in BOOLEAN : SendSelect(c, ch, new)
  \/ \E c \in Clients, ch \in Characters : SendDelete(c, ch)
  \/ \E c \in Clients : Frame(c) \/ TimeOut(c)

Spec == Init /\ [][Next]_vars

-----------------------------------------------------------------------------
(* Properties *)

\* The sessions of the account: see there for what it says.
Playing == [c \in Clients |-> IF selected[c] THEN slot[c] ELSE NoCharacter]
SessionsImpl == INSTANCE Sessions WITH playing <- Playing
ImplementsSessions == SessionsImpl!Spec

\* What follows from it: no character is played by two sessions, and nobody
\* plays one that has been deleted (Server.cpp 7663, 21309).
SlotsAreExclusive == SessionsImpl!Exclusive
PlayedIsStored == SessionsImpl!PlayedIsStored

\* Who waited for each answer enters the world as the character the server
\* plays and saves for it, whatever the other sessions do meanwhile.
PlaysTheSelected ==
  \A c \in Clients : screen[c] = "world" /\ ~hurried[c] =>
    selected[c] /\ gate[c].me.char = slot[c] /\ slot[c] = character[c]

\* ... with every definition there was, its packages running, and the crimes,
\* factions and topics of that character (RuntimeContentBootstrapGate.hpp:10).
ContentBeforeWorld ==
  \A c \in Clients : screen[c] = "world" /\ ~hurried[c] =>
    /\ 1 .. gate[c].me.records \subseteq defined[c]
    /\ lua[c] = "active"
    /\ {gate[c].crime, gate[c].faction, gate[c].topic} = {gate[c].me.char}

\* A selection that is the only request leads somewhere without a timeout:
\* when nothing is under way any more, the dialog has what it polls for.
NobodyWaitsInVain ==
  \A c \in Clients :
    screen[c] = "selecting" /\ ~hurried[c] /\ toServer[c] = <<>> /\ toClient[c] = <<>> =>
      failed[c] \/ deleted[c] \/ gate[c].ready
=============================================================================
