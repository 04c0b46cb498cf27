----------------------------- MODULE DoorStates -----------------------------
(***************************************************************************)
(* The state of one door, shared by the server, its database and the       *)
(* clients.  A client moves the door at once and proposes the next         *)
(* revision; the server accepts exactly that revision or sends its own     *)
(* state back.                                                             *)
(*                                                                         *)
(*   apps/openmw-server/Server.cpp             handleDoorState,            *)
(*                                             sendDoorStateToClient,      *)
(*                                             resetCellStatesForTesting   *)
(*   apps/openmw-server/DoorStateAuthority.cpp validateDoorStateProposal   *)
(*   apps/openmw-server/PlayerDatabase.cpp     upsertDoorState             *)
(*   apps/openmw/mwmp/sync/ObjectSync.cpp      the client                  *)
(*                                                                         *)
(* Packets of a connection are reliable and arrive in order.  Revision 0   *)
(* is the door of the content files: the server keeps no record of it.     *)
(***************************************************************************)
EXTENDS Naturals, Sequences, FiniteSets

CONSTANTS
  Clients,
  BaseLocked,    \* whether the content files lock the door
  MaxRevision,   \* the largest revision, at which a client proposes no more
  MaxResets,     \* bound: resets of the cell
  MaxInFlight,   \* bound: packets from a client, and packets to it
  MaxKept,       \* bound: states on their way to a client or kept by it
  MaxKeepers     \* bound: clients that keep some when the server says more

ASSUME BaseAssumption == BaseLocked \in BOOLEAN
ASSUME BoundAssumption == {MaxRevision, MaxResets, MaxInFlight, MaxKept, MaxKeepers} \subseteq Nat

VARIABLES
  door,      \* mWorld.doorStates
  db,        \* world_doors
  epoch,     \* how often the cell was reset
  told,      \* the highest revision sent to a client since the last reset
  near,      \* near[c]: the server counts the cell among those c has loaded
  scene,     \* scene[c]: the cell is in the scene of c
  view,      \* view[c]: the door in c's copy of the cell
  rev,       \* rev[c]: mDoorRevisions
  pending,   \* pending[c]: mPendingDoors
  toServer,  \* toServer[c]: packets from c
  toClient,  \* toClient[c]: packets to c
  newest,    \* history: newest[c]: the last state c received is "shown", or it
             \* is "kept", or an older one was shown after it: it is "covered"
  missed     \* history: missed[c]: the door was reset while c was away, and c
             \* was sent nothing since

serverVars == <<door, db, epoch, told>>
clientVars == <<near, scene, view, rev, pending, newest>>
vars == <<serverVars, clientVars, toServer, toClient, missed>>

Door(open, locked, revision) == [open |-> open, locked |-> locked, revision |-> revision]
Base == Door(FALSE, BaseLocked, 0)
Look(d) == [open |-> d.open, locked |-> d.locked]

Doors     == [open : BOOLEAN, locked : BOOLEAN, revision : 0 .. MaxRevision]
Looks     == [open : BOOLEAN, locked : BOOLEAN]
Proposals == [door : Doors]
Messages  == [door : Doors, bootstrap : BOOLEAN]
Kept      == [look : Looks, bootstrap : BOOLEAN]   \* PendingDoor: no revision

TypeOK ==
  /\ door \in Doors /\ db \in Doors /\ epoch \in Nat /\ told \in 0 .. MaxRevision
  /\ near \in [Clients -> BOOLEAN] /\ scene \in [Clients -> BOOLEAN]
  /\ view \in [Clients -> Looks] /\ rev \in [Clients -> 0 .. MaxRevision]
  /\ pending \in [Clients -> Seq(Kept)]
  /\ toServer \in [Clients -> Seq(Proposals)]
  /\ toClient \in [Clients -> Seq(Messages)]
  /\ newest \in [Clients -> {"shown", "kept", "covered"}]
  /\ missed \in [Clients -> BOOLEAN]

Init ==
  /\ door = Base /\ db = Base /\ epoch = 0 /\ told = 0
  /\ near = [c \in Clients |-> TRUE] /\ scene = [c \in Clients |-> TRUE]
  /\ view = [c \in Clients |-> Look(Base)] /\ rev = [c \in Clients |-> 0]
  /\ pending = [c \in Clients |-> <<>>]
  /\ toServer = [c \in Clients |-> <<>>]
  /\ toClient = [c \in Clients |-> <<>>]
  /\ newest = [c \in Clients |-> "shown"] /\ missed = [c \in Clients |-> FALSE]

-----------------------------------------------------------------------------
(* The client *)

ToggleUnlimited(c) ==
  LET open == ~view[c].open
      locked == view[c].locked /\ ~open
  IN  /\ scene[c]
      /\ Len(toServer[c]) < MaxInFlight
      /\ view' = [view EXCEPT ![c] = [open |-> open, locked |-> locked]]
      /\ rev' = [rev EXCEPT ![c] = rev[c] + 1]
      /\ toServer' = [toServer EXCEPT ![c] =
           Append(@, [door |-> Door(open, locked, rev[c] + 1)])]
      /\ UNCHANGED <<serverVars, near, scene, pending, newest, toClient, missed>>

\* World::activateDoor by the player, onDoorStateChanged and the next flush.
\* Opening a locked door unlocks it first.
Toggle(c) ==
  LET open == ~view[c].open
      locked == view[c].locked /\ ~open
  IN  /\ scene[c]
      /\ rev[c] < MaxRevision /\ Len(toServer[c]) < MaxInFlight
      /\ view' = [view EXCEPT ![c] = [open |-> open, locked |-> locked]]
      /\ rev' = [rev EXCEPT ![c] = rev[c] + 1]
      /\ toServer' = [toServer EXCEPT ![c] =
           Append(@, [door |-> Door(open, locked, rev[c] + 1)])]
      /\ UNCHANGED <<serverVars, near, scene, pending, newest, toClient, missed>>

\* onServerDoorState: shown at once, or kept until the cell is in the scene.
Deliver(c) ==
  LET m == Head(toClient[c])
  IN  /\ toClient[c] # <<>>
      /\ toClient' = [toClient EXCEPT ![c] = Tail(@)]
      /\ rev' = [rev EXCEPT ![c] = m.door.revision]
      /\ IF scene[c]
         THEN /\ view' = [view EXCEPT ![c] = Look(m.door)]
              /\ newest' = [newest EXCEPT ![c] = "shown"]
              /\ UNCHANGED pending
         ELSE /\ pending' = [pending EXCEPT ![c] =
                   Append(@, [look |-> Look(m.door), bootstrap |-> m.bootstrap])]
              /\ newest' = [newest EXCEPT ![c] = "kept"]
              /\ UNCHANGED view
      /\ UNCHANGED <<serverVars, near, scene, toServer, missed>>

\* c shows the i-th of the states it keeps: the newest, if that is kept, is
\* the last of them.
Show(c, i) ==
  /\ view' = [view EXCEPT ![c] = pending[c][i].look]
  /\ newest' = [newest EXCEPT ![c] =
       IF @ # "kept" THEN "covered"
       ELSE IF i = Len(pending[c]) THEN "shown" ELSE "kept"]

\* update: every kept state has a timer of its own, so any may be next.
Retry(c) ==
  /\ scene[c]
  /\ \E i \in 1 .. Len(pending[c]) :
       /\ Show(c, i)
       /\ pending' = [pending EXCEPT ![c] =
            SubSeq(@, 1, i - 1) \o SubSeq(@, i + 1, Len(@))]
  /\ UNCHANGED <<serverVars, near, scene, rev, toServer, toClient, missed>>

\* What stays in a queue of kept states when the bootstrap states leave it.
Unshown(q) ==
  LET upTo[i \in 0 .. Len(q)] ==
        IF i = 0 THEN <<>>
        ELSE IF q[i].bootstrap THEN upTo[i - 1]
        ELSE Append(upTo[i - 1], q[i])
  IN  upTo[Len(q)]

\* prepareCellForInsertion shows the kept bootstrap states in their order.
LoadScene(c) ==
  LET Bootstraps == {i \in 1 .. Len(pending[c]) : pending[c][i].bootstrap}
  IN  /\ ~scene[c]
      /\ scene' = [scene EXCEPT ![c] = TRUE]
      /\ pending' = [pending EXCEPT ![c] = Unshown(@)]
      /\ IF Bootstraps = {} THEN UNCHANGED <<view, newest>>
         ELSE \E last \in Bootstraps :
                (\A i \in Bootstraps : i <= last) /\ Show(c, last)
      /\ UNCHANGED <<serverVars, near, rev, toServer, toClient, missed>>

UnloadScene(c) ==
  /\ scene[c]
  /\ scene' = [scene EXCEPT ![c] = FALSE]
  /\ UNCHANGED <<serverVars, near, view, rev, pending, newest, toServer, toClient, missed>>

-----------------------------------------------------------------------------
(* The server *)

Room ==
  /\ \A c \in Clients :
       /\ Len(toClient[c]) < MaxInFlight
       /\ Len(toClient[c]) + Len(pending[c]) < MaxKept
  /\ Cardinality({c \in Clients : pending[c] # <<>>}) <= MaxKeepers

\* validateDoorStateProposal, for a proposer that is fit: near the door, with
\* a fresh snapshot.  Opening may unlock; nothing else changes the lock.
Valid(p) ==
  /\ p.revision = door.revision + 1
  /\ p.open # door.open
  /\ p.locked = door.locked \/ (door.locked /\ ~door.open /\ p.open /\ ~p.locked)

Say(cs, d, bootstrap) ==
  toClient' = [c \in Clients |->
    IF c \in cs THEN Append(toClient[c], [door |-> d, bootstrap |-> bootstrap])
    ELSE toClient[c]]
Tell(cs, d, bootstrap) ==
  /\ Say(cs, d, bootstrap)
  /\ missed' = [c \in Clients |-> missed[c] /\ c \notin cs]

\* handleDoorState; stored says whether the database took the new state.
ReceiveUnstored(c, fit, stored) ==
  LET p == Head(toServer[c]).door
  IN  /\ Room /\ toServer[c] # <<>>
      /\ toServer' = [toServer EXCEPT ![c] = Tail(@)]
      /\ IF fit /\ Valid(p)
         THEN /\ door' = p
              /\ db' = IF stored THEN p ELSE db
              /\ Tell({d \in Clients : near[d]} \cup {c}, p, FALSE)
              /\ told' = p.revision
         ELSE /\ Tell({c}, door, FALSE)
              /\ UNCHANGED <<door, db, told>>
      /\ UNCHANGED <<epoch, clientVars>>
Receive(c, fit, stored) ==
  LET p == Head(toServer[c]).door
  IN  /\ Room /\ toServer[c] # <<>>
      /\ toServer' = [toServer EXCEPT ![c] = Tail(@)]
      /\ IF fit /\ stored /\ Valid(p)
         THEN /\ door' = p /\ db' = p
              /\ Tell({d \in Clients : near[d]} \cup {c}, p, FALSE)
              /\ told' = p.revision
         ELSE /\ Tell({c}, door, FALSE)
              /\ UNCHANGED <<door, db, told>>
      /\ UNCHANGED <<epoch, clientVars>>

\* resetCellStatesForTesting, which touches the doors that have a record.
Reset ==
  /\ Room /\ door.revision # 0 /\ epoch < MaxResets
  /\ door' = Base /\ db' = Base /\ epoch' = epoch + 1 /\ told' = 0
  /\ Say({c \in Clients : near[c]}, Base, TRUE)
  /\ missed' = [c \in Clients |-> ~near[c]]
  /\ UNCHANGED <<clientVars, toServer>>

EnterUntold(c) ==
  /\ Room /\ ~near[c]
  /\ near' = [near EXCEPT ![c] = TRUE]
  /\ UNCHANGED <<serverVars, scene, view, rev, pending, newest, toServer, toClient, missed>>
\* A character is selected, or a loaded-cells report adds the cell: the
\* client is sent the record, if there is one.
Enter(c) ==
  /\ Room /\ ~near[c]
  /\ near' = [near EXCEPT ![c] = TRUE]
  /\ Tell({d \in {c} : door.revision # 0}, door, TRUE)
  /\ UNCHANGED <<serverVars, scene, view, rev, pending, newest, toServer>>

\* A loaded-cells report drops the cell.
Leave(c) ==
  /\ near[c] /\ ~scene[c]
  /\ near' = [near EXCEPT ![c] = FALSE]
  /\ UNCHANGED <<serverVars, scene, view, rev, pending, newest, toServer, toClient, missed>>

\* The server restarts from its database; the clients lose their connection
\* and their session, and come back with a new copy of the world.
Restart ==
  /\ door' = db
  /\ near' = [c \in Clients |-> FALSE] /\ scene' = [c \in Clients |-> FALSE]
  /\ view' = [c \in Clients |-> Look(Base)] /\ rev' = [c \in Clients |-> 0]
  /\ pending' = [c \in Clients |-> <<>>]
  /\ toServer' = [c \in Clients |-> <<>>] /\ toClient' = [c \in Clients |-> <<>>]
  /\ newest' = [c \in Clients |-> "shown"] /\ missed' = [c \in Clients |-> FALSE]
  /\ UNCHANGED <<db, epoch, told>>

-----------------------------------------------------------------------------
\* Clients that stay in the cell.
Stay ==
  \/ \E c \in Clients : Toggle(c) \/ Deliver(c)
  \/ \E c \in Clients, fit, stored \in BOOLEAN : Receive(c, fit, stored)
  \/ Reset

\* Clients that load and unload it, come, go and reconnect.
Roam ==
  \/ \E c \in Clients : LoadScene(c) \/ UnloadScene(c) \/ Retry(c)
  \/ \E c \in Clients : Enter(c) \/ Leave(c)
  \/ Restart

Next == Stay \/ Roam

Spec     == Init /\ [][Next]_vars
StaySpec == Init /\ [][Stay]_vars

-----------------------------------------------------------------------------
(* Properties *)

\* Nothing of the door is on its way to or from c.
Quiet(c) == toServer[c] = <<>> /\ toClient[c] = <<>> /\ pending[c] = <<>>

\* A client that moved the door ahead of the server, and was refused or
\* overtaken, ends with the server's door and revision ("echoed/broadcast as
\* a semantic final state", docs/server-authority-awareness-audit.md:510).
ClientsConverge ==
  \A c \in Clients :
    near[c] /\ scene[c] /\ Quiet(c) =>
      view[c] = Look(door) /\ rev[c] = door.revision

\* The same of clients that come and go, load and unload the cell and
\* reconnect, in whatever order kept states are shown: it fails only while an
\* older state covers the newest (ObjectSync.cpp:280), and for who was away
\* when the door was reset (Server.cpp:19781) until it is sent something.
RoamersConverge ==
  \A c \in Clients :
    near[c] /\ scene[c] /\ Quiet(c) /\ ~missed[c] =>
      /\ rev[c] = door.revision
      /\ newest[c] # "covered" => view[c] = Look(door)

\* What a client was told the server never takes back, whatever clients
\* propose, whichever writes fail and whenever it restarts: only a reset does
\* ("restart restores ... final door states",
\* docs/server-authority-awareness-audit.md:607).
ToldStands == [][epoch' = epoch => door'.revision >= told]_vars
=============================================================================
