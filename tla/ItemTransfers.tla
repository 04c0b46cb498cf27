---------------------------- MODULE ItemTransfers ----------------------------
(***************************************************************************)
(* Items that move between the inventories of players, the ground and a    *)
(* container.  Taking from the world or the container, and putting into    *)
(* it, are transactions of the server; dropping is not: the client drops   *)
(* at once, tells the server to place the object, and later reports the    *)
(* inventory it is left with, under the revision it knows.                 *)
(*                                                                         *)
(*   apps/openmw-server/Server.cpp      handlePlayerInventory,             *)
(*                                      handleObjectPlace, the three       *)
(*                                      request handlers, login            *)
(*   apps/openmw-server/PlayerDatabase.cpp   the commits                   *)
(*   apps/openmw/mwmp/sync/PlayerSync.cpp, WorldObjectSync.cpp  the client *)
(*   components/openmw-mp/InventorySync.hpp  InventoryRevisionGate         *)
(*                                                                         *)
(* One kind of item that does not stack, so that an inventory is a number  *)
(* of stacks.  The number of an object on the ground is never in use and   *)
(* never that of a taken object: it is the next free one.  A client never  *)
(* sends a request again that may have been committed, so the table of     *)
(* answered requests finds nothing.  Objects and container contents are    *)
(* in the database when the handler returns, and a handler that dies       *)
(* between the two is one whose packet the server did not receive.         *)
(***************************************************************************)
EXTENDS Naturals, Sequences, FiniteSetsExt, Functions

CONSTANTS
  Clients,     \* the players, finitely many
  Carried,     \* stacks each player has at first
  Boxed,       \* stacks in the container at first
  Lying,       \* objects on the ground at first
  MaxNum,      \* bound: numbers of objects
  MaxRevision, \* bound: a client at this revision changes nothing
  MaxPackets   \* bound: packets under way when a client sends one of its own

ASSUME ClientAssumption == IsFiniteSet(Clients)
ASSUME AmountAssumption == {Carried, Boxed, Lying, MaxNum, MaxRevision, MaxPackets} \subseteq Nat

VARIABLES
  have, rev,           \* inventoryChanges.items and inventoryRevision of a client
  stored, storedRev,   \* character_inventory and characters.inventory_revision
  ground, nextNum,     \* placedObjects, nextObjectMpNum
  box,                 \* the container
  guarded,             \* the restore guard is up
  polled,              \* packets of a client in the batch being handled
  view,                \* the inventory of the client's player
  crev, gate, sent,    \* its revision, gate in flight, mLastInventory
  base, waiting,       \* the snapshot view comes from; a newer one waits for
  snapshot,            \* its records: mPendingInventoryRestore, mAuthoritativeInventory
  pending,             \* the request a client waits for: its kind, or ""
  toServer, toClient,  \* packets under way
  discarded            \* history: a client's own change was refused, overwritten
                       \* or cut off, or has overwritten a snapshot that waited

accounts == <<have, rev, stored, storedRev>>
world    == <<ground, nextNum, box>>
client   == <<view, crev, gate, sent, base, waiting, snapshot, pending>>
vars == <<accounts, world, guarded, polled, client, toServer, toClient, discarded>>

Kinds == {"world", "take", "put"}

Place == [kind |-> "place"]
Report(r, items, from, early) ==
  [kind |-> "report", rev |-> r, items |-> items, base |-> from, early |-> early]
Request(k, n, r)  == [kind |-> k, num |-> n, rev |-> r]
Inventory(r, items) == [kind |-> "inventory", rev |-> r, items |-> items]
Result(outcome, r)  == [kind |-> "result", outcome |-> outcome, rev |-> r]

ToServer ==
  {Place} \cup [kind : {"report"}, rev : Nat, items : Nat, base : Nat, early : BOOLEAN]
          \cup [kind : Kinds, num : Nat, rev : Nat]
ToClient ==
  [kind : {"inventory"}, rev : Nat, items : Nat]
    \cup [kind : {"result"}, outcome : {"done", "refused", "stale"}, rev : Nat]

TypeOK ==
  /\ have \in [Clients -> Nat] /\ rev \in [Clients -> Nat]
  /\ stored \in [Clients -> Nat] /\ storedRev \in [Clients -> Nat]
  /\ ground \subseteq Nat /\ nextNum \in Nat /\ box \in Nat
  /\ guarded \in [Clients -> BOOLEAN]
  /\ polled \in [Clients -> Nat]
  /\ view \in [Clients -> Nat] /\ crev \in [Clients -> Nat]
  /\ gate \in [Clients -> BOOLEAN] /\ sent \in [Clients -> Nat]
  /\ base \in [Clients -> Nat] /\ waiting \in [Clients -> BOOLEAN]
  /\ snapshot \in [Clients -> Nat] /\ pending \in [Clients -> Kinds \cup {""}]
  /\ toServer \in [Clients -> Seq(ToServer)] /\ toClient \in [Clients -> Seq(ToClient)]
  /\ discarded \in BOOLEAN

All(x) == [c \in Clients |-> x]

Init ==
  /\ have = All(Carried) /\ rev = All(0) /\ stored = All(Carried) /\ storedRev = All(0)
  /\ ground = 1 .. Lying /\ nextNum = Lying + 1 /\ box = Boxed
  /\ guarded = All(TRUE) /\ polled = All(0)
  /\ view = All(Carried) /\ crev = All(0) /\ gate = All(FALSE) /\ sent = All(Carried)
  /\ base = All(Carried) /\ waiting = All(FALSE) /\ snapshot = All(Carried)
  /\ pending = All("")
  /\ toServer = All(<<>>) /\ toClient = All(<<>>)
  /\ discarded = FALSE

-----------------------------------------------------------------------------
(* The client *)

Send(c, m) == toServer' = [toServer EXCEPT ![c] = Append(@, m)]

Room(c) == Len(toServer[c]) + Len(toClient[c]) < MaxPackets
Unsent(c) == view[c] # sent[c]

UnderWay == SumFunction([c \in Clients |-> Len(toServer[c])])

\* The player drops a stack: onLocalObjectPlaced.
Drop(c) ==
  /\ view[c] > 0 /\ crev[c] < MaxRevision /\ Room(c)
  /\ nextNum + UnderWay <= MaxNum
  /\ view' = [view EXCEPT ![c] = @ - 1]
  /\ Send(c, Place)
  /\ UNCHANGED <<accounts, world, guarded, polled, crev, gate, sent, base, waiting,
                 snapshot, pending, toClient, discarded>>

\* update: the inventory has changed and the gate lets it pass.
Tick(c) ==
  /\ Unsent(c) /\ ~gate[c] /\ Room(c)
  /\ gate' = [gate EXCEPT ![c] = TRUE]
  /\ sent' = [sent EXCEPT ![c] = view[c]]
  /\ Send(c, Report(crev[c], view[c], base[c], waiting[c]))
  /\ UNCHANGED <<accounts, world, guarded, polled, view, crev, base, waiting, snapshot,
                 pending, toClient, discarded>>

\* requestLocalObjectTake, requestInventoryTake, requestInventoryPut.
Ask(c, k, n) ==
  /\ pending[c] = "" /\ crev[c] < MaxRevision /\ Room(c)
  /\ k = "put" => view[c] > 0
  /\ n < nextNum
  /\ pending' = [pending EXCEPT ![c] = k]
  /\ Send(c, Request(k, n, crev[c]))
  /\ UNCHANGED <<accounts, world, guarded, polled, view, crev, gate, sent, base, waiting,
                 snapshot, toClient, discarded>>

\* The player's inventory is rebuilt from a snapshot.
Rebuilt(c, items) ==
  /\ view' = [view EXCEPT ![c] = items] /\ sent' = [sent EXCEPT ![c] = items]
  /\ base' = [base EXCEPT ![c] = items] /\ waiting' = [waiting EXCEPT ![c] = FALSE]
  /\ discarded' = (discarded \/ Unsent(c))

\* queueAuthoritativeInventory: any snapshot opens the gate.  It is the echo
\* of the last report, or is applied, or (lag: it differs from what the player
\* has) must wait for records.
Receive(c, lag) ==
  LET m == Head(toClient[c])
      echo == gate[c] /\ m.items = sent[c]
  IN  /\ toClient[c] # <<>> /\ m.kind = "inventory"
      /\ toClient' = [toClient EXCEPT ![c] = Tail(@)]
      /\ gate' = [gate EXCEPT ![c] = FALSE]
      /\ crev' = [crev EXCEPT ![c] = m.rev]
      /\ snapshot' = [snapshot EXCEPT ![c] = m.items]
      /\ \/ /\ echo
            /\ base' = [base EXCEPT ![c] = m.items] /\ waiting' = [waiting EXCEPT ![c] = FALSE]
            /\ UNCHANGED <<view, sent, discarded>>
         \/ ~echo /\ ~lag /\ Rebuilt(c, m.items)
         \/ /\ ~echo /\ lag /\ view[c] # m.items
            /\ waiting' = [waiting EXCEPT ![c] = TRUE]
            /\ UNCHANGED <<view, sent, base, discarded>>
      /\ UNCHANGED <<accounts, world, guarded, polled, pending, toServer>>

\* applyPendingAuthoritativeState, once the records are there.
Restore(c) ==
  /\ waiting[c]
  /\ Rebuilt(c, snapshot[c])
  /\ UNCHANGED <<accounts, world, guarded, polled, crev, gate, snapshot, pending, toServer, toClient>>

ReceiveResultIdly(c) ==
  LET m == Head(toClient[c])
      retry == m.outcome = "stale" /\ pending[c] \in {"take", "put"}
  IN  /\ toClient[c] # <<>> /\ m.kind = "result"
      /\ toClient' = [toClient EXCEPT ![c] = Tail(@)]
      /\ pending' = [pending EXCEPT ![c] = IF retry THEN @ ELSE ""]
      /\ UNCHANGED <<accounts, world, guarded, polled, view, crev, gate, sent, base, waiting,
                     snapshot, toServer, discarded>>

\* onServer...Result: a take from the world is not tried again; the other
\* requests are, under the revision of the answer.
ReceiveResult(c) ==
  LET m == Head(toClient[c])
      retry == m.outcome = "stale" /\ pending[c] \in {"take", "put"}
  IN  /\ toClient[c] # <<>> /\ m.kind = "result"
      /\ toClient' = [toClient EXCEPT ![c] = Tail(@)]
      /\ IF retry
         THEN Send(c, Request(pending[c], 0, m.rev)) /\ UNCHANGED pending
         ELSE pending' = [pending EXCEPT ![c] = ""] /\ UNCHANGED toServer
      /\ UNCHANGED <<accounts, world, guarded, polled, view, crev, gate, sent, base, waiting,
                     snapshot, discarded>>

-----------------------------------------------------------------------------
(* The server *)

\* processIncomingMessages receives a batch of n packets (or n are left of
\* one) and sorts it: reports come before the packets about objects in it.
IsReport(c, i) == toServer[c][i].kind = "report"

InTurn(c, i, n) ==
  /\ IF polled[c] = 0 THEN n \in 1 .. Len(toServer[c]) ELSE n = polled[c]
  /\ i \in 1 .. n
  /\ IF IsReport(c, i) THEN \A j \in 1 .. (i - 1) : ~IsReport(c, j)
                       ELSE i = 1 /\ \A j \in 1 .. n : ~IsReport(c, j)
  /\ polled' = [polled EXCEPT ![c] = n - 1]
  /\ toServer' = [toServer EXCEPT
                    ![c] = SubSeq(@, 1, i - 1) \o SubSeq(@, i + 1, Len(@))]

Reply(c, ms) == toClient' = [toClient EXCEPT ![c] = @ \o ms]

CommitRevisionOnly(c, items, saved) ==
  /\ have' = [have EXCEPT ![c] = items] /\ rev' = [rev EXCEPT ![c] = rev[c] + 1]
  /\ storedRev' = (IF saved THEN [storedRev EXCEPT ![c] = rev[c] + 1] ELSE storedRev)
  /\ UNCHANGED stored

CommitSameRevision(c, items, saved) ==
  /\ have' = [have EXCEPT ![c] = items]
  /\ rev' = (IF saved THEN rev ELSE [rev EXCEPT ![c] = @ + 1])
  /\ stored' = (IF saved THEN [stored EXCEPT ![c] = items] ELSE stored)
  /\ storedRev' = (IF saved THEN [storedRev EXCEPT ![c] = rev[c]] ELSE storedRev)

\* commitWorldItemTake, commitInventoryTake, saveCharacterInventory: memory and
\* database get the inventory under the next revision.
Commit(c, items, saved) ==
  /\ have' = [have EXCEPT ![c] = items] /\ rev' = [rev EXCEPT ![c] = rev[c] + 1]
  /\ stored' = (IF saved THEN [stored EXCEPT ![c] = items] ELSE stored)
  /\ storedRev' = (IF saved THEN [storedRev EXCEPT ![c] = rev[c] + 1] ELSE storedRev)

Current(c) == Inventory(rev[c], have[c])
Committed(c, items) ==
  Reply(c, <<Inventory(rev[c] + 1, items), Result("done", rev[c] + 1)>>)

\* The report is of another revision, names an unknown record, or looks like
\* the start of a session overwriting what was restored.
Refusable(c, m, known) ==
  \/ m.rev # rev[c]
  \/ ~known
  \/ guarded[c] /\ m.items < have[c]

\* handlePlayerInventory; a failed save is only logged.
HandleReport(c, i, n, known, saved) ==
  LET m == toServer[c][i]
  IN  /\ InTurn(c, i, n) /\ m.kind = "report"
      /\ \/ /\ Refusable(c, m, known)
            /\ Reply(c, <<Current(c)>>)
            /\ discarded' = TRUE
            /\ UNCHANGED <<accounts, guarded>>
         \/ /\ ~Refusable(c, m, known)
            /\ Commit(c, m.items, saved)
            /\ guarded' = [guarded EXCEPT ![c] = FALSE]
            /\ Reply(c, <<Inventory(rev[c] + 1, m.items)>>)
            /\ discarded' = (discarded \/ m.early)
      /\ UNCHANGED <<world, client>>

\* handleObjectPlace, acceptPlacedObject: nothing is said when the cell's
\* generation has moved on, and the inventory plays no part.
HandlePlace(c, i, n, fit) ==
  /\ InTurn(c, i, n) /\ toServer[c][i].kind = "place"
  /\ \/ /\ fit
        /\ ground' = ground \cup {nextNum} /\ nextNum' = nextNum + 1
        /\ UNCHANGED discarded
     \/ ~fit /\ discarded' = TRUE /\ UNCHANGED <<ground, nextNum>>
  /\ UNCHANGED <<accounts, box, guarded, client, toClient>>

WithoutNothing(n) == ground

\* removePlacedObjectAuthoritative
Without(n) == ground \ {n}

\* handleWorldItemTakeRequest.  Not fit: wrong cell, no fresh snapshot of the
\* player, too far away, or the transaction failed.  The revision is compared
\* with the database's only.
HandleWorldTake(c, i, n, fit) ==
  LET m == toServer[c][i]
      there == fit /\ m.num \in ground
  IN  /\ InTurn(c, i, n) /\ m.kind = "world"
      /\ \/ /\ there /\ m.rev = storedRev[c]
            /\ ground' = Without(m.num)
            /\ Commit(c, have[c] + 1, TRUE) /\ Committed(c, have[c] + 1)
         \/ /\ there /\ m.rev # storedRev[c]
            /\ Reply(c, <<Current(c), Result("stale", rev[c])>>)
            /\ UNCHANGED <<accounts, ground>>
         \/ /\ ~there
            /\ Reply(c, <<Result("refused", rev[c])>>)
            /\ UNCHANGED <<accounts, ground>>
      /\ UNCHANGED <<nextNum, box, guarded, client, discarded>>

PresentAlways(c, kind) == TRUE

\* The box has an item to take, the server's copy of the inventory one to put.
Present(c, kind) == IF kind = "take" THEN box > 0 ELSE have[c] > 0

\* handleInventoryTakeRequest and handleInventoryPutRequest compare the
\* revision with the one in memory, then in the transaction with the database's.
HandleBox(c, i, n, fit) ==
  LET m == toServer[c][i]
      there == Present(c, m.kind)
      items == IF m.kind = "take" THEN have[c] + 1 ELSE have[c] - 1
  IN  /\ InTurn(c, i, n) /\ m.kind \in {"take", "put"}
      /\ \/ /\ fit /\ there /\ m.rev = rev[c] /\ m.rev = storedRev[c]
            /\ box' = IF m.kind = "take" THEN box - 1 ELSE box + 1
            /\ Commit(c, items, TRUE) /\ Committed(c, items)
         \/ /\ fit /\ (m.rev # rev[c] \/ (there /\ m.rev # storedRev[c]))
            /\ Reply(c, <<Current(c), Result("stale", rev[c])>>)
            /\ UNCHANGED <<accounts, box>>
         \/ /\ ~fit \/ (m.rev = rev[c] /\ ~there)
            /\ Reply(c, <<Result("refused", rev[c])>>)
            /\ UNCHANGED <<accounts, box>>
      /\ UNCHANGED <<ground, nextNum, guarded, client, discarded>>

\* playerInventoryRestoreGuardUntilMs passes.
GuardEnds(c) ==
  /\ guarded[c]
  /\ guarded' = [guarded EXCEPT ![c] = FALSE]
  /\ UNCHANGED <<accounts, world, polled, client, toServer, toClient, discarded>>

\* The connection, or the server, is lost and the player comes back:
\* handleCharacterSelect restores the saved inventory, under guard.  What
\* others do in between does not touch the client.
Reconnect(c) ==
  /\ have' = [have EXCEPT ![c] = stored[c]] /\ rev' = [rev EXCEPT ![c] = storedRev[c]]
  /\ guarded' = [guarded EXCEPT ![c] = TRUE]
  /\ toServer' = [toServer EXCEPT ![c] = <<>>] /\ toClient' = [toClient EXCEPT ![c] = <<>>]
  /\ polled' = [polled EXCEPT ![c] = 0] /\ pending' = [pending EXCEPT ![c] = ""]
  /\ view' = [view EXCEPT ![c] = stored[c]] /\ sent' = [sent EXCEPT ![c] = stored[c]]
  /\ base' = [base EXCEPT ![c] = stored[c]] /\ snapshot' = [snapshot EXCEPT ![c] = stored[c]]
  /\ crev' = [crev EXCEPT ![c] = storedRev[c]]
  /\ gate' = [gate EXCEPT ![c] = FALSE] /\ waiting' = [waiting EXCEPT ![c] = FALSE]
  /\ discarded' = (\/ discarded \/ Unsent(c) \/ have[c] # stored[c]
                   \/ \E j \in DOMAIN toServer[c] : toServer[c][j].kind \in {"place", "report"})
  /\ UNCHANGED <<stored, storedRev, world>>

-----------------------------------------------------------------------------
ClientStep(c) ==
  \/ Drop(c)
  \/ Tick(c)
  \/ \E k \in Kinds, n \in 0 .. MaxNum : Ask(c, k, n)
  \/ \E lag \in BOOLEAN : Receive(c, lag)
  \/ Restore(c)
  \/ ReceiveResult(c)

ServerStep(c) ==
  \/ \E i, n \in DOMAIN toServer[c], fit, saved \in BOOLEAN :
        \/ HandleReport(c, i, n, fit, saved)
        \/ saved /\ \/ HandlePlace(c, i, n, fit)
                    \/ HandleWorldTake(c, i, n, fit)
                    \/ HandleBox(c, i, n, fit)
  \/ GuardEnds(c)

Next == \E c \in Clients : ClientStep(c) \/ ServerStep(c) \/ Reconnect(c)

Spec == Init /\ [][Next]_vars

-----------------------------------------------------------------------------
(* Properties *)

\* What is in memory under the revision of the database is what the database
\* has, and memory is never behind: the transactions, which compare revisions
\* with the database and write what memory has, lose nothing saved.
StoreFollows ==
  \A c \in Clients :
    /\ storedRev[c] <= rev[c]
    /\ rev[c] = storedRev[c] => have[c] = stored[c]

\* The revision of a report says which inventory the client changed: a report
\* the server will accept was made from the inventory it replaces.  Reports
\* sent while a newer snapshot waits for its records are left out here.
TokenIsSound ==
  \A c \in Clients : \A i \in DOMAIN toServer[c] :
    LET m == toServer[c][i]
    IN  m.kind = "report" /\ ~m.early /\ m.rev = rev[c] => m.base = have[c]

\* The same of every report: the snapshot is staged "until every referenced
\* record exists" so that no item is lost.
StagedIsSafe ==
  \A c \in Clients : \A i \in DOMAIN toServer[c] :
    LET m == toServer[c][i]
    IN  m.kind = "report" /\ m.rev = rev[c] => m.base = have[c]

Settled(c) ==
  /\ toServer[c] = <<>> /\ toClient[c] = <<>>
  /\ ~Unsent(c) /\ ~waiting[c]

\* A client with nothing under way shows the server's inventory under its
\* revision and is not left waiting for an answer or unable to report.
ClientsAgree ==
  \A c \in Clients : Settled(c) =>
    ~gate[c] /\ pending[c] = "" /\ view[c] = have[c] /\ crev[c] = rev[c]

\* Unless the server refused or lost what a client had already done, or a
\* client overwrote what it had not yet shown, no item is made and none is
\* lost, whoever took, dropped or put it meanwhile.
ItemsConserved ==
  (\A c \in Clients : Settled(c)) /\ ~discarded =>
    SumFunction(have) + Cardinality(ground) + box
      = SumFunction(All(Carried)) + Lying + Boxed
=============================================================================
