# Verification of the Fetcher Simulator multiplayer server

Fetcher Simulator is a fork of OpenMW with a dedicated multiplayer server.  The
server runs no game engine: it decides who simulates what, keeps what must be
agreed on (inventories, doors, containers, records), and validates what clients
send.  This directory holds TLA+ models of that logic, TLC configurations that
check them on small instances, and TLAPS proofs for all instances.

Paths below are relative to the repository; `Server.cpp` is
`apps/openmw-server/Server.cpp`, and a number after it is a line.

- [1 The system](#1-the-system): the inventory of components
- [2 The models](#2-the-models): each module, its state and actions, and the code
- [3 The runs](#3-the-runs): what TLC checks, with which bounds and fairness
- [4 The proofs](#4-the-proofs): what TLAPS proves, and along which argument
- [5 What the models found](#5-what-the-models-found)
- [6 What is not modelled](#6-what-is-not-modelled)
- [7 Plan](#7-plan)

To check everything: `tlc -config <run>.cfg <module>` for each run listed in
`PROJECT.json`, and `tlapm <module>Proofs.tla` for each proof module.

## 1 The system

The server has one game-loop thread (`MPServer::run`).  An iteration receives a
batch of packets, handles them one at a time to completion, runs timers and
scripts, and drains requests of the admin HTTP server, whose worker threads are
the only other threads that touch game state, through one queue.  SQLite is
called synchronously from the handlers.  A client has one thread for its world
and one for its network; the network hands packets over in order.  Connections
are reliable and ordered (GameNetworkingSockets), but the server sorts each batch
it receives by packet class, so packets of one client may be handled in another
order than they were sent.

What is hard is therefore seldom a data race.  It is the order of packets of
several clients, each of which has acted ahead of the server; the two ends of a
connection that have different ideas of the present; handlers that change
several pieces of state and fail in the middle; connections that end at any
point; and a database that may refuse a write.

| component | state | operations | interacts with | hard | correct if | module |
|---|---|---|---|---|---|---|
| admin mutation queue (`AdminMutationQueue.hpp`) | pending requests, state and response of each, accepting flag | enqueue, wait with timeout, drain, cancelAll, shutdown | HTTP workers, game loop | threads, timeouts, shutdown | the client of a reset is told the truth, always | `AdminMutation`, `AdminMutationQueue` |
| actor simulation authority (`Server.cpp` 3782-4112, 4750-5010) | authority, generation and sticky window of each cell; lease of each actor | connect, select, cell change, loaded cells, teleport, disconnect, actor packets, spawn, remove, reset | sessions, scripts, every actor packet | order of reports, wrap of generations | attended cells are simulated, by a client that can; no ghost leases; grants are numbered | `ActorAuthority` |
| collision interest (`CollisionCellOwnership.cpp`, `ServerCollisionLifecycle.hpp`) | owners, reference counts, generations, door shapes | update on a move, reject on failure, release, doors, reset | doors, line of sight, movement | a transition that fails half way; geometry that changes under a query | references are owners; geometry follows doors; queries are fresh | `CollisionInterest` |
| door states (`Server.cpp` 18664-18840, `DoorStateAuthority.cpp`, `ObjectSync.cpp`) | revision and state on server, database, clients; states clients keep | propose, accept or correct, broadcast, catch up, reset, restart | collision, cells, database | optimistic clients, failed writes, cells that are not loaded | what a client is told is durable; clients converge | `DoorStates` |
| item transfers (`Server.cpp` 8652-, 14377-16559, `PlayerSync.cpp`, `WorldObjectSync.cpp`) | inventories and revisions on client, server, database; objects on the ground; containers | drop, report, take, put, commit, restore, reconnect | database, dynamic records, sessions | half-transactional drops, optimistic reports, retries, failed saves | no item is made or lost; revisions mean what they say | `ItemTransfers` |
| containers (`Server.cpp` 18392-18662, 19649-19845, `WorldObjectSync.cpp`, `ActorSync.cpp`) | content and generation of the cell on server and clients; packets clients hold; takes that wait | ask, first snapshot by the authority, take, reset, load a cell | authority, item transfers | late reports from before a reset; lanes that overtake each other | content is recorded once an epoch, from a world that saw the reset; nobody waits for what all have | `Containers` |
| batch takes and barter (15632-16178, 16562-17470) | as item transfers, with gold and merchants | take all, trade | item transfers, crime | several stacks and gold in one commit | all or nothing, once | planned |
| mechanics snapshots, observation (`MechanicsSnapshotRegistry.cpp`, `ObservationService.cpp`) | last snapshot of each subject | accept, find fresh, erase | authority, crime, items, doors | late and replayed snapshots, staleness | only an owner's newest snapshot of the current generation is used | planned |
| runtime content (`RuntimeContentBootstrapGate.hpp`, `SemanticService.hpp`) | what the client has of the answer to its selection | packages, records, marker, states, character, reset | sessions, records | arrival in any order over two lanes | a character enters only complete content, its own | `Joining` (chunks of packages not) |
| actor movement (11585-) | last position, owner, network id | position stream, migration, reverse hand-off window | authority | two owners at a border | one registered copy of an actor | planned |
| sessions, accounts and characters (7166-8053, 21296-, `Main.cpp`, `CharacterSelectDialog.cpp`) | characters of an account; whom each session plays; the dialog of each client | log in, select, create, delete, leave | all | several sessions of one account, timeouts, a database that fails half way | no character is played twice; the client plays what the server saves | `Sessions`, `Joining` (login itself not) |
| dynamic records (9141-10260, 6807-6860) | records, links, request ledger | create once, link, collect | items, spells | retry after a lost answer; collection of what is in use | created once, kept while linked | planned |
| crime, arrest, jail (2640-3510, 17587-18185, `Main.cpp` 267-483) | crime state and revision; whom each guard is after, and how far that has gone; dialogue and known bounty of the client | crime, report, sight, pursue, reach, offer, pay, surrender, resist, pardon, death, relog, jail and confiscation | authority, sessions, items, snapshots | an offer and its answer cross changes of bounty, cell, guard and session; two lanes | nobody is pursued without cause, asked twice or fined for what it has not seen; resistance is final | `GuardArrest` (confiscation and sentence not) |
| spellbook, journal, topics, factions | sets, spellbook revision | report, merge, restore | sessions | reports ahead of the server | as inventories | planned (spellbook) |
| world numbers (19092-19176) | next number, numbers in use | reserve | items, actors | wrap | a number in use is not given again | planned |
| outbound queue, network, master server | queues, server list | send, heartbeat | sockets | limits | bounded | planned last |
| scripts, HTTP parsing, geometry, client presentation, engine and tools | | | | | | not modelled |

`PROJECT.json` lists the same components with their sources, and the hazards of
the code, each at its line with the properties that would catch it.

## 2 The models

In every module except `AdminMutationQueue` a server step is a whole handler,
as the game loop runs handlers to completion; a client step is a callback of
its world thread.  Names are those of the code where it has one.  Operators
that stand immediately before a definition and differ from it in one detail
(`BumpUnwrapped` before `Bump`) are plausible mistakes in that code, against which the properties have
been tried; nothing else uses them.

### AdminMutation, AdminMutationQueue

`AdminMutation` is the promise: an operation is performed once or abandoned for
good, and its client is told which, after the fact.  `AdminMutationQueue` is the
code, one step per critical section or unlocked segment:

| model | code |
|---|---|
| `Enqueue`, `RejectClosed` | `enqueue` under `mMutex` |
| `CheckTerminal`, `TimeOutQueued/Running/Late` | `wait`: the predicate, and the three ways `wait_for` can time out |
| `DrainTake`, `DrainNext`, `Execute`, `Report`, `DrainNotify` | `drain`: swap, claim, execute without locks, store the response, notify |
| `CancelTake`, `CancelNext`, `CancelNotify` | `cancelAll` |
| `StartListening`, `StartLoop`, `TestRunning`, `Join`, `RequestStop` | `run`, `shutdown`, signal handlers and the HTTP action |

A worker serves one request, so it carries the request's name.  `batch` is the
local vector of `drain`/`cancelAll`.  `outcome`, `runs` and `stops` are history.
Spurious wake-ups are left out: they only evaluate a predicate once more.

### ActorAuthority

State: where each player is and what it reports as loaded, the authority fields
of each cell, the registration and lease of each actor.  All handlers that call
`refreshActorAuthorityForCell` or touch a lease are actions: `Connect`,
`Select`, `ChangeCell`, `ReportLoaded`, `Teleport`, `Disconnect`, `UpdateActor`
(handleActorAI), `ListActors`, `Migrate` (handleActorCellChange), `Refused` (a
packet that is rejected after it caused an election), `Spawn`, `Remove`,
`ResetCells`, and `StickyEnds` for the clock.  `NewOwner` is the order of
preference of the refresh: nobody eligible, sticky owner, exact cell (if
configured), closest, preferred client, lowest guid.  `Bump` is a counter of
the width `MaxGeneration`, which wraps.

Abstractions: a client chooses a character once per connection; the order in
which loaded-cells reports are numbered, and their cap of 25 cells, are left out
(a late report is a report); the reverse hand-off window only makes the server
ignore a message, which is no step.  Refreshes of one handler are done together;
each reads only the players and its own cell.

### CollisionInterest

`owners` is `mOwners`, `col[c]` the reference count, generation and door shape
of a cell, `open` its door in `doorStates`, `stamp` one line-of-sight query on
its way.  `Update` and `Reject` are `updateCollisionInterest` and its catch
block, cell by cell in the order of their keys; `Leave`, `SetDoor`, `ResetCell`,
`Stamp`, `Shutdown` the other users.  One door stands for all of a cell's doors.
`Failing` are the cells whose content cannot be loaded.

### DoorStates

One door on the server (`door`), in the database (`db`), in each client's world
(`view`, with its revision `rev`), and in what a client keeps for a cell that is
not in its scene (`pending`).  `Toggle` is the player's activation and the next
flush; `Receive` is handleDoorState with its three outcomes (accepted, refused,
database failure); `Deliver`, `Retry`, `LoadScene`, `UnloadScene` the client's
side (`Show` is tryApplyDoorState for a state that was kept); `Enter` and `Leave` its
loaded-cells reports; `Reset` and `Restart`.  `newest` (is the last state a client
received shown, kept, or covered by an older one) and `missed` (a reset) are history.
Lock levels are a bit, the animation is left out, and whether the proposer is
near enough with a fresh snapshot is either outcome (`fit`).

### Containers

The server does not know what a container of the content files holds.  It asks
the authority of the cell, whose first snapshot is the content from then on;
a reset of the cell forgets it.  The generation of the authority, which every
container packet carries, is the fence.

| model | code |
|---|---|
| `generation`, `owner`, `where`, `box` | authority fields of the cell, `loadedActorCells` and current cell of each client, the `ContainerRecord` |
| `cgen`, `mine`, `store`, `known`, `held`, `take` | the client's generation and `mAuthority`, its `ContainerStore`, `mContainerRevisions`, `mPendingContainer`, `mPendingInventoryTakes` |
| `epoch`, and the epoch of a content; `crossed` | history: resets; whether a held packet was applied after a later one |
| `Move`, `Publish`, `Reset` | cell changes and loaded-cells reports with their refresh; packets about actors; `resetCellStatesForTesting` |
| `Receive` | handleContainer (`ReceiveAsk`, `ReceiveSet`) and the container part of handleInventoryTakeRequest (`ReceiveTake`) |
| `Open`, `RequestTake`, `Deliver`, `Retry` | onLocalContainerOpened, requestInventoryTake, one action per packet, `update` with what is held |
| `Lane`, `Arriving` | sendPacketOnConfiguredLane: packets of a lane stay in order.  `InOrder` says that those of two lanes do too |

Whom the server appoints is any client with the cell loaded, which includes
what `ActorAuthority` does.  Takes have their revision right (`ItemTransfers`).

### Sessions, Joining

`Sessions` is the promise: no two sessions of an account play one character, and
nobody plays one that is gone.  `Joining` is the code from the login to the world:

| model | code |
|---|---|
| `stored`, `records` | the characters of the account; dynamic records |
| `selected`, `slot`, `character` | `charSelectComplete`, `slotName`, `dbCharacterId` of a session |
| `screen`, `gate`, `lua`, `defined`, `failed`, `deleted` | the state of the dialog; `RuntimeContentBootstrapGate` and the gate of the three states; packages; records; `mCharSelectError`, `mDeleteCharResponseReady` |
| `hurried` | history: a request was sent before the last one was answered |
| `Connect`, `Leave`, `Serve` | the accepted handshake; a disconnect of either side; `Admit`, `Refuse` (handleCharacterSelect, with a database that fails at any point) and `Delete` |
| `Define` | upsertDynamicRecord |
| `Deliver`, `Finalized`, `Activates` | one action per packet; tryFinalizePendingCharacterData; tryActivateServerLuaPackages |
| `SendSelect`, `SendDelete`, `Frame`, `TimeOut` | the buttons of the dialog, its onFrame in its order, its 15 seconds |

The answer to a selection goes over two lanes (bounty and character on one, the
rest on the other), so `Arriving` lets either be ahead.  The three states carry
revisions (`Revision`); an equal revision with another content ends the connection.

### GuardArrest

A crime that a guard reports, or a bounty that one sees, sends guards after a
character, not after a session.  The client that simulates a guard reports that it has reached
the offender; the server makes the offer, and only the server judges the answer.

| model | code |
|---|---|
| `crime` | `PlayerCrimeState` of a character, with its revision (crime numbers left out) |
| `guard` | the enforcement fields of `ActorRegistryRecord`; `current` says that `crimePursuitLastGuid` is that of the present session |
| `known`, `dialogue` | the gate of crime states, `GM_Dialogue` with what is offered in it |
| `lost`, `moved`, `agreed` | history: guards whose offer is not shown any more or was refused; guards that changed cell with an open offer; the bounty a player saw when it answered |
| `Crime`, `SetBounty`, `Observe` | dispatchCrimeReactions after a committed crime; scripts and proposals; evaluateGuardCrimeEnforcement with its two thresholds |
| `Reach`, `Accept`, `Refuse` | handleGuardArrest: its `Reach` mode, and a `Request` that is accepted or not (`Valid`) |
| `Settled`, `Cleared`, `Suspended`, `Reissued` | sendAuthoritativeCrimeState, which clears pursuits with the bounty; clearOutstanding-, suspendOutstanding-, dispatchOutstandingCrimePursuits- |
| `ChangeCell`, `Teleport`, `Reissue`, `Die`, `Resurrect`, `Leave`, `Enter`, `Migrate`, `Reset` | the handlers in which players and guards come and go |
| `Talk`, `Answer`, `Close`, `ReceivePrompt`, `ReceiveState`, `ReceiveResult` | the client: a dialogue, the intercepted result of a choice, its end, one action per packet |

Bounties travel on lane 1, prompts and results on lane 0, so they have a queue each.
Which client is the authority is left to `ActorAuthority`: a reach comes from
any other client, and a hand-over (`handed`, `Reissue`) happens to any cell in
which a pursuit has to be renewed.

### ItemTransfers

Taking an object from the ground, and taking from or putting into a container,
are transactions of the server.  Dropping is not: the client drops at once, asks
for the object to be placed, and later reports the inventory it is left with.

| model | code |
|---|---|
| `have`, `rev` | `inventoryChanges.items`, `inventoryRevision` of a connected client |
| `stored`, `storedRev` | `character_inventory`, `characters.inventory_revision` |
| `ground`, `nextNum`, `box` | `placedObjects`, the next number, one container |
| `view`, `crev`, `gate`, `sent` | the player's inventory, its revision, `mInventoryRevisionGate`, `mLastInventory` |
| `waiting`, `snapshot` | `mPendingInventoryRestore`, `mAuthoritativeInventory` |
| `base`, `discarded` | history: the snapshot `view` comes from; whether a change a client had made was refused, overwritten or cut off, or a client has overwritten a snapshot it had staged |
| `Drop`, `Tick`, `Ask` | onLocalObjectPlaced; the report in `PlayerSync::update`; the three requests |
| `Receive`, `Restore`, `ReceiveResult` | queueAuthoritativeInventory; applyPendingAuthoritativeState; the three result handlers with their retry |
| `InTurn` | the batch of processIncomingMessages and its sort, by which a report overtakes a drop |
| `HandleReport`, `HandlePlace`, `HandleWorldTake`, `HandleBox` | the handlers; `Commit` their write to memory and database |
| `GuardEnds`, `Reconnect` | the restore guard's five seconds; the loss of a connection or of the server |

One kind of item that does not stack, so an inventory is a number.  `saved`
says whether the database took a report (a failure is only logged), `fit`
whether distance, cell, snapshot and transaction let a request pass.  A client
never repeats a request that may have been committed, so the table of answered
requests is left out.  A restart of the server is a reconnect of every client.
A number for a new object is fresh (`MpNumbers` of the plan).

## 3 The runs

Each passing run completes its state space; every action of every module fires in
some run.  Each property is tried against a mistake in the code it is about,
which violates it under the same configuration (`mutants` in `PROJECT.json`).

| run | question | bounds |
|---|---|---|
| `admin_queue` | Whatever the interleaving of workers, timeouts, drain, stop and shutdown: are answers true (`AnswersTruthful`), does nothing cancelled run (`NeverRunsAgain`), does a stop of the loop end it (`StopInLoopHonoured`), is the promise kept (`ImplementsPromise`), by which what is settled is final and everybody is answered? | 3 requests: one in the batch being drained, one pending, one arriving |
| `authority` | Players at a border and an actor that is spawned, leased and handed over: `AttendedCellHasOwner`, `HandoversHaveCause`, `LeaseOwnerOnline`, `LeaseFence` | 2 cells side by side, 2 clients, 1 actor, exact cell not preferred |
| `collision_walk` | Players walk, leave, meet a cell that cannot be loaded, turn doors: `RefsFollowOwners`, `GeometryFollowsDoors`, `StampsAreFresh` | 2 players, 3 cells, the middle one fails |
| `collision_rollback` (violated) | `OwnedCellsStayLoaded`: does a rejected update unload what another player owns? | 2 players, 3 cells, the first fails |
| `doors_roam` | Clients come, go, load and unload, the server restarts, writes fail: `RoamersConverge`, `ToldStands` | 2 clients, 2 revisions, 1 reset, 1 packet each way, 2 states on their way to a client or kept, by 1 client when the server says more |
| `doors_reload` (violated) | `ClientsConverge` for clients that load and unload the cell | 2 clients, 2 packets |
| `items_trade` | Two players and the same few items, with failed saves, refusals and reconnects: `StoreFollows`, `TokenIsSound`, `ClientsAgree`, `ItemsConserved` | 2 clients with 1 item each, 1 in the container, up to 2 objects on the ground, clients act at revision 0 (the server goes further), 3 packets under way |
| `items_staged` (violated) | `StagedIsSafe`: is a client that waits for records harmless? | 1 client |
| `containers_ordered` | Clients load, leave and become the authority, open, ask and take, across a reset: `ContentIsFresh`, `RecordedOnce`, `TakesAreFenced`, `StoresAgree`, `NoTakeForgotten` | 2 clients, 2 possible first contents, 4 generations, 1 reset, 1 packet under way when something new starts; packets stay in order |
| `containers_lanes` (violated) | `ContentIsFresh` when the lanes overtake each other | 2 clients, nobody takes |
| `joining` | Two sessions of one account select, create, delete, time out and leave, the database fails: `ImplementsSessions`, `PlaysTheSelected`, `ContentBeforeWorld`, `NobodyWaitsInVain` | 2 sessions, one of them impatient, 2 characters with equal revisions, limit 2, 1 record, 1 packet under way when something new starts |
| `arrest` | A wanted player walks, relogs, dies, talks, pays and resists, guards see it, reach it and move, a rival takes them over: `NoPursuitWithoutCause`, `OneOffer`, `OfferStands`, `ClientCatchesUp`, `FairFine`, `ResistIsFinal` | 2 guards, 2 cells, 1 offender and 1 rival, bounties up to 2 (arrest from 1, combat from 2), 2 commits, 1 change of generation, 1 packet under way when something new starts |

**Why the bounds are enough.**  The queue treats requests alike and works on one
batch at a time: three requests give a batch, a queue behind it and a late
arrival.  Authority is a relation between a cell, its present owner and a
challenger, so two clients at a border, each in the cell or beside it, meet the
branches of the refresh; with generations of width 2 (values 0 to 2) a counter
that returns after a wrap would return within the run.  A collision transition
has cells before, at and after the failing one: three cells in a row.  Doors
need a winner, a loser, and a second round, and a state that is kept with a newer one
after it; wider instances with 3 revisions and with states kept by both clients pass as
well.  Items need two players who
compete for one object while a third thing (a report, a drop) is in flight;
a wider instance of one client with two items, revisions up to 2 and four
packets passes as well.  Containers need an authority, another client that saw or
missed the reset, and generations for two appointments before the reset and two
of it; what each handler sends at once is not bounded.  Joining needs a
session in the way of another, one character to play and one to change to.  An
arrest needs a guard that waits and another that comes, a cell to walk out to,
a commit that sends guards and one that calls them off, and somebody else whose
crime takes a guard over; wider instances with three commits, and with two packets
under way when something new starts, pass as well.  `Bounded` in the collision runs and the bounds written in guards
(`MaxRevision`, `MaxResets`, `MaxInFlight`, `MaxKept`, `MaxKeepers`, `MaxNum`, `MaxPackets`) limit what
clients start, never what the server does with it.  Client sets are symmetric
where no liveness is checked and nothing orders clients.

**Deadlock** is checked for `admin_queue` (with an explicit `Terminated`), the
collision runs, the roaming doors and `joining`, where everybody can leave and
come back.  It is switched off where the bounds of a
run end it: clients at their last revision have nothing to do, guids and commits run out.

**Fairness** is assumed in `AdminMutationQueue` only: the game-loop thread runs
(`WF(LoopStep)`; every step of it is enabled until the join), a worker that may
check its predicate does so, and clocks advance (`WF(TimeOut)`).  Nobody has to send a
request, or to stop the server.  The executor is assumed to return, as it is a
bounded reset.  The other modules state safety only; that a client is not left
waiting is stated as an invariant of states with nothing under way
(`RoamersConverge`, `ClientsAgree`, `StoresAgree`, `NoTakeForgotten`,
`NobodyWaitsInVain`, `ClientCatchesUp`, `OfferStands`), which needs no fairness.

## 4 The proofs

All theorems hold for every value of the constants under the named assumptions
of the modules (naturals for bounds, a distance that is 0 only from a cell to
itself, a finite set of players); the theorems about containers also assume
`InOrder`.

| module | theorem | states |
|---|---|---|
| `AdminMutationQueueProofs` | `TypeCorrect`, `AnswersAreTruthful`, `CancelledNeverRuns`, `RefinesPromise` | types, `AnswersTruthful`, `NeverRunsAgain`, the safety part of the promise |
| `ActorAuthorityProofs` | `TypeCorrect`, `NoGhostLease`, `AttendedCellsAreSimulated`, `AuthorityMovesForCause`, `LeasesAreFenced` | types, `LeaseOwnerOnline`, `AttendedCellHasOwner`, `HandoversHaveCause`, `LeaseFence` |
| `CollisionInterestProofs` | `TypeCorrect`, `GeometryFollows`, `FreshStamps`, `NoReferenceLeaks`, `ReferencesAreOwners`, `ReferencesFollowOwners` | types, `GeometryFollowsDoors`, `StampsAreFresh`, `NoLeak`, `RefsAreOwners`, both as `RefsFollowOwners` |
| `DoorStatesProofs` | `TypeCorrect`, `ToldIsKept`, `EverybodyConverges`, `StayersConverge` | types, `ToldStands`, `RoamersConverge`; `ClientsConverge` of clients that stay |
| `ContainersProofs` | `TypesHold`, `NothingOldIsLeft`, `ContentComesFresh`, `ContentIsRecordedOnce`, `TakersSawIt`, `EverybodyIsInformed`, `EverybodyReadsTheRecord`, `EveryTakeIsSentAgain` | types, `ContentIsFresh`, `RecordedOnce`, `TakesAreFenced`, `StoresAgree`, `NoTakeForgotten`, if packets stay in order |
| `JoiningProofs` | `TypesHold`, `RefinesSessions`, `SessionsArePromised`, `TheSelectedIsPlayed`, `ContentComesFirst`, `SelectionIsAnswered` | types, `ImplementsSessions`, `SlotsAreExclusive` with `PlayedIsStored`, `PlaysTheSelected`, `ContentBeforeWorld`, `NobodyWaitsInVain` |
| `GuardArrestProofs` | `TypesHold`, `PursuitsHaveCause`, `OneOfferAtATime`, `OffersStand`, `ClientsCatchUp`, `FinesAreFair`, `ResistanceIsFinal` | types, `NoPursuitWithoutCause`, `OneOffer`, `OfferStands`, `ClientCatchesUp`, `FairFine`, `ResistIsFinal` |
| `ItemTransfersProofs` | `TypeCorrect`, `DatabaseFollows`, `ReportsBuildOnWhatTheyReplace`, `RestingClientsAgree`, `NoItemIsMadeOrLost` | types, `StoreFollows`, `TokenIsSound`, `ClientsAgree`, `ItemsConserved` |

**Admin queue.**  `AnswersTruthful` speaks of requests that are answered; the
invariant must say of a request in every state how often it ran (never while
queued or cancelled, once when completed, and as far as the loop has come while
it runs), that the loop runs exactly the head of its batch, and that stored
responses agree with outcomes.  Refinement then follows action by action: a
step changes the abstract view of the one request it is about.

**Actor authority.**  The invariant is types, no lease held by an absent player
(`Present`) and every attended cell owned (`Attended`).  It rests on one lemma,
that a refresh keeps both if it covers every cell whose owner or players may
have changed (`RefreshKeeps`).  The fence needs arithmetic of a wrapping counter: one
bump and two bumps both differ from where they began if the counter has more
than two values, which is why the module assumes `MaxGeneration > 1`, and no
handler changes a lease more than twice.  `HandoversHaveCause` needs who wins a
refresh against an owner that could stay (`AbleOwnerLoses`: somebody at a strictly smaller distance,
after the window), and that a reset shows as two bumps (`Stays`).

**Collision interest.**  Every step takes each cell to a record that `Follows`
the one before: generations never fall, an equal generation of a loaded cell means
an equal shape (`Later`), and a cell that agreed with its door still does
(`Agrees`).  A stamp then stays comparable (`StampKept`).  Counts follow owners
(`Moves`) in every step but a rejected one, which leaves owners and only lowers
counts; below the first failing cell it leaves those too.

**Doors.**  That nothing told is taken back needs that memory never knows more than
the database (`Durable`).  Convergence (`RInv`) needs an account of what each client will
learn.  Of a client that hears of every change (`Heard`: the server counts it as near, or
there is no record and it has missed no reset, and nothing of its own is under way) it
says that the last packet under way is the server's door; if there is none, the client
has the server's revision, and the door is what it shows or the last of the states it
keeps (`Informed`).  A step of the client must keep the last state last: a packet is taken
from the front, a kept state from anywhere (`Removal`), all bootstraps at once
(`Unshowing`).  The last is a recursive function over the queue; what it returns is
shown for a least length at which it would go wrong.

**Items.**  `TokenIsSound` is about a client's base and the server's
inventory, which a snapshot under way connects.  The invariant says what may be
in a channel: every snapshot under way is of an older revision or is the
server's present inventory (`SoundSnapshots`), every report is early, or of an older revision,
or made from the present inventory (`SoundReports`), and the client itself is
such a report (`Sound`).  Because revisions only grow within a session, what was
sound stays sound (`OlderPackets`); a commit makes everything under way old
(`Changed`), any other answer adds a snapshot of the present (`Answered`).

For `ClientsAgree` the invariant must find, for whoever waits, what will end its waiting
(`Told`): a shut gate has its report or a snapshot under way, a pending request itself or
its answer, and the last inventory under way to a client is of the server's revision; if
there is none the client has it.  `ItemsConserved` is a balance (`Balanced`): what
the players have by the server, corrected by what they have changed and not reported, what lies on the ground and what
the container has add up with the weights of the packets under way: a drop weighs the
object it will place, a report the change it will make; only while a report of a client that
waits for records is under way (`Early`) nothing is said, as it ends in `discarded`.  Each step moves a weight from
one place to another (`Pays`, `Gains`), a handler of the server what the packet weighs
(`PaysFor`).  Sums over players and over queues are induction over data, which
the prover does not do; here a sum that was wrong would be wrong for a least number of summands,
and that least number exists by well-founded induction in its form for sets
(`LeastNumber`).  A first formulation of `discarded` compared inventories and made the
balance false in a wider instance than the run's, in which equal numbers hide that a
staged snapshot was overwritten; the proof did not go through, TLC gave the
24 states, and the history records the overwriting itself.

**Containers.**  A reset that a client has not handled is *news*: the reset
itself, under way to it, and no packet before it in the queue is of a later
generation.  `IInv` says that old content anywhere is followed by news: a client
with an old world (`Learns`) or with an old snapshot on its way to it
(`Corrected`) will get the reset; no packet under way is of a generation to come
(`Recent`).  So what such a client says of the container carries a generation
that is below the server's, or that of a cell without an authority (`Behind`,
`Past`), and the fence or the test for the owner refuses it.  Every
step keeps this because a step only appends packets of the present (`Grows`),
takes a head, or makes everything under way late (`Reset`).  With lanes the
invariant fails in its first part, as `containers_lanes` shows: a packet of the
later generation passes the reset.

That everybody reads the record needs what comes after the news.  For each client
with the cell loaded, what is under way to it and what it holds is followed to its
end (`Foretold`), and the content it has there is the server's (`Informed`); a take
that waits has its answer, or the content it waits for, in that same queue.  With
nothing under way the end is the present (`QuietIsThere`).

**Joining.**  The promise of `Sessions` is inductive, and each step of `Joining`
is one of its steps or a stutter: a selection checks for another session in the
same step in which it starts one.  What the client enters the world with
needs more.  A client that waits for each answer (`~hurried`) has at most one
request or answer under way, and its gates are shut while it is a request (`OneRequest`); everything the answer says is about
the selected character (`TellsTheSelected`); its records precede its topics
(`RecordsFirst`); each part is in the gate or under way (`AnswerComes`).
`GateHolds` says which combinations the two gates can be in, and `Greeted` that
packages precede the list of characters.

**Arrests.**  Who is pursued has a bounty because a state with none is never told
without `Settled` in the same step, and guards are sent after bounties only; the
types are needed for it (`Hypotheses`).  `OneOffer` is inductive with them: only
`Reach` opens an offer, which needs `Held` to be empty, and who changes cell with one is
`moved`.  What a fine is for needs an account of every crime state outside
the server, `Honestly`: each, known or under way, is of an older revision or the
server's own, and each answer repeats what its revision said.  An answer under the
present revision then was given to the present bounty, and the last state told or
known is the server's.  For `ResistIsFinal`, what a step may do to a guard is said
once (`Lawful`: it pursues, fights, or keeps what it does) and shown for each
action; `OfferStands` follows prompt, choice and answer from hand to hand (`WordKept`,
`LostKept`).

**Left to TLC.**  Liveness under fairness: the full promise (`ImplementsPromise`) and
`StopInLoopHonoured`; and containers over several lanes.  Every other property of a
passing run is stated by a theorem.

## 5 What the models found

Each of the first four has a run that ends in a counterexample; `PROJECT.json`
quotes the line of the code or documentation that says otherwise.  The others
were met while modelling; the properties are stated so that they exclude exactly these cases.

1. **A rejected update unloads a neighbour's geometry** (`collision_rollback`).
   The catch block releases every cell of the transition, including those it did
   not reach, which takes references of other owners.
2. **A kept door state is shown after a newer one** (`doors_reload`).  The client's
   retry does not compare revisions, so it may end with an old door under the
   current revision.  `RoamersConverge` excludes exactly this (`newest`).
3. **A report of the old inventory under the new revision** (`items_staged`).
   While a snapshot waits for its records the gate is already open and the
   revision already new, so any local change sends the old inventory, which the
   server accepts: what the snapshot added is gone.
4. **Old content is published after a reset** (`containers_lanes`).  The reset
   travels on lane 1, packets about the actors of the cell on lane 2.  A client
   that receives the actors first adopts their generation and then refuses the
   reset as stale; when it becomes the authority it reports what it had.
5. A cell may keep a client that is gone as its authority.  A client becomes the
   authority of the cells it reports; if it then changes cell and disconnects
   before its next report, the cells it is no longer near are not refreshed
   (`Server.cpp` 3885, against the comment at 3869-3874), until somebody enters
   or reports them.  Cells in which somebody stands are safe (`AttendedCellHasOwner`).
6. A stop requested between the start of the HTTP listener and the start of the
   loop is overwritten (`Server.cpp` 2129-2146; `Server.hpp` 190 promises that
   `run` "returns when requestStop() is called").  `StopInLoopHonoured` therefore
   speaks of stops once the loop runs.
7. A door proposal of revision 1 from before a reset is accepted after it, though
   the comment at `Server.cpp` 19778 calls such proposals stale; `ToldStands`
   is stated between resets.
8. A drop is not a transaction.  If a take or put of the same player commits
   between the drop and its report, the report is refused and the player has the
   item again, while it also lies on the ground; an `ObjectPlace` under an old
   generation is ignored without an answer.  `ItemsConserved` is stated for
   histories without such a refusal (`discarded`), and without the overwriting of
   finding 3; it then holds whatever the order of packets.
9. After a failed save of a report, memory is a revision ahead of the database.
   Takes and puts are then answered with `StaleInventoryRevision` and the revision
   the client already used, and it retries at once, until another report is saved.
   `StoreFollows` says why nothing is lost in the meantime.
10. A player whose selection times out (`CharacterSelectDialog.cpp` 563) may select
    another character while the first answer is under way.  The gates were shut
    at the second selection, so the rest of the first answer opens them again: the
    client enters the world as the first character while the server plays and saves the
    second, against the comment at `RuntimeContentBootstrapGate.hpp` 10-12.
    `PlaysTheSelected` is stated for clients that are not `hurried`; without that
    condition TLC finds the case with three packets under way.
11. If the database fails after `dbCharacterId` has been set (`Refuse`, third case),
    a session that had selected before keeps `slotName` and saves into the other
    character: what is exclusive is the slot, not what is saved to.
12. A deletion after a selection that timed out is not answered, as the session is
    already in a character; the next wait of the dialog may then end with what
    the earlier selection sent.
13. A client that is away holds container packets without their generations and
    applies them when the cell loads, each on its own timer; an older one may be
    applied after a newer one (`crossed`), which `StoresAgree` excludes.
14. With lanes, `SourceUnavailable` (lane 0) may arrive after the snapshot (lane 1)
    it should be followed by: the take waits until the next container packet.
    `NoTakeForgotten` is checked for packets in order.
15. A guard that waits for an answer (`ArrestPending`) may wait for good.  A refused
    answer leaves it waiting; so does a prompt that the client drops because a dialogue is
    open (logged as "deferred", but nothing brings it again), because the
    guard has moved or because the prompt on lane 0 has overtaken the bounty on lane 1;
    so does a choice that ends for want of a known bounty, and the result of an
    earlier answer, which closes whatever dialogue there is.  Until a hard cell exit,
    death or a bounty of 0 the guard neither pursues nor asks again, and keeps every other guard
    of the cell from asking.  `OfferStands` names these cases (`lost`).
16. A waiting guard outlives the session of the offender: the relogged player
    is not asked again, though the comment at `Server.cpp` 8285-8287 means enforcement to
    be issued again after relogs; pursuits and fights are (`Reissued`).
17. A guard that migrates with an open offer may come to a cell in which another
    waits for the same player, against the comment at 17634.  `OneOffer` excludes
    guards that have `moved`.
18. A teleport by a script suspends no pursuit, and the report of the cell that
    follows finds the player there already, so its own suspension (8273-8280) does not run.
19. A crime against somebody else takes over a guard whose arrest was resisted: it stops
    fighting the first offender (against the comments at 2846 and 3437-3439), which is why
    `ResistIsFinal` allows another culprit.
20. A reset tells the doors' base state to the clients with the cell loaded only
    (`Server.cpp` 19791), while containers are reset in every client, as a comment
    there (19763-19765) explains for what a client keeps of cells it has visited.  Who has been in the cell and
    comes back is sent nothing, as there is no record left (6588-6592), and shows the old
    door under its old revision until somebody moves it.  `RoamersConverge` excludes a
    client that has `missed` a reset.

## 6 What is not modelled

- The components marked planned in section 1, and those without a module.
- Of containers: those carried by actors, puts and deferred removals, and the
  distance check of takes.  A cell that changes hands during a bootstrap refuses the
  old owner's answer silently, and the new owner is asked by the next request.
- Of joining: login, registration and keys; the chunks of packages; the client
  that selects a character named on its command line, which never times out.
- Of item transfers: batch takes and barter, grants and removals by scripts,
  splitting of stacks and the identities of instances, theft.
- Of arrests: what they do to inventories and skills (gold, confiscation, evidence,
  days in jail), how witnesses are found, the snapshots and distances that allow an
  answer (either outcome), replayed requests and failures of the database.  Crimes but theft
  are taken to carry a positive bounty, which is a setting of the content files.
- Time: windows are open or closed, timeouts may fire at any moment.
- Content of packets beyond what the properties tell apart, decoding, rate
  limits, logging, statistics.
- Failure of the process between two writes of one handler.  The commits of
  items are single transactions; a handler that dies before its packet has an effect is a
  packet that was not received.

## 7 Plan

Done: the authority over actors, the shared world state (doors, items,
containers, geometry), the way into the world, crime and arrest, and the only place
with threads.
Next, in order:

1. **Jail**: what an accepted arrest commits (gold, confiscation, evidence, days) as
   an extension of `ItemTransfers`' commits and of `GuardArrest`'s `Accept`, with the
   table of answered requests; abstract specification: a sentence is served once.
2. **Barter**: batch takes and trades as an extension of `ItemTransfers`' commits,
   gold included; conservation of items and gold.
3. **MechanicsSnapshots** and **ActorMigration**: acceptance under owner and
   generation, monotone sequences, one registered copy of an actor; composed with
   `ActorAuthority` through its lease.
4. **DynamicRecords**: a ledger of requests (created once under retries), links and
   collection.
5. **MpNumbers**, **Spellbook**, **OutboundQueue**, **MasterServer**.

Theorems worth proving next: the safety of each of these as it is modelled; of what is there,
which part of the containers' invariant survives the lanes.
