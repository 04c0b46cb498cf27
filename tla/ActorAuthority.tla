--------------------------- MODULE ActorAuthority ---------------------------
(***************************************************************************)
(* Who simulates the actors of the world.  The server runs no AI: for each *)
(* cell it appoints one client, the cell authority, and for single actors  *)
(* it may lease the authority to another client (a follower's target, the  *)
(* client a script names).  Every appointment carries a generation.        *)
(*                                                                         *)
(*   apps/openmw-server/Server.cpp  refreshActorAuthorityForCell and every *)
(*                                  handler that calls it or touches a     *)
(*                                  lease                                  *)
(*                                                                         *)
(* The server handles one packet at a time on its game-loop thread, so a   *)
(* step is a whole handler.  A cell refresh reads the players and the cell *)
(* itself only, so the refreshes of one handler are done in one go: pref,  *)
(* a function on the cells to refresh, gives each its preferred client.    *)
(* Clocks are left out: the sticky window of a cell is open or closed.     *)
(***************************************************************************)
EXTENDS Integers

CONSTANTS
  Cells,             \* cell keys
  Exterior,          \* the exterior ones; the others are interiors
  Distance,          \* Distance[c][d]: grid distance of two exterior cells
  Radius,            \* mActorAuthorityExteriorRadius
  PreferExactCell,   \* mActorAuthorityPreferExactCell
  Reports,           \* the sets of loaded cells that clients report
  Actors,            \* actor keys
  Spawned,           \* actors with an mpNum; the others come from content files
  Persistent,        \* spawned actors that outlive the visits to their cell
  MaxGuid,           \* bound: clients that ever connect
  MaxGeneration      \* largest value of the unsigned generation counters

Guids   == 1..MaxGuid
NoGuid  == 0
Nowhere == "nowhere"

ASSUME CellAssumption ==
  /\ Exterior \subseteq Cells
  /\ Nowhere \notin Cells
  /\ Distance \in [Exterior -> [Exterior -> Nat]]
  /\ \A c, d \in Exterior : Distance[c][d] = 0 <=> c = d
  /\ Radius \in Nat
  /\ Reports \subseteq SUBSET Cells
ASSUME ActorAssumption ==
  /\ Persistent \subseteq Spawned
  /\ Spawned \subseteq Actors
ASSUME WidthAssumption ==
  /\ MaxGuid \in Nat
  /\ MaxGeneration \in Nat
  /\ MaxGeneration > 1
  /\ PreferExactCell \in BOOLEAN

VARIABLES
  nextGuid,   \* mNextGuid: the guid of the next connection
  online,     \* guids in mClients
  players,    \* players[g].at: its cell once its character is selected;
              \* players[g].loaded: loadedActorCells
  cells,      \* cells[c]: the authority fields of CellActorState
  actors      \* actors[a]: where a is registered, and its lease

vars == <<nextGuid, online, players, cells, actors>>

Reasons == {"", "target-player", "script-owner"}

PlayerStates == [at : Cells \cup {Nowhere}, loaded : SUBSET Cells]
CellStates   == [owner : Guids \cup {NoGuid}, generation : 0..MaxGeneration,
                 sticky : BOOLEAN]
ActorStates  == [cell : Cells \cup {Nowhere}, owner : Guids \cup {NoGuid},
                 generation : 0..MaxGeneration, reason : Reasons]

TypeOK ==
  /\ nextGuid \in 1..(MaxGuid + 1)
  /\ online \subseteq Guids
  /\ players \in [Guids -> PlayerStates]
  /\ cells \in [Cells -> CellStates]
  /\ actors \in [Actors -> ActorStates]

Absent       == [at |-> Nowhere, loaded |-> {}]
Blank        == [owner |-> NoGuid, generation |-> 0, sticky |-> FALSE]
Unregistered == [cell |-> Nowhere, owner |-> NoGuid, generation |-> 0, reason |-> ""]

Init ==
  /\ nextGuid = 1
  /\ online = {}
  /\ players = [g \in Guids |-> Absent]
  /\ cells = [c \in Cells |-> Blank]
  /\ actors = [a \in Actors |-> Unregistered]

-----------------------------------------------------------------------------
(* Who may simulate a cell.  The operators take the players they judge, so *)
(* that a handler can ask about the players as it has just changed them.   *)

\* Generations are uint32_t counters that wrap.
BumpUnwrapped(n) == n + 1
Bump(n) == IF n = MaxGeneration THEN 0 ELSE n + 1

\* clientEligibleForActorCell, and the isEligible of a refresh.
Eligible(ps, g, c) ==
  IF c \in Exterior
  THEN ps[g].at \in Exterior /\ Distance[ps[g].at][c] <= Radius
  ELSE ps[g].at # Nowhere /\ (ps[g].at = c \/ c \in ps[g].loaded)

\* clientHasActorCellLoaded.
HasLoaded(ps, g, c) ==
  /\ ps[g].at # Nowhere
  /\ ps[g].at = c \/ c \in ps[g].loaded \/ Eligible(ps, g, c)

\* actorInterestCellsForClient.
Interest(p) ==
  {c \in Cells : \/ c \in p.loaded \/ c = p.at
                 \/ p.at \in Exterior /\ c \in Exterior /\ Distance[p.at][c] <= Radius}

\* isActorAuthorityLeaseValid, for a record registered in r.cell.
LeaseValid(ps, r) == r.owner \in Guids /\ Eligible(ps, r.owner, r.cell)

Able(ps, c) == {g \in Guids : Eligible(ps, g, c)}

\* The tie rule: the current owner if it is among them, else the lowest guid.
FavourLowest(S, owner) == CHOOSE g \in S : \A h \in S : g <= h
Favour(S, owner) ==
  IF owner \in S THEN owner ELSE CHOOSE g \in S : \A h \in S : g <= h

Exact(ps, c)   == {g \in Able(ps, c) : ps[g].at = c}
Closest(ps, c) ==
  {g \in Able(ps, c) : \A h \in Able(ps, c) : Distance[ps[g].at][c] <= Distance[ps[h].at][c]}

\* The choice of refreshActorAuthorityForCell, in its order of preference.
NewOwner(ps, k, c, preferred) ==
  IF Able(ps, c) = {} THEN NoGuid
  ELSE IF k.sticky /\ k.owner \in Able(ps, c) THEN k.owner
  ELSE IF PreferExactCell /\ Exact(ps, c) # {} THEN Favour(Exact(ps, c), k.owner)
  ELSE IF c \in Exterior THEN Favour(Closest(ps, c), k.owner)
  ELSE IF preferred \in Able(ps, c) THEN preferred
  ELSE Favour(Able(ps, c), NoGuid)

-----------------------------------------------------------------------------
(* refreshActorAuthorityForCell *)

CellRefreshed(ps, k, c, preferred) ==
  LET owner == NewOwner(ps, k, c, preferred)
  IN  IF owner = k.owner THEN k
      ELSE [owner |-> owner, generation |-> Bump(k.generation), sticky |-> owner # NoGuid]

Released(r) == [r EXCEPT !.owner = NoGuid, !.reason = "", !.generation = Bump(@)]

\* Leases that no longer hold are cleared first.
LeaseChecked(ps, r) ==
  IF r.owner # NoGuid /\ ~LeaseValid(ps, r) THEN Released(r) ELSE r

\* A cell left without an owner forgets its temporary spawned actors.
Forgotten(a, owner) == owner = NoGuid /\ a \in Spawned \ Persistent

CellsAfter(ps, cs, pref) ==
  [c \in Cells |-> IF c \in DOMAIN pref
                   THEN CellRefreshed(ps, cs[c], c, pref[c]) ELSE cs[c]]
ActorsAfter(ps, cs, rs, pref) ==
  [a \in Actors |->
    IF rs[a].cell \notin DOMAIN pref THEN rs[a]
    ELSE IF Forgotten(a, CellsAfter(ps, cs, pref)[rs[a].cell].owner) THEN Unregistered
    ELSE LeaseChecked(ps, rs[a])]

Refresh(ps, cs, rs, pref) ==
  /\ cells' = CellsAfter(ps, cs, pref)
  /\ actors' = ActorsAfter(ps, cs, rs, pref)

\* Every cell of S refreshed with the same preferred client.
Preferring(g, S) == [c \in S |-> g]

-----------------------------------------------------------------------------
(* Players *)

\* onClientConnected: guids are never reused.
Connect ==
  /\ nextGuid <= MaxGuid
  /\ nextGuid' = nextGuid + 1
  /\ online' = online \cup {nextGuid}
  /\ UNCHANGED <<players, cells, actors>>

\* handleCharacterSelect: the player appears in the cell it spawns in.
Select(g, c) ==
  /\ g \in online
  /\ players[g].at = Nowhere
  /\ players' = [players EXCEPT ![g].at = c]
  /\ Refresh(players', cells, actors, Preferring(g, {c}))
  /\ UNCHANGED <<nextGuid, online>>

\* handlePlayerCellChange: only the cell left and the cell entered are
\* refreshed; loadedActorCells waits for the next report.
ChangeCellOldOnly(g, d) ==
  /\ players[g].at \notin {Nowhere, d}
  /\ players' = [players EXCEPT ![g].at = d]
  /\ Refresh(players', cells, actors, Preferring(NoGuid, {players[g].at}))
  /\ UNCHANGED <<nextGuid, online>>
ChangeCell(g, d) ==
  /\ players[g].at \notin {Nowhere, d}
  /\ players' = [players EXCEPT ![g].at = d]
  /\ Refresh(players', cells, actors,
       [c \in {players[g].at, d} |-> IF c = d THEN g ELSE NoGuid])
  /\ UNCHANGED <<nextGuid, online>>

\* handlePlayerLoadedCells: the report normalised to the cells a player in
\* its cell can have loaded; the ones gained and lost are refreshed.
ReportLoaded(g, report) ==
  LET here == players[g].at
      seen == {here} \cup (IF here \in Exterior THEN report \cap Exterior ELSE {})
      gained == seen \ players[g].loaded
      lost == players[g].loaded \ seen
  IN  /\ here # Nowhere
      /\ players' = [players EXCEPT ![g].loaded = seen]
      /\ Refresh(players', cells, actors,
           [c \in gained \cup lost |-> IF c \in gained THEN g ELSE NoGuid])
      /\ UNCHANGED <<nextGuid, online>>

\* teleportPlayer, called by scripts and by the jail: loadedActorCells is
\* cleared and everything the player was interested in is refreshed.
Teleport(g, d) ==
  /\ players[g].at # Nowhere
  /\ players' = [players EXCEPT ![g] = [at |-> d, loaded |-> {}]]
  /\ Refresh(players', cells, actors,
       [c \in Interest(players[g]) \cup {d} |-> IF c = d THEN g ELSE NoGuid])
  /\ UNCHANGED <<nextGuid, online>>

\* onClientDisconnected: the leases of g are revoked everywhere, then the
\* cells g was interested in are refreshed if g was their authority.
RevokedSilently(rs, g) ==
  [a \in Actors |-> IF rs[a].owner = g
                    THEN [rs[a] EXCEPT !.owner = NoGuid, !.reason = ""] ELSE rs[a]]
Revoked(rs, g) ==
  [a \in Actors |-> IF rs[a].owner = g THEN Released(rs[a]) ELSE rs[a]]
Disconnect(g) ==
  /\ g \in online
  /\ online' = online \ {g}
  /\ players' = [players EXCEPT ![g] = Absent]
  /\ Refresh(players', cells, Revoked(actors, g),
       Preferring(NoGuid, {c \in Interest(players[g]) : cells[c].owner = g}))
  /\ UNCHANGED nextGuid

-----------------------------------------------------------------------------
(* Packets about actors.  validateActorUpdate refreshes the cell the packet *)
(* names if it has no authority, whether or not the packet is accepted.     *)

Election(g, c) == Preferring(g, IF cells[c].owner = NoGuid THEN {c} ELSE {})
CellsThen(g, c)  == CellsAfter(players, cells, Election(g, c))
ActorsThen(g, c) == ActorsAfter(players, cells, actors, Election(g, c))

\* isAllowedActorSender, extended to actors unknown in cell c.
MaySend(cs, rs, g, c, a) ==
  IF rs[a].cell = c /\ LeaseValid(players, rs[a])
  THEN rs[a].owner = g ELSE cs[c].owner = g

\* validateActorUpdate, for a packet from g about the actors S in cell c.
Accepts(cs, rs, g, c, S) ==
  /\ \/ HasLoaded(players, g, c)
     \/ /\ S # {}
        /\ \A a \in S : rs[a].cell = c /\ LeaseValid(players, rs[a]) /\ rs[a].owner = g
  /\ IF S = {} THEN cs[c].owner = g ELSE \A a \in S : MaySend(cs, rs, g, c, a)

\* A packet that is refused may still have caused an election.
Refused(g, c, S) ==
  /\ players[g].at # Nowhere
  /\ cells[c].owner = NoGuid
  /\ ~Accepts(CellsThen(g, c), ActorsThen(g, c), g, c, S)
  /\ cells' = CellsThen(g, c)
  /\ actors' = ActorsThen(g, c)
  /\ UNCHANGED <<nextGuid, online, players>>

\* updateActorAuthorityLeaseFromAi: an actor that follows or escorts player
\* `target` is leased to it; NoGuid stands for any other AI package.
FollowedBlindly(r, target, dead) ==
  IF target # NoGuid THEN [r EXCEPT !.owner = target, !.reason = "target-player"]
  ELSE IF r.reason = "target-player" /\ ~dead
       THEN [r EXCEPT !.owner = NoGuid, !.reason = ""]
       ELSE r
Followed(r, target, dead) ==
  IF target # NoGuid
  THEN IF Eligible(players, target, r.cell)
       THEN [r EXCEPT !.owner = target, !.reason = "target-player"]
       ELSE [r EXCEPT !.owner = NoGuid, !.reason = ""]
  ELSE IF r.reason = "target-player" /\ ~dead
       THEN [r EXCEPT !.owner = NoGuid, !.reason = ""]
       ELSE r
LeaseFromAi(r, target, dead) ==
  IF r.reason = "script-owner" THEN r
  ELSE LET new == Followed(r, target, dead)
       IN  IF new = r THEN r ELSE [new EXCEPT !.generation = Bump(@)]

\* handleActorAI.
UpdateActor(g, a, target, dead) ==
  LET c == actors[a].cell
      rs == ActorsThen(g, c)
  IN  /\ players[g].at # Nowhere
      /\ c # Nowhere
      /\ Accepts(CellsThen(g, c), rs, g, c, {a})
      /\ rs[a].cell = c
      /\ cells' = CellsThen(g, c)
      /\ actors' = [rs EXCEPT ![a] = LeaseFromAi(rs[a], target, dead)]
      /\ UNCHANGED <<nextGuid, online, players>>

\* handleActorList: g reports the whole population of cell c.  A content
\* actor is registered, or moved here with its lease; a spawned one must be
\* known, and is not moved between exteriors.  Of those it omits, spawned
\* actors stay, and content actors go unless dead or wanted (kept).
Listed(rs, c, a) ==
  IF a \in Spawned
  THEN rs[a].cell = c \/ (rs[a].cell # Nowhere /\ ~({c, rs[a].cell} \subseteq Exterior))
  ELSE TRUE
ListActors(g, c, S, kept, target, dead) ==
  LET rs == ActorsThen(g, c)
  IN  /\ players[g].at # Nowhere
      /\ Accepts(CellsThen(g, c), rs, g, c, S)
      /\ cells' = CellsThen(g, c)
      /\ actors' = [a \in Actors |->
           IF a \in S /\ Listed(rs, c, a)
           THEN LeaseFromAi([rs[a] EXCEPT !.cell = c], target, dead)
           ELSE IF rs[a].cell = c /\ a \notin Spawned \cup kept THEN Unregistered
           ELSE rs[a]]
      /\ UNCHANGED <<nextGuid, online, players>>

\* handleActorCellChange, the only migration of a spawned actor between
\* exteriors.  The reverse hand-off guard only makes the server ignore a
\* message for two seconds, which is no step here.  The destination is
\* refreshed if it has no authority.
Migrate(g, a, d, target, dead) ==
  LET c == actors[a].cell
      rs == ActorsThen(g, c)
      moved == LeaseChecked(players, LeaseFromAi([rs[a] EXCEPT !.cell = d], target, dead))
      cs == CellsThen(g, c)
  IN  /\ c \notin {Nowhere, d}
      /\ rs[a].cell = c
      /\ Accepts(cs, rs, g, c, {a})
      /\ Eligible(players, g, d)
      /\ Refresh(players, cs, [rs EXCEPT ![a] = moved],
           Preferring(g, IF cs[d].owner = NoGuid THEN {d} ELSE {}))
      /\ UNCHANGED <<nextGuid, online, players>>

-----------------------------------------------------------------------------
(* The server's own operations *)

\* spawnActor: a script may name the client that is to simulate the actor.
Spawn(a, c, g) ==
  LET pref == Preferring(NoGuid, IF cells[c].owner = NoGuid THEN {c} ELSE {})
      asked == [cell |-> c, owner |-> g, generation |-> 1, reason |-> "script-owner"]
      new == IF g = NoGuid THEN [Unregistered EXCEPT !.cell = c]
             ELSE IF LeaseValid(players, asked) THEN asked
             ELSE [asked EXCEPT !.owner = NoGuid, !.reason = ""]
  IN  /\ a \in Spawned
      /\ actors[a].cell = Nowhere
      /\ cells' = CellsAfter(players, cells, pref)
      /\ actors' = [ActorsAfter(players, cells, actors, pref) EXCEPT ![a] = new]
      /\ UNCHANGED <<nextGuid, online, players>>

\* removeActor.
Remove(a) ==
  /\ a \in Spawned
  /\ actors[a].cell # Nowhere
  /\ actors' = [actors EXCEPT ![a] = Unregistered]
  /\ UNCHANGED <<nextGuid, online, players, cells>>

\* resetCellStatesForTesting, once the database has been reset: every cell of
\* S is emptied and starts a new epoch, then each elects an owner.
Emptied(k) == [owner |-> NoGuid, generation |-> Bump(k.generation), sticky |-> FALSE]
ResetCells(S) ==
  /\ Refresh(players,
       [c \in Cells |-> IF c \in S THEN Emptied(cells[c]) ELSE cells[c]],
       [a \in Actors |-> IF actors[a].cell \in S THEN Unregistered ELSE actors[a]],
       Preferring(NoGuid, S))
  /\ UNCHANGED <<nextGuid, online, players>>

\* authorityStickyUntilMs passes.
StickyEnds(c) ==
  /\ cells[c].sticky
  /\ cells' = [cells EXCEPT ![c].sticky = FALSE]
  /\ UNCHANGED <<nextGuid, online, players, actors>>

PlayerStep(g) ==
  \/ \E c \in Cells : Select(g, c) \/ ChangeCell(g, c) \/ Teleport(g, c)
  \/ \E report \in Reports : ReportLoaded(g, report)
  \/ Disconnect(g)

ActorPacket(g) ==
  \E target \in Guids \cup {NoGuid}, dead \in BOOLEAN :
    \/ \E a \in Actors : UpdateActor(g, a, target, dead)
    \/ \E a \in Actors, d \in Cells : Migrate(g, a, d, target, dead)
    \/ \E c \in Cells, S, kept \in SUBSET Actors : ListActors(g, c, S, kept, target, dead)

ServerStep ==
  \/ \E a \in Actors, c \in Cells, g \in Guids \cup {NoGuid} : Spawn(a, c, g)
  \/ \E a \in Actors : Remove(a)
  \/ \E S \in SUBSET Cells \ {{}} : ResetCells(S)
  \/ \E c \in Cells : StickyEnds(c)

Next ==
  \/ Connect
  \/ \E g \in Guids : PlayerStep(g)
  \/ \E g \in Guids : ActorPacket(g)
  \/ \E g \in Guids, c \in Cells, S \in SUBSET Actors : Refused(g, c, S)
  \/ ServerStep

Spec == Init /\ [][Next]_vars

-----------------------------------------------------------------------------
(* Properties *)

\* No actor is leased to a client that is gone or has no character: its
\* simulation would stop and nobody else would be allowed to send for it.
\* (Server.cpp 3838-3852, 4590-4592.)
LeaseOwnerOnline ==
  \A a \in Actors : actors[a].owner # NoGuid =>
    actors[a].owner \in online /\ players[actors[a].owner].at # Nowhere

\* A cell in which a player stands has an authority, however it got there:
\* its own arrival, another's departure, a reset (Server.cpp 3895-4112).
AttendedCellHasOwner ==
  \A g \in Guids : players[g].at # Nowhere => cells[players[g].at].owner # NoGuid

\* Whoever becomes the authority of a cell may simulate it, whichever client
\* a handler prefers (Server.cpp 4008-4021).
OwnersAreEligible ==
  \A c \in Cells :
    cells'[c].owner \notin {cells[c].owner, NoGuid} => Eligible(players', cells'[c].owner, c)

\* While an actor stays registered, its lease never changes hands under the
\* same generation: clients tell a stale grant from the current one by it
\* (Server.cpp 3913-3918, 4844-4848, 12985-12990).
LeaseChangesAreNumbered ==
  \A a \in Actors :
    actors[a].cell # Nowhere /\ actors'[a].cell # Nowhere
      /\ actors'[a].owner # actors[a].owner =>
        actors'[a].generation # actors[a].generation
LeaseFence == [][LeaseChangesAreNumbered]_vars

\* "Keep the current owner during its sticky window while it remains
\* eligible" (Server.cpp 3944-3946): only a reset takes the cell from it.
\* A reset empties the cell, which the model sees as a double bump or an
\* ownerless cell.
StickyOwnersStay ==
  \A c \in Cells :
    /\ cells[c].sticky /\ cells[c].owner # NoGuid
    /\ cells'[c].owner # cells[c].owner
    /\ cells'[c].generation = Bump(cells[c].generation)
    => ~Eligible(players', cells[c].owner, c)

\* "Equal distance keeps the existing authority as hysteresis; only a
\* strictly closer player causes a handoff" (Server.cpp 3977-3979).
HandoffsAreCloser ==
  \A c \in Exterior :
    LET old == cells[c].owner
        new == cells'[c].owner
    IN  /\ NoGuid \notin {old, new} /\ new # old
        /\ cells'[c].generation = Bump(cells[c].generation)
        /\ Eligible(players', old, c)
        => Distance[players'[new].at][c] < Distance[players'[old].at][c]

\* An authority changes for one of these causes, in every handler and whichever
\* client it prefers: nobody is appointed who could not simulate the cell, and two
\* players at a border do not take it from each other in turn.
HandoversHaveCause == [][OwnersAreEligible /\ StickyOwnersStay /\ HandoffsAreCloser]_vars
=============================================================================
