-------------------------- MODULE CollisionInterest --------------------------
(***************************************************************************)
(* Which cells the server keeps collision geometry for.  Every player owns *)
(* the cells its observation radius touches; a cell is loaded while it has *)
(* an owner, and its generation tells an old line-of-sight query from a    *)
(* new one.                                                                *)
(*                                                                         *)
(*   apps/openmw-server/CollisionCellOwnership.cpp   owners                *)
(*   apps/openmw-server/ServerCollisionLifecycle.hpp reference counts and  *)
(*                                                   generations           *)
(*   apps/openmw-server/ServerCollisionWorld.cpp     loaded geometry       *)
(*   apps/openmw-server/Server.cpp                   updateCollisionInterest, *)
(*                                                   the door and reset    *)
(*                                                   handlers              *)
(*                                                                         *)
(* Handlers run one at a time on the game-loop thread.  Each cell has one  *)
(* door; open is its authoritative state, shape its place in the geometry. *)
(* Cells are numbered in the order of their keys, in which a transition    *)
(* acquires them.                                                          *)
(***************************************************************************)
EXTENDS Integers, FiniteSets

CONSTANTS
  Players,        \* collision owners
  Cells,          \* cell keys, numbered in their order
  Interests,      \* the sets of cells a position can be interested in
  Failing,        \* cells whose content cannot be loaded
  MaxGeneration   \* bound: largest generation reached

ASSUME PlayerAssumption == IsFiniteSet(Players)
ASSUME CellAssumption ==
  /\ Cells \subseteq Nat
  /\ Interests \subseteq SUBSET Cells
  /\ Failing \subseteq Cells
ASSUME BoundAssumption == MaxGeneration \in Nat

VARIABLES
  owners,   \* mOwners: the cells each player owns
  col,      \* col[c]: reference count, generation and door shape of a cell
  open,     \* open[c]: the door of c in doorStates
  stamp     \* a line-of-sight query: its cell, generation and the shape meant

vars == <<owners, col, open, stamp>>

CellStates == [refs : Nat, generation : Nat, shape : BOOLEAN]
State(refs, generation, shape) ==
  [refs |-> refs, generation |-> generation, shape |-> shape]

NoStamp    == [cell |-> -1, generation |-> 0, shape |-> FALSE]
Stamps     == {NoStamp} \cup [cell : Cells, generation : Nat, shape : BOOLEAN]

TypeOK ==
  /\ owners \in [Players -> SUBSET Cells]
  /\ col \in [Cells -> CellStates]
  /\ open \in [Cells -> BOOLEAN]
  /\ stamp \in Stamps

Init ==
  /\ owners = [p \in Players |-> {}]
  /\ col = [c \in Cells |-> State(0, 0, FALSE)]
  /\ open \in [Cells -> BOOLEAN]
  /\ stamp = NoStamp

-----------------------------------------------------------------------------
(* One cell *)

\* setDoorOpen: touch, if the door of a loaded cell moves.
TurnedSilently(k, shape) ==
  IF k.refs = 0 THEN k ELSE State(k.refs, k.generation, shape)
Turned(k, shape) ==
  IF k.refs = 0 \/ k.shape = shape THEN k ELSE State(k.refs, k.generation + 1, shape)

\* acquireCell of content that loads: doors come up closed, and those open
\* in doorStates are turned.
AcquiredClosed(k, shape) ==
  IF k.refs = 0 THEN State(1, k.generation + 1, FALSE)
  ELSE State(k.refs + 1, k.generation, k.shape)
Acquired(k, shape) ==
  IF k.refs = 0 THEN Turned(State(1, k.generation + 1, FALSE), shape)
  ELSE State(k.refs + 1, k.generation, k.shape)

\* releaseCell: nothing if the cell has no references.
LetGoUnguarded(k) ==
  IF k.refs = 1 THEN State(0, k.generation + 1, FALSE)
  ELSE State(k.refs - 1, k.generation, k.shape)
LetGo(k) ==
  IF k.refs = 0 THEN k
  ELSE IF k.refs = 1 THEN State(0, k.generation + 1, FALSE)
  ELSE State(k.refs - 1, k.generation, k.shape)

\* acquireCell of content that does not load releases what it acquired.
LoadFailed(k) == State(k.refs, k.generation + 2, k.shape)

-----------------------------------------------------------------------------
(* Players *)

\* A cell is loaded when its first owner comes, which fails for Failing.
Unloadable(acquire) == {c \in acquire : c \in Failing /\ col[c].refs = 0}

\* applyCollisionOwnershipTransition
Apply(acquire, release) ==
  col' = [c \in Cells |-> IF c \in acquire THEN Acquired(col[c], open[c])
                          ELSE IF c \in release THEN LetGo(col[c]) ELSE col[c]]

\* updateCollisionInterest, on each accepted position or cell change.
Update(p, desired) ==
  LET acquire == desired \ owners[p]
  IN  /\ Unloadable(acquire) = {}
      /\ owners' = [owners EXCEPT ![p] = desired]
      /\ Apply(acquire, owners[p] \ desired)
      /\ UNCHANGED <<open, stamp>>

\* Its catch block: the cells before the first that fails have been acquired;
\* the owner gets its old cells back and every cell of the transition's
\* acquire list is released.
RejectHalfway(p, desired) ==
  LET acquire == desired \ owners[p]
  IN  \E first \in Unloadable(acquire) :
        /\ \A d \in Unloadable(acquire) : first <= d
        /\ col' = [c \in Cells |-> IF c \in acquire /\ c < first
                                   THEN Acquired(col[c], open[c]) ELSE col[c]]
        /\ UNCHANGED <<owners, open, stamp>>
Reject(p, desired) ==
  LET acquire == desired \ owners[p]
      Undone(c, first) == IF c < first THEN LetGo(Acquired(col[c], open[c]))
                          ELSE IF c = first THEN LetGo(LoadFailed(col[c]))
                          ELSE LetGo(col[c])
  IN  \E first \in Unloadable(acquire) :
        /\ \A d \in Unloadable(acquire) : first <= d
        /\ col' = [c \in Cells |-> IF c \in acquire THEN Undone(c, first) ELSE col[c]]
        /\ UNCHANGED <<owners, open, stamp>>

\* releaseCollisionInterest, when a client disconnects.
Leave(p) ==
  /\ owners[p] # {}
  /\ owners' = [owners EXCEPT ![p] = {}]
  /\ Apply({}, owners[p])
  /\ UNCHANGED <<open, stamp>>

-----------------------------------------------------------------------------
(* Doors and queries *)

\* handleDoorState, for an accepted proposal: the proposer owns the cell and
\* its geometry has the door.
SetDoor(p, c) ==
  /\ c \in owners[p]
  /\ col[c].refs # 0
  /\ open' = [open EXCEPT ![c] = ~@]
  /\ col' = [col EXCEPT ![c] = Turned(@, ~open[c])]
  /\ UNCHANGED <<owners, stamp>>

\* resetCellStatesForTesting closes the doors that have a persisted state.
ResetCell(c) ==
  /\ open[c]
  /\ open' = [open EXCEPT ![c] = FALSE]
  /\ col' = [col EXCEPT ![c] = Turned(@, FALSE)]
  /\ UNCHANGED <<owners, stamp>>

\* A query is stamped with the generation of a loaded cell.
Stamp(c) ==
  /\ col[c].refs # 0
  /\ stamp' = [cell |-> c, generation |-> col[c].generation, shape |-> col[c].shape]
  /\ UNCHANGED <<owners, col, open>>

\* shutdown drops the owners and clears the geometry.
Shutdown ==
  /\ owners' = [p \in Players |-> {}]
  /\ col' = [c \in Cells |->
       IF col[c].refs = 0 THEN col[c]
       ELSE State(0, col[c].generation + 1, FALSE)]
  /\ UNCHANGED <<open, stamp>>

Next ==
  \/ \E p \in Players, desired \in Interests : Update(p, desired) \/ Reject(p, desired)
  \/ \E p \in Players : Leave(p)
  \/ \E p \in Players, c \in Cells : SetDoor(p, c)
  \/ \E c \in Cells : ResetCell(c) \/ Stamp(c)
  \/ Shutdown

Spec == Init /\ [][Next]_vars

\* Bound of the model-checked instances.
Bounded == \A c \in Cells : col[c].generation <= MaxGeneration

-----------------------------------------------------------------------------
(* Properties *)

HoldersIn(o, c) == {p \in Players : c \in o[p]}
Holders(c) == HoldersIn(owners, c)

\* No reference outlives its owner, even after updates that failed half way:
\* otherwise geometry would stay loaded for ever (Server.cpp 2472-2490).
NoLeak == \A c \in Cells : col[c].refs <= Cardinality(Holders(c))

\* The references of a cell are its owners, so that the geometry around every
\* player is there (Server.cpp 2421-2422): of every cell whose key comes before
\* all that fail to load, and of every cell if none does.
BeforeFailures == {c \in Cells : \A d \in Failing : c < d}
RefsAreOwners == \A c \in BeforeFailures : col[c].refs = Cardinality(Holders(c))

\* Both: players that come, go and fail to come give back what they took.
RefsFollowOwners == NoLeak /\ RefsAreOwners

\* The door a ray meets stands as the door every client was told
\* (Server.cpp 2430-2437, 18810, 19793).
GeometryFollowsDoors == \A c \in Cells : col[c].refs # 0 => col[c].shape = open[c]

\* A query stamped before the geometry changed is told from a current one
\* ("stale generation queries are rejected",
\* docs/server-authority-awareness-audit.md:599).
StampsAreFresh ==
  stamp # NoStamp =>
    LET k == col[stamp.cell]
    IN  k.refs # 0 /\ k.generation = stamp.generation => k.shape = stamp.shape

\* A rejected update shall "undo every possibly completed acquire"
\* (Server.cpp 2474-2476) and nothing else: "release does not unload before
\* refcount reaches zero" (docs/server-authority-awareness-audit.md:597), so
\* a cell that has an owner stays loaded.
OwnedCellsStayLoaded == \A c \in Cells : Holders(c) # {} => col[c].refs # 0
=============================================================================
