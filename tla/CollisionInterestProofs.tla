----------------------- MODULE CollisionInterestProofs -----------------------
(***************************************************************************)
(* Theorems about CollisionInterest.  A transition changes the owners of a *)
(* cell and its references together; the lemmas say by how much each does. *)
(***************************************************************************)
EXTENDS CollisionInterest, FiniteSetTheorems, TLAPS

USE PlayerAssumption, CellAssumption

-----------------------------------------------------------------------------
(* One cell *)

\* A cell record in its type, with its fields.
LEMMA CellOperators ==
  ASSUME NEW k \in CellStates, NEW b \in BOOLEAN
  PROVE  /\ Turned(k, b) \in CellStates
         /\ Turned(k, b).refs = k.refs
         /\ Acquired(k, b) \in CellStates
         /\ Acquired(k, b).refs = k.refs + 1
         /\ LetGo(k) \in CellStates
         /\ LetGo(k).refs = (IF k.refs = 0 THEN 0 ELSE k.refs - 1)
         /\ LoadFailed(k) \in CellStates
         /\ LoadFailed(k).refs = k.refs
<1>1. /\ Turned(k, b) \in CellStates
      /\ Turned(k, b).refs = k.refs
  BY DEF Turned, State, CellStates
<1>2. /\ LetGo(k) \in CellStates
      /\ LetGo(k).refs = (IF k.refs = 0 THEN 0 ELSE k.refs - 1)
  BY DEF LetGo, State, CellStates
<1>3. LoadFailed(k) \in CellStates /\ LoadFailed(k).refs = k.refs
  BY DEF LoadFailed, State, CellStates
<1>4. Acquired(k, b) \in CellStates /\ Acquired(k, b).refs = k.refs + 1
  <2> DEFINE fresh == State(1, k.generation + 1, FALSE)
  <2>1. fresh \in CellStates /\ fresh.refs = 1
    BY DEF State, CellStates
  <2> HIDE DEF fresh
  <2>2. Turned(fresh, b) \in CellStates /\ Turned(fresh, b).refs = 1
    BY <2>1 DEF Turned, State, CellStates
  <2>3. CASE k.refs = 0
    <3>1. Acquired(k, b) = Turned(fresh, b)
      BY <2>3 DEF Acquired, fresh
    <3>2. QED
      BY <2>2, <2>3, <3>1 DEF CellStates
  <2>4. CASE k.refs # 0
    BY <2>4 DEF Acquired, State, CellStates
  <2>5. QED
    BY <2>3, <2>4
<1>5. QED
  BY <1>1, <1>2, <1>3, <1>4

\* The record k2 may follow k: the generation moves on whenever the cell is
\* loaded, unloaded or its door turned.
Later(k2, k) ==
  /\ k2.generation >= k.generation
  /\ k2.generation = k.generation =>
       (k2.refs = 0 <=> k.refs = 0) /\ (k.refs # 0 => k2.shape = k.shape)

LEMMA LaterOperators ==
  ASSUME NEW k \in CellStates, NEW b \in BOOLEAN
  PROVE  /\ Later(k, k)
         /\ Later(Turned(k, b), k)
         /\ Later(Acquired(k, b), k)
         /\ Later(LetGo(k), k)
         /\ Later(LoadFailed(k), k)
<1>1. Later(k, k) /\ Later(Turned(k, b), k)
  BY DEF Later, Turned, State, CellStates
<1>2. Later(LoadFailed(k), k)
  BY DEF Later, LoadFailed, State, CellStates
<1>3. Later(LetGo(k), k)
  <2>1. CASE k.refs = 0
    BY <2>1, <1>1 DEF LetGo
  <2>2. CASE k.refs = 1
    BY <2>2 DEF Later, LetGo, State, CellStates
  <2>3. CASE k.refs > 1
    <3>1. LetGo(k) = State(k.refs - 1, k.generation, k.shape)
      <4>1. k.refs # 0 /\ k.refs # 1
        BY <2>3 DEF CellStates
      <4>2. QED
        BY <4>1, Zenon DEF LetGo
    <3>2. /\ State(k.refs - 1, k.generation, k.shape).generation = k.generation
          /\ State(k.refs - 1, k.generation, k.shape).refs = k.refs - 1
          /\ State(k.refs - 1, k.generation, k.shape).shape = k.shape
      BY DEF State
    <3>3. QED
      BY <2>3, <3>1, <3>2 DEF Later, CellStates
  <2>4. QED
    BY <2>1, <2>2, <2>3 DEF CellStates
<1>4. Later(Acquired(k, b), k)
  <2> DEFINE fresh == State(1, k.generation + 1, FALSE)
  <2>1. fresh \in CellStates /\ fresh.generation = k.generation + 1
    BY DEF State, CellStates
  <2>2. CASE k.refs = 0
    <3> HIDE DEF fresh
    <3>1. Acquired(k, b) = Turned(fresh, b)
      BY <2>2 DEF Acquired, fresh
    <3>2. Turned(fresh, b).generation >= fresh.generation
      BY <2>1 DEF Turned, State, CellStates
    <3>3. QED
      BY <2>1, <3>1, <3>2, CellOperators DEF Later, CellStates
  <2>3. CASE k.refs # 0
    <3>1. Acquired(k, b) = State(k.refs + 1, k.generation, k.shape)
      BY <2>3 DEF Acquired
    <3>2. /\ State(k.refs + 1, k.generation, k.shape).generation = k.generation
          /\ State(k.refs + 1, k.generation, k.shape).refs = k.refs + 1
          /\ State(k.refs + 1, k.generation, k.shape).shape = k.shape
      BY DEF State
    <3>3. QED
      BY <2>3, <3>1, <3>2 DEF Later, CellStates
  <2>4. QED
    BY <2>2, <2>3
<1>5. QED
  BY <1>1, <1>2, <1>3, <1>4

LEMMA LaterIsTransitive ==
  ASSUME NEW k \in CellStates, NEW m \in CellStates, NEW n \in CellStates,
         Later(m, k), Later(n, m)
  PROVE  Later(n, k)
BY DEF Later, CellStates

\* A loaded cell has its door where doorStates has it.
Agrees(k, b) == k.refs # 0 => k.shape = b

LEMMA AgreesOperators ==
  ASSUME NEW k \in CellStates, NEW b \in BOOLEAN
  PROVE  /\ Agrees(Turned(k, b), b)
         /\ Agrees(k, b) => Agrees(Acquired(k, b), b) /\ Agrees(LetGo(k), b)
         /\ Agrees(k, b) => Agrees(LetGo(LoadFailed(k)), b)
<1>1. Agrees(Turned(k, b), b)
  BY DEF Agrees, Turned, State, CellStates
<1>2. Agrees(k, b) => Agrees(LetGo(k), b)
  BY DEF Agrees, LetGo, State, CellStates
<1>3. Agrees(k, b) => Agrees(Acquired(k, b), b)
  BY DEF Agrees, Acquired, Turned, State, CellStates
<1>4. Agrees(k, b) => Agrees(LetGo(LoadFailed(k)), b)
  BY DEF Agrees, LetGo, LoadFailed, State, CellStates
<1>5. QED
  BY <1>1, <1>2, <1>3, <1>4

-----------------------------------------------------------------------------
(* One step of one cell *)

\* What a step may make of the record k of a cell whose door stood at b.
Follows(k2, b2, k, b) ==
  \/ k2 = k /\ b2 = b
  \/ k2 = Turned(k, b2)
  \/ k2 = Acquired(k, b) /\ b2 = b
  \/ k2 = LetGo(k) /\ b2 = b
  \/ k2 = LetGo(Acquired(k, b)) /\ b2 = b
  \/ k2 = LetGo(LoadFailed(k)) /\ b2 = b
  \/ k2 = State(0, k.generation + 1, FALSE) /\ b2 = b

\* A cell keeps its type, moves forward and goes on agreeing with its door.
LEMMA FollowsFacts ==
  ASSUME NEW k \in CellStates, NEW b \in BOOLEAN, NEW b2 \in BOOLEAN, NEW k2,
         Follows(k2, b2, k, b)
  PROVE  /\ k2 \in CellStates
         /\ Later(k2, k)
         /\ Agrees(k, b) => Agrees(k2, b2)
<1>1. CASE k2 = k /\ b2 = b
  BY <1>1, LaterOperators
<1>2. CASE k2 = Turned(k, b2)
  BY <1>2, CellOperators, LaterOperators, AgreesOperators
<1>3. CASE k2 = Acquired(k, b) /\ b2 = b
  BY <1>3, CellOperators, LaterOperators, AgreesOperators
<1>4. CASE k2 = LetGo(k) /\ b2 = b
  BY <1>4, CellOperators, LaterOperators, AgreesOperators
<1>5. CASE k2 = LetGo(Acquired(k, b)) /\ b2 = b
  <2>1. Acquired(k, b) \in CellStates
    BY CellOperators
  <2>2. k2 \in CellStates /\ Later(k2, Acquired(k, b))
    BY <1>5, <2>1, CellOperators, LaterOperators
  <2>3. Later(k2, k)
    BY <2>1, <2>2, LaterOperators, LaterIsTransitive
  <2>4. Agrees(k, b) => Agrees(k2, b2)
    BY <1>5, <2>1, AgreesOperators
  <2>5. QED
    BY <2>2, <2>3, <2>4
<1>6. CASE k2 = LetGo(LoadFailed(k)) /\ b2 = b
  <2>1. LoadFailed(k) \in CellStates
    BY CellOperators
  <2>2. k2 \in CellStates /\ Later(k2, LoadFailed(k))
    BY <1>6, <2>1, CellOperators, LaterOperators
  <2>3. Later(k2, k)
    BY <2>1, <2>2, LaterOperators, LaterIsTransitive
  <2>4. Agrees(k, b) => Agrees(k2, b2)
    BY <1>6, AgreesOperators
  <2>5. QED
    BY <2>2, <2>3, <2>4
<1>7. CASE k2 = State(0, k.generation + 1, FALSE) /\ b2 = b
  <2>1. /\ k2 \in CellStates
        /\ k2.refs = 0
        /\ k2.generation = k.generation + 1
    BY <1>7 DEF State, CellStates
  <2>2. k2.generation > k.generation
    BY <2>1 DEF CellStates
  <2>3. QED
    BY <2>1, <2>2 DEF Later, Agrees, CellStates
<1>8. QED
  BY <1>1, <1>2, <1>3, <1>4, <1>5, <1>6, <1>7 DEF Follows

LEMMA InterestsAreCells == \A desired \in Interests : desired \subseteq Cells
OBVIOUS

StepOfCells == \A c \in Cells : Follows(col'[c], open'[c], col[c], open[c])

\* Every step takes every cell to a record that follows the one before.
LEMMA StepFollows ==
  ASSUME TypeOK, [Next]_vars
  PROVE  /\ StepOfCells
         /\ open' \in [Cells -> BOOLEAN]
         /\ owners' \in [Players -> SUBSET Cells]
         /\ col' = [c \in Cells |-> col'[c]]
<1> USE DEF TypeOK
<1>1. ASSUME NEW p \in Players, NEW desired \in Interests, Update(p, desired)
      PROVE  /\ StepOfCells
             /\ open' \in [Cells -> BOOLEAN]
             /\ owners' \in [Players -> SUBSET Cells]
             /\ col' = [c \in Cells |-> col'[c]]
  BY <1>1, InterestsAreCells DEF Update, Apply, StepOfCells, Follows
<1>2. ASSUME NEW p \in Players, NEW desired \in Interests, Reject(p, desired)
      PROVE  /\ StepOfCells
             /\ open' \in [Cells -> BOOLEAN]
             /\ owners' \in [Players -> SUBSET Cells]
             /\ col' = [c \in Cells |-> col'[c]]
  BY <1>2 DEF Reject, StepOfCells, Follows
<1>3. ASSUME NEW p \in Players, Leave(p)
      PROVE  /\ StepOfCells
             /\ open' \in [Cells -> BOOLEAN]
             /\ owners' \in [Players -> SUBSET Cells]
             /\ col' = [c \in Cells |-> col'[c]]
  BY <1>3 DEF Leave, Apply, StepOfCells, Follows
<1>4. ASSUME NEW p \in Players, NEW d \in Cells, SetDoor(p, d)
      PROVE  /\ StepOfCells
             /\ open' \in [Cells -> BOOLEAN]
             /\ owners' \in [Players -> SUBSET Cells]
             /\ col' = [c \in Cells |-> col'[c]]
  BY <1>4 DEF SetDoor, StepOfCells, Follows
<1>5. ASSUME NEW d \in Cells, ResetCell(d)
      PROVE  /\ StepOfCells
             /\ open' \in [Cells -> BOOLEAN]
             /\ owners' \in [Players -> SUBSET Cells]
             /\ col' = [c \in Cells |-> col'[c]]
  BY <1>5 DEF ResetCell, StepOfCells, Follows
<1>6. ASSUME NEW d \in Cells, Stamp(d)
      PROVE  /\ StepOfCells
             /\ open' \in [Cells -> BOOLEAN]
             /\ owners' \in [Players -> SUBSET Cells]
             /\ col' = [c \in Cells |-> col'[c]]
  BY <1>6 DEF Stamp, StepOfCells, Follows
<1>7. ASSUME Shutdown
      PROVE  /\ StepOfCells
             /\ open' \in [Cells -> BOOLEAN]
             /\ owners' \in [Players -> SUBSET Cells]
             /\ col' = [c \in Cells |-> col'[c]]
  BY <1>7 DEF Shutdown, StepOfCells, Follows
<1>8. CASE UNCHANGED vars
  BY <1>8 DEF vars, StepOfCells, Follows
<1>9. QED
  BY <1>1, <1>2, <1>3, <1>4, <1>5, <1>6, <1>7, <1>8 DEF Next

-----------------------------------------------------------------------------
(* Types, stamps and doors *)

\* What was true of a stamped cell when the query was stamped is still true
\* of it, or its generation has moved on.
StampKept ==
  stamp # NoStamp =>
    /\ stamp \in [cell : Cells, generation : Nat, shape : BOOLEAN]
    /\ Later(col[stamp.cell], State(1, stamp.generation, stamp.shape))

GInv == TypeOK /\ StampKept /\ GeometryFollowsDoors

LEMMA GeometryAgrees ==
  GeometryFollowsDoors <=> \A c \in Cells : Agrees(col[c], open[c])
BY DEF GeometryFollowsDoors, Agrees

LEMMA GInit == Init => GInv
<1> SUFFICES ASSUME Init PROVE GInv
  OBVIOUS
<1>1. State(0, 0, FALSE) \in CellStates /\ State(0, 0, FALSE).refs = 0
  BY DEF State, CellStates
<1>2. TypeOK
  BY <1>1 DEF Init, TypeOK, Stamps
<1>3. StampKept
  BY DEF Init, StampKept
<1>4. GeometryFollowsDoors
  BY <1>1 DEF Init, GeometryFollowsDoors
<1>5. QED
  BY <1>2, <1>3, <1>4 DEF GInv

\* Only Stamp touches the query.
LEMMA StampStep ==
  ASSUME TypeOK, [Next]_vars
  PROVE  stamp' = stamp \/ \E c \in Cells : Stamp(c)
BY DEF Next, Update, Reject, Leave, SetDoor, ResetCell, Shutdown, vars

LEMMA GStep == GInv /\ [Next]_vars => GInv'
<1> SUFFICES ASSUME GInv, [Next]_vars PROVE GInv'
  OBVIOUS
<1>0. TypeOK /\ StampKept /\ \A c \in Cells : Agrees(col[c], open[c])
  BY GeometryAgrees DEF GInv
<1>1. ASSUME NEW c \in Cells
      PROVE  /\ col'[c] \in CellStates
             /\ Later(col'[c], col[c])
             /\ Agrees(col'[c], open'[c])
  <2>1. /\ col[c] \in CellStates
        /\ open[c] \in BOOLEAN
        /\ Follows(col'[c], open'[c], col[c], open[c])
        /\ open'[c] \in BOOLEAN
    BY <1>0, StepFollows DEF TypeOK, StepOfCells
  <2>2. QED
    BY <2>1, <1>0, FollowsFacts
<1>2. TypeOK' /\ GeometryFollowsDoors'
  <2>1. col' \in [Cells -> CellStates]
    BY <1>0, <1>1, StepFollows
  <2>2. stamp' \in Stamps
    <3>1. CASE stamp' = stamp
      BY <1>0, <3>1 DEF TypeOK
    <3>2. ASSUME NEW c \in Cells, Stamp(c) PROVE stamp' \in Stamps
      BY <1>0, <3>2 DEF Stamp, TypeOK, Stamps, CellStates
    <3>3. QED
      BY <1>0, <3>1, <3>2, StampStep
  <2>3. GeometryFollowsDoors'
    BY <1>1 DEF GeometryFollowsDoors, Agrees
  <2>4. QED
    BY <1>0, <2>1, <2>2, <2>3, StepFollows DEF TypeOK
<1>3. StampKept'
  <2>1. CASE stamp' = stamp
    <3> SUFFICES ASSUME stamp # NoStamp
                 PROVE  /\ stamp \in [cell : Cells, generation : Nat, shape : BOOLEAN]
                        /\ Later(col'[stamp.cell], State(1, stamp.generation, stamp.shape))
      BY <2>1 DEF StampKept
    <3>1. /\ stamp \in [cell : Cells, generation : Nat, shape : BOOLEAN]
          /\ Later(col[stamp.cell], State(1, stamp.generation, stamp.shape))
      BY <1>0 DEF StampKept
    <3>2. /\ stamp.cell \in Cells
          /\ State(1, stamp.generation, stamp.shape) \in CellStates
      BY <3>1 DEF State, CellStates
    <3>3. /\ col[stamp.cell] \in CellStates
          /\ col'[stamp.cell] \in CellStates
          /\ Later(col'[stamp.cell], col[stamp.cell])
      BY <1>0, <1>1, <3>2 DEF TypeOK
    <3>4. QED
      BY <3>1, <3>2, <3>3, LaterIsTransitive
  <2>2. ASSUME NEW c \in Cells, Stamp(c) PROVE StampKept'
    <3>1. /\ col[c] \in CellStates /\ col'[c] = col[c] /\ col[c].refs # 0
          /\ stamp' = [cell |-> c, generation |-> col[c].generation,
                       shape |-> col[c].shape]
      BY <1>0, <2>2 DEF Stamp, TypeOK
    <3>2. /\ stamp' \in [cell : Cells, generation : Nat, shape : BOOLEAN]
          /\ stamp'.cell = c
          /\ stamp'.generation = col[c].generation
          /\ stamp'.shape = col[c].shape
      BY <3>1 DEF CellStates
    <3>3. Later(col[c], State(1, col[c].generation, col[c].shape))
      BY <3>1 DEF Later, State, CellStates
    <3>4. QED
      BY <3>1, <3>2, <3>3 DEF StampKept
  <2>3. QED
    BY <1>0, <2>1, <2>2, StampStep
<1>4. QED
  BY <1>2, <1>3 DEF GInv

LEMMA Geometry == Spec => []GInv
<1>1. GInv /\ [Next]_vars => GInv'
  BY GStep
<1>2. QED
  BY <1>1, GInit, PTL DEF Spec

\* Reference counts stay natural numbers: a release never takes a count
\* below zero, whatever the updates that failed.
THEOREM TypeCorrect == Spec => []TypeOK
<1>1. GInv => TypeOK
  BY DEF GInv
<1>2. QED
  BY <1>1, Geometry, PTL

\* The door a ray meets stands as the authoritative door, in every loaded
\* cell, whatever is loaded, released, rejected or reset in between.
THEOREM GeometryFollows == Spec => []GeometryFollowsDoors
<1>1. GInv => GeometryFollowsDoors
  BY DEF GInv
<1>2. QED
  BY <1>1, Geometry, PTL

\* A query whose cell is loaded at the generation it was stamped with meets
\* the geometry it meant.
THEOREM FreshStamps == Spec => []StampsAreFresh
<1>1. GInv => StampsAreFresh
  <2> SUFFICES ASSUME TypeOK, StampKept, stamp # NoStamp,
                      col[stamp.cell].generation = stamp.generation
               PROVE  col[stamp.cell].shape = stamp.shape
    BY DEF GInv, StampsAreFresh
  <2>1. /\ stamp \in [cell : Cells, generation : Nat, shape : BOOLEAN]
        /\ Later(col[stamp.cell], State(1, stamp.generation, stamp.shape))
    BY DEF StampKept
  <2>2. QED
    BY <2>1 DEF Later, State, CellStates
<1>2. QED
  BY <1>1, Geometry, PTL

-----------------------------------------------------------------------------
(* References and owners *)

\* How many players own a cell.
Count(o, c) == Cardinality(HoldersIn(o, c))

LEMMA HoldersFinite ==
  ASSUME NEW o, NEW c
  PROVE  IsFiniteSet(HoldersIn(o, c)) /\ Count(o, c) \in Nat
<1>1. HoldersIn(o, c) \subseteq Players
  BY DEF HoldersIn
<1>2. QED
  BY <1>1, FS_Subset, FS_CardinalityType DEF Count

\* Replacing what one player owns changes the count by that player alone.
LEMMA CountChange ==
  ASSUME owners \in [Players -> SUBSET Cells], NEW p \in Players,
         NEW desired \in SUBSET Cells, NEW c \in Cells,
         NEW o, o = [owners EXCEPT ![p] = desired]
  PROVE  /\ c \in desired \ owners[p] => Count(o, c) = Count(owners, c) + 1
         /\ c \in owners[p] \ desired =>
              Count(owners, c) > 0 /\ Count(o, c) = Count(owners, c) - 1
         /\ (c \in desired <=> c \in owners[p]) => Count(o, c) = Count(owners, c)
<1>0. IsFiniteSet(HoldersIn(owners, c)) /\ Count(owners, c) \in Nat
  BY HoldersFinite
<1>1. ASSUME c \in desired \ owners[p] PROVE Count(o, c) = Count(owners, c) + 1
  <2>1. /\ HoldersIn(o, c) = HoldersIn(owners, c) \cup {p}
        /\ p \notin HoldersIn(owners, c)
    BY <1>1 DEF HoldersIn
  <2>2. QED
    BY <1>0, <2>1, FS_AddElement DEF Count
<1>2. ASSUME c \in owners[p] \ desired
      PROVE  Count(owners, c) > 0 /\ Count(o, c) = Count(owners, c) - 1
  <2>1. /\ HoldersIn(owners, c) = HoldersIn(o, c) \cup {p}
        /\ p \notin HoldersIn(o, c)
    BY <1>2 DEF HoldersIn
  <2>2. IsFiniteSet(HoldersIn(o, c)) /\ Count(o, c) \in Nat
    BY HoldersFinite
  <2>3. Count(owners, c) = Count(o, c) + 1
    BY <2>1, <2>2, FS_AddElement DEF Count
  <2>4. QED
    BY <1>0, <2>2, <2>3
<1>3. ASSUME c \in desired <=> c \in owners[p] PROVE Count(o, c) = Count(owners, c)
  <2>1. HoldersIn(o, c) = HoldersIn(owners, c)
    BY <1>3 DEF HoldersIn
  <2>2. QED
    BY <2>1 DEF Count
<1>4. QED
  BY <1>1, <1>2, <1>3

\* How a step may change the references r and the owners n of one cell.
\* Without failures each transition changes both alike.
Moves(r2, n2, r, n) ==
  \/ r2 = r /\ n2 = n
  \/ r2 = r + 1 /\ n2 = n + 1
  \/ r2 = (IF r = 0 THEN 0 ELSE r - 1) /\ n > 0 /\ n2 = n - 1
  \/ r2 = 0 /\ n2 = 0

MovesOfCells ==
  \A c \in Cells : Moves(col'[c].refs, Count(owners', c), col[c].refs, Count(owners, c))

\* A transition moves a player's reference with its ownership.
LEMMA Transition ==
  ASSUME TypeOK, NEW p \in Players, NEW desired \in SUBSET Cells,
         owners' = [owners EXCEPT ![p] = desired],
         Apply(desired \ owners[p], owners[p] \ desired)
  PROVE  MovesOfCells
<1> SUFFICES ASSUME NEW c \in Cells
             PROVE  Moves(col'[c].refs, Count(owners', c), col[c].refs, Count(owners, c))
  BY DEF MovesOfCells
<1>1. col[c] \in CellStates /\ open[c] \in BOOLEAN
  BY DEF TypeOK
<1>2. /\ c \in desired \ owners[p] => Count(owners', c) = Count(owners, c) + 1
      /\ c \in owners[p] \ desired =>
           Count(owners, c) > 0 /\ Count(owners', c) = Count(owners, c) - 1
      /\ (c \in desired <=> c \in owners[p]) => Count(owners', c) = Count(owners, c)
  BY CountChange DEF TypeOK
<1>3. CASE c \in desired \ owners[p]
  <2>1. col'[c].refs = col[c].refs + 1
    BY <1>1, <1>3, CellOperators DEF Apply
  <2>2. QED
    BY <1>2, <1>3, <2>1 DEF Moves
<1>4. CASE c \in owners[p] \ desired
  <2>1. col'[c].refs = (IF col[c].refs = 0 THEN 0 ELSE col[c].refs - 1)
    BY <1>1, <1>4, CellOperators DEF Apply
  <2>2. QED
    BY <1>2, <1>4, <2>1 DEF Moves
<1>5. CASE c \in desired <=> c \in owners[p]
  <2>1. col'[c].refs = col[c].refs
    BY <1>5 DEF Apply
  <2>2. QED
    BY <1>2, <1>5, <2>1 DEF Moves
<1>6. QED
  BY <1>3, <1>4, <1>5

\* Every step but a rejected update moves references and owners alike.
LEMMA SteadyStep ==
  ASSUME TypeOK, [Next]_vars,
         \A p \in Players, desired \in Interests : ~Reject(p, desired)
  PROVE  MovesOfCells
<1>1. ASSUME NEW p \in Players, NEW desired \in Interests, Update(p, desired)
      PROVE  MovesOfCells
  BY <1>1, InterestsAreCells, Transition DEF Update
<1>2. ASSUME NEW p \in Players, Leave(p) PROVE MovesOfCells
  <2>1. {} \ owners[p] = {} /\ owners[p] \ {} = owners[p] /\ {} \in SUBSET Cells
    OBVIOUS
  <2>2. owners' = [owners EXCEPT ![p] = {}] /\ Apply({} \ owners[p], owners[p] \ {})
    BY <1>2, <2>1 DEF Leave
  <2>3. QED
    BY <2>1, <2>2, Transition
<1>3. ASSUME NEW p \in Players, NEW d \in Cells, SetDoor(p, d) PROVE MovesOfCells
  <2>1. ASSUME NEW c \in Cells PROVE col'[c].refs = col[c].refs
    BY <1>3, CellOperators DEF SetDoor, TypeOK
  <2>2. QED
    BY <1>3, <2>1 DEF SetDoor, MovesOfCells, Moves
<1>4. ASSUME NEW d \in Cells, ResetCell(d) PROVE MovesOfCells
  <2>1. ASSUME NEW c \in Cells PROVE col'[c].refs = col[c].refs
    BY <1>4, CellOperators DEF ResetCell, TypeOK
  <2>2. QED
    BY <1>4, <2>1 DEF ResetCell, MovesOfCells, Moves
<1>5. ASSUME NEW d \in Cells, Stamp(d) PROVE MovesOfCells
  BY <1>5 DEF Stamp, MovesOfCells, Moves
<1>6. ASSUME Shutdown PROVE MovesOfCells
  <2>1. ASSUME NEW c \in Cells PROVE col'[c].refs = 0 /\ Count(owners', c) = 0
    <3>1. col'[c].refs = 0
      BY <1>6 DEF Shutdown, State
    <3>2. HoldersIn(owners', c) = {}
      BY <1>6 DEF Shutdown, HoldersIn
    <3>3. QED
      BY <3>1, <3>2, FS_EmptySet DEF Count
  <2>2. QED
    BY <2>1 DEF MovesOfCells, Moves
<1>7. CASE UNCHANGED vars
  BY <1>7 DEF vars, MovesOfCells, Moves
<1>8. QED
  BY <1>1, <1>2, <1>3, <1>4, <1>5, <1>6, <1>7 DEF Next

\* A rejected update adds no reference.
LEMMA RejectedStep ==
  ASSUME TypeOK, NEW p \in Players, NEW desired \in Interests, Reject(p, desired),
         NEW c \in Cells
  PROVE  owners' = owners /\ col'[c].refs <= col[c].refs
<1>1. col[c] \in CellStates /\ open[c] \in BOOLEAN
  BY DEF TypeOK
<1>2. LetGo(Acquired(col[c], open[c])).refs <= col[c].refs
  <2>1. /\ Acquired(col[c], open[c]) \in CellStates
        /\ Acquired(col[c], open[c]).refs = col[c].refs + 1
    BY <1>1, CellOperators
  <2> DEFINE k == Acquired(col[c], open[c])
  <2> HIDE DEF k
  <2>2. k \in CellStates /\ k.refs = col[c].refs + 1
    BY <2>1 DEF k
  <2>3. LetGo(k).refs <= col[c].refs
    BY <1>1, <2>2, CellOperators DEF CellStates
  <2>4. QED
    BY <2>3 DEF k
<1>3. LetGo(LoadFailed(col[c])).refs <= col[c].refs
  <2> DEFINE k == LoadFailed(col[c])
  <2>1. k \in CellStates /\ k.refs = col[c].refs
    BY <1>1, CellOperators
  <2> HIDE DEF k
  <2>2. LetGo(k).refs <= col[c].refs
    BY <1>1, <2>1, CellOperators DEF CellStates
  <2>3. QED
    BY <2>2 DEF k
<1>4. LetGo(col[c]).refs <= col[c].refs
  BY <1>1, CellOperators DEF CellStates
<1>5. QED
  BY <1>1, <1>2, <1>3, <1>4 DEF Reject, CellStates

LEMMA InitialCounts ==
  ASSUME Init, NEW c \in Cells PROVE col[c].refs = 0 /\ Count(owners, c) = 0
<1>1. col[c].refs = 0
  BY DEF Init, State
<1>2. HoldersIn(owners, c) = {}
  BY DEF Init, HoldersIn
<1>3. QED
  BY <1>1, <1>2, FS_EmptySet DEF Count

\* No cell keeps more references than it has owners, whichever cells fail to
\* load and whatever was undone then.
THEOREM NoReferenceLeaks == Spec => []NoLeak
<1>1. Init => NoLeak
  BY InitialCounts DEF NoLeak, Holders, Count
<1>2. TypeOK /\ TypeOK' /\ NoLeak /\ [Next]_vars => NoLeak'
  <2> SUFFICES ASSUME TypeOK, TypeOK', NoLeak, [Next]_vars, NEW c \in Cells
               PROVE  col'[c].refs <= Count(owners', c)
    BY DEF NoLeak, Holders, Count
  <2>1. col[c].refs \in Nat /\ Count(owners, c) \in Nat /\ Count(owners', c) \in Nat
    BY HoldersFinite DEF TypeOK, CellStates
  <2>2. col[c].refs <= Count(owners, c)
    BY DEF NoLeak, Holders, Count
  <2>3. ASSUME NEW p \in Players, NEW desired \in Interests, Reject(p, desired)
        PROVE  col'[c].refs <= Count(owners', c)
    <3>1. owners' = owners /\ col'[c].refs <= col[c].refs
      BY <2>3, RejectedStep
    <3>2. col'[c].refs \in Nat
      BY DEF TypeOK, CellStates
    <3>3. Count(owners', c) = Count(owners, c)
      BY <3>1
    <3>4. QED
      BY <2>1, <2>2, <3>1, <3>2, <3>3
  <2>4. CASE \A p \in Players, desired \in Interests : ~Reject(p, desired)
    <3>1. Moves(col'[c].refs, Count(owners', c), col[c].refs, Count(owners, c))
      BY <2>4, SteadyStep DEF MovesOfCells
    <3>2. QED
      BY <2>1, <2>2, <3>1 DEF Moves
  <2>5. QED
    BY <2>3, <2>4
<1>3. QED
  BY <1>1, <1>2, TypeCorrect, PTL DEF Spec

\* A rejected update leaves a cell before all that fail as it was.
LEMMA RejectedBefore ==
  ASSUME TypeOK, NEW p \in Players, NEW desired \in Interests, Reject(p, desired),
         NEW c \in BeforeFailures
  PROVE  owners' = owners /\ col'[c].refs = col[c].refs
<1>1. /\ c \in Cells /\ c \in Nat
      /\ col[c] \in CellStates /\ open[c] \in BOOLEAN
  BY DEF TypeOK, BeforeFailures
<1>2. \A d \in Unloadable(desired \ owners[p]) : c < d
  BY DEF Unloadable, BeforeFailures
<1>3. /\ owners' = owners
      /\ col'[c] = col[c] \/ col'[c] = LetGo(Acquired(col[c], open[c]))
  BY <1>1, <1>2 DEF Reject
<1>4. LetGo(Acquired(col[c], open[c])).refs = col[c].refs
  <2>1. Acquired(col[c], open[c]) \in CellStates
        /\ Acquired(col[c], open[c]).refs = col[c].refs + 1
    BY <1>1, CellOperators
  <2> DEFINE k == Acquired(col[c], open[c])
  <2> HIDE DEF k
  <2>2. k \in CellStates /\ k.refs = col[c].refs + 1
    BY <2>1 DEF k
  <2>3. LetGo(k).refs = col[c].refs
    BY <1>1, <2>2, CellOperators DEF CellStates
  <2>4. QED
    BY <2>3 DEF k
<1>5. QED
  BY <1>3, <1>4

\* The references of every cell before all that fail to load are its owners:
\* the geometry around every player is there, and only that.
THEOREM ReferencesAreOwners == Spec => []RefsAreOwners
<1>1. Init => RefsAreOwners
  BY InitialCounts DEF RefsAreOwners, BeforeFailures, Holders, Count
<1>2. TypeOK /\ RefsAreOwners /\ [Next]_vars => RefsAreOwners'
  <2> SUFFICES ASSUME TypeOK, RefsAreOwners, [Next]_vars, NEW c \in BeforeFailures
               PROVE  col'[c].refs = Count(owners', c)
    BY DEF RefsAreOwners, Holders, Count
  <2>1. c \in Cells /\ col[c].refs = Count(owners, c) /\ Count(owners, c) \in Nat
    BY HoldersFinite DEF RefsAreOwners, BeforeFailures, Holders, Count
  <2>2. ASSUME NEW p \in Players, NEW desired \in Interests, Reject(p, desired)
        PROVE  col'[c].refs = Count(owners', c)
    <3>1. owners' = owners /\ col'[c].refs = col[c].refs
      BY <2>2, RejectedBefore
    <3>2. QED
      BY <2>1, <3>1
  <2>3. CASE \A p \in Players, desired \in Interests : ~Reject(p, desired)
    <3>1. Moves(col'[c].refs, Count(owners', c), col[c].refs, Count(owners, c))
      BY <2>1, <2>3, SteadyStep DEF MovesOfCells
    <3>2. QED
      BY <2>1, <3>1 DEF Moves
  <2>4. QED
    BY <2>2, <2>3
<1>3. QED
  BY <1>1, <1>2, TypeCorrect, PTL DEF Spec

\* Together: whatever fails to load and whatever was undone then, references
\* are given back, and taken from nobody before the failing cells.
THEOREM ReferencesFollowOwners == Spec => []RefsFollowOwners
BY NoReferenceLeaks, ReferencesAreOwners, PTL DEF RefsFollowOwners
=============================================================================
