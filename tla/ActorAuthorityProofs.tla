------------------------ MODULE ActorAuthorityProofs ------------------------
(***************************************************************************)
(* Theorems about ActorAuthority.  The operators of a refresh come first:  *)
(* whom it appoints, then what it does to every cell and every lease.  The *)
(* inductive invariant adds to the properties that a player in the world   *)
(* is connected; each action changes the players and then refreshes, so it *)
(* is enough that the refresh covers every cell it leaves attended.        *)
(***************************************************************************)
EXTENDS ActorAuthority, TLAPS, WellFoundedInduction

USE CellAssumption, ActorAssumption, WidthAssumption DEF NoGuid, Reasons

\* A non-empty set of naturals has a least element.
LEMMA LeastNatural ==
  ASSUME NEW T \in SUBSET Nat, T # {}
  PROVE  \E x \in T : \A y \in T : x <= y
<1>1. \E x \in T : \A y \in T : ~(<<y, x>> \in OpToRel(<, Nat))
  BY WFMin, NatLessThanWellFounded
<1>2. PICK x \in T : \A y \in T : ~(<<y, x>> \in OpToRel(<, Nat))
  BY <1>1
<1>3. ASSUME NEW y \in T PROVE x <= y
  <2>1. ~(y < x)
    BY <1>2 DEF OpToRel
  <2>2. QED
    BY <2>1
<1>4. QED
  BY <1>3

\* The tie rule picks one of the candidates.
LEMMA FavourChooses ==
  ASSUME NEW S \in SUBSET Guids, S # {}, NEW owner
  PROVE  Favour(S, owner) \in S
<1>1. \E g \in S : \A h \in S : g <= h
  BY LeastNatural DEF Guids
<1>2. QED
  BY <1>1 DEF Favour

\* Somebody is closest to an exterior cell if anybody is close enough.
LEMMA SomebodyIsClosest ==
  ASSUME NEW ps \in [Guids -> PlayerStates], NEW c \in Exterior, Able(ps, c) # {}
  PROVE  Closest(ps, c) # {}
<1> DEFINE Distances == {Distance[ps[g].at][c] : g \in Able(ps, c)}
<1>1. \A g \in Able(ps, c) : ps[g].at \in Exterior
  BY DEF Able, Eligible
<1>2. Distances \in SUBSET Nat
  BY <1>1
<1>3. Distances # {}
  <2>1. PICK g \in Able(ps, c) : TRUE
    OBVIOUS
  <2>2. Distance[ps[g].at][c] \in Distances
    BY <2>1
  <2> HIDE DEF Distances
  <2>3. QED
    BY <2>2
<1> HIDE DEF Distances
<1>4. PICK d \in Distances : \A e \in Distances : d <= e
  BY <1>2, <1>3, LeastNatural
<1>5. PICK g \in Able(ps, c) : d = Distance[ps[g].at][c]
  BY <1>4 DEF Distances
<1>6. \A h \in Able(ps, c) : Distance[ps[g].at][c] <= Distance[ps[h].at][c]
  BY <1>4, <1>5 DEF Distances
<1>7. QED
  BY <1>5, <1>6 DEF Closest

\* A refresh appoints an able client, and nobody only if there is none.
LEMMA NewOwnerIsAble ==
  ASSUME NEW ps \in [Guids -> PlayerStates], NEW k \in CellStates,
         NEW c \in Cells, NEW preferred, Able(ps, c) # {}
  PROVE  NewOwner(ps, k, c, preferred) \in Able(ps, c)
<1>1. Able(ps, c) \in SUBSET Guids
  BY DEF Able
<1>2. Exact(ps, c) \in SUBSET Able(ps, c) /\ Closest(ps, c) \in SUBSET Able(ps, c)
  BY DEF Exact, Closest
<1>3. Favour(Able(ps, c), NoGuid) \in Able(ps, c)
  BY <1>1, FavourChooses
<1>4. Exact(ps, c) # {} => Favour(Exact(ps, c), k.owner) \in Able(ps, c)
  BY <1>1, <1>2, FavourChooses
<1>5. c \in Exterior => Favour(Closest(ps, c), k.owner) \in Able(ps, c)
  BY <1>1, <1>2, FavourChooses, SomebodyIsClosest
<1>6. QED
  BY <1>3, <1>4, <1>5 DEF NewOwner

-----------------------------------------------------------------------------
(* What a refresh does *)

\* Eligible clients are in the world.
LEMMA EligibleIsPresent ==
  ASSUME NEW ps \in [Guids -> PlayerStates], NEW g \in Guids, NEW c \in Cells,
         Eligible(ps, g, c)
  PROVE  ps[g].at # Nowhere
BY DEF Eligible

\* A player may simulate the cell it stands in.
LEMMA StandingIsEligible ==
  ASSUME NEW ps \in [Guids -> PlayerStates], NEW g \in Guids, ps[g].at # Nowhere
  PROVE  ps[g].at \in Cells /\ Eligible(ps, g, ps[g].at)
<1>1. ps[g].at \in Cells
  BY DEF PlayerStates
<1>2. ASSUME ps[g].at \in Exterior PROVE Distance[ps[g].at][ps[g].at] <= Radius
  BY <1>2
<1>3. QED
  BY <1>1, <1>2 DEF Eligible

LEMMA BumpMoves ==
  ASSUME NEW n \in 0..MaxGeneration
  PROVE  Bump(n) \in 0..MaxGeneration /\ Bump(n) # n /\ Bump(Bump(n)) # n
BY DEF Bump

LEMMA ReleasedFacts ==
  ASSUME NEW r \in ActorStates
  PROVE  /\ Released(r) \in ActorStates
         /\ Released(r).cell = r.cell
         /\ Released(r).owner = NoGuid
         /\ Released(r).reason = ""
         /\ Released(r).generation = Bump(r.generation)
<1>1. Bump(r.generation) \in 0..MaxGeneration
  BY BumpMoves DEF ActorStates
<1>2. QED
  BY <1>1 DEF Released, ActorStates

LEMMA UnregisteredIsActor == Unregistered \in ActorStates
BY DEF Unregistered, ActorStates

LEMMA CellRefreshedFacts ==
  ASSUME NEW ps \in [Guids -> PlayerStates], NEW k \in CellStates,
         NEW c \in Cells, NEW preferred
  PROVE  LET new == CellRefreshed(ps, k, c, preferred)
         IN  /\ new \in CellStates
             /\ new.owner = NewOwner(ps, k, c, preferred)
             /\ new.owner # NoGuid => new.owner \in Guids /\ Eligible(ps, new.owner, c)
             /\ Able(ps, c) # {} => new.owner # NoGuid
<1> DEFINE owner == NewOwner(ps, k, c, preferred)
<1>1. Able(ps, c) = {} => owner = NoGuid
  BY DEF NewOwner
<1>2. Able(ps, c) # {} => owner \in Guids /\ Eligible(ps, owner, c)
  BY NewOwnerIsAble DEF Able
<1>3. NoGuid \notin Guids
  BY DEF Guids
<1> HIDE DEF owner
<1>4. Bump(k.generation) \in 0..MaxGeneration
  BY BumpMoves DEF CellStates
<1>5. CellRefreshed(ps, k, c, preferred) =
        IF owner = k.owner THEN k
        ELSE [owner |-> owner, generation |-> Bump(k.generation), sticky |-> owner # NoGuid]
  BY DEF CellRefreshed, owner
<1>6. CellRefreshed(ps, k, c, preferred).owner = owner
  BY <1>5
<1>7. CellRefreshed(ps, k, c, preferred) \in CellStates
  BY <1>1, <1>2, <1>4, <1>5 DEF CellStates
<1>8. QED
  BY <1>1, <1>2, <1>3, <1>6, <1>7 DEF owner

\* Owners after a refresh: unchanged outside pref, able inside.
LEMMA CellsAfterFacts ==
  ASSUME NEW ps \in [Guids -> PlayerStates], NEW cs \in [Cells -> CellStates], NEW pref
  PROVE  /\ CellsAfter(ps, cs, pref) \in [Cells -> CellStates]
         /\ \A c \in Cells :
              LET new == CellsAfter(ps, cs, pref)[c].owner
              IN  /\ c \notin DOMAIN pref => new = cs[c].owner
                  /\ new \notin {cs[c].owner, NoGuid} => Eligible(ps, new, c)
                  /\ c \in DOMAIN pref /\ Able(ps, c) # {} => new # NoGuid
BY CellRefreshedFacts DEF CellsAfter

\* A refresh leaves a lease alone, clears it, or forgets the actor.
LEMMA ActorsAfterFacts ==
  ASSUME NEW ps \in [Guids -> PlayerStates], NEW cs \in [Cells -> CellStates],
         NEW rs \in [Actors -> ActorStates], NEW pref
  PROVE  /\ ActorsAfter(ps, cs, rs, pref) \in [Actors -> ActorStates]
         /\ \A a \in Actors :
              \/ ActorsAfter(ps, cs, rs, pref)[a] = rs[a]
              \/ ActorsAfter(ps, cs, rs, pref)[a] = Unregistered
              \/ /\ rs[a].owner # NoGuid
                 /\ ActorsAfter(ps, cs, rs, pref)[a] = Released(rs[a])
<1> DEFINE after == ActorsAfter(ps, cs, rs, pref)
<1>1. ASSUME NEW a \in Actors
      PROVE  \/ after[a] = rs[a]
             \/ after[a] = Unregistered
             \/ rs[a].owner # NoGuid /\ after[a] = Released(rs[a])
  BY DEF ActorsAfter, LeaseChecked
<1>3. after = [a \in Actors |-> after[a]]
  BY DEF ActorsAfter
<1> HIDE DEF after
<1>2. ASSUME NEW a \in Actors PROVE after[a] \in ActorStates
  <2>1. rs[a] \in ActorStates /\ Released(rs[a]) \in ActorStates
    BY ReleasedFacts
  <2>2. QED
    BY <1>1, <2>1, UnregisteredIsActor
<1>4. after \in [Actors -> ActorStates]
  BY <1>2, <1>3
<1>5. QED
  BY <1>1, <1>4 DEF after

-----------------------------------------------------------------------------
(* The invariant *)

\* A player in the world is connected.
Known == \A g \in Guids : players[g].at # Nowhere => g \in online

Present(ps, rs) ==
  \A a \in Actors : rs[a].owner # NoGuid => ps[rs[a].owner].at # Nowhere
Attended(ps, cs) ==
  \A g \in Guids : ps[g].at # Nowhere => cs[ps[g].at].owner # NoGuid

IInv == TypeOK /\ Known /\ Present(players, actors) /\ Attended(players, cells)

\* A refresh that covers the cells players stand in without an authority
\* leaves leases and cells as the invariant wants them.
LEMMA RefreshKeeps ==
  ASSUME NEW ps \in [Guids -> PlayerStates], NEW cs \in [Cells -> CellStates],
         NEW rs \in [Actors -> ActorStates], NEW pref,
         Present(ps, rs),
         \A g \in Guids : ps[g].at # Nowhere =>
           ps[g].at \in DOMAIN pref \/ cs[ps[g].at].owner # NoGuid
  PROVE  /\ CellsAfter(ps, cs, pref) \in [Cells -> CellStates]
         /\ ActorsAfter(ps, cs, rs, pref) \in [Actors -> ActorStates]
         /\ Present(ps, ActorsAfter(ps, cs, rs, pref))
         /\ Attended(ps, CellsAfter(ps, cs, pref))
<1>1. CellsAfter(ps, cs, pref) \in [Cells -> CellStates]
  BY CellsAfterFacts
<1>2. ActorsAfter(ps, cs, rs, pref) \in [Actors -> ActorStates]
  BY ActorsAfterFacts
<1>3. ASSUME NEW a \in Actors, ActorsAfter(ps, cs, rs, pref)[a].owner # NoGuid
      PROVE  ActorsAfter(ps, cs, rs, pref)[a] = rs[a]
  <2> DEFINE new == ActorsAfter(ps, cs, rs, pref)[a]
  <2> HIDE DEF new
  <2>1. new = rs[a] \/ new = Unregistered \/ new = Released(rs[a])
    BY ActorsAfterFacts DEF new
  <2>2. Released(rs[a]).owner = NoGuid
    BY ReleasedFacts
  <2>3. Unregistered.owner = NoGuid
    BY DEF Unregistered
  <2>4. new.owner # NoGuid
    BY <1>3 DEF new
  <2>5. new = rs[a]
    BY <2>1, <2>2, <2>3, <2>4
  <2>6. QED
    BY <2>5 DEF new
<1>4. Present(ps, ActorsAfter(ps, cs, rs, pref))
  BY <1>3 DEF Present
<1>5. ASSUME NEW g \in Guids, ps[g].at # Nowhere
      PROVE  CellsAfter(ps, cs, pref)[ps[g].at].owner # NoGuid
  <2>1. ps[g].at \in Cells /\ g \in Able(ps, ps[g].at)
    BY <1>5, StandingIsEligible DEF Able
  <2> DEFINE c == ps[g].at
             new == CellsAfter(ps, cs, pref)[c].owner
  <2>2. /\ c \notin DOMAIN pref => new = cs[c].owner
        /\ c \in DOMAIN pref /\ Able(ps, c) # {} => new # NoGuid
    BY <2>1, CellsAfterFacts
  <2>3. c \in DOMAIN pref \/ cs[c].owner # NoGuid
    BY <1>5
  <2> HIDE DEF new
  <2>4. new # NoGuid
    BY <2>1, <2>2, <2>3
  <2>5. QED
    BY <2>4 DEF new
<1>6. QED
  BY <1>1, <1>2, <1>4, <1>5 DEF Attended

\* The same when the players have not moved.
LEMMA QuietRefresh ==
  ASSUME IInv, NEW pref
  PROVE  /\ CellsAfter(players, cells, pref) \in [Cells -> CellStates]
         /\ ActorsAfter(players, cells, actors, pref) \in [Actors -> ActorStates]
         /\ Present(players, ActorsAfter(players, cells, actors, pref))
         /\ Attended(players, CellsAfter(players, cells, pref))
BY RefreshKeeps DEF IInv, TypeOK, Attended

\* An AI package leases an actor to an eligible target or to nobody new.
LEMMA LeaseFromAiFacts ==
  ASSUME NEW r \in ActorStates, NEW target \in Guids \cup {NoGuid}, NEW dead
  PROVE  LET new == LeaseFromAi(r, target, dead)
         IN  /\ new \in ActorStates
             /\ new.cell = r.cell
             /\ \/ new = r
                \/ /\ new.generation = Bump(r.generation)
                   /\ new.owner = NoGuid
                \/ /\ new.generation = Bump(r.generation)
                   /\ new.owner \in Guids
                   /\ Eligible(players, new.owner, r.cell)
<1> DEFINE to == [r EXCEPT !.owner = target, !.reason = "target-player"]
           free == [r EXCEPT !.owner = NoGuid, !.reason = ""]
           f == Followed(r, target, dead)
<1>1. \/ f = r \/ f = free
      \/ f = to /\ target \in Guids /\ Eligible(players, target, r.cell)
  BY DEF Followed
<1>2. /\ free \in ActorStates /\ to \in ActorStates
      /\ free.cell = r.cell /\ free.owner = NoGuid /\ free.reason = ""
      /\ free.generation = r.generation
      /\ to.cell = r.cell /\ to.owner = target /\ to.generation = r.generation
  BY DEF ActorStates
<1>4. f \in ActorStates /\ f.cell = r.cell /\ f.generation = r.generation
  BY <1>1, <1>2
<1>5. f # r => \/ f.owner = NoGuid
               \/ f.owner \in Guids /\ Eligible(players, f.owner, r.cell)
  BY <1>1, <1>2
<1> HIDE DEF to, free, f
<1> DEFINE g == [f EXCEPT !.generation = Bump(f.generation)]
<1>6. Bump(f.generation) \in 0..MaxGeneration
  BY <1>4, BumpMoves DEF ActorStates
<1>7. /\ g \in ActorStates /\ g.cell = r.cell /\ g.owner = f.owner
      /\ g.reason = f.reason /\ g.generation = Bump(r.generation)
  BY <1>4, <1>6 DEF ActorStates
<1>8. LeaseFromAi(r, target, dead) \in {r, g} /\ (LeaseFromAi(r, target, dead) # r => f # r)
  BY DEF LeaseFromAi, f
<1> HIDE DEF g
<1>9. QED
  BY <1>5, <1>7, <1>8

\* A handler that moves players and refreshes the cells they arrive in.
LEMMA MoveKeeps ==
  ASSUME IInv, NEW ps \in [Guids -> PlayerStates], NEW pref,
         \A g \in Guids : players[g].at # Nowhere => ps[g].at # Nowhere,
         \A g \in Guids : ps[g].at # Nowhere =>
           ps[g].at \in DOMAIN pref \/ ps[g].at = players[g].at
  PROVE  /\ CellsAfter(ps, cells, pref) \in [Cells -> CellStates]
         /\ ActorsAfter(ps, cells, actors, pref) \in [Actors -> ActorStates]
         /\ Present(ps, ActorsAfter(ps, cells, actors, pref))
         /\ Attended(ps, CellsAfter(ps, cells, pref))
<1>1. /\ cells \in [Cells -> CellStates]
      /\ actors \in [Actors -> ActorStates]
      /\ Present(players, actors)
      /\ Attended(players, cells)
  BY DEF IInv, TypeOK
<1>2. \A a \in Actors : actors[a].owner # NoGuid => actors[a].owner \in Guids
  BY <1>1 DEF ActorStates
<1>3. Present(ps, actors)
  BY <1>1, <1>2 DEF Present
<1>4. \A g \in Guids : ps[g].at # Nowhere =>
        ps[g].at \in DOMAIN pref \/ cells[ps[g].at].owner # NoGuid
  BY <1>1 DEF Attended
<1>5. QED
  BY <1>1, <1>3, <1>4, RefreshKeeps

LEMMA InitEstablishes == Init => IInv
<1> SUFFICES ASSUME Init PROVE IInv
  OBVIOUS
<1>1. TypeOK
  <2>1. Absent \in PlayerStates
    BY DEF Absent, PlayerStates
  <2>2. Blank \in CellStates
    BY DEF Blank, CellStates
  <2>3. QED
    BY <2>1, <2>2, UnregisteredIsActor DEF Init, TypeOK
<1>2. Known /\ Attended(players, cells)
  BY DEF Init, Known, Attended, Absent
<1>3. Present(players, actors)
  BY DEF Init, Present, Unregistered
<1>4. QED
  BY <1>1, <1>2, <1>3 DEF IInv

LEMMA PlayerStepsKeep ==
  ASSUME IInv, NEW g \in Guids, PlayerStep(g)
  PROVE  IInv'
<1>1. /\ players \in [Guids -> PlayerStates]
      /\ nextGuid \in 1..(MaxGuid + 1)
      /\ online \subseteq Guids
      /\ Known
  BY DEF IInv, TypeOK
<1>2. ASSUME NEW c \in Cells, Select(g, c) PROVE IInv'
  <2>1. players' \in [Guids -> PlayerStates]
    BY <1>1, <1>2 DEF Select, PlayerStates
  <2>2. DOMAIN Preferring(g, {c}) = {c}
    BY DEF Preferring
  <2>3. \A h \in Guids : h # g => players'[h] = players[h]
    BY <1>1, <1>2 DEF Select
  <2>4. players'[g].at = c
    BY <1>1, <1>2 DEF Select, PlayerStates
  <2>5. /\ cells' \in [Cells -> CellStates]
        /\ actors' \in [Actors -> ActorStates]
        /\ Present(players', actors')
        /\ Attended(players', cells')
    BY <1>2, <2>1, <2>2, <2>3, <2>4, MoveKeeps DEF Select, Refresh
  <2>6. QED
    BY <1>1, <1>2, <2>1, <2>3, <2>5 DEF Select, IInv, TypeOK, Known
<1>3. ASSUME NEW d \in Cells, ChangeCell(g, d) PROVE IInv'
  <2>1. players' \in [Guids -> PlayerStates]
    BY <1>1, <1>3 DEF ChangeCell, PlayerStates
  <2>2. \A h \in Guids : h # g => players'[h] = players[h]
    BY <1>1, <1>3 DEF ChangeCell
  <2>3. players'[g].at = d /\ players[g].at # Nowhere
    BY <1>1, <1>3 DEF ChangeCell, PlayerStates
  <2> DEFINE pref == [c \in {players[g].at, d} |-> IF c = d THEN g ELSE NoGuid]
  <2>4. d \in DOMAIN pref
    OBVIOUS
  <2>5. Refresh(players', cells, actors, pref)
    BY <1>3 DEF ChangeCell
  <2> HIDE DEF pref
  <2>6. /\ cells' \in [Cells -> CellStates]
        /\ actors' \in [Actors -> ActorStates]
        /\ Present(players', actors')
        /\ Attended(players', cells')
    BY <2>1, <2>2, <2>3, <2>4, <2>5, MoveKeeps DEF Refresh
  <2>7. QED
    BY <1>1, <1>3, <2>1, <2>2, <2>3, <2>6 DEF ChangeCell, IInv, TypeOK, Known
<1>4. ASSUME NEW d \in Cells, Teleport(g, d) PROVE IInv'
  <2>1. players' \in [Guids -> PlayerStates]
    BY <1>1, <1>4 DEF Teleport, PlayerStates
  <2>2. \A h \in Guids : h # g => players'[h] = players[h]
    BY <1>1, <1>4 DEF Teleport
  <2>3. players'[g].at = d /\ players[g].at # Nowhere
    BY <1>1, <1>4 DEF Teleport
  <2> DEFINE pref == [c \in Interest(players[g]) \cup {d} |-> IF c = d THEN g ELSE NoGuid]
  <2>4. d \in DOMAIN pref
    OBVIOUS
  <2>5. Refresh(players', cells, actors, pref)
    BY <1>4 DEF Teleport
  <2> HIDE DEF pref
  <2>6. /\ cells' \in [Cells -> CellStates]
        /\ actors' \in [Actors -> ActorStates]
        /\ Present(players', actors')
        /\ Attended(players', cells')
    BY <2>1, <2>2, <2>3, <2>4, <2>5, MoveKeeps DEF Refresh
  <2>7. QED
    BY <1>1, <1>4, <2>1, <2>2, <2>3, <2>6 DEF Teleport, IInv, TypeOK, Known
<1>5. ASSUME NEW report \in Reports, ReportLoaded(g, report) PROVE IInv'
  <2> DEFINE seen == {players[g].at} \cup
               (IF players[g].at \in Exterior THEN report \cap Exterior ELSE {})
  <2>1. seen \in SUBSET Cells
    BY <1>1, <1>5 DEF ReportLoaded, PlayerStates
  <2>2. players' = [players EXCEPT ![g].loaded = seen]
    BY <1>5 DEF ReportLoaded
  <2> HIDE DEF seen
  <2>3. players' \in [Guids -> PlayerStates]
    BY <1>1, <2>1, <2>2 DEF PlayerStates
  <2>4. \A h \in Guids : players'[h].at = players[h].at
    BY <1>1, <2>2 DEF PlayerStates
  <2>5. /\ cells' \in [Cells -> CellStates]
        /\ actors' \in [Actors -> ActorStates]
        /\ Present(players', actors')
        /\ Attended(players', cells')
    BY <1>5, <2>3, <2>4, MoveKeeps DEF ReportLoaded, Refresh
  <2>6. QED
    BY <1>1, <1>5, <2>3, <2>4, <2>5 DEF ReportLoaded, IInv, TypeOK, Known
<1>6. ASSUME Disconnect(g) PROVE IInv'
  <2> DEFINE rs == Revoked(actors, g)
  <2>1. players' \in [Guids -> PlayerStates]
    BY <1>1, <1>6 DEF Disconnect, Absent, PlayerStates
  <2>2. \A h \in Guids : h # g => players'[h] = players[h]
    BY <1>1, <1>6 DEF Disconnect
  <2>3. players'[g].at = Nowhere
    BY <1>1, <1>6 DEF Disconnect, Absent
  <2>4. /\ cells \in [Cells -> CellStates]
        /\ actors \in [Actors -> ActorStates]
        /\ Present(players, actors)
        /\ Attended(players, cells)
    BY DEF IInv, TypeOK
  <2>5. \A a \in Actors : /\ rs[a] \in ActorStates
                          /\ rs[a].owner # NoGuid => rs[a] = actors[a] /\ rs[a].owner # g
    BY <2>4, ReleasedFacts DEF Revoked
  <2>6. rs \in [Actors -> ActorStates]
    BY <2>5 DEF Revoked
  <2> HIDE DEF rs
  <2>7. Present(players', rs)
    <3>1. \A a \in Actors : rs[a].owner # NoGuid => rs[a].owner \in Guids
      BY <2>5 DEF ActorStates
    <3>2. QED
      BY <2>2, <2>4, <2>5, <3>1 DEF Present
  <2>8. \A h \in Guids : players'[h].at # Nowhere => cells[players'[h].at].owner # NoGuid
    BY <2>2, <2>3, <2>4 DEF Attended
  <2>9. /\ cells' \in [Cells -> CellStates]
        /\ actors' \in [Actors -> ActorStates]
        /\ Present(players', actors')
        /\ Attended(players', cells')
    BY <1>6, <2>1, <2>4, <2>6, <2>7, <2>8, RefreshKeeps DEF Disconnect, Refresh, rs
  <2>10. QED
    BY <1>1, <1>6, <2>1, <2>2, <2>3, <2>9 DEF Disconnect, IInv, TypeOK, Known
<1>7. QED
  BY <1>2, <1>3, <1>4, <1>5, <1>6 DEF PlayerStep

\* The record r may follow old: its lease is the old one, none, or good.
Follows(r, old) ==
  /\ r \in ActorStates
  /\ \/ r.owner \in {old.owner, NoGuid}
     \/ r.owner \in Guids /\ players[r.owner].at # Nowhere

\* Changing leases so keeps them good.
LEMMA LeaseMayChange ==
  ASSUME NEW rs \in [Actors -> ActorStates], Present(players, rs),
         NEW new, new = [a \in Actors |-> new[a]],
         \A a \in Actors : Follows(new[a], rs[a])
  PROVE  new \in [Actors -> ActorStates] /\ Present(players, new)
<1>1. \A a \in Actors : new[a] \in ActorStates
  BY DEF Follows
<1>2. new \in [Actors -> ActorStates]
  BY <1>1
<1>3. ASSUME NEW a \in Actors, new[a].owner # NoGuid
      PROVE  players[new[a].owner].at # Nowhere
  BY <1>3 DEF Follows, Present
<1>4. QED
  BY <1>2, <1>3 DEF Present

\* A registered actor whose lease an AI package has updated in cell c.
LEMMA PlacedLease ==
  ASSUME players \in [Guids -> PlayerStates], NEW r \in ActorStates, NEW c \in Cells,
         NEW target \in Guids \cup {NoGuid}, NEW dead
  PROVE  Follows(LeaseFromAi([r EXCEPT !.cell = c], target, dead), r)
<1> DEFINE q == [r EXCEPT !.cell = c]
<1>1. q \in ActorStates /\ q.owner = r.owner /\ q.cell = c
  BY DEF ActorStates
<1> HIDE DEF q
<1> DEFINE new == LeaseFromAi(q, target, dead)
<1>2. /\ new \in ActorStates
      /\ \/ new.owner \in {q.owner, NoGuid}
         \/ new.owner \in Guids /\ Eligible(players, new.owner, q.cell)
  <2>1. \/ new = q
        \/ new.owner \in {q.owner, NoGuid}
        \/ new.owner \in Guids /\ Eligible(players, new.owner, q.cell)
    BY <1>1, LeaseFromAiFacts
  <2>2. new \in ActorStates
    BY <1>1, LeaseFromAiFacts
  <2> HIDE DEF new
  <2>3. QED
    BY <2>1, <2>2
<1> HIDE DEF new
<1>3. Follows(new, r)
  BY <1>1, <1>2, EligibleIsPresent DEF Follows
<1>4. QED
  BY <1>3 DEF q, new

LEMMA PacketsKeep ==
  ASSUME IInv, NEW g \in Guids, ActorPacket(g)
  PROVE  IInv'
<1> DEFINE Good == /\ cells' \in [Cells -> CellStates]
                   /\ actors' \in [Actors -> ActorStates]
                   /\ Present(players, actors')
                   /\ Attended(players, cells')
                   /\ UNCHANGED <<nextGuid, online, players>>
<1>1. Good => IInv'
  BY DEF IInv, TypeOK, Known
<1>2. players \in [Guids -> PlayerStates]
  BY DEF IInv, TypeOK
<1>3. ASSUME NEW c
      PROVE  /\ CellsThen(g, c) \in [Cells -> CellStates]
             /\ ActorsThen(g, c) \in [Actors -> ActorStates]
             /\ Present(players, ActorsThen(g, c))
             /\ Attended(players, CellsThen(g, c))
  BY QuietRefresh DEF CellsThen, ActorsThen
<1>4. PICK target \in Guids \cup {NoGuid}, dead \in BOOLEAN :
        \/ \E a \in Actors : UpdateActor(g, a, target, dead)
        \/ \E a \in Actors, d \in Cells : Migrate(g, a, d, target, dead)
        \/ \E c \in Cells, S, kept \in SUBSET Actors : ListActors(g, c, S, kept, target, dead)
  BY DEF ActorPacket
<1>5. ASSUME NEW a \in Actors, UpdateActor(g, a, target, dead) PROVE Good
  <2> DEFINE c == actors[a].cell
             rs == ActorsThen(g, c)
             new == LeaseFromAi(rs[a], target, dead)
  <2>1. /\ cells' = CellsThen(g, c)
        /\ actors' = [rs EXCEPT ![a] = new]
        /\ UNCHANGED <<nextGuid, online, players>>
        /\ rs[a].cell = c /\ c \in Cells
    BY <1>5 DEF UpdateActor, IInv, TypeOK, ActorStates
  <2>2. rs \in [Actors -> ActorStates] /\ Present(players, rs)
    BY <1>3
  <2>3. [rs[a] EXCEPT !.cell = c] = rs[a]
    BY <2>1, <2>2 DEF ActorStates
  <2>4. Follows(new, rs[a])
    <3>1. rs[a] \in ActorStates /\ c \in Cells
      BY <2>1, <2>2
    <3>2. Follows(LeaseFromAi([rs[a] EXCEPT !.cell = c], target, dead), rs[a])
      BY <1>2, <3>1, PlacedLease
    <3>3. QED
      BY <2>3, <3>2
  <2> HIDE DEF rs, new, c
  <2>5. ASSUME NEW b \in Actors PROVE Follows(actors'[b], rs[b])
    <3>1. Follows(rs[b], rs[b])
      BY <2>2 DEF Follows
    <3>2. actors'[b] = IF b = a THEN new ELSE rs[b]
      BY <2>1, <2>2
    <3>3. QED
      BY <2>4, <3>1, <3>2
  <2>6. actors' = [b \in Actors |-> actors'[b]]
    BY <2>1, <2>2
  <2>7. actors' \in [Actors -> ActorStates] /\ Present(players, actors')
    BY <2>2, <2>5, <2>6, LeaseMayChange
  <2>8. QED
    BY <1>3, <2>1, <2>7
<1>6. ASSUME NEW a \in Actors, NEW d \in Cells, Migrate(g, a, d, target, dead) PROVE Good
  <2> DEFINE c == actors[a].cell
             rs == ActorsThen(g, c)
             cs == CellsThen(g, c)
             led == LeaseFromAi([rs[a] EXCEPT !.cell = d], target, dead)
             moved == LeaseChecked(players, led)
             new == [rs EXCEPT ![a] = moved]
             pref == Preferring(g, IF cs[d].owner = NoGuid THEN {d} ELSE {})
  <2>1. /\ Refresh(players, cs, new, pref)
        /\ UNCHANGED <<nextGuid, online, players>>
    BY <1>6 DEF Migrate
  <2>2. /\ rs \in [Actors -> ActorStates] /\ Present(players, rs)
        /\ cs \in [Cells -> CellStates] /\ Attended(players, cs)
    BY <1>3
  <2> HIDE DEF rs, cs, c, pref
  <2>3. Follows(led, rs[a])
    <3>1. rs[a] \in ActorStates
      BY <2>2
    <3>2. QED
      BY <1>2, <3>1, PlacedLease
  <2> HIDE DEF led
  <2>4. Follows(moved, rs[a])
    <3>1. led \in ActorStates
      BY <2>3 DEF Follows
    <3>2. moved = led \/ moved = Released(led)
      BY DEF LeaseChecked
    <3>3. Released(led) \in ActorStates /\ Released(led).owner = NoGuid
      BY <3>1, ReleasedFacts
    <3> HIDE DEF moved
    <3>4. QED
      BY <2>3, <3>2, <3>3 DEF Follows
  <2> HIDE DEF moved
  <2>5. ASSUME NEW b \in Actors PROVE Follows(new[b], rs[b])
    <3>1. Follows(rs[b], rs[b])
      BY <2>2 DEF Follows
    <3>2. new[b] = IF b = a THEN moved ELSE rs[b]
      BY <2>2
    <3>3. QED
      BY <2>4, <3>1, <3>2
  <2>6. new = [b \in Actors |-> new[b]]
    BY <2>2
  <2> HIDE DEF new
  <2>7. new \in [Actors -> ActorStates] /\ Present(players, new)
    BY <2>2, <2>5, <2>6, LeaseMayChange
  <2>8. QED
    BY <1>2, <2>1, <2>2, <2>7, RefreshKeeps DEF Refresh, Attended
<1>7. ASSUME NEW c \in Cells, NEW S \in SUBSET Actors, NEW kept \in SUBSET Actors,
             ListActors(g, c, S, kept, target, dead)
      PROVE  Good
  <2> DEFINE rs == ActorsThen(g, c)
             led(a) == LeaseFromAi([rs[a] EXCEPT !.cell = c], target, dead)
             new(a) == IF a \in S /\ Listed(rs, c, a) THEN led(a)
                       ELSE IF rs[a].cell = c /\ a \notin Spawned \cup kept THEN Unregistered
                       ELSE rs[a]
  <2>1. /\ cells' = CellsThen(g, c)
        /\ actors' = [a \in Actors |-> new(a)]
        /\ UNCHANGED <<nextGuid, online, players>>
    BY <1>7 DEF ListActors
  <2>2. rs \in [Actors -> ActorStates] /\ Present(players, rs)
    BY <1>3
  <2> HIDE DEF rs
  <2>3. ASSUME NEW a \in Actors PROVE Follows(led(a), rs[a])
    <3>1. rs[a] \in ActorStates
      BY <2>2
    <3>2. QED
      BY <1>2, <3>1, PlacedLease
  <2> HIDE DEF led
  <2>4. ASSUME NEW a \in Actors PROVE Follows(new(a), rs[a])
    <3>1. Follows(Unregistered, rs[a])
      BY UnregisteredIsActor DEF Follows, Unregistered
    <3>2. Follows(rs[a], rs[a])
      BY <2>2 DEF Follows
    <3>3. new(a) = led(a) \/ new(a) = Unregistered \/ new(a) = rs[a]
      OBVIOUS
    <3> HIDE DEF new
    <3>4. QED
      BY <2>3, <3>1, <3>2, <3>3
  <2> HIDE DEF new
  <2>5. \A a \in Actors : Follows(actors'[a], rs[a])
    BY <2>1, <2>4
  <2>6. actors' = [a \in Actors |-> actors'[a]]
    BY <2>1
  <2>7. actors' \in [Actors -> ActorStates] /\ Present(players, actors')
    BY <2>2, <2>5, <2>6, LeaseMayChange
  <2>8. QED
    BY <1>3, <2>1, <2>7
<1>8. QED
  BY <1>1, <1>4, <1>5, <1>6, <1>7

LEMMA ServerStepsKeep ==
  ASSUME IInv, ServerStep
  PROVE  IInv'
<1>1. /\ players \in [Guids -> PlayerStates]
      /\ cells \in [Cells -> CellStates]
      /\ actors \in [Actors -> ActorStates]
      /\ Present(players, actors)
      /\ Attended(players, cells)
  BY DEF IInv, TypeOK
<1> DEFINE Good == /\ cells' \in [Cells -> CellStates]
                   /\ actors' \in [Actors -> ActorStates]
                   /\ Present(players, actors')
                   /\ Attended(players, cells')
                   /\ UNCHANGED <<nextGuid, online, players>>
<1>2. Good => IInv'
  BY DEF IInv, TypeOK, Known
<1>3. ASSUME NEW a \in Actors, NEW c \in Cells, NEW g \in Guids \cup {NoGuid}, Spawn(a, c, g)
      PROVE  Good
  <2> DEFINE pref == Preferring(NoGuid, IF cells[c].owner = NoGuid THEN {c} ELSE {})
             rs == ActorsAfter(players, cells, actors, pref)
             asked == [cell |-> c, owner |-> g, generation |-> 1, reason |-> "script-owner"]
             free == [asked EXCEPT !.owner = NoGuid, !.reason = ""]
             bare == [Unregistered EXCEPT !.cell = c]
  <2>1. asked \in ActorStates /\ asked.owner = g /\ asked.cell = c
    BY DEF ActorStates
  <2> HIDE DEF asked
  <2>2. free \in ActorStates /\ free.owner = NoGuid
    BY <2>1 DEF ActorStates
  <2>3. bare \in ActorStates /\ bare.owner = NoGuid
    BY UnregisteredIsActor DEF ActorStates, Unregistered
  <2> HIDE DEF pref, rs, free, bare
  <2>4. LeaseValid(players, asked) => Follows(asked, rs[a])
    BY <1>1, <2>1, EligibleIsPresent DEF LeaseValid, Follows
  <2>5. Follows(free, rs[a]) /\ Follows(bare, rs[a])
    BY <2>2, <2>3 DEF Follows
  <2>6. PICK new : Follows(new, rs[a]) /\ actors' = [rs EXCEPT ![a] = new]
    BY <1>3, <2>4, <2>5 DEF Spawn, pref, rs, asked, free, bare
  <2>7. /\ cells' = CellsAfter(players, cells, pref)
        /\ UNCHANGED <<nextGuid, online, players>>
    BY <1>3 DEF Spawn, pref
  <2>8. /\ rs \in [Actors -> ActorStates] /\ Present(players, rs)
        /\ cells' \in [Cells -> CellStates] /\ Attended(players, cells')
    BY <2>7, QuietRefresh DEF rs
  <2>9. ASSUME NEW b \in Actors PROVE Follows(actors'[b], rs[b])
    <3>1. Follows(rs[b], rs[b])
      BY <2>8 DEF Follows
    <3>2. actors'[b] = IF b = a THEN new ELSE rs[b]
      BY <2>6, <2>8
    <3>3. QED
      BY <2>6, <3>1, <3>2
  <2>10. actors' = [b \in Actors |-> actors'[b]]
    BY <2>6, <2>8
  <2>11. actors' \in [Actors -> ActorStates] /\ Present(players, actors')
    BY <2>8, <2>9, <2>10, LeaseMayChange
  <2>12. QED
    BY <2>7, <2>8, <2>11
<1>4. ASSUME NEW a \in Actors, Remove(a) PROVE Good
  <2>1. actors' = [actors EXCEPT ![a] = Unregistered]
    BY <1>4 DEF Remove
  <2>2. actors' \in [Actors -> ActorStates]
    BY <1>1, <2>1, UnregisteredIsActor
  <2>3. Present(players, actors')
    BY <1>1, <2>1 DEF Present, Unregistered
  <2>4. QED
    BY <1>1, <1>4, <2>2, <2>3 DEF Remove
<1>5. ASSUME NEW S \in SUBSET Cells, ResetCells(S) PROVE Good
  <2> DEFINE cs == [c \in Cells |-> IF c \in S THEN Emptied(cells[c]) ELSE cells[c]]
             rs == [a \in Actors |-> IF actors[a].cell \in S THEN Unregistered ELSE actors[a]]
             pref == Preferring(NoGuid, S)
  <2>1. Refresh(players, cs, rs, pref) /\ UNCHANGED <<nextGuid, online, players>>
    BY <1>5 DEF ResetCells
  <2>2. cs \in [Cells -> CellStates]
    <3>1. \A c \in Cells : Emptied(cells[c]) \in CellStates
      BY <1>1, BumpMoves DEF Emptied, CellStates
    <3>2. QED
      BY <1>1, <3>1
  <2>3. rs \in [Actors -> ActorStates]
    BY <1>1, UnregisteredIsActor
  <2>4. Present(players, rs)
    BY <1>1 DEF Present, Unregistered
  <2>5. DOMAIN pref = S
    BY DEF Preferring
  <2>6. \A g \in Guids : players[g].at # Nowhere =>
          players[g].at \in DOMAIN pref \/ cs[players[g].at].owner # NoGuid
    BY <1>1, <2>5 DEF Attended, PlayerStates
  <2> HIDE DEF cs, rs, pref
  <2>7. QED
    BY <1>1, <2>1, <2>2, <2>3, <2>4, <2>6, RefreshKeeps DEF Refresh
<1>6. ASSUME NEW c \in Cells, StickyEnds(c) PROVE Good
  <2>1. cells' = [cells EXCEPT ![c].sticky = FALSE]
    BY <1>6 DEF StickyEnds
  <2>2. cells' \in [Cells -> CellStates]
    <3>1. [cells[c] EXCEPT !.sticky = FALSE] \in CellStates
      <4> DEFINE k == cells[c]
      <4>1. k \in CellStates
        BY <1>1
      <4> HIDE DEF k
      <4>2. \A v \in BOOLEAN : [k EXCEPT !.sticky = v] \in CellStates
        BY <4>1 DEF CellStates
      <4>3. [k EXCEPT !.sticky = FALSE] \in CellStates
        BY <4>2, Zenon
      <4>4. QED
        BY <4>3 DEF k
    <3>2. QED
      BY <1>1, <2>1, <3>1
  <2>3. \A d \in Cells : cells'[d].owner = cells[d].owner
    BY <1>1, <2>1
  <2>4. Attended(players, cells')
    BY <1>1, <2>3 DEF Attended, PlayerStates
  <2>5. QED
    BY <1>1, <1>6, <2>2, <2>4 DEF StickyEnds
<1>7. QED
  BY <1>2, <1>3, <1>4, <1>5, <1>6 DEF ServerStep

\* Every step keeps the invariant.
LEMMA NextKeeps == IInv /\ [Next]_vars => IInv'
<1> SUFFICES ASSUME IInv, [Next]_vars PROVE IInv'
  OBVIOUS
<1>1. CASE UNCHANGED vars
  BY <1>1 DEF vars, IInv, TypeOK, Known, Present, Attended
<1>2. CASE Connect
  BY <1>2 DEF Connect, IInv, TypeOK, Known, Present, Attended, Guids
<1>3. ASSUME NEW g \in Guids, PlayerStep(g) PROVE IInv'
  BY <1>3, PlayerStepsKeep
<1>4. ASSUME NEW g \in Guids, ActorPacket(g) PROVE IInv'
  BY <1>4, PacketsKeep
<1>5. ASSUME NEW g \in Guids, NEW c \in Cells, NEW S \in SUBSET Actors, Refused(g, c, S)
      PROVE  IInv'
  <2>1. /\ cells' = CellsAfter(players, cells, Election(g, c))
        /\ actors' = ActorsAfter(players, cells, actors, Election(g, c))
        /\ UNCHANGED <<nextGuid, online, players>>
    BY <1>5 DEF Refused, CellsThen, ActorsThen
  <2>2. /\ cells' \in [Cells -> CellStates]
        /\ actors' \in [Actors -> ActorStates]
        /\ Present(players, actors')
        /\ Attended(players, cells')
    BY <2>1, QuietRefresh
  <2>3. QED
    BY <2>1, <2>2 DEF IInv, TypeOK, Known
<1>6. CASE ServerStep
  BY <1>6, ServerStepsKeep
<1>7. QED
  BY <1>1, <1>2, <1>3, <1>4, <1>5, <1>6 DEF Next

-----------------------------------------------------------------------------
(* The safety theorems *)

\* The inductive invariant holds whatever clients and scripts do.
THEOREM Invariance == Spec => []IInv
<1>1. Init => IInv
  BY InitEstablishes
<1>2. IInv /\ [Next]_vars => IInv'
  BY NextKeeps
<1>3. QED
  BY <1>1, <1>2, PTL DEF Spec

\* Type correctness: counters stay in their width and every record keeps
\* its shape (Server.hpp 619-670).
THEOREM TypeCorrect == Spec => []TypeOK
<1>1. IInv => TypeOK
  BY DEF IInv
<1>2. QED
  BY <1>1, Invariance, PTL

\* No actor is ever leased to a client that is gone (Server.cpp 3838-3852).
THEOREM NoGhostLease == Spec => []LeaseOwnerOnline
<1>1. IInv => LeaseOwnerOnline
  BY DEF IInv, LeaseOwnerOnline, Present, Known, TypeOK, ActorStates
<1>2. QED
  BY <1>1, Invariance, PTL

\* A cell with a player in it always has an authority (Server.cpp 3895-4112).
THEOREM AttendedCellsAreSimulated == Spec => []AttendedCellHasOwner
<1>1. IInv => AttendedCellHasOwner
  BY DEF IInv, AttendedCellHasOwner, Attended
<1>2. QED
  BY <1>1, Invariance, PTL

-----------------------------------------------------------------------------
(* Who is granted a cell *)

\* A refresh under the new players grants cells to eligible clients only,
\* whatever it starts from, provided that is so of what it starts from.
LEMMA RefreshGrants ==
  ASSUME players' \in [Guids -> PlayerStates], NEW cs \in [Cells -> CellStates], NEW pref,
         cells' = CellsAfter(players', cs, pref),
         \A c \in Cells : cs[c].owner \notin {cells[c].owner, NoGuid} =>
                            Eligible(players', cs[c].owner, c)
  PROVE  OwnersAreEligible
<1>1. ASSUME NEW c \in Cells, cells'[c].owner \notin {cells[c].owner, NoGuid}
      PROVE  Eligible(players', cells'[c].owner, c)
  <2>1. cells'[c].owner \notin {cs[c].owner, NoGuid} => Eligible(players', cells'[c].owner, c)
    BY CellsAfterFacts
  <2>2. QED
    BY <1>1, <2>1
<1>2. QED
  BY <1>1 DEF OwnersAreEligible

LEMMA StepGrants == IInv /\ [Next]_vars => OwnersAreEligible \/ UNCHANGED vars
<1> SUFFICES ASSUME IInv, [Next]_vars PROVE OwnersAreEligible \/ UNCHANGED vars
  OBVIOUS
<1>1. IInv'
  BY NextKeeps
<1>2. /\ players \in [Guids -> PlayerStates] /\ players' \in [Guids -> PlayerStates]
      /\ cells \in [Cells -> CellStates]
  BY <1>1 DEF IInv, TypeOK
<1>3. ASSUME NEW pref, cells' = CellsAfter(players', cells, pref) PROVE OwnersAreEligible
  BY <1>2, <1>3, RefreshGrants
<1>4. ASSUME NEW g \in Guids, NEW c, players' = players, cells' = CellsThen(g, c)
      PROVE  OwnersAreEligible
  BY <1>3, <1>4 DEF CellsThen
<1>5. CASE Connect
  BY <1>5 DEF Connect, OwnersAreEligible
<1>6. ASSUME NEW g \in Guids, PlayerStep(g) PROVE OwnersAreEligible
  BY <1>3, <1>6 DEF PlayerStep, Select, ChangeCell, Teleport, ReportLoaded, Disconnect, Refresh
<1>7. ASSUME NEW g \in Guids, NEW target \in Guids \cup {NoGuid}, NEW dead \in BOOLEAN
      PROVE  /\ \A a \in Actors : UpdateActor(g, a, target, dead) => OwnersAreEligible
             /\ \A c \in Cells, S, kept \in SUBSET Actors :
                  ListActors(g, c, S, kept, target, dead) => OwnersAreEligible
  BY <1>4 DEF UpdateActor, ListActors
<1>8. ASSUME NEW g \in Guids, NEW a \in Actors, NEW d \in Cells,
             NEW target \in Guids \cup {NoGuid}, NEW dead, Migrate(g, a, d, target, dead)
      PROVE  OwnersAreEligible
  <2> DEFINE cs == CellsThen(g, actors[a].cell)
             pref == Preferring(g, IF cs[d].owner = NoGuid THEN {d} ELSE {})
  <2>1. players' = players /\ cells' = CellsAfter(players', cs, pref)
    BY <1>8 DEF Migrate, Refresh
  <2>2. cs \in [Cells -> CellStates]
    BY QuietRefresh DEF CellsThen
  <2>3. \A c \in Cells : cs[c].owner \notin {cells[c].owner, NoGuid} =>
                           Eligible(players', cs[c].owner, c)
    BY <1>2, <2>1, CellsAfterFacts DEF CellsThen
  <2> HIDE DEF cs, pref
  <2>4. QED
    BY <1>2, <2>1, <2>2, <2>3, RefreshGrants
<1>9. ASSUME NEW g \in Guids, ActorPacket(g) PROVE OwnersAreEligible
  BY <1>7, <1>8, <1>9 DEF ActorPacket
<1>10. ASSUME NEW g \in Guids, NEW c \in Cells, NEW S \in SUBSET Actors, Refused(g, c, S)
       PROVE  OwnersAreEligible
  BY <1>4, <1>10 DEF Refused
<1>11. CASE ServerStep
  <2>1. ASSUME NEW a \in Actors, NEW c \in Cells, NEW g \in Guids \cup {NoGuid}, Spawn(a, c, g)
        PROVE  OwnersAreEligible
    BY <1>3, <2>1 DEF Spawn
  <2>2. ASSUME NEW a \in Actors, Remove(a) PROVE OwnersAreEligible
    BY <2>2 DEF Remove, OwnersAreEligible
  <2>3. ASSUME NEW S \in SUBSET Cells, ResetCells(S) PROVE OwnersAreEligible
    <3> DEFINE cs == [c \in Cells |-> IF c \in S THEN Emptied(cells[c]) ELSE cells[c]]
    <3>1. players' = players /\ cells' = CellsAfter(players', cs, Preferring(NoGuid, S))
      BY <2>3 DEF ResetCells, Refresh
    <3>2. cs \in [Cells -> CellStates]
      <4>1. \A c \in Cells : Emptied(cells[c]) \in CellStates
        BY <1>2, BumpMoves DEF Emptied, CellStates
      <4>2. QED
        BY <1>2, <4>1
    <3>3. \A c \in Cells : cs[c].owner \in {cells[c].owner, NoGuid}
      BY DEF Emptied
    <3> HIDE DEF cs
    <3>4. QED
      BY <1>2, <3>1, <3>2, <3>3, RefreshGrants
  <2>4. ASSUME NEW c \in Cells, StickyEnds(c) PROVE OwnersAreEligible
    BY <1>2, <2>4 DEF StickyEnds, OwnersAreEligible
  <2>5. QED
    BY <1>11, <2>1, <2>2, <2>3, <2>4 DEF ServerStep
<1>12. QED
  BY <1>5, <1>6, <1>9, <1>10, <1>11 DEF Next

-----------------------------------------------------------------------------
(* Who loses a cell *)

\* An able owner is replaced when its window is over, by somebody closer.
LEMMA AbleOwnerLoses ==
  ASSUME NEW ps \in [Guids -> PlayerStates], NEW k \in CellStates, NEW c \in Cells,
         NEW preferred, k.owner \in Able(ps, c), NewOwner(ps, k, c, preferred) # k.owner
  PROVE  /\ ~k.sticky
         /\ c \in Exterior =>
              Distance[ps[NewOwner(ps, k, c, preferred)].at][c] < Distance[ps[k.owner].at][c]
<1> DEFINE new == NewOwner(ps, k, c, preferred)
<1>1. Able(ps, c) # {} /\ ~k.sticky
  BY DEF NewOwner
<1>2. ASSUME c \in Exterior PROVE Distance[ps[new].at][c] < Distance[ps[k.owner].at][c]
  <2>1. ps[k.owner].at \in Exterior /\ Distance[ps[k.owner].at][c] \in Nat
    BY <1>2 DEF Able, Eligible
  <2>2. Exact(ps, c) \in SUBSET Guids /\ Closest(ps, c) \in SUBSET Guids
    BY DEF Exact, Closest, Able
  <2>3. CASE PreferExactCell /\ Exact(ps, c) # {}
    <3>1. new = Favour(Exact(ps, c), k.owner)
      BY <1>1, <2>3 DEF NewOwner
    <3>2. k.owner \notin Exact(ps, c)
      BY <3>1 DEF Favour
    <3>3. new \in Exact(ps, c)
      BY <2>3, <2>2, <3>1, FavourChooses
    <3>4. ps[new].at = c /\ ps[k.owner].at # c
      BY <3>2, <3>3 DEF Exact
    <3>5. Distance[c][c] = 0 /\ Distance[ps[k.owner].at][c] # 0
      BY <1>2, <2>1, <3>4
    <3>6. QED
      BY <2>1, <3>4, <3>5
  <2>4. CASE ~(PreferExactCell /\ Exact(ps, c) # {})
    <3>1. new = Favour(Closest(ps, c), k.owner)
      BY <1>1, <1>2, <2>4 DEF NewOwner
    <3>2. k.owner \notin Closest(ps, c)
      BY <3>1 DEF Favour
    <3>3. Closest(ps, c) # {}
      BY <1>1, <1>2, SomebodyIsClosest
    <3>4. new \in Closest(ps, c)
      BY <2>2, <3>1, <3>3, FavourChooses
    <3>5. PICK h \in Able(ps, c) :
                 ~(Distance[ps[k.owner].at][c] <= Distance[ps[h].at][c])
      BY <3>2 DEF Closest
    <3>6. /\ Distance[ps[new].at][c] <= Distance[ps[h].at][c]
          /\ new \in Able(ps, c)
      BY <3>4, <3>5 DEF Closest
    <3>7. Distance[ps[new].at][c] \in Nat /\ Distance[ps[h].at][c] \in Nat
      BY <1>2, <3>5, <3>6 DEF Able, Eligible
    <3> HIDE DEF new
    <3>8. QED
      BY <2>1, <3>5, <3>6, <3>7
  <2>5. QED
    BY <2>3, <2>4
<1>3. QED
  BY <1>1, <1>2

\* What a step may do to the owner of a cell; a reset alone takes the cell from
\* one that could stay, which shows in its generation.
Stays(c) ==
  LET old == cells[c]
      new == cells'[c]
  IN  /\ old.owner # NoGuid /\ new.owner # old.owner
      /\ new.generation = Bump(old.generation)
      /\ Eligible(players', old.owner, c)
      => /\ ~old.sticky
         /\ c \in Exterior /\ new.owner # NoGuid =>
              Distance[players'[new.owner].at][c] < Distance[players'[old.owner].at][c]

\* A refresh of the cells as they are does only that.
LEMMA RefreshStays ==
  ASSUME players' \in [Guids -> PlayerStates], cells \in [Cells -> CellStates], NEW pref,
         cells' = CellsAfter(players', cells, pref), NEW c \in Cells
  PROVE  Stays(c)
<1> SUFFICES ASSUME cells[c].owner # NoGuid, cells'[c].owner # cells[c].owner,
                    Eligible(players', cells[c].owner, c)
             PROVE  /\ ~cells[c].sticky
                    /\ c \in Exterior /\ cells'[c].owner # NoGuid =>
                         Distance[players'[cells'[c].owner].at][c]
                           < Distance[players'[cells[c].owner].at][c]
  BY DEF Stays
<1>1. c \in DOMAIN pref /\ cells'[c] = CellRefreshed(players', cells[c], c, pref[c])
  BY DEF CellsAfter
<1>2. /\ cells'[c].owner = NewOwner(players', cells[c], c, pref[c])
      /\ cells'[c].owner # cells[c].owner
  BY <1>1 DEF CellRefreshed
<1>3. cells[c] \in CellStates /\ cells[c].owner \in Able(players', c)
  BY DEF Able, CellStates
<1>4. QED
  BY <1>2, <1>3, AbleOwnerLoses

\* Nothing happens to a cell that has an owner and is not refreshed.
LEMMA ElectionSpares ==
  ASSUME NEW g, NEW c, NEW d \in Cells, cells[d].owner # NoGuid,
         cells \in [Cells -> CellStates]
  PROVE  CellsThen(g, c)[d] = cells[d]
BY DEF CellsThen, CellsAfter, Election, Preferring

LEMMA StepStays == IInv /\ [Next]_vars => (\A c \in Cells : Stays(c)) \/ UNCHANGED vars
<1> SUFFICES ASSUME IInv, [Next]_vars, NEW c \in Cells PROVE Stays(c) \/ UNCHANGED vars
  OBVIOUS
<1>1. IInv'
  BY NextKeeps
<1>2. /\ players \in [Guids -> PlayerStates] /\ players' \in [Guids -> PlayerStates]
      /\ cells \in [Cells -> CellStates]
  BY <1>1 DEF IInv, TypeOK
<1>3. ASSUME NEW pref, cells' = CellsAfter(players', cells, pref) PROVE Stays(c)
  BY <1>2, <1>3, RefreshStays
<1>4. ASSUME NEW g \in Guids, NEW d, players' = players, cells' = CellsThen(g, d)
      PROVE  Stays(c)
  BY <1>3, <1>4 DEF CellsThen
<1>5. ASSUME cells'[c].owner = cells[c].owner PROVE Stays(c)
  BY <1>5 DEF Stays
<1>6. CASE Connect
  BY <1>5, <1>6 DEF Connect
<1>7. ASSUME NEW g \in Guids, PlayerStep(g) PROVE Stays(c)
  BY <1>3, <1>7 DEF PlayerStep, Select, ChangeCell, Teleport, ReportLoaded, Disconnect, Refresh
<1>8. ASSUME NEW g \in Guids, NEW target \in Guids \cup {NoGuid}, NEW dead \in BOOLEAN
      PROVE  /\ \A a \in Actors : UpdateActor(g, a, target, dead) => Stays(c)
             /\ \A d \in Cells, S, kept \in SUBSET Actors :
                  ListActors(g, d, S, kept, target, dead) => Stays(c)
  BY <1>4 DEF UpdateActor, ListActors
<1>9. ASSUME NEW g \in Guids, NEW a \in Actors, NEW d \in Cells,
             NEW target \in Guids \cup {NoGuid}, NEW dead, Migrate(g, a, d, target, dead)
      PROVE  Stays(c)
  <2> DEFINE cs == CellsThen(g, actors[a].cell)
             pref == Preferring(g, IF cs[d].owner = NoGuid THEN {d} ELSE {})
  <2>1. cells' = CellsAfter(players, cs, pref)
    BY <1>9 DEF Migrate, Refresh
  <2>2. CASE cells[c].owner = NoGuid
    BY <2>2 DEF Stays
  <2>3. CASE cells[c].owner # NoGuid
    <3>1. cs[c] = cells[c]
      BY <1>2, <2>3, ElectionSpares
    <3>2. c \notin DOMAIN pref
      BY <2>3, <3>1 DEF Preferring
    <3> HIDE DEF cs, pref
    <3>3. cells'[c] = cells[c]
      BY <2>1, <3>1, <3>2 DEF CellsAfter
    <3>4. QED
      BY <1>5, <3>3
  <2>4. QED
    BY <2>2, <2>3
<1>10. ASSUME NEW g \in Guids, ActorPacket(g) PROVE Stays(c)
  BY <1>8, <1>9, <1>10 DEF ActorPacket
<1>11. ASSUME NEW g \in Guids, NEW d \in Cells, NEW S \in SUBSET Actors, Refused(g, d, S)
       PROVE  Stays(c)
  BY <1>4, <1>11 DEF Refused
<1>12. CASE ServerStep
  <2>1. ASSUME NEW a \in Actors, NEW d \in Cells, NEW g \in Guids \cup {NoGuid}, Spawn(a, d, g)
        PROVE  Stays(c)
    BY <1>3, <2>1 DEF Spawn
  <2>2. ASSUME NEW a \in Actors, Remove(a) PROVE Stays(c)
    BY <1>5, <2>2 DEF Remove
  <2>3. ASSUME NEW S \in SUBSET Cells, ResetCells(S) PROVE Stays(c)
    <3> DEFINE cs == [d \in Cells |-> IF d \in S THEN Emptied(cells[d]) ELSE cells[d]]
    <3>1. players' = players /\ cells' = CellsAfter(players', cs, Preferring(NoGuid, S))
      BY <2>3 DEF ResetCells, Refresh
    <3>2. CASE c \notin S
      <4>1. cells'[c] = cells[c]
        BY <3>1, <3>2 DEF CellsAfter, Preferring
      <4>2. QED
        BY <1>5, <4>1
    <3>3. CASE c \in S
      <4> DEFINE new == CellRefreshed(players', Emptied(cells[c]), c, NoGuid)
      <4>1. cells'[c] = new
        BY <3>1, <3>3 DEF CellsAfter, Preferring
      <4>2. cells[c].generation \in 0..MaxGeneration /\ cells[c].owner \in Guids \cup {NoGuid}
        BY <1>2 DEF CellStates
      <4>3. CASE Able(players', c) = {}
        <5>1. cells[c].owner # NoGuid => ~Eligible(players', cells[c].owner, c)
          BY <4>2, <4>3 DEF Able
        <5>2. QED
          BY <5>1 DEF Stays
      <4>4. CASE Able(players', c) # {}
        <5>1. Emptied(cells[c]) \in CellStates
          BY <4>2, BumpMoves DEF Emptied, CellStates
        <5>2. NewOwner(players', Emptied(cells[c]), c, NoGuid) \in Able(players', c)
          BY <1>2, <4>4, <5>1, NewOwnerIsAble
        <5>3. new.generation = Bump(Bump(cells[c].generation))
          BY <5>2 DEF CellRefreshed, Emptied, Able, Guids
        <5>4. Bump(cells[c].generation) \in 0..MaxGeneration
          BY <4>2, BumpMoves
        <5>5. new.generation # Bump(cells[c].generation)
          BY <5>3, <5>4, BumpMoves
        <5> HIDE DEF new
        <5>6. QED
          BY <4>1, <5>5 DEF Stays
      <4>5. QED
        BY <4>3, <4>4
    <3>4. QED
      BY <3>2, <3>3
  <2>4. ASSUME NEW d \in Cells, StickyEnds(d) PROVE Stays(c)
    <3>1. cells'[c].owner = cells[c].owner
      BY <1>2, <2>4 DEF StickyEnds
    <3>2. QED
      BY <1>5, <3>1
  <2>5. QED
    BY <1>12, <2>1, <2>2, <2>3, <2>4 DEF ServerStep
<1>13. QED
  BY <1>6, <1>7, <1>10, <1>11, <1>12 DEF Next

\* A cell is granted to clients that may simulate it, and taken from one that
\* still may only after its sticky window, by somebody closer or by a reset
\* (Server.cpp 3944-4021).
THEOREM AuthorityMovesForCause == Spec => HandoversHaveCause
<1>1. ASSUME \A c \in Cells : Stays(c) PROVE StickyOwnersStay /\ HandoffsAreCloser
  <2>1. StickyOwnersStay
    BY <1>1 DEF Stays, StickyOwnersStay
  <2>2. HandoffsAreCloser
    BY <1>1 DEF Stays, HandoffsAreCloser
  <2>3. QED
    BY <2>1, <2>2
<1>2. IInv /\ [Next]_vars => [OwnersAreEligible /\ StickyOwnersStay /\ HandoffsAreCloser]_vars
  BY <1>1, StepGrants, StepStays
<1>3. QED
  BY <1>2, Invariance, PTL DEF Spec, HandoversHaveCause

-----------------------------------------------------------------------------
(* Leases are numbered.  One handler may change a lease more than once (an *)
(* election, an AI package, a second refresh), but never so often that the *)
(* counter comes round to the number it started from.                      *)

\* What a handler may make of a registered actor: the same lease, or a
\* lease one or two numbers on, or none because it is forgotten.
Numbered(new, old) ==
  \/ new.cell = Nowhere
  \/ new.owner = old.owner
  \/ new.generation \in {Bump(old.generation), Bump(Bump(old.generation))}

\* It is so for a release, and for a release followed by an AI package.
LEMMA NumberedBasics ==
  ASSUME NEW r \in ActorStates
  PROVE  /\ Numbered(r, r)
         /\ Numbered(Released(r), r)
         /\ Numbered(Unregistered, r)
BY ReleasedFacts DEF Numbered, Unregistered

\* What it means for the property.
LEMMA NumberedChanges ==
  ASSUME NEW r \in ActorStates, NEW new, Numbered(new, r),
         new.cell # Nowhere, new.owner # r.owner
  PROVE  new.generation # r.generation
<1>1. Bump(r.generation) # r.generation /\ Bump(Bump(r.generation)) # r.generation
  BY BumpMoves DEF ActorStates
<1>2. QED
  BY <1>1 DEF Numbered

\* The record an election makes of r.
Elected(s, r) ==
  s = r \/ s = Unregistered \/ (r.owner # NoGuid /\ s = Released(r))

LEMMA ElectedNumbered ==
  ASSUME NEW r \in ActorStates, NEW s, Elected(s, r)
  PROVE  Numbered(s, r) /\ s \in ActorStates
BY NumberedBasics, UnregisteredIsActor, ReleasedFacts DEF Elected

\* Two elections in one handler release a lease only once.
LEMMA ElectedTwice ==
  ASSUME NEW r \in ActorStates, NEW s, Elected(s, r), NEW t, Elected(t, s)
  PROVE  Elected(t, r)
<1>1. Unregistered.owner = NoGuid
  BY DEF Unregistered
<1>2. Released(r).owner = NoGuid
  BY ReleasedFacts
<1>3. QED
  BY <1>1, <1>2 DEF Elected

\* An AI package after an election: at most two numbers on, and the new
\* lease is good in cell c or unchanged.
LEMMA PackageNumbered ==
  ASSUME NEW r \in ActorStates, NEW s, s = r \/ (r.owner # NoGuid /\ s = Released(r)),
         NEW c \in Cells, NEW target \in Guids \cup {NoGuid}, NEW dead
  PROVE  /\ Numbered(LeaseFromAi([s EXCEPT !.cell = c], target, dead), r)
         /\ Numbered(LeaseChecked(players, LeaseFromAi([s EXCEPT !.cell = c], target, dead)), r)
<1> DEFINE q == [s EXCEPT !.cell = c]
<1>1. s \in ActorStates
  BY ReleasedFacts
<1>2. /\ q \in ActorStates /\ q.owner = s.owner /\ q.cell = c
      /\ q.generation = s.generation
  BY <1>1 DEF ActorStates
<1> HIDE DEF q
<1> DEFINE led == LeaseFromAi(q, target, dead)
<1>3. /\ led \in ActorStates /\ led.cell = c
      /\ \/ led = q
         \/ /\ led.generation = Bump(s.generation)
            /\ led.owner = NoGuid
         \/ /\ led.generation = Bump(s.generation)
            /\ led.owner \in Guids
            /\ Eligible(players, led.owner, c)
  <2>1. led \in ActorStates /\ led.cell = q.cell
    BY <1>2, LeaseFromAiFacts
  <2>2. \/ led = q
        \/ /\ led.generation = Bump(q.generation)
           /\ led.owner = NoGuid
        \/ /\ led.generation = Bump(q.generation)
           /\ led.owner \in Guids
           /\ Eligible(players, led.owner, q.cell)
    BY <1>2, LeaseFromAiFacts
  <2> HIDE DEF led
  <2>3. QED
    BY <1>2, <2>1, <2>2
<1> HIDE DEF led
<1>4. \/ s.owner = r.owner /\ s.generation = r.generation
      \/ s.owner = NoGuid /\ s.generation = Bump(r.generation)
  BY ReleasedFacts
<1>5. Numbered(led, r)
  BY <1>2, <1>3, <1>4 DEF Numbered
<1>6. \/ LeaseChecked(players, led) = led
      \/ led.owner # NoGuid /\ led = q /\ LeaseChecked(players, led) = Released(led)
  BY <1>3 DEF LeaseChecked, LeaseValid
<1>7. Released(led).owner = NoGuid /\ Released(led).generation = Bump(led.generation)
  BY <1>3, ReleasedFacts
<1>8. Numbered(LeaseChecked(players, led), r)
  <2>1. CASE LeaseChecked(players, led) = led
    BY <1>5, <2>1
  <2>2. CASE led.owner # NoGuid /\ led = q /\ LeaseChecked(players, led) = Released(led)
    BY <1>2, <1>4, <1>7, <2>2 DEF Numbered
  <2>3. QED
    BY <1>6, <2>1, <2>2
<1>9. QED
  BY <1>5, <1>8 DEF led, q

\* A lease that has been checked is not released by the refresh that follows.
LEMMA CheckedStays ==
  ASSUME NEW r \in ActorStates
  PROVE  LeaseChecked(players, LeaseChecked(players, r)) = LeaseChecked(players, r)
<1>1. Released(r).owner = NoGuid
  BY ReleasedFacts
<1>2. QED
  BY <1>1 DEF LeaseChecked

\* A refresh checks a lease, or leaves it, or forgets the actor.
LEMMA RefreshChecks ==
  ASSUME NEW ps, NEW cs, NEW rs, NEW pref, NEW a \in Actors
  PROVE  ActorsAfter(ps, cs, rs, pref)[a] \in {rs[a], Unregistered, LeaseChecked(ps, rs[a])}
BY DEF ActorsAfter

\* Every record of a refresh is an election of what it started from.
LEMMA RefreshElects ==
  ASSUME NEW ps \in [Guids -> PlayerStates], NEW cs \in [Cells -> CellStates],
         NEW rs \in [Actors -> ActorStates], NEW pref, NEW a \in Actors
  PROVE  Elected(ActorsAfter(ps, cs, rs, pref)[a], rs[a])
BY ActorsAfterFacts DEF Elected

\* A refresh never forgets an actor of the content files.
LEMMA ContentStays ==
  ASSUME NEW ps, NEW cs, NEW rs, NEW pref, NEW a \in Actors, a \notin Spawned
  PROVE  ActorsAfter(ps, cs, rs, pref)[a] \in {rs[a], LeaseChecked(ps, rs[a])}
BY DEF ActorsAfter, Forgotten

LEMMA PacketsNumber ==
  ASSUME IInv, NEW g \in Guids, ActorPacket(g), NEW b \in Actors, actors[b].cell # Nowhere
  PROVE  Numbered(actors'[b], actors[b])
<1>1. /\ cells \in [Cells -> CellStates]
      /\ actors \in [Actors -> ActorStates]
      /\ players \in [Guids -> PlayerStates]
  BY DEF IInv, TypeOK
<1>2. actors[b] \in ActorStates
  BY <1>1
<1>3. ASSUME NEW c
      PROVE  /\ ActorsThen(g, c) \in [Actors -> ActorStates]
             /\ CellsThen(g, c) \in [Cells -> CellStates]
             /\ Elected(ActorsThen(g, c)[b], actors[b])
  BY <1>1, QuietRefresh, RefreshElects DEF ActorsThen, CellsThen
<1>4. ASSUME NEW s, Elected(s, actors[b]), s # Unregistered
      PROVE  s = actors[b] \/ (actors[b].owner # NoGuid /\ s = Released(actors[b]))
  BY <1>4 DEF Elected
<1>5. PICK target \in Guids \cup {NoGuid}, dead \in BOOLEAN :
        \/ \E a \in Actors : UpdateActor(g, a, target, dead)
        \/ \E a \in Actors, d \in Cells : Migrate(g, a, d, target, dead)
        \/ \E c \in Cells, S, kept \in SUBSET Actors : ListActors(g, c, S, kept, target, dead)
  BY DEF ActorPacket
<1>6. Unregistered.cell = Nowhere
  BY DEF Unregistered
<1>7. ASSUME NEW a \in Actors, UpdateActor(g, a, target, dead)
      PROVE  Numbered(actors'[b], actors[b])
  <2> DEFINE c == actors[a].cell
             rs == ActorsThen(g, c)
  <2>1. /\ actors' = [rs EXCEPT ![a] = LeaseFromAi(rs[a], target, dead)]
        /\ rs[a].cell = c /\ c # Nowhere /\ c \in Cells
    BY <1>1, <1>7 DEF UpdateActor, ActorStates
  <2>2. rs \in [Actors -> ActorStates] /\ Elected(rs[b], actors[b])
    BY <1>3
  <2> HIDE DEF rs, c
  <2>3. CASE b # a
    BY <1>2, <2>1, <2>2, <2>3, ElectedNumbered
  <2>4. CASE b = a
    <3>1. rs[b] # Unregistered
      BY <1>6, <2>1, <2>4
    <3>2. [rs[b] EXCEPT !.cell = c] = rs[b]
      BY <2>1, <2>2, <2>4 DEF ActorStates
    <3>3. Numbered(LeaseFromAi([rs[b] EXCEPT !.cell = c], target, dead), actors[b])
      BY <1>2, <1>4, <2>1, <2>2, <3>1, PackageNumbered
    <3>4. actors'[b] = LeaseFromAi(rs[b], target, dead)
      BY <2>1, <2>2, <2>4
    <3>5. QED
      BY <3>2, <3>3, <3>4
  <2>5. QED
    BY <2>3, <2>4
<1>8. ASSUME NEW a \in Actors, NEW d \in Cells, Migrate(g, a, d, target, dead)
      PROVE  Numbered(actors'[b], actors[b])
  <2> DEFINE c == actors[a].cell
             rs == ActorsThen(g, c)
             cs == CellsThen(g, c)
             led == LeaseFromAi([rs[a] EXCEPT !.cell = d], target, dead)
             moved == LeaseChecked(players, led)
             new == [rs EXCEPT ![a] = moved]
             pref == Preferring(g, IF cs[d].owner = NoGuid THEN {d} ELSE {})
  <2>1. /\ actors' = ActorsAfter(players, cs, new, pref)
        /\ rs[a].cell = c /\ c # Nowhere
    BY <1>8 DEF Migrate, Refresh
  <2>2. /\ rs \in [Actors -> ActorStates] /\ Elected(rs[b], actors[b])
        /\ cs \in [Cells -> CellStates]
    BY <1>3
  <2>3. [rs[a] EXCEPT !.cell = d] \in ActorStates
    <3>1. \A r \in ActorStates : [r EXCEPT !.cell = d] \in ActorStates
      BY DEF ActorStates
    <3> HIDE DEF rs
    <3>2. QED
      BY <2>2, <3>1
  <2>4. led \in ActorStates
    BY <2>3, LeaseFromAiFacts
  <2> HIDE DEF rs, cs, c, pref, led
  <2>5. moved \in ActorStates
    BY <2>4, ReleasedFacts DEF LeaseChecked
  <2>6. LeaseChecked(players, moved) = moved
    BY <2>4, CheckedStays
  <2> HIDE DEF moved
  <2>7. new \in [Actors -> ActorStates]
    BY <2>2, <2>5
  <2>8. CASE b # a
    <3>1. Elected(actors'[b], new[b])
      BY <1>1, <2>1, <2>2, <2>7, RefreshElects
    <3>2. new[b] = rs[b]
      BY <2>2, <2>8
    <3> HIDE DEF new
    <3>3. Elected(actors'[b], actors[b])
      BY <1>2, <2>2, <3>1, <3>2, ElectedTwice
    <3>4. QED
      BY <1>2, <3>3, ElectedNumbered
  <2>9. CASE b = a
    <3>1. actors'[b] \in {new[b], Unregistered, LeaseChecked(players, new[b])}
      BY <2>1, RefreshChecks
    <3>2. new[b] = moved
      BY <2>2, <2>9
    <3>3. actors'[b] \in {moved, Unregistered}
      BY <2>6, <3>1, <3>2
    <3>4. rs[b] # Unregistered
      BY <1>6, <2>1, <2>9
    <3>5. Numbered(LeaseChecked(players, LeaseFromAi([rs[b] EXCEPT !.cell = d], target, dead)),
                   actors[b])
      BY <1>2, <1>4, <2>2, <3>4, PackageNumbered
    <3>6. Numbered(moved, actors[b])
      BY <2>9, <3>5 DEF moved, led
    <3>7. QED
      BY <1>2, <3>3, <3>6, NumberedBasics
  <2>10. QED
    BY <2>8, <2>9
<1>9. ASSUME NEW c \in Cells, NEW S \in SUBSET Actors, NEW kept \in SUBSET Actors,
             ListActors(g, c, S, kept, target, dead)
      PROVE  Numbered(actors'[b], actors[b])
  <2> DEFINE rs == ActorsThen(g, c)
             led == LeaseFromAi([rs[b] EXCEPT !.cell = c], target, dead)
  <2>1. actors'[b] = IF b \in S /\ Listed(rs, c, b) THEN led
                     ELSE IF rs[b].cell = c /\ b \notin Spawned \cup kept THEN Unregistered
                     ELSE rs[b]
    BY <1>9 DEF ListActors
  <2>2. Elected(rs[b], actors[b])
    BY <1>3
  <2>3. ASSUME Listed(rs, c, b) PROVE Numbered(led, actors[b])
    <3>1. CASE b \in Spawned
      <4>1. rs[b] # Unregistered
        BY <1>6, <2>3, <3>1 DEF Listed
      <4> HIDE DEF rs
      <4>2. QED
        BY <1>2, <1>4, <2>2, <4>1, PackageNumbered
    <3>2. CASE b \notin Spawned
      <4>1. rs[b] \in {actors[b], LeaseChecked(players, actors[b])}
        BY <3>2, ContentStays DEF ActorsThen
      <4>2. rs[b] = actors[b] \/ (actors[b].owner # NoGuid /\ rs[b] = Released(actors[b]))
        BY <4>1 DEF LeaseChecked
      <4> HIDE DEF rs
      <4>3. QED
        BY <1>2, <4>2, PackageNumbered
    <3>3. QED
      BY <3>1, <3>2
  <2> HIDE DEF rs, led
  <2>4. QED
    BY <1>2, <2>1, <2>2, <2>3, ElectedNumbered, NumberedBasics
<1>10. QED
  BY <1>5, <1>7, <1>8, <1>9

LEMMA StepNumbers == IInv /\ [Next]_vars => LeaseChangesAreNumbered
<1> SUFFICES ASSUME IInv, [Next]_vars,
                    NEW b \in Actors, actors[b].cell # Nowhere
             PROVE  Numbered(actors'[b], actors[b])
  BY NumberedChanges DEF LeaseChangesAreNumbered, IInv, TypeOK
<1>1. /\ cells \in [Cells -> CellStates]
      /\ actors \in [Actors -> ActorStates]
      /\ actors[b] \in ActorStates
  BY DEF IInv, TypeOK
<1>2. players' \in [Guids -> PlayerStates]
  BY NextKeeps DEF IInv, TypeOK
<1>3. actors' = actors => Numbered(actors'[b], actors[b])
  BY <1>1, NumberedBasics
<1>4. ASSUME NEW pref, actors' = ActorsAfter(players', cells, actors, pref)
      PROVE  Numbered(actors'[b], actors[b])
  BY <1>1, <1>2, <1>4, RefreshElects, ElectedNumbered
<1>5. CASE UNCHANGED vars \/ Connect
  BY <1>3, <1>5 DEF vars, Connect
<1>6. ASSUME NEW g \in Guids, PlayerStep(g) PROVE Numbered(actors'[b], actors[b])
  <2>1. ASSUME Disconnect(g) PROVE Numbered(actors'[b], actors[b])
    <3> DEFINE rs == Revoked(actors, g)
               pref == Preferring(NoGuid, {c \in Interest(players[g]) : cells[c].owner = g})
    <3>1. actors' = ActorsAfter(players', cells, rs, pref)
      BY <2>1 DEF Disconnect, Refresh
    <3>2. rs \in [Actors -> ActorStates]
      <4>1. \A a \in Actors : Released(actors[a]) \in ActorStates
        BY <1>1, ReleasedFacts
      <4>2. QED
        BY <1>1, <4>1 DEF Revoked
    <3>3. Elected(rs[b], actors[b])
      BY DEF Revoked, Elected, Guids
    <3> HIDE DEF rs, pref
    <3>4. Elected(actors'[b], rs[b])
      BY <1>1, <1>2, <3>1, <3>2, RefreshElects
    <3>5. QED
      BY <1>1, <3>3, <3>4, ElectedTwice, ElectedNumbered
  <2>2. QED
    BY <1>4, <1>6, <2>1 DEF PlayerStep, Select, ChangeCell, Teleport, ReportLoaded, Refresh
<1>7. ASSUME NEW g \in Guids, ActorPacket(g) PROVE Numbered(actors'[b], actors[b])
  BY <1>7, PacketsNumber
<1>8. ASSUME NEW g \in Guids, NEW c \in Cells, NEW S \in SUBSET Actors, Refused(g, c, S)
      PROVE  Numbered(actors'[b], actors[b])
  BY <1>4, <1>8 DEF Refused, ActorsThen
<1>9. CASE ServerStep
  <2>1. ASSUME NEW a \in Actors, NEW c \in Cells, NEW g \in Guids \cup {NoGuid}, Spawn(a, c, g)
        PROVE  Numbered(actors'[b], actors[b])
    <3> DEFINE pref == Preferring(NoGuid, IF cells[c].owner = NoGuid THEN {c} ELSE {})
               rs == ActorsAfter(players, cells, actors, pref)
    <3>1. b # a
      BY <2>1 DEF Spawn
    <3>2. actors'[b] = rs[b]
      BY <2>1, <3>1 DEF Spawn, ActorsAfter
    <3>3. Elected(rs[b], actors[b])
      BY <1>1, RefreshElects DEF IInv, TypeOK
    <3> HIDE DEF rs
    <3>4. QED
      BY <1>1, <3>2, <3>3, ElectedNumbered
  <2>2. ASSUME NEW a \in Actors, Remove(a) PROVE Numbered(actors'[b], actors[b])
    <3>1. actors'[b] = actors[b] \/ actors'[b] = Unregistered
      BY <1>1, <2>2 DEF Remove
    <3>2. QED
      BY <1>1, <3>1, NumberedBasics
  <2>3. ASSUME NEW S \in SUBSET Cells, ResetCells(S) PROVE Numbered(actors'[b], actors[b])
    <3> DEFINE cs == [c \in Cells |-> IF c \in S THEN Emptied(cells[c]) ELSE cells[c]]
               rs == [a \in Actors |-> IF actors[a].cell \in S THEN Unregistered ELSE actors[a]]
    <3>1. actors' = ActorsAfter(players, cs, rs, Preferring(NoGuid, S)) /\ players' = players
      BY <2>3 DEF ResetCells, Refresh
    <3>2. cs \in [Cells -> CellStates]
      <4>1. \A c \in Cells : Emptied(cells[c]) \in CellStates
        BY <1>1, BumpMoves DEF Emptied, CellStates
      <4>2. QED
        BY <1>1, <4>1
    <3>3. rs \in [Actors -> ActorStates]
      BY <1>1, UnregisteredIsActor
    <3>4. Elected(rs[b], actors[b])
      BY DEF Elected
    <3> HIDE DEF cs, rs
    <3>5. Elected(actors'[b], rs[b])
      BY <1>2, <3>1, <3>2, <3>3, RefreshElects
    <3>6. QED
      BY <1>1, <3>4, <3>5, ElectedTwice, ElectedNumbered
  <2>4. ASSUME NEW c \in Cells, StickyEnds(c) PROVE Numbered(actors'[b], actors[b])
    BY <1>3, <2>4 DEF StickyEnds
  <2>5. QED
    BY <1>9, <2>1, <2>2, <2>3, <2>4 DEF ServerStep
<1>10. QED
  BY <1>5, <1>6, <1>7, <1>8, <1>9 DEF Next

\* While an actor stays registered its lease never changes hands without a
\* new generation, even where one handler changes it twice and the counter
\* wraps (Server.cpp 3913-3918, 4844-4848, 12985-12990).
THEOREM LeasesAreFenced == Spec => LeaseFence
<1>1. IInv /\ [Next]_vars => [LeaseChangesAreNumbered]_vars
  BY StepNumbers
<1>2. QED
  BY <1>1, Invariance, PTL DEF Spec, LeaseFence
=============================================================================
