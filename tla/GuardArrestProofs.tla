-------------------------- MODULE GuardArrestProofs -------------------------
(***************************************************************************)
(* Theorems about GuardArrest: nobody is pursued without a bounty, a fine  *)
(* is paid for the bounty that was shown, an arrest that is resisted is    *)
(* not offered again, and clients end up with the server's crime state,    *)
(* for any number of players, guards, cells, crimes and packets under way. *)
(***************************************************************************)
EXTENDS GuardArrest, SequenceTheorems, TLAPS

USE ActorAssumption, BountyAssumption, BoundAssumption

-----------------------------------------------------------------------------
(* Records of guards *)

Sound(G) ==
  /\ G \in [Guards -> Record]
  /\ \A g \in Guards : G[g].suspect = Nobody <=> G[g].state = "None"

LEMMA RecordFields ==
  ASSUME NEW r \in Record
  PROVE  /\ r.suspect \in Players \cup {Nobody} /\ r.state \in Enforcement
         /\ r.current \in BOOLEAN /\ r.cell \in Cells /\ r.generation \in Nat
BY DEF Record

LEMMA AfterEffect ==
  ASSUME NEW r \in Record, NEW p \in Players, NEW s \in Enforcement
  PROVE  /\ After(r, p, s) \in Record
         /\ After(r, p, s).suspect = p /\ After(r, p, s).state = s
         /\ After(r, p, s).cell = r.cell /\ After(r, p, s).generation = r.generation
BY DEF After, Record

LEMMA FreeEffect ==
  ASSUME NEW r \in Record
  PROVE  /\ Free(r) \in Record
         /\ Free(r).suspect = Nobody /\ Free(r).state = "None"
         /\ Free(r).cell = r.cell /\ Free(r).generation = r.generation
BY DEF Free, Record, Enforcement

LEMMA ClearedEffect ==
  ASSUME NEW G, Sound(G), NEW p \in Players
  PROVE  /\ Sound(Cleared(G, p))
         /\ \A g \in Guards :
              Cleared(G, p)[g] = IF G[g].suspect = p THEN Free(G[g]) ELSE G[g]
<1>1. \A g \in Guards : Cleared(G, p)[g] = IF G[g].suspect = p THEN Free(G[g]) ELSE G[g]
  BY DEF Cleared
<1>2. \A g \in Guards : G[g] \in Record /\ (G[g].suspect = Nobody <=> G[g].state = "None")
  BY DEF Sound
<1>3. \A g \in Guards :
        /\ Cleared(G, p)[g] \in Record
        /\ Cleared(G, p)[g].suspect = Nobody <=> Cleared(G, p)[g].state = "None"
  BY <1>1, <1>2, FreeEffect
<1>4. Cleared(G, p) = [g \in Guards |-> Cleared(G, p)[g]]
  BY DEF Cleared
<1>5. QED
  BY <1>1, <1>3, <1>4 DEF Sound

LEMMA SuspendedEffect ==
  ASSUME NEW G, Sound(G), NEW p \in Players, NEW c
  PROVE  /\ Sound(Suspended(G, p, c))
         /\ \A g \in Guards :
              LET r == G[g]
                  s == Suspended(G, p, c)[g]
              IN /\ s.suspect = r.suspect /\ s.cell = r.cell /\ s.generation = r.generation
                 /\ s.state = r.state \/ (r.state = "ArrestPending" /\ s.state = "Combat")
<1>1. \A g \in Guards : G[g] \in Record /\ (G[g].suspect = Nobody <=> G[g].state = "None")
  BY DEF Sound
<1>2. ASSUME NEW r \in Record, r.state = "ArrestPending"
      PROVE  LET s == [r EXCEPT !.state = "Combat"] IN
             /\ s \in Record /\ s.suspect = r.suspect /\ s.cell = r.cell
             /\ s.generation = r.generation /\ s.state = "Combat"
  BY DEF Record, Enforcement
<1>3. ASSUME NEW g \in Guards
      PROVE  LET r == G[g]
                 s == Suspended(G, p, c)[g]
             IN /\ s \in Record
                /\ s.suspect = r.suspect /\ s.cell = r.cell /\ s.generation = r.generation
                /\ s.state = r.state \/ (r.state = "ArrestPending" /\ s.state = "Combat")
  <2>1. CASE G[g].suspect = p /\ G[g].cell = c /\ G[g].state = "ArrestPending"
    <3>1. Suspended(G, p, c)[g] = [G[g] EXCEPT !.state = "Combat"]
      BY <2>1 DEF Suspended
    <3>2. QED
      BY <1>1, <1>2, <2>1, <3>1
  <2>2. CASE ~(G[g].suspect = p /\ G[g].cell = c /\ G[g].state = "ArrestPending")
    <3>1. Suspended(G, p, c)[g] = G[g]
      BY <2>2 DEF Suspended
    <3>2. QED
      BY <1>1, <3>1
  <2>3. QED
    BY <2>1, <2>2
<1>4. Suspended(G, p, c) = [g \in Guards |-> Suspended(G, p, c)[g]]
  BY DEF Suspended
<1>5. QED
  BY <1>1, <1>3, <1>4 DEF Sound

LEMMA ReissuedEffect ==
  ASSUME NEW G, Sound(G), NEW C, NEW P, NEW bodies
  PROVE  /\ Sound(Reissued(G, C, P, bodies))
         /\ \A g \in Guards :
              LET r == G[g]
                  s == Reissued(G, C, P, bodies)[g]
              IN /\ s.suspect = r.suspect /\ s.state = r.state
                 /\ s.cell = r.cell /\ s.generation = r.generation
<1>1. \A g \in Guards : G[g] \in Record /\ (G[g].suspect = Nobody <=> G[g].state = "None")
  BY DEF Sound
<1>2. ASSUME NEW g \in Guards
      PROVE  \/ Reissued(G, C, P, bodies)[g] = G[g]
             \/ Reissued(G, C, P, bodies)[g] = [G[g] EXCEPT !.current = TRUE]
  BY DEF Reissued
<1>3. ASSUME NEW r \in Record
      PROVE  LET s == [r EXCEPT !.current = TRUE] IN
             /\ s \in Record /\ s.suspect = r.suspect /\ s.state = r.state
             /\ s.cell = r.cell /\ s.generation = r.generation
  BY DEF Record
<1>4. ASSUME NEW g \in Guards
      PROVE  LET r == G[g]
                 s == Reissued(G, C, P, bodies)[g]
             IN /\ s \in Record /\ s.suspect = r.suspect /\ s.state = r.state
                /\ s.cell = r.cell /\ s.generation = r.generation
  BY <1>1, <1>2, <1>3
<1>5. Reissued(G, C, P, bodies) = [g \in Guards |-> Reissued(G, C, P, bodies)[g]]
  BY DEF Reissued
<1>6. QED
  BY <1>1, <1>4, <1>5 DEF Sound

-----------------------------------------------------------------------------
(* What a step may do with a guard *)

Pursues(g) == guard'[g].suspect # Nobody => crime'[guard'[g].suspect].bounty > 0
Fights(g) ==
  LET r == guard[g]
      s == guard'[g]
  IN r.state = "Combat" =>
       \/ s.suspect = r.suspect /\ s.state = "Combat"
       \/ s.suspect \in Players \ {r.suspect}
       \/ s.suspect = Nobody /\ ( \/ crime'[r.suspect].bounty = 0
                                  \/ ~body'[r.suspect].alive
                                  \/ s.generation # r.generation )
\* No new offer, and none in another cell that is not recorded.
Keeps(g) ==
  guard'[g].state = "ArrestPending" =>
    /\ guard[g].state = "ArrestPending" /\ guard'[g].suspect = guard[g].suspect
    /\ guard'[g].cell = guard[g].cell \/ g \in moved'

Lawful == \A g \in Guards : Pursues(g) /\ Fights(g) /\ Keeps(g)

Hypotheses == TypeOK /\ NoPursuitWithoutCause

LEMMA GuardFacts ==
  ASSUME Hypotheses, NEW g \in Guards
  PROVE  /\ Sound(guard) /\ guard[g] \in Record
         /\ guard[g].suspect = Nobody <=> guard[g].state = "None"
         /\ guard[g].suspect # Nobody =>
              guard[g].suspect \in Players /\ crime[guard[g].suspect].bounty > 0
BY RecordFields DEF Hypotheses, TypeOK, NoPursuitWithoutCause, Sound

LEMMA CommitEffect ==
  ASSUME TypeOK, NEW p \in Players, NEW b \in Nat, Commit(p, b)
  PROVE  /\ crime' \in [Players -> CrimeState]
         /\ crime'[p] = [bounty |-> b, revision |-> crime[p].revision + 1]
         /\ \A q \in Players \ {p} : crime'[q] = crime[q]
         /\ \A q \in Players : crime'[q].bounty \in Nat
BY DEF TypeOK, CrimeState, Commit

LEMMA SettledEffect ==
  ASSUME NEW G, Sound(G), NEW p \in Players, crime'[p].bounty \in Nat
  PROVE  /\ Sound(Settled(G, p))
         /\ \A g \in Guards :
              \/ /\ Settled(G, p)[g] = G[g]
                 /\ G[g].suspect = p => crime'[p].bounty > 0
              \/ /\ Settled(G, p)[g] = Free(G[g])
                 /\ G[g].suspect = p /\ crime'[p].bounty = 0
<1>1. CASE crime'[p].bounty = 0
  <2>1. Settled(G, p) = Cleared(G, p)
    BY <1>1 DEF Settled
  <2>2. QED
    BY <1>1, <2>1, ClearedEffect
<1>2. CASE crime'[p].bounty > 0
  <2>1. Settled(G, p) = G
    BY <1>2 DEF Settled
  <2>2. QED
    BY <1>2, <2>1
<1>3. QED
  BY <1>1, <1>2

\* Nothing happens to guards or bounties.
LEMMA Undisturbed ==
  ASSUME Hypotheses, UNCHANGED <<crime, guard>>
  PROVE  Sound(guard') /\ Lawful
<1>1. Sound(guard')
  BY DEF Hypotheses, TypeOK, Sound
<1>2. ASSUME NEW g \in Guards PROVE Pursues(g) /\ Fights(g) /\ Keeps(g)
  BY GuardFacts DEF Pursues, Fights, Keeps
<1>3. QED
  BY <1>1, <1>2 DEF Lawful

\* Guards only forget who is who, or offers that were open become fights.
LEMMA OnlyCalmer ==
  ASSUME Hypotheses, Sound(guard'), UNCHANGED crime,
         \A g \in Guards :
           LET r == guard[g]
               s == guard'[g]
           IN /\ s.suspect = r.suspect /\ s.cell = r.cell
              /\ s.state = r.state \/ (r.state = "ArrestPending" /\ s.state = "Combat")
  PROVE  Lawful
<1>1. ASSUME NEW g \in Guards PROVE Pursues(g) /\ Fights(g) /\ Keeps(g)
  BY GuardFacts DEF Pursues, Fights, Keeps
<1>2. QED
  BY <1>1 DEF Lawful

LEMMA SettledLawful ==
  ASSUME Hypotheses, NEW p \in Players, NEW b \in Nat, Commit(p, b),
         guard' = Settled(guard, p)
  PROVE  Sound(guard') /\ Lawful
<1>1. Sound(guard)
  BY DEF Hypotheses, TypeOK, Sound
<1>2. crime'[p].bounty \in Nat /\ \A q \in Players \ {p} : crime'[q] = crime[q]
  BY CommitEffect DEF Hypotheses
<1>3. Sound(guard')
  BY <1>1, <1>2, SettledEffect
<1>4. ASSUME NEW g \in Guards PROVE Pursues(g) /\ Fights(g) /\ Keeps(g)
  <2>1. \/ /\ guard'[g] = guard[g]
           /\ guard[g].suspect = p => crime'[p].bounty > 0
        \/ /\ guard'[g] = Free(guard[g])
           /\ guard[g].suspect = p /\ crime'[p].bounty = 0
    BY <1>1, <1>2, SettledEffect
  <2>2. CASE guard'[g] = guard[g] /\ (guard[g].suspect = p => crime'[p].bounty > 0)
    BY <1>2, <2>2, GuardFacts DEF Pursues, Fights, Keeps
  <2>3. CASE guard'[g] = Free(guard[g]) /\ guard[g].suspect = p /\ crime'[p].bounty = 0
    BY <2>3, GuardFacts, FreeEffect DEF Pursues, Fights, Keeps
  <2>4. QED
    BY <2>1, <2>2, <2>3
<1>5. QED
  BY <1>3, <1>4 DEF Lawful

LEMMA CrimeLawful ==
  ASSUME Hypotheses, NEW p \in Players, NEW d \in {0, 1}, NEW W \in SUBSET Guards,
         Crime(p, d, W)
  PROVE  Sound(guard') /\ Lawful
<1> DEFINE after(g) == After(guard[g], p, IF Continues(guard[g], p) THEN guard[g].state ELSE "Arrest")
           reacting == [g \in Guards |-> IF g \in W THEN after(g) ELSE guard[g]]
<1>1. crime[p].bounty + d \in Nat /\ crime[p].bounty \in Nat
  BY DEF Hypotheses, TypeOK, CrimeState
<1>2. Commit(p, crime[p].bounty + d) /\ guard' = Settled(reacting, p) /\ (W # {} => d > 0)
  BY DEF Crime
<1>3. /\ crime'[p].bounty = crime[p].bounty + d /\ crime'[p].bounty \in Nat
      /\ \A q \in Players \ {p} : crime'[q] = crime[q]
  <2> DEFINE b == crime[p].bounty + d
  <2>1. b \in Nat /\ Commit(p, b) /\ TypeOK
    BY <1>1, <1>2 DEF Hypotheses
  <2> HIDE DEF b
  <2>2. /\ crime'[p] = [bounty |-> b, revision |-> crime[p].revision + 1]
        /\ \A q \in Players \ {p} : crime'[q] = crime[q]
    BY <2>1, CommitEffect
  <2>3. crime'[p].bounty = b
    BY <2>2
  <2>4. QED
    BY <2>1, <2>2, <2>3 DEF b
<1>4. ASSUME NEW g \in Guards
      PROVE  /\ after(g) \in Record /\ after(g).suspect = p
             /\ after(g).state = IF Continues(guard[g], p) THEN guard[g].state ELSE "Arrest"
             /\ after(g).state # "None"
             /\ after(g).cell = guard[g].cell /\ after(g).generation = guard[g].generation
  <2>1. (IF Continues(guard[g], p) THEN guard[g].state ELSE "Arrest") \in Enforcement \ {"None"}
    BY GuardFacts, RecordFields DEF Continues, Enforcement
  <2>2. QED
    BY <2>1, GuardFacts, AfterEffect
<1> HIDE DEF after
<1>5. \A g \in Guards : reacting[g] = IF g \in W THEN after(g) ELSE guard[g]
  OBVIOUS
<1>6. Sound(reacting)
  <2>1. \A g \in Guards : /\ reacting[g] \in Record
                          /\ reacting[g].suspect = Nobody <=> reacting[g].state = "None"
    BY <1>4, <1>5, GuardFacts
  <2>2. QED
    BY <2>1 DEF Sound
<1> HIDE DEF reacting
<1>7. Sound(guard')
  BY <1>2, <1>3, <1>6, SettledEffect
<1>8. ASSUME NEW g \in Guards PROVE Pursues(g) /\ Fights(g) /\ Keeps(g)
  <2>1. \/ guard'[g] = reacting[g] /\ (reacting[g].suspect = p => crime'[p].bounty > 0)
        \/ guard'[g] = Free(reacting[g]) /\ reacting[g].suspect = p /\ crime'[p].bounty = 0
    BY <1>2, <1>3, <1>6, SettledEffect
  <2>2. CASE g \in W
    <3>1. reacting[g] = after(g) /\ d > 0
      BY <1>2, <1>5, <2>2
    <3>2. guard'[g] = after(g) /\ crime'[p].bounty > 0
      BY <1>1, <1>3, <2>1, <3>1
    <3>3. QED
      BY <1>4, <3>2, GuardFacts DEF Pursues, Fights, Keeps, Continues
  <2>3. CASE g \notin W
    <3>1. reacting[g] = guard[g]
      BY <1>5, <2>3
    <3>2. CASE guard'[g] = guard[g] /\ (guard[g].suspect = p => crime'[p].bounty > 0)
      BY <1>3, <3>2, GuardFacts DEF Pursues, Fights, Keeps
    <3>3. CASE guard'[g] = Free(guard[g]) /\ guard[g].suspect = p /\ crime'[p].bounty = 0
      BY <3>3, GuardFacts, FreeEffect DEF Pursues, Fights, Keeps
    <3>4. QED
      BY <2>1, <3>1, <3>2, <3>3
  <2>4. QED
    BY <2>2, <2>3
<1>9. QED
  BY <1>7, <1>8 DEF Lawful

LEMMA ObserveLawful ==
  ASSUME Hypotheses, NEW p \in Players, NEW W \in SUBSET Guards, Observe(p, W)
  PROVE  Sound(guard') /\ Lawful
<1> DEFINE s == IF crime[p].bounty >= CombatFrom THEN "Combat" ELSE "Arrest"
<1>1. s \in Enforcement /\ s # "None" /\ s # "ArrestPending"
  BY DEF Enforcement
<1>2. crime[p].bounty > 0 /\ crime' = crime
  BY DEF Observe, Hypotheses, TypeOK, CrimeState
<1>3. /\ \A g \in W : guard[g].suspect = Nobody
      /\ guard' = [g \in Guards |-> IF g \notin W THEN guard[g] ELSE After(guard[g], p, s)]
  BY DEF Observe
<1> HIDE DEF s
<1>4. ASSUME NEW g \in Guards
      PROVE  /\ guard'[g] \in Record
             /\ guard'[g].suspect = Nobody <=> guard'[g].state = "None"
             /\ Pursues(g) /\ Fights(g) /\ Keeps(g)
  <2>1. CASE g \in W
    <3>1. guard'[g] = After(guard[g], p, s)
      BY <1>3, <2>1
    <3>2. /\ guard'[g] \in Record /\ guard'[g].suspect = p /\ guard'[g].state = s
          /\ guard[g].state = "None"
      BY <1>1, <1>3, <2>1, <3>1, GuardFacts, AfterEffect
    <3>3. QED
      BY <1>1, <1>2, <3>2 DEF Pursues, Fights, Keeps
  <2>2. CASE g \notin W
    <3>1. guard'[g] = guard[g]
      BY <1>3, <2>2
    <3>2. QED
      BY <1>2, <3>1, GuardFacts DEF Pursues, Fights, Keeps
  <2>3. QED
    BY <2>1, <2>2
<1>5. Sound(guard')
  BY <1>3, <1>4 DEF Sound
<1>6. QED
  BY <1>4, <1>5 DEF Lawful

\* Only here an offer is made.
LEMMA ReachLawful ==
  ASSUME Hypotheses, NEW p \in Players, NEW g \in Guards, Reach(p, g)
  PROVE  /\ Sound(guard') /\ guard'[g].suspect = p /\ guard'[g].cell = guard[g].cell
         /\ \A h \in Guards : Pursues(h) /\ Fights(h)
         /\ \A h \in Guards \ {g} : guard'[h] = guard[h]
<1>1. /\ guard' = [guard EXCEPT ![g].state = "ArrestPending"] /\ crime' = crime
      /\ guard[g].suspect = p /\ guard[g].state = "Arrest"
  BY DEF Reach
<1>2. guard[g] \in Record /\ guard \in [Guards -> Record]
  BY DEF Hypotheses, TypeOK
<1>3. /\ guard'[g] \in Record /\ guard'[g].suspect = p /\ guard'[g].state = "ArrestPending"
      /\ guard'[g].cell = guard[g].cell
      /\ \A h \in Guards \ {g} : guard'[h] = guard[h]
      /\ guard' \in [Guards -> Record]
  BY <1>1, <1>2 DEF Record, Enforcement
<1>4. ASSUME NEW h \in Guards
      PROVE  /\ guard'[h].suspect = Nobody <=> guard'[h].state = "None"
             /\ Pursues(h) /\ Fights(h)
  <2>1. CASE h = g
    BY <1>1, <1>3, <2>1, GuardFacts DEF Pursues, Fights
  <2>2. CASE h # g
    <3>1. guard'[h] = guard[h]
      BY <1>3, <2>2
    <3>2. QED
      BY <1>1, <3>1, GuardFacts DEF Pursues, Fights
  <2>3. QED
    BY <2>1, <2>2
<1>5. QED
  BY <1>3, <1>4 DEF Sound

LEMMA AcceptLawful ==
  ASSUME Hypotheses, NEW p \in Players, Accept(p), Head(answers[p]) \in Requests
  PROVE  Sound(guard') /\ Lawful
<1> DEFINE m == Head(answers[p])
<1>1. m.guard \in Guards /\ Valid(p, m)
  BY DEF Accept, Requests
<1>2. CASE m.action = "Resist"
  <2>1. crime' = crime /\ guard' = [guard EXCEPT ![m.guard] = Resisted(@, p)]
    BY <1>2 DEF Accept
  <2> HIDE DEF m
  <2>2. /\ guard'[m.guard] = After(guard[m.guard], p, "Combat")
        /\ \A g \in Guards \ {m.guard} : guard'[g] = guard[g]
        /\ guard \in [Guards -> Record]
    BY <1>1, <2>1 DEF Resisted, Hypotheses, TypeOK
  <2>3. /\ guard'[m.guard] \in Record /\ guard'[m.guard].suspect = p
        /\ guard'[m.guard].state = "Combat"
    BY <1>1, <2>2, AfterEffect DEF Enforcement
  <2>4. /\ guard[m.guard].suspect \in {p, Nobody} /\ crime[p].bounty > 0
        /\ guard[m.guard].state # "Combat"
    BY <1>1, GuardFacts DEF Valid
  <2>5. ASSUME NEW g \in Guards
        PROVE  /\ guard'[g].suspect = Nobody <=> guard'[g].state = "None"
               /\ Pursues(g) /\ Fights(g) /\ Keeps(g)
    <3>1. CASE g = m.guard
      BY <2>1, <2>3, <2>4, <3>1 DEF Pursues, Fights, Keeps
    <3>2. CASE g # m.guard
      <4>1. guard'[g] = guard[g]
        BY <2>2, <3>2
      <4>2. QED
        BY <2>1, <4>1, GuardFacts DEF Pursues, Fights, Keeps
    <3>3. QED
      BY <3>1, <3>2
  <2>6. Sound(guard')
    <3>1. guard' \in [Guards -> Record]
      BY <2>1, <2>2, <2>3
    <3>2. QED
      BY <2>5, <3>1 DEF Sound
  <2>7. QED
    BY <2>5, <2>6 DEF Lawful
<1>3. CASE m.action # "Resist"
  <2>1. Commit(p, 0) /\ guard' = Settled(guard, p)
    BY <1>3 DEF Accept
  <2>2. QED
    BY <2>1, SettledLawful
<1>4. QED
  BY <1>2, <1>3

LEMMA ChangeCellLawful ==
  ASSUME Hypotheses, NEW p \in Players, NEW c, NEW continuous, NEW handed,
         ChangeCell(p, c, continuous, handed)
  PROVE  Sound(guard') /\ Lawful
<1> DEFINE bodies == [body EXCEPT ![p].cell = c]
           kept == Reissued(guard, handed, Players, bodies)
           left == IF continuous THEN kept ELSE Suspended(kept, p, body[p].cell)
<1>1. guard' = Reissued(left, {c}, {p}, bodies) /\ crime' = crime
  BY DEF ChangeCell
<1>2. Sound(guard)
  BY DEF Hypotheses, TypeOK, Sound
<1>3. /\ Sound(kept)
      /\ \A g \in Guards : /\ kept[g].suspect = guard[g].suspect /\ kept[g].state = guard[g].state
                           /\ kept[g].cell = guard[g].cell
  BY <1>2, ReissuedEffect
<1> HIDE DEF kept
<1>4. /\ Sound(left)
      /\ \A g \in Guards :
           /\ left[g].suspect = kept[g].suspect /\ left[g].cell = kept[g].cell
           /\ \/ left[g].state = kept[g].state
              \/ kept[g].state = "ArrestPending" /\ left[g].state = "Combat"
  <2>1. CASE continuous
    BY <1>3, <2>1
  <2>2. CASE ~continuous
    <3>1. left = Suspended(kept, p, body[p].cell)
      BY <2>2
    <3>2. QED
      BY <1>3, <3>1, SuspendedEffect
  <2>3. QED
    BY <2>1, <2>2
<1> HIDE DEF left, bodies
<1>5. /\ Sound(guard')
      /\ \A g \in Guards : /\ guard'[g].suspect = left[g].suspect
                           /\ guard'[g].state = left[g].state
                           /\ guard'[g].cell = left[g].cell
  BY <1>1, <1>4, ReissuedEffect
<1>6. \A g \in Guards :
        LET r == guard[g]
            s == guard'[g]
        IN /\ s.suspect = r.suspect /\ s.cell = r.cell
           /\ s.state = r.state \/ (r.state = "ArrestPending" /\ s.state = "Combat")
  BY <1>3, <1>4, <1>5
<1>7. QED
  BY <1>1, <1>5, <1>6, OnlyCalmer

LEMMA ReissuedLawful ==
  ASSUME Hypotheses, NEW C, NEW P, NEW bodies,
         guard' = Reissued(guard, C, P, bodies), UNCHANGED crime
  PROVE  Sound(guard') /\ Lawful
<1>1. Sound(guard)
  BY DEF Hypotheses, TypeOK, Sound
<1>2. /\ Sound(guard')
      /\ \A g \in Guards :
           LET r == guard[g]
               s == guard'[g]
           IN s.suspect = r.suspect /\ s.cell = r.cell /\ s.state = r.state
  BY <1>1, ReissuedEffect
<1>3. QED
  BY <1>2, OnlyCalmer

LEMMA DieLawful ==
  ASSUME Hypotheses, NEW p \in Players, Die(p)
  PROVE  Sound(guard') /\ Lawful
<1>1. Sound(guard) /\ body \in [Players -> Body]
  BY DEF Hypotheses, TypeOK, Sound
<1>2. guard' = Cleared(guard, p) /\ crime' = crime /\ body' = [body EXCEPT ![p].alive = FALSE]
  BY DEF Die
<1>3. body'[p].alive = FALSE
  BY <1>1, <1>2 DEF Body
<1>4. Sound(guard')
  BY <1>1, <1>2, ClearedEffect
<1>5. ASSUME NEW g \in Guards PROVE Pursues(g) /\ Fights(g) /\ Keeps(g)
  <2>1. guard'[g] = IF guard[g].suspect = p THEN Free(guard[g]) ELSE guard[g]
    BY <1>1, <1>2, ClearedEffect
  <2>2. CASE guard[g].suspect = p
    BY <1>3, <2>1, <2>2, GuardFacts, FreeEffect DEF Pursues, Fights, Keeps
  <2>3. CASE guard[g].suspect # p
    BY <1>2, <2>1, <2>3, GuardFacts DEF Pursues, Fights, Keeps
  <2>4. QED
    BY <2>2, <2>3
<1>6. QED
  BY <1>4, <1>5 DEF Lawful

LEMMA LeaveLawful ==
  ASSUME Hypotheses, NEW p \in Players, NEW handed, Leave(p, handed)
  PROVE  Sound(guard') /\ Lawful
<1> DEFINE bodies == [body EXCEPT ![p].online = FALSE]
           gone == [g \in Guards |->
             IF guard[g].suspect = p THEN [guard[g] EXCEPT !.current = FALSE] ELSE guard[g]]
<1>1. guard' = Reissued(gone, handed, Players, bodies) /\ crime' = crime
  BY DEF Leave
<1>2. ASSUME NEW r \in Record
      PROVE  LET s == [r EXCEPT !.current = FALSE] IN
             s \in Record /\ s.suspect = r.suspect /\ s.state = r.state /\ s.cell = r.cell
  BY DEF Record
<1>3. ASSUME NEW g \in Guards
      PROVE  /\ gone[g] \in Record /\ gone[g].suspect = guard[g].suspect
             /\ gone[g].state = guard[g].state /\ gone[g].cell = guard[g].cell
  BY <1>2, GuardFacts
<1>4. Sound(gone)
  BY <1>3, GuardFacts DEF Sound
<1> HIDE DEF gone, bodies
<1>5. /\ Sound(guard')
      /\ \A g \in Guards : /\ guard'[g].suspect = gone[g].suspect
                           /\ guard'[g].state = gone[g].state
                           /\ guard'[g].cell = gone[g].cell
  BY <1>1, <1>4, ReissuedEffect
<1>6. QED
  BY <1>1, <1>3, <1>5, OnlyCalmer

LEMMA MigrateLawful ==
  ASSUME Hypotheses, NEW g \in Guards, NEW c \in Cells, Migrate(g, c)
  PROVE  Sound(guard') /\ Lawful
<1>1. /\ guard' = [guard EXCEPT ![g].cell = c, ![g].generation = @ + 1] /\ crime' = crime
      /\ moved' = (moved \cup {g}) \cap {h \in Guards : guard'[h].state = "ArrestPending"}
  BY DEF Migrate, Histories
<1>2. guard \in [Guards -> Record]
  BY DEF Hypotheses, TypeOK
<1>3. guard[g].generation \in Nat
  BY GuardFacts, RecordFields
<1>4. /\ guard' \in [Guards -> Record]
      /\ guard'[g].suspect = guard[g].suspect /\ guard'[g].state = guard[g].state
      /\ \A h \in Guards \ {g} : guard'[h] = guard[h]
  BY <1>1, <1>2, <1>3 DEF Record
<1>5. ASSUME NEW h \in Guards
      PROVE  /\ guard'[h].suspect = Nobody <=> guard'[h].state = "None"
             /\ Pursues(h) /\ Fights(h) /\ Keeps(h)
  <2>1. CASE h = g
    BY <1>1, <1>4, <2>1, GuardFacts DEF Pursues, Fights, Keeps
  <2>2. CASE h # g
    <3>1. guard'[h] = guard[h]
      BY <1>4, <2>2
    <3>2. QED
      BY <1>1, <3>1, GuardFacts DEF Pursues, Fights, Keeps
  <2>3. QED
    BY <2>1, <2>2
<1>6. QED
  BY <1>4, <1>5 DEF Sound, Lawful

LEMMA ResetLawful ==
  ASSUME Hypotheses, NEW c \in Cells, Reset(c)
  PROVE  Sound(guard') /\ Lawful
<1>1. /\ crime' = crime
      /\ guard' = [g \in Guards |->
           IF g \in In(c) THEN [Free(guard[g]) EXCEPT !.generation = @ + 1] ELSE guard[g]]
  BY DEF Reset
<1>2. ASSUME NEW r \in Record
      PROVE  LET s == [r EXCEPT !.generation = @ + 1] IN
             /\ s \in Record /\ s.suspect = r.suspect /\ s.state = r.state
             /\ s.generation = r.generation + 1
  BY DEF Record
<1>3. ASSUME NEW g \in Guards
      PROVE  /\ guard'[g] \in Record
             /\ guard'[g].suspect = Nobody <=> guard'[g].state = "None"
             /\ Pursues(g) /\ Fights(g) /\ Keeps(g)
  <2>1. CASE g \in In(c)
    <3>1. guard'[g] = [Free(guard[g]) EXCEPT !.generation = @ + 1]
      BY <1>1, <2>1
    <3>2. /\ guard'[g] \in Record /\ guard'[g].suspect = Nobody /\ guard'[g].state = "None"
          /\ guard'[g].generation = guard[g].generation + 1
      BY <1>2, <3>1, GuardFacts, FreeEffect
    <3>3. guard[g].generation \in Nat
      BY GuardFacts, RecordFields
    <3>4. QED
      BY <3>2, <3>3 DEF Pursues, Fights, Keeps
  <2>2. CASE g \notin In(c)
    <3>1. guard'[g] = guard[g]
      BY <1>1, <2>2
    <3>2. QED
      BY <1>1, <3>1, GuardFacts DEF Pursues, Fights, Keeps
  <2>3. QED
    BY <2>1, <2>2
<1>4. Sound(guard')
  BY <1>1, <1>3 DEF Sound
<1>5. QED
  BY <1>3, <1>4 DEF Lawful

-----------------------------------------------------------------------------
(* Crime states under way *)

\* States, results and requests that are older than state s, or agree with it.
Honest(s) == {t \in CrimeState : t.revision <= s.revision /\ (t.revision = s.revision => t = s)}
HonestPackets(s) == Reaches \cup {m \in Results : m.crime \in Honest(s)}
HonestRequests(s) ==
  {m \in Requests : m.revision <= s.revision /\ (m.revision = s.revision => m.agreed = s.bounty)}

Copies(k, t, r) ==
  {k} \cup Range(t) \cup {m.crime : m \in {n \in Range(r) : n.type = "result"}}

\* A client that knows k, with t, r and a under way, is true to state s: what
\* it knows or has last been told is s, and nothing it may take over next has
\* the revision of something else.
Account(s, k, t, r, a, online) ==
  /\ s \in CrimeState /\ (s.revision = 0 => s = NoState)
  /\ k \in Honest(s)
  /\ t \in Seq(Honest(s)) /\ r \in Seq(HonestPackets(s)) /\ a \in Seq(HonestRequests(s))
  /\ online => k = s \/ (t # <<>> /\ t[Len(t)] = s)
  /\ \A x, y \in Copies(k, t, r) : x.revision = y.revision => x = y

LEMMA RangeAppend ==
  ASSUME NEW S, NEW q \in Seq(S), NEW x \in S
  PROVE  Range(Append(q, x)) = Range(q) \cup {x}
<1>1. /\ Len(q) \in Nat /\ DOMAIN q = 1 .. Len(q)
      /\ DOMAIN Append(q, x) = 1 .. Len(q) + 1
      /\ \A i \in 1 .. Len(q) : Append(q, x)[i] = q[i]
      /\ Append(q, x)[Len(q) + 1] = x
  BY AppendProperties, LenProperties
<1>2. 1 .. Len(q) + 1 = (1 .. Len(q)) \cup {Len(q) + 1}
  BY <1>1
<1>3. QED
  BY <1>1, <1>2 DEF Range

LEMMA RangeTail ==
  ASSUME NEW S, NEW q \in Seq(S), q # <<>>
  PROVE  /\ Tail(q) \in Seq(S) /\ Head(q) \in S
         /\ Range(Tail(q)) \subseteq Range(q) /\ Head(q) \in Range(q) /\ Range(q) \subseteq S
<1>1. /\ Tail(q) \in Seq(S) /\ Head(q) \in S /\ Head(q) = q[1]
      /\ Len(Tail(q)) = Len(q) - 1
      /\ \A i \in 1 .. Len(Tail(q)) : Tail(q)[i] = q[i + 1]
  BY HeadTailProperties, ElementOfSeq, EmptySeq, LenProperties
<1>2. /\ Len(q) \in Nat /\ Len(q) # 0 /\ DOMAIN q = 1 .. Len(q)
      /\ DOMAIN Tail(q) = 1 .. Len(q) - 1
      /\ \A i \in 1 .. Len(q) : q[i] \in S
  BY <1>1, EmptySeq, LenProperties, ElementOfSeq
<1>3. \A i \in 1 .. Len(q) - 1 : i + 1 \in 1 .. Len(q) /\ Tail(q)[i] = q[i + 1]
  BY <1>1, <1>2
<1>4. 1 \in 1 .. Len(q)
  BY <1>2
<1>5. QED
  BY <1>1, <1>2, <1>3, <1>4 DEF Range

LEMMA RangeIn ==
  ASSUME NEW S, NEW q \in Seq(S)
  PROVE  Range(q) \subseteq S
BY LenProperties, ElementOfSeq DEF Range

LEMMA CopiesAreHonest ==
  ASSUME NEW s, NEW k, NEW t, NEW r, NEW a, NEW o, Account(s, k, t, r, a, o)
  PROVE  Copies(k, t, r) \subseteq Honest(s)
<1>1. Range(t) \subseteq Honest(s) /\ Range(r) \subseteq HonestPackets(s)
  BY RangeIn DEF Account
<1>2. ASSUME NEW n \in Range(r), n.type = "result" PROVE n.crime \in Honest(s)
  BY <1>1, <1>2 DEF HonestPackets, Reaches, Results
<1>3. QED
  BY <1>1, <1>2 DEF Copies, Account

\* A state with a new revision, or the same again.
LEMMA HonestLater ==
  ASSUME NEW s \in CrimeState, NEW n \in CrimeState, n = s \/ n.revision = s.revision + 1
  PROVE  /\ n \in Honest(n) /\ Honest(s) \subseteq Honest(n)
         /\ HonestPackets(s) \subseteq HonestPackets(n)
         /\ HonestRequests(s) \subseteq HonestRequests(n)
<1>1. s.revision \in Nat /\ n.revision \in Nat
  BY DEF CrimeState
<1>2. \A t \in CrimeState : t.revision \in Nat
  BY DEF CrimeState
<1>3. \A m \in Requests : m.revision \in Nat
  BY DEF Requests
<1>4. n \in Honest(n) /\ Honest(s) \subseteq Honest(n)
  BY <1>1, <1>2 DEF Honest
<1>5. HonestRequests(s) \subseteq HonestRequests(n)
  BY <1>1, <1>3 DEF HonestRequests
<1>6. QED
  BY <1>4, <1>5 DEF HonestPackets

LEMMA Widened ==
  ASSUME NEW S, NEW T, S \subseteq T, NEW q \in Seq(S)
  PROVE  q \in Seq(T)
<1>1. Len(q) \in Nat /\ q \in [1 .. Len(q) -> S]
  BY LenProperties
<1>2. q \in [1 .. Len(q) -> T]
  BY <1>1
<1>3. QED
  BY <1>1, <1>2, SeqDef

LEMMA AccountTold ==
  ASSUME NEW s, NEW k, NEW t, NEW r, NEW a, NEW o, Account(s, k, t, r, a, o),
         NEW n \in CrimeState, n = s \/ n.revision = s.revision + 1
  PROVE  Account(n, k, Append(t, n), r, a, o)
<1>1. s \in CrimeState /\ s.revision \in Nat /\ n.revision \in Nat
  BY DEF Account, CrimeState
<1>2. /\ n \in Honest(n) /\ Honest(s) \subseteq Honest(n)
      /\ HonestPackets(s) \subseteq HonestPackets(n)
      /\ HonestRequests(s) \subseteq HonestRequests(n)
  BY <1>1, HonestLater
<1>3. /\ k \in Honest(n) /\ t \in Seq(Honest(n))
      /\ r \in Seq(HonestPackets(n)) /\ a \in Seq(HonestRequests(n))
  BY <1>2, Widened DEF Account
<1>4. /\ Append(t, n) \in Seq(Honest(n)) /\ Append(t, n) # <<>>
      /\ Append(t, n)[Len(Append(t, n))] = n
  BY <1>2, <1>3, AppendProperties, EmptySeq, LenProperties
<1>5. Copies(k, Append(t, n), r) = Copies(k, t, r) \cup {n}
  BY <1>2, <1>3, RangeAppend DEF Copies
<1>6. ASSUME NEW x \in Copies(k, t, r), x.revision = n.revision PROVE x = n
  <2>1. x \in Honest(s)
    BY CopiesAreHonest
  <2>2. x.revision <= s.revision /\ (x.revision = s.revision => x = s) /\ x.revision \in Nat
    BY <2>1 DEF Honest, CrimeState
  <2>3. QED
    BY <1>1, <1>6, <2>2
<1>7. \A x, y \in Copies(k, Append(t, n), r) : x.revision = y.revision => x = y
  BY <1>5, <1>6 DEF Account
<1>8. n.revision = 0 => n = NoState
  BY <1>1 DEF Account
<1>9. QED
  BY <1>3, <1>4, <1>7, <1>8 DEF Account

\* The server answers with its own state.
LEMMA AccountResult ==
  ASSUME NEW s, NEW k, NEW t, NEW r, NEW a, NEW o, Account(s, k, t, r, a, o)
  PROVE  Account(s, k, t, Append(r, [type |-> "result", crime |-> s]), a, o)
<1> DEFINE m == [type |-> "result", crime |-> s]
<1>1. s \in CrimeState /\ s.revision \in Nat
  BY DEF Account, CrimeState
<1>2. m \in HonestPackets(s)
  BY <1>1 DEF HonestPackets, Results, Honest
<1>3. r \in Seq(HonestPackets(s)) /\ Append(r, m) \in Seq(HonestPackets(s))
  BY <1>2, AppendProperties DEF Account
<1>4. Range(Append(r, m)) = Range(r) \cup {m}
  BY <1>2, <1>3, RangeAppend
<1>5. Copies(k, t, Append(r, m)) = Copies(k, t, r) \cup {s}
  BY <1>4 DEF Copies
<1>6. ASSUME NEW x \in Copies(k, t, r), x.revision = s.revision PROVE x = s
  BY <1>6, CopiesAreHonest DEF Honest
<1>7. \A x, y \in Copies(k, t, Append(r, m)) : x.revision = y.revision => x = y
  BY <1>5, <1>6 DEF Account
<1>8. QED
  BY <1>3, <1>7 DEF Account

LEMMA AccountPrompt ==
  ASSUME NEW s, NEW k, NEW t, NEW r, NEW a, NEW o, Account(s, k, t, r, a, o), NEW m \in Reaches
  PROVE  Account(s, k, t, Append(r, m), a, o)
<1>1. m \in HonestPackets(s) /\ m.type # "result"
  BY DEF HonestPackets, Reaches
<1>2. r \in Seq(HonestPackets(s)) /\ Append(r, m) \in Seq(HonestPackets(s))
  BY <1>1, AppendProperties DEF Account
<1>3. Range(Append(r, m)) = Range(r) \cup {m}
  BY <1>1, <1>2, RangeAppend
<1>4. Copies(k, t, Append(r, m)) = Copies(k, t, r)
  BY <1>1, <1>3 DEF Copies
<1>5. QED
  BY <1>2, <1>4 DEF Account

LEMMA AccountAsked ==
  ASSUME NEW s, NEW k, NEW t, NEW r, NEW a, NEW o, Account(s, k, t, r, a, o),
         NEW m \in Requests, m.revision = k.revision, m.agreed = k.bounty
  PROVE  Account(s, k, t, r, Append(a, m), o)
<1>1. m \in HonestRequests(s)
  BY DEF HonestRequests, Account, Honest
<1>2. Append(a, m) \in Seq(HonestRequests(s))
  BY <1>1, AppendProperties DEF Account
<1>3. QED
  BY <1>2 DEF Account

LEMMA AccountAnswered ==
  ASSUME NEW s, NEW k, NEW t, NEW r, NEW a, NEW o, Account(s, k, t, r, a, o), a # <<>>
  PROVE  Account(s, k, t, r, Tail(a), o) /\ Head(a) \in HonestRequests(s)
<1>1. Tail(a) \in Seq(HonestRequests(s)) /\ Head(a) \in HonestRequests(s)
  BY RangeTail DEF Account
<1>2. QED
  BY <1>1 DEF Account

LEMMA NewerIsHonest ==
  ASSUME NEW s \in CrimeState, NEW k \in Honest(s), NEW h \in Honest(s)
  PROVE  /\ Newer(k, h) \in {k, h}
         /\ k = s => Newer(k, h) = s
         /\ h = s => Newer(k, h) = s
<1>1. k.revision \in Nat /\ h.revision \in Nat /\ s.revision \in Nat
  BY DEF Honest, CrimeState
<1>2. QED
  BY <1>1 DEF Newer, Honest

LEMMA AccountReceived ==
  ASSUME NEW s, NEW k, NEW t, NEW r, NEW a, NEW o, Account(s, k, t, r, a, o), t # <<>>
  PROVE  Account(s, Newer(k, Head(t)), Tail(t), r, a, o)
<1> DEFINE n == Newer(k, Head(t))
<1>1. s \in CrimeState /\ k \in Honest(s) /\ t \in Seq(Honest(s))
  BY DEF Account
<1>2. /\ Tail(t) \in Seq(Honest(s)) /\ Head(t) \in Honest(s)
      /\ Range(Tail(t)) \subseteq Range(t) /\ Head(t) \in Range(t)
  BY <1>1, RangeTail
<1>3. n \in {k, Head(t)} /\ (k = s => n = s) /\ (Head(t) = s => n = s)
  BY <1>1, <1>2, NewerIsHonest
<1> HIDE DEF n
<1>4. Copies(n, Tail(t), r) \subseteq Copies(k, t, r)
  BY <1>2, <1>3 DEF Copies
<1>5. ASSUME o PROVE n = s \/ (Tail(t) # <<>> /\ Tail(t)[Len(Tail(t))] = s)
  <2>1. CASE k = s
    BY <1>3, <2>1
  <2>2. CASE t[Len(t)] = s
    <3>1. Len(t) \in Nat /\ Len(t) # 0 /\ Head(t) = t[1] /\ Len(Tail(t)) = Len(t) - 1
          /\ \A i \in 1 .. Len(Tail(t)) : Tail(t)[i] = t[i + 1]
      BY <1>1, HeadTailProperties, EmptySeq, LenProperties
    <3>2. CASE Len(t) = 1
      BY <1>3, <2>2, <3>1, <3>2
    <3>3. CASE Len(t) # 1
      <4>1. Len(t) - 1 \in 1 .. Len(Tail(t)) /\ (Len(t) - 1) + 1 = Len(t)
        BY <3>1, <3>3
      <4>2. Tail(t)[Len(Tail(t))] = s /\ Tail(t) # <<>>
        <5>1. Tail(t)[Len(Tail(t))] = t[Len(t)]
          BY <3>1, <4>1
        <5>2. Len(Tail(t)) # 0
          BY <3>1, <4>1
        <5>3. QED
          BY <2>2, <5>1, <5>2, EmptySeq
      <4>3. QED
        BY <4>2
    <3>4. QED
      BY <3>2, <3>3
  <2>3. QED
    BY <1>5, <2>1, <2>2 DEF Account
<1>6. n \in Honest(s)
  BY <1>1, <1>2, <1>3
<1>7. Account(s, n, Tail(t), r, a, o)
  BY <1>2, <1>4, <1>5, <1>6 DEF Account
<1>8. QED
  BY <1>7 DEF n

LEMMA AccountShown ==
  ASSUME NEW s, NEW k, NEW t, NEW r, NEW a, NEW o, Account(s, k, t, r, a, o), r # <<>>
  PROVE  /\ Account(s, k, t, Tail(r), a, o)
         /\ Head(r) \in HonestPackets(s) /\ Head(r) \in Range(r)
<1>1. /\ Tail(r) \in Seq(HonestPackets(s)) /\ Head(r) \in HonestPackets(s)
      /\ Range(Tail(r)) \subseteq Range(r) /\ Head(r) \in Range(r)
  BY RangeTail DEF Account
<1>2. Copies(k, t, Tail(r)) \subseteq Copies(k, t, r)
  BY <1>1 DEF Copies
<1>3. QED
  BY <1>1, <1>2 DEF Account

LEMMA AccountFinished ==
  ASSUME NEW s, NEW k, NEW t, NEW r, NEW a, NEW o, Account(s, k, t, r, a, o),
         r # <<>>, Head(r).type = "result"
  PROVE  Account(s, Newer(k, Head(r).crime), t, Tail(r), a, o)
<1> DEFINE n == Newer(k, Head(r).crime)
<1>1. s \in CrimeState /\ k \in Honest(s)
  BY DEF Account
<1>2. Account(s, k, t, Tail(r), a, o) /\ Head(r) \in Range(r)
  BY AccountShown
<1>3. Head(r).crime \in Copies(k, t, r)
  BY <1>2 DEF Copies
<1>4. Head(r).crime \in Honest(s)
  BY <1>3, CopiesAreHonest
<1>5. n \in {k, Head(r).crime} /\ (k = s => n = s)
  BY <1>1, <1>4, NewerIsHonest
<1> HIDE DEF n
<1>6. n \in Honest(s)
  BY <1>1, <1>4, <1>5
<1>7. Range(Tail(r)) \subseteq Range(r)
  BY RangeTail DEF Account
<1>8. Copies(n, t, Tail(r)) \subseteq Copies(k, t, r)
  BY <1>3, <1>5, <1>7 DEF Copies
<1>9. Account(s, n, t, Tail(r), a, o)
  BY <1>2, <1>5, <1>6, <1>8 DEF Account
<1>10. QED
  BY <1>9 DEF n

\* A session that ends, and one that begins.
LEMMA AccountLeft ==
  ASSUME NEW s, NEW k, NEW t, NEW r, NEW a, NEW o, Account(s, k, t, r, a, o)
  PROVE  Account(s, NoState, <<>>, <<>>, <<>>, FALSE)
<1>1. s \in CrimeState /\ s.revision \in Nat /\ (s.revision = 0 => s = NoState)
  BY DEF Account, CrimeState
<1>2. NoState \in Honest(s)
  BY <1>1 DEF NoState, Honest, CrimeState
<1>3. Range(<<>>) = {}
  BY DEF Range
<1>4. Copies(NoState, <<>>, <<>>) = {NoState}
  BY <1>3 DEF Copies
<1>5. QED
  BY <1>1, <1>2, <1>4 DEF Account

LEMMA AccountEntered ==
  ASSUME NEW s, NEW k, NEW t, NEW r, NEW a, NEW o, Account(s, k, t, r, a, o)
  PROVE  Account(s, s, t, r, a, TRUE)
<1>1. s \in Honest(s)
  BY DEF Account, CrimeState, Honest
<1>2. Copies(s, t, r) \subseteq Copies(k, t, r) \cup {s}
  BY DEF Copies
<1>3. Copies(k, t, r) \subseteq Honest(s)
  BY CopiesAreHonest
<1>4. \A x, y \in Copies(s, t, r) : x.revision = y.revision => x = y
  BY <1>2, <1>3 DEF Account, Honest
<1>5. QED
  BY <1>1, <1>4 DEF Account

-----------------------------------------------------------------------------
(* The invariant *)

Honestly(p) == Account(crime[p], known[p], told[p], prompted[p], answers[p], body[p].online)

IInv == Hypotheses /\ OneOffer /\ \A p \in Players : Honestly(p)

\* Crime states and packets are those of players.
Ledgers ==
  /\ crime = [p \in Players |-> crime[p]] /\ known = [p \in Players |-> known[p]]
  /\ told = [p \in Players |-> told[p]] /\ prompted = [p \in Players |-> prompted[p]]
  /\ answers = [p \in Players |-> answers[p]]

LEMMA LedgersHold == ASSUME TypeOK PROVE Ledgers
BY DEF TypeOK, Ledgers

LEMMA Bystander ==
  ASSUME NEW p, Honestly(p),
         crime'[p] = crime[p], known'[p] = known[p], told'[p] = told[p],
         prompted'[p] = prompted[p], answers'[p] = answers[p],
         body'[p].online = body[p].online
  PROVE  Honestly(p)'
BY DEF Honestly

LEMMA LedgerTypes ==
  ASSUME Ledgers', \A p \in Players : Honestly(p)'
  PROVE  /\ crime' \in [Players -> CrimeState] /\ known' \in [Players -> CrimeState]
         /\ told' \in [Players -> Seq(CrimeState)]
         /\ prompted' \in [Players -> Seq(Reaches \cup Results)]
         /\ answers' \in [Players -> Seq(Requests)]
<1>1. ASSUME NEW p \in Players
      PROVE  /\ crime'[p] \in CrimeState /\ known'[p] \in CrimeState
             /\ told'[p] \in Seq(CrimeState) /\ prompted'[p] \in Seq(Reaches \cup Results)
             /\ answers'[p] \in Seq(Requests)
  <2>1. Account(crime'[p], known'[p], told'[p], prompted'[p], answers'[p], body'[p].online)
    BY DEF Honestly
  <2>2. /\ crime'[p] \in CrimeState /\ known'[p] \in Honest(crime'[p])
        /\ told'[p] \in Seq(Honest(crime'[p]))
        /\ prompted'[p] \in Seq(HonestPackets(crime'[p]))
        /\ answers'[p] \in Seq(HonestRequests(crime'[p]))
    BY <2>1 DEF Account
  <2>3. /\ Honest(crime'[p]) \subseteq CrimeState
        /\ HonestPackets(crime'[p]) \subseteq Reaches \cup Results
        /\ HonestRequests(crime'[p]) \subseteq Requests
    BY DEF Honest, HonestPackets, HonestRequests
  <2>4. QED
    BY <2>2, <2>3, Widened
<1>2. QED
  BY <1>1 DEF Ledgers

-----------------------------------------------------------------------------
(* What a step does to what is under way *)

LEMMA QuietLedgers ==
  ASSUME IInv, UNCHANGED <<crime, known, told, prompted, answers>>,
         \A q \in Players : body'[q].online = body[q].online
  PROVE  Ledgers' /\ \A q \in Players : Honestly(q)'
<1>1. Ledgers'
  BY LedgersHold DEF IInv, Hypotheses, Ledgers
<1>2. QED
  BY <1>1, Bystander DEF IInv

LEMMA CommittedLedgers ==
  ASSUME IInv, NEW p \in Players, NEW b \in Nat, Commit(p, b), Told(p),
         UNCHANGED <<body, known, prompted, answers>>
  PROVE  Ledgers' /\ \A q \in Players : Honestly(q)'
<1>1. TypeOK
  BY DEF IInv, Hypotheses
<1>2. /\ crime' \in [Players -> CrimeState]
      /\ crime'[p] = [bounty |-> b, revision |-> crime[p].revision + 1]
      /\ \A q \in Players \ {p} : crime'[q] = crime[q]
  BY <1>1, CommitEffect
<1>3. /\ told'[p] = Append(told[p], crime'[p])
      /\ \A q \in Players \ {p} : told'[q] = told[q]
      /\ told' = [q \in Players |-> told'[q]]
  BY <1>1 DEF Told, TypeOK
<1>4. Ledgers'
  BY <1>1, <1>2, <1>3, LedgersHold DEF Ledgers
<1>5. Account(crime[p], known[p], told[p], prompted[p], answers[p], body[p].online)
  BY DEF IInv, Honestly
<1>6. crime'[p] \in CrimeState /\ crime'[p].revision = crime[p].revision + 1
  BY <1>2
<1>7. Account(crime'[p], known[p], Append(told[p], crime'[p]), prompted[p], answers[p],
              body[p].online)
  BY <1>5, <1>6, AccountTold
<1>8. Honestly(p)'
  BY <1>3, <1>7 DEF Honestly
<1>9. ASSUME NEW q \in Players, q # p PROVE Honestly(q)'
  BY <1>2, <1>3, <1>9, Bystander DEF IInv
<1>10. QED
  BY <1>4, <1>8, <1>9

LEMMA ReachLedgers ==
  ASSUME IInv, NEW p \in Players, NEW g \in Guards, Reach(p, g)
  PROVE  Ledgers' /\ \A q \in Players : Honestly(q)'
<1> DEFINE m == [type |-> "prompt", guard |-> g, cell |-> guard[g].cell,
                 generation |-> guard[g].generation]
<1>1. TypeOK
  BY DEF IInv, Hypotheses
<1>2. m \in Reaches
  BY GuardFacts, RecordFields DEF IInv, Reaches
<1>3. /\ prompted' = [prompted EXCEPT ![p] = Append(@, m)]
      /\ UNCHANGED <<crime, body, known, told, answers>>
  BY DEF Reach, clientVars
<1> HIDE DEF m
<1>4. /\ prompted'[p] = Append(prompted[p], m)
      /\ \A q \in Players \ {p} : prompted'[q] = prompted[q]
      /\ prompted' = [q \in Players |-> prompted'[q]]
  BY <1>1, <1>3 DEF TypeOK
<1>5. Ledgers'
  BY <1>1, <1>3, <1>4, LedgersHold DEF Ledgers
<1>6. Account(crime[p], known[p], told[p], prompted[p], answers[p], body[p].online)
  BY DEF IInv, Honestly
<1>7. Account(crime[p], known[p], told[p], Append(prompted[p], m), answers[p], body[p].online)
  BY <1>2, <1>6, AccountPrompt
<1>8. Honestly(p)'
  BY <1>3, <1>4, <1>7 DEF Honestly
<1>9. ASSUME NEW q \in Players, q # p PROVE Honestly(q)'
  BY <1>3, <1>4, <1>9, Bystander DEF IInv
<1>10. QED
  BY <1>5, <1>8, <1>9

LEMMA RefuseLedgers ==
  ASSUME IInv, NEW p \in Players, Refuse(p)
  PROVE  Ledgers' /\ \A q \in Players : Honestly(q)'
<1> DEFINE m == [type |-> "result", crime |-> crime[p]]
<1>1. TypeOK
  BY DEF IInv, Hypotheses
<1>2. /\ prompted' = [prompted EXCEPT ![p] = Append(@, m)]
      /\ answers' = [answers EXCEPT ![p] = Tail(@)] /\ answers[p] # <<>>
      /\ UNCHANGED <<crime, body, known, told>>
  BY DEF Refuse, serverVars, clientVars
<1> HIDE DEF m
<1>3. /\ prompted'[p] = Append(prompted[p], m) /\ answers'[p] = Tail(answers[p])
      /\ \A q \in Players \ {p} : prompted'[q] = prompted[q] /\ answers'[q] = answers[q]
      /\ prompted' = [q \in Players |-> prompted'[q]]
      /\ answers' = [q \in Players |-> answers'[q]]
  BY <1>1, <1>2 DEF TypeOK
<1>4. Ledgers'
  BY <1>1, <1>2, <1>3, LedgersHold DEF Ledgers
<1>5. Account(crime[p], known[p], told[p], prompted[p], answers[p], body[p].online)
  BY DEF IInv, Honestly
<1>6. Account(crime[p], known[p], told[p], Append(prompted[p], m), answers[p], body[p].online)
  BY <1>5, AccountResult DEF m
<1>7. Account(crime[p], known[p], told[p], Append(prompted[p], m), Tail(answers[p]),
              body[p].online)
  BY <1>2, <1>6, AccountAnswered
<1>8. Honestly(p)'
  BY <1>2, <1>3, <1>7 DEF Honestly
<1>9. ASSUME NEW q \in Players, q # p PROVE Honestly(q)'
  BY <1>2, <1>3, <1>9, Bystander DEF IInv
<1>10. QED
  BY <1>4, <1>8, <1>9

LEMMA AcceptLedgers ==
  ASSUME IInv, NEW p \in Players, Accept(p)
  PROVE  Ledgers' /\ \A q \in Players : Honestly(q)'
<1> DEFINE m == [type |-> "result", crime |-> crime'[p]]
<1>1. TypeOK
  BY DEF IInv, Hypotheses
<1>2. /\ told' = [told EXCEPT ![p] = Append(@, crime'[p])]
      /\ prompted' = [prompted EXCEPT ![p] = Append(@, m)]
      /\ answers' = [answers EXCEPT ![p] = Tail(@)] /\ answers[p] # <<>>
      /\ UNCHANGED <<body, known>> /\ (UNCHANGED crime \/ Commit(p, 0))
  BY DEF Accept, Told, clientVars
<1>3. /\ crime' \in [Players -> CrimeState]
      /\ crime'[p] = crime[p] \/ crime'[p].revision = crime[p].revision + 1
      /\ \A q \in Players \ {p} : crime'[q] = crime[q]
  <2>1. CASE UNCHANGED crime
    BY <1>1, <2>1 DEF TypeOK
  <2>2. CASE Commit(p, 0)
    <3>1. 0 \in Nat
      OBVIOUS
    <3>2. /\ crime' \in [Players -> CrimeState]
          /\ crime'[p] = [bounty |-> 0, revision |-> crime[p].revision + 1]
          /\ \A q \in Players \ {p} : crime'[q] = crime[q]
      BY <1>1, <2>2, <3>1, CommitEffect
    <3>3. crime'[p].revision = crime[p].revision + 1
      BY <3>2
    <3>4. QED
      BY <3>2, <3>3
  <2>3. QED
    BY <1>2, <2>1, <2>2
<1> HIDE DEF m
<1>4. /\ told'[p] = Append(told[p], crime'[p])
      /\ prompted'[p] = Append(prompted[p], m) /\ answers'[p] = Tail(answers[p])
      /\ \A q \in Players \ {p} :
           told'[q] = told[q] /\ prompted'[q] = prompted[q] /\ answers'[q] = answers[q]
      /\ told' = [q \in Players |-> told'[q]]
      /\ prompted' = [q \in Players |-> prompted'[q]]
      /\ answers' = [q \in Players |-> answers'[q]]
  BY <1>1, <1>2 DEF TypeOK
<1>5. Ledgers'
  BY <1>1, <1>2, <1>3, <1>4, LedgersHold DEF Ledgers
<1>6. Account(crime[p], known[p], told[p], prompted[p], answers[p], body[p].online)
  BY DEF IInv, Honestly
<1>7. Account(crime'[p], known[p], Append(told[p], crime'[p]), prompted[p], answers[p],
              body[p].online)
  BY <1>3, <1>6, AccountTold
<1>8. Account(crime'[p], known[p], Append(told[p], crime'[p]), Append(prompted[p], m), answers[p],
              body[p].online)
  BY <1>7, AccountResult DEF m
<1>9. Account(crime'[p], known[p], Append(told[p], crime'[p]), Append(prompted[p], m),
              Tail(answers[p]), body[p].online)
  BY <1>2, <1>8, AccountAnswered
<1>10. Honestly(p)'
  BY <1>2, <1>4, <1>9 DEF Honestly
<1>11. ASSUME NEW q \in Players, q # p PROVE Honestly(q)'
  BY <1>2, <1>3, <1>4, <1>11, Bystander DEF IInv
<1>12. QED
  BY <1>5, <1>10, <1>11

LEMMA AnswerLedgers ==
  ASSUME IInv, NEW p \in Players, NEW a \in Actions, Answer(p, a), dialogue[p].guard \in Guards
  PROVE  Ledgers' /\ \A q \in Players : Honestly(q)'
<1> DEFINE g == dialogue[p].guard
           m == [action |-> a, guard |-> g, cell |-> guard[g].cell,
                 generation |-> guard[g].generation, revision |-> known[p].revision,
                 agreed |-> known[p].bounty]
<1>1. TypeOK
  BY DEF IInv, Hypotheses
<1>2. m \in Requests /\ m.revision = known[p].revision /\ m.agreed = known[p].bounty
  <2>1. guard[g].cell \in Cells /\ guard[g].generation \in Nat
    BY GuardFacts, RecordFields DEF IInv
  <2>2. known[p].revision \in Nat /\ known[p].bounty \in Nat
    BY <1>1 DEF TypeOK, CrimeState
  <2>3. QED
    BY <2>1, <2>2 DEF Requests
<1>3. /\ answers' = [answers EXCEPT ![p] = Append(@, m)]
      /\ UNCHANGED <<crime, body, known, told, prompted>>
  BY DEF Answer, serverVars
<1> HIDE DEF m
<1>4. /\ answers'[p] = Append(answers[p], m)
      /\ \A q \in Players \ {p} : answers'[q] = answers[q]
      /\ answers' = [q \in Players |-> answers'[q]]
  BY <1>1, <1>3 DEF TypeOK
<1>5. Ledgers'
  BY <1>1, <1>3, <1>4, LedgersHold DEF Ledgers
<1>6. Account(crime[p], known[p], told[p], prompted[p], answers[p], body[p].online)
  BY DEF IInv, Honestly
<1>7. Account(crime[p], known[p], told[p], prompted[p], Append(answers[p], m), body[p].online)
  BY <1>2, <1>6, AccountAsked
<1>8. Honestly(p)'
  BY <1>3, <1>4, <1>7 DEF Honestly
<1>9. ASSUME NEW q \in Players, q # p PROVE Honestly(q)'
  BY <1>3, <1>4, <1>9, Bystander DEF IInv
<1>10. QED
  BY <1>5, <1>8, <1>9

LEMMA StateLedgers ==
  ASSUME IInv, NEW p \in Players, ReceiveState(p)
  PROVE  Ledgers' /\ \A q \in Players : Honestly(q)'
<1>1. TypeOK
  BY DEF IInv, Hypotheses
<1>2. /\ known' = [known EXCEPT ![p] = Newer(@, Head(told[p]))]
      /\ told' = [told EXCEPT ![p] = Tail(@)] /\ told[p] # <<>>
      /\ UNCHANGED <<crime, body, prompted, answers>>
  BY DEF ReceiveState, serverVars
<1>3. /\ known'[p] = Newer(known[p], Head(told[p])) /\ told'[p] = Tail(told[p])
      /\ \A q \in Players \ {p} : known'[q] = known[q] /\ told'[q] = told[q]
      /\ known' = [q \in Players |-> known'[q]] /\ told' = [q \in Players |-> told'[q]]
  BY <1>1, <1>2 DEF TypeOK
<1>4. Ledgers'
  BY <1>1, <1>2, <1>3, LedgersHold DEF Ledgers
<1>5. Account(crime[p], known[p], told[p], prompted[p], answers[p], body[p].online)
  BY DEF IInv, Honestly
<1>6. Account(crime[p], known'[p], Tail(told[p]), prompted[p], answers[p], body[p].online)
  BY <1>2, <1>3, <1>5, AccountReceived
<1>7. Honestly(p)'
  BY <1>2, <1>3, <1>6 DEF Honestly
<1>8. ASSUME NEW q \in Players, q # p PROVE Honestly(q)'
  BY <1>2, <1>3, <1>8, Bystander DEF IInv
<1>9. QED
  BY <1>4, <1>7, <1>8

LEMMA PromptLedgers ==
  ASSUME IInv, NEW p \in Players, NEW near, ReceivePrompt(p, near)
  PROVE  Ledgers' /\ \A q \in Players : Honestly(q)'
<1>1. TypeOK
  BY DEF IInv, Hypotheses
<1>2. /\ prompted' = [prompted EXCEPT ![p] = Tail(@)] /\ prompted[p] # <<>>
      /\ UNCHANGED <<crime, body, known, told, answers>>
  BY DEF ReceivePrompt, serverVars
<1>3. /\ prompted'[p] = Tail(prompted[p])
      /\ \A q \in Players \ {p} : prompted'[q] = prompted[q]
      /\ prompted' = [q \in Players |-> prompted'[q]]
  BY <1>1, <1>2 DEF TypeOK
<1>4. Ledgers'
  BY <1>1, <1>2, <1>3, LedgersHold DEF Ledgers
<1>5. Account(crime[p], known[p], told[p], prompted[p], answers[p], body[p].online)
  BY DEF IInv, Honestly
<1>6. Account(crime[p], known[p], told[p], Tail(prompted[p]), answers[p], body[p].online)
  BY <1>2, <1>5, AccountShown
<1>7. Honestly(p)'
  BY <1>2, <1>3, <1>6 DEF Honestly
<1>8. ASSUME NEW q \in Players, q # p PROVE Honestly(q)'
  BY <1>2, <1>3, <1>8, Bystander DEF IInv
<1>9. QED
  BY <1>4, <1>7, <1>8

LEMMA ResultLedgers ==
  ASSUME IInv, NEW p \in Players, ReceiveResult(p)
  PROVE  Ledgers' /\ \A q \in Players : Honestly(q)'
<1>1. TypeOK
  BY DEF IInv, Hypotheses
<1>2. /\ known' = [known EXCEPT ![p] = Newer(@, Head(prompted[p]).crime)]
      /\ prompted' = [prompted EXCEPT ![p] = Tail(@)] /\ prompted[p] # <<>>
      /\ Head(prompted[p]).type = "result"
      /\ UNCHANGED <<crime, body, told, answers>>
  BY DEF ReceiveResult, serverVars
<1>3. /\ known'[p] = Newer(known[p], Head(prompted[p]).crime)
      /\ prompted'[p] = Tail(prompted[p])
      /\ \A q \in Players \ {p} : known'[q] = known[q] /\ prompted'[q] = prompted[q]
      /\ known' = [q \in Players |-> known'[q]] /\ prompted' = [q \in Players |-> prompted'[q]]
  BY <1>1, <1>2 DEF TypeOK
<1>4. Ledgers'
  BY <1>1, <1>2, <1>3, LedgersHold DEF Ledgers
<1>5. Account(crime[p], known[p], told[p], prompted[p], answers[p], body[p].online)
  BY DEF IInv, Honestly
<1>6. Account(crime[p], known'[p], told[p], Tail(prompted[p]), answers[p], body[p].online)
  BY <1>2, <1>3, <1>5, AccountFinished
<1>7. Honestly(p)'
  BY <1>2, <1>3, <1>6 DEF Honestly
<1>8. ASSUME NEW q \in Players, q # p PROVE Honestly(q)'
  BY <1>2, <1>3, <1>8, Bystander DEF IInv
<1>9. QED
  BY <1>4, <1>7, <1>8

LEMMA LeaveLedgers ==
  ASSUME IInv, NEW p \in Players, NEW handed, Leave(p, handed)
  PROVE  Ledgers' /\ \A q \in Players : Honestly(q)'
<1>1. TypeOK
  BY DEF IInv, Hypotheses
<1>2. /\ body' = [body EXCEPT ![p].online = FALSE] /\ crime' = crime
      /\ known' = [known EXCEPT ![p] = NoState] /\ told' = [told EXCEPT ![p] = <<>>]
      /\ prompted' = [prompted EXCEPT ![p] = <<>>] /\ answers' = [answers EXCEPT ![p] = <<>>]
  BY DEF Leave
<1>3. /\ known'[p] = NoState /\ told'[p] = <<>> /\ prompted'[p] = <<>> /\ answers'[p] = <<>>
      /\ known' = [q \in Players |-> known'[q]] /\ told' = [q \in Players |-> told'[q]]
      /\ prompted' = [q \in Players |-> prompted'[q]]
      /\ answers' = [q \in Players |-> answers'[q]]
      /\ \A q \in Players \ {p} :
           /\ known'[q] = known[q] /\ told'[q] = told[q]
           /\ prompted'[q] = prompted[q] /\ answers'[q] = answers[q]
  BY <1>1, <1>2 DEF TypeOK
<1>4. /\ body'[p].online = FALSE
      /\ \A q \in Players \ {p} : body'[q].online = body[q].online
  BY <1>1, <1>2 DEF TypeOK, Body
<1>5. Ledgers'
  BY <1>1, <1>2, <1>3, LedgersHold DEF Ledgers
<1>6. Account(crime[p], known[p], told[p], prompted[p], answers[p], body[p].online)
  BY DEF IInv, Honestly
<1>7. Account(crime[p], NoState, <<>>, <<>>, <<>>, FALSE)
  BY <1>6, AccountLeft
<1>8. Honestly(p)'
  BY <1>2, <1>3, <1>4, <1>7 DEF Honestly
<1>9. ASSUME NEW q \in Players, q # p PROVE Honestly(q)'
  BY <1>2, <1>3, <1>4, <1>9, Bystander DEF IInv
<1>10. QED
  BY <1>5, <1>8, <1>9

LEMMA EnterLedgers ==
  ASSUME IInv, NEW p \in Players, Enter(p)
  PROVE  Ledgers' /\ \A q \in Players : Honestly(q)'
<1>1. TypeOK
  BY DEF IInv, Hypotheses
<1>2. /\ body' = [body EXCEPT ![p].online = TRUE, ![p].alive = TRUE]
      /\ known' = [known EXCEPT ![p] = crime[p]]
      /\ UNCHANGED <<crime, told, prompted, answers>>
  BY DEF Enter, netVars
<1>3. /\ known'[p] = crime[p] /\ known' = [q \in Players |-> known'[q]]
      /\ \A q \in Players \ {p} : known'[q] = known[q]
  BY <1>1, <1>2 DEF TypeOK
<1>4. /\ body'[p].online = TRUE
      /\ \A q \in Players \ {p} : body'[q].online = body[q].online
  BY <1>1, <1>2 DEF TypeOK, Body
<1>5. Ledgers'
  BY <1>1, <1>2, <1>3, LedgersHold DEF Ledgers
<1>6. Account(crime[p], known[p], told[p], prompted[p], answers[p], body[p].online)
  BY DEF IInv, Honestly
<1>7. Account(crime[p], crime[p], told[p], prompted[p], answers[p], TRUE)
  BY <1>6, AccountEntered
<1>8. Honestly(p)'
  BY <1>2, <1>3, <1>4, <1>7 DEF Honestly
<1>9. ASSUME NEW q \in Players, q # p PROVE Honestly(q)'
  BY <1>2, <1>3, <1>4, <1>9, Bystander DEF IInv
<1>10. QED
  BY <1>5, <1>8, <1>9

-----------------------------------------------------------------------------
(* Every step *)

Rest ==
  /\ body \in [Players -> Body] /\ dialogue \in [Players -> Dialogues]
  /\ lost \subseteq Guards /\ moved \subseteq Guards

\* The history forgets no offer that is open.
Recorded == \A g \in moved : guard'[g].state = "ArrestPending" => g \in moved'

Fair ==
  \A p \in Players :
    LET m == Head(answers[p]) IN
    answers[p] # <<>> /\ answers'[p] = Tail(answers[p]) /\ crime'[p] # crime[p]
      => m.agreed = crime[p].bounty

LEMMA HistoriesEffect ==
  ASSUME NEW L, NEW M, Histories(L, M), moved \subseteq Guards
  PROVE  lost' \subseteq Guards /\ moved' \subseteq Guards /\ Recorded
BY DEF Histories, Recorded

LEMMA OffersKept ==
  ASSUME OneOffer, Recorded, \A g \in Guards : Keeps(g)
  PROVE  OneOffer'
<1> SUFFICES ASSUME NEW p \in Players, NEW c \in Cells, NEW g, NEW h,
                    g \in (Engaged(p, "ArrestPending")' \cap In(c)') \ moved',
                    h \in (Engaged(p, "ArrestPending")' \cap In(c)') \ moved'
             PROVE  g = h
  BY DEF OneOffer
<1>1. ASSUME NEW x, x \in (Engaged(p, "ArrestPending")' \cap In(c)') \ moved'
      PROVE  x \in (Engaged(p, "ArrestPending") \cap In(c)) \ moved
  <2>1. /\ x \in Guards /\ guard'[x].state = "ArrestPending" /\ guard'[x].suspect = p
        /\ guard'[x].cell = c /\ x \notin moved'
    BY <1>1 DEF Engaged, In
  <2>2. guard[x].state = "ArrestPending" /\ guard[x].suspect = p /\ guard[x].cell = c
    BY <2>1 DEF Keeps
  <2>3. x \notin moved
    BY <2>1 DEF Recorded
  <2>4. QED
    BY <2>1, <2>2, <2>3 DEF Engaged, In
<1>2. QED
  BY <1>1 DEF OneOffer

\* A guard reaches its suspect only while no other in its cell holds it.
LEMMA OfferMade ==
  ASSUME Hypotheses, OneOffer, Recorded, NEW p \in Players, NEW g \in Guards, Reach(p, g)
  PROVE  OneOffer'
<1> SUFFICES ASSUME NEW q \in Players, NEW c \in Cells, NEW x, NEW y,
                    x \in (Engaged(q, "ArrestPending")' \cap In(c)') \ moved',
                    y \in (Engaged(q, "ArrestPending")' \cap In(c)') \ moved'
             PROVE  x = y
  BY DEF OneOffer
<1>1. /\ guard'[g].suspect = p /\ guard'[g].cell = guard[g].cell
      /\ \A h \in Guards \ {g} : guard'[h] = guard[h]
  BY ReachLawful
<1>2. Held(p, guard[g].cell) = {}
  BY DEF Reach
<1>3. ASSUME NEW z, z # g, z \in (Engaged(q, "ArrestPending")' \cap In(c)') \ moved'
      PROVE  z \in (Engaged(q, "ArrestPending") \cap In(c)) \ moved
  <2>1. /\ z \in Guards /\ guard'[z] = guard[z]
        /\ guard[z].state = "ArrestPending" /\ guard[z].suspect = q /\ guard[z].cell = c
    BY <1>1, <1>3 DEF Engaged, In
  <2>2. z \notin moved
    BY <1>3, <2>1 DEF Recorded
  <2>3. QED
    BY <2>1, <2>2 DEF Engaged, In
<1>4. ASSUME NEW z, z # g, z \in (Engaged(q, "ArrestPending")' \cap In(c)') \ moved',
             g \in (Engaged(q, "ArrestPending")' \cap In(c)') \ moved'
      PROVE  FALSE
  <2>1. q = p /\ c = guard[g].cell
    BY <1>1, <1>4 DEF Engaged, In
  <2>2. z \in Held(p, guard[g].cell)
    BY <1>3, <1>4, <2>1 DEF Held
  <2>3. QED
    BY <1>2, <2>2
<1>5. CASE x # g /\ y # g
  BY <1>3, <1>5 DEF OneOffer
<1>6. CASE x = g \/ y = g
  BY <1>4, <1>6
<1>7. QED
  BY <1>5, <1>6

LEMMA Composed ==
  ASSUME Ledgers', \A p \in Players : Honestly(p)', Sound(guard'), Rest',
         \A g \in Guards : Pursues(g), OneOffer'
  PROVE  IInv'
<1>1. TypeOK'
  BY LedgerTypes DEF TypeOK, Rest, Sound
<1>2. NoPursuitWithoutCause'
  BY DEF NoPursuitWithoutCause, Pursues
<1>3. QED
  BY <1>1, <1>2 DEF IInv, Hypotheses

LEMMA TailIsShorter ==
  ASSUME NEW S, NEW q \in Seq(S), q # <<>>
  PROVE  Tail(q) # q
BY HeadTailProperties, EmptySeq, LenProperties

\* Only an answer that is accepted changes a state and takes an answer.
LEMMA FairIfEither ==
  ASSUME TypeOK, UNCHANGED crime \/ UNCHANGED answers
  PROVE  Fair
<1> SUFFICES ASSUME NEW p \in Players, answers[p] # <<>>,
                    answers'[p] = Tail(answers[p]), crime'[p] # crime[p]
             PROVE  FALSE
  BY DEF Fair
<1>1. answers[p] \in Seq(Requests)
  BY DEF TypeOK
<1>2. QED
  BY <1>1, TailIsShorter

LEMMA FairIfAccepted ==
  ASSUME IInv, NEW p \in Players, Accept(p)
  PROVE  Fair
<1> SUFFICES ASSUME NEW q \in Players, crime'[q] # crime[q]
             PROVE  Head(answers[q]).agreed = crime[q].bounty
  BY DEF Fair
<1>1. q = p
  BY DEF Accept, Commit, IInv, Hypotheses, TypeOK
<1>2. Account(crime[p], known[p], told[p], prompted[p], answers[p], body[p].online)
  BY DEF IInv, Honestly
<1>3. Head(answers[p]) \in HonestRequests(crime[p])
  BY <1>2, AccountAnswered DEF Accept
<1>4. Head(answers[p]).revision = crime[p].revision
  BY DEF Accept, Valid
<1>5. QED
  BY <1>1, <1>3, <1>4 DEF HonestRequests

\* An offer that is open was, or is made.
Offers ==
  \A g \in Guards : guard'[g].state = "ArrestPending" =>
    \/ guard[g].state = "ArrestPending" /\ guard'[g].suspect = guard[g].suspect
    \/ \E p \in Players : Reach(p, g)

Goal == IInv' /\ (\A g \in Guards : Fights(g)) /\ Fair /\ Offers

LEMMA Standard ==
  ASSUME IInv, Ledgers', \A p \in Players : Honestly(p)', Sound(guard'), Lawful,
         Rest', Recorded, Fair
  PROVE  Goal
<1>1. Offers
  BY DEF Offers, Lawful, Keeps
<1>2. QED
  BY <1>1, OffersKept, Composed DEF IInv, Lawful, Goal

LEMMA CrimeStep ==
  ASSUME IInv, NEW p \in Players, NEW d \in {0, 1}, NEW W \in SUBSET Guards, Crime(p, d, W)
  PROVE  Goal
<1>1. /\ Commit(p, crime[p].bounty + d) /\ Told(p) /\ Histories({}, {})
      /\ UNCHANGED <<body, known, dialogue, prompted, answers>>
  BY DEF Crime, clientVars
<1>2. TypeOK /\ crime[p].bounty + d \in Nat
  BY DEF IInv, Hypotheses, TypeOK, CrimeState
<1>3. Ledgers' /\ \A q \in Players : Honestly(q)'
  BY <1>1, <1>2, CommittedLedgers
<1>4. Sound(guard') /\ Lawful
  BY CrimeLawful DEF IInv
<1>5. Rest' /\ Recorded
  BY <1>1, <1>2, HistoriesEffect DEF Rest, TypeOK
<1>6. Fair
  BY <1>1, <1>2, FairIfEither
<1>7. QED
  BY <1>3, <1>4, <1>5, <1>6, Standard

LEMMA SetBountyStep ==
  ASSUME IInv, NEW p \in Players, NEW b \in 0 .. MaxBounty, SetBounty(p, b)
  PROVE  Goal
<1>1. /\ Commit(p, b) /\ Told(p) /\ Histories({}, {}) /\ guard' = Settled(guard, p)
      /\ UNCHANGED <<body, known, dialogue, prompted, answers>>
  BY DEF SetBounty, clientVars
<1>2. TypeOK /\ b \in Nat
  BY DEF IInv, Hypotheses
<1>3. Ledgers' /\ \A q \in Players : Honestly(q)'
  BY <1>1, <1>2, CommittedLedgers
<1>4. Sound(guard') /\ Lawful
  BY <1>1, <1>2, SettledLawful DEF IInv
<1>5. Rest' /\ Recorded
  BY <1>1, <1>2, HistoriesEffect DEF Rest, TypeOK
<1>6. Fair
  BY <1>1, <1>2, FairIfEither
<1>7. QED
  BY <1>3, <1>4, <1>5, <1>6, Standard

\* Steps of guards and players that send and commit nothing.
LEMMA QuietStep ==
  ASSUME IInv, UNCHANGED <<crime, known, told, prompted, answers>>,
         \A q \in Players : body'[q].online = body[q].online,
         Sound(guard'), Lawful, Rest', Recorded
  PROVE  Goal
<1>1. Ledgers' /\ \A q \in Players : Honestly(q)'
  BY QuietLedgers
<1>2. Fair
  BY FairIfEither DEF IInv, Hypotheses
<1>3. QED
  BY <1>1, <1>2, Standard

LEMMA ObserveStep ==
  ASSUME IInv, NEW p \in Players, NEW W \in SUBSET Guards, Observe(p, W)
  PROVE  Goal
<1>1. /\ Histories({}, {})
      /\ UNCHANGED <<crime, body, known, dialogue, told, prompted, answers>>
  BY DEF Observe, clientVars, netVars
<1>2. Rest' /\ Recorded
  BY <1>1, HistoriesEffect DEF Rest, IInv, Hypotheses, TypeOK
<1>3. Sound(guard') /\ Lawful
  BY ObserveLawful DEF IInv
<1>4. QED
  BY <1>1, <1>2, <1>3, QuietStep

LEMMA ReachStep ==
  ASSUME IInv, NEW p \in Players, NEW g \in Guards, Reach(p, g)
  PROVE  Goal
<1>1. /\ Histories({}, {})
      /\ UNCHANGED <<crime, body, known, dialogue, told, answers>>
  BY DEF Reach, clientVars
<1>2. Rest' /\ Recorded
  BY <1>1, HistoriesEffect DEF Rest, IInv, Hypotheses, TypeOK
<1>3. Ledgers' /\ \A q \in Players : Honestly(q)'
  BY ReachLedgers
<1>4. Sound(guard') /\ \A h \in Guards : Pursues(h) /\ Fights(h)
  BY ReachLawful DEF IInv
<1>5. OneOffer'
  BY <1>2, OfferMade DEF IInv
<1>6. Fair
  BY <1>1, FairIfEither DEF IInv, Hypotheses
<1>7. Offers
  <2>1. \A h \in Guards \ {g} : guard'[h] = guard[h]
    BY ReachLawful DEF IInv
  <2>2. QED
    BY <2>1 DEF Offers
<1>8. QED
  BY <1>2, <1>3, <1>4, <1>5, <1>6, <1>7, Composed DEF Goal

LEMMA RefuseStep ==
  ASSUME IInv, NEW p \in Players, Refuse(p)
  PROVE  Goal
<1>1. /\ \E L \in SUBSET Guards : Histories(L, {})
      /\ UNCHANGED <<crime, body, guard, known, dialogue, told>>
  <2>1. {Head(answers[p]).guard} \cap Engaged(p, "ArrestPending") \in SUBSET Guards
    BY DEF Engaged
  <2>2. QED
    BY <2>1 DEF Refuse, clientVars, serverVars
<1>2. Rest' /\ Recorded
  BY <1>1, HistoriesEffect DEF Rest, IInv, Hypotheses, TypeOK
<1>3. Ledgers' /\ \A q \in Players : Honestly(q)'
  BY RefuseLedgers
<1>4. Sound(guard') /\ Lawful
  BY <1>1, Undisturbed DEF IInv
<1>5. Fair
  BY <1>1, FairIfEither DEF IInv, Hypotheses
<1>6. QED
  BY <1>2, <1>3, <1>4, <1>5, Standard

LEMMA AcceptStep ==
  ASSUME IInv, NEW p \in Players, Accept(p)
  PROVE  Goal
<1>1. Histories({}, {}) /\ UNCHANGED <<body, known, dialogue>>
  BY DEF Accept, clientVars
<1>2. Rest' /\ Recorded
  BY <1>1, HistoriesEffect DEF Rest, IInv, Hypotheses, TypeOK
<1>3. Ledgers' /\ \A q \in Players : Honestly(q)'
  BY AcceptLedgers
<1>4. Sound(guard') /\ Lawful
  <2>1. answers[p] \in Seq(Requests) /\ answers[p] # <<>>
    BY DEF Accept, IInv, Hypotheses, TypeOK
  <2>2. Head(answers[p]) \in Requests
    BY <2>1, RangeTail
  <2>3. QED
    BY <2>2, AcceptLawful DEF IInv
<1>5. QED
  BY <1>2, <1>3, <1>4, FairIfAccepted, Standard

\* Players stay in the session, wherever they go and whatever befalls them.
LEMMA BodyMoved ==
  ASSUME body \in [Players -> Body], NEW p \in Players, NEW c \in Cells,
         body' = [body EXCEPT ![p].cell = c]
  PROVE  body' \in [Players -> Body] /\ \A q \in Players : body'[q].online = body[q].online
BY DEF Body

LEMMA BodyHurt ==
  ASSUME body \in [Players -> Body], NEW p \in Players, NEW a \in BOOLEAN,
         body' = [body EXCEPT ![p].alive = a]
  PROVE  body' \in [Players -> Body] /\ \A q \in Players : body'[q].online = body[q].online
BY DEF Body

LEMMA ChangeCellStep ==
  ASSUME IInv, NEW p \in Players, NEW c \in Cells, NEW continuous, NEW handed,
         ChangeCell(p, c, continuous, handed)
  PROVE  Goal
<1>1. /\ body' = [body EXCEPT ![p].cell = c] /\ Histories({}, {})
      /\ UNCHANGED <<crime, known, dialogue, told, prompted, answers>>
  BY DEF ChangeCell, clientVars, netVars
<1>2. body \in [Players -> Body] /\ dialogue \in [Players -> Dialogues] /\ moved \subseteq Guards
  BY DEF IInv, Hypotheses, TypeOK
<1>3. body' \in [Players -> Body] /\ \A q \in Players : body'[q].online = body[q].online
  BY <1>1, <1>2, BodyMoved
<1>4. Rest' /\ Recorded
  BY <1>1, <1>2, <1>3, HistoriesEffect DEF Rest
<1>5. Sound(guard') /\ Lawful
  BY ChangeCellLawful DEF IInv
<1>6. QED
  BY <1>1, <1>3, <1>4, <1>5, QuietStep

LEMMA TeleportStep ==
  ASSUME IInv, NEW p \in Players, NEW c \in Cells, NEW handed, Teleport(p, c, handed)
  PROVE  Goal
<1>1. /\ body' = [body EXCEPT ![p].cell = c] /\ Histories({}, {})
      /\ guard' = Reissued(guard, handed, Players, body')
      /\ UNCHANGED <<crime, known, dialogue, told, prompted, answers>>
  BY DEF Teleport, clientVars, netVars
<1>2. body \in [Players -> Body] /\ dialogue \in [Players -> Dialogues] /\ moved \subseteq Guards
  BY DEF IInv, Hypotheses, TypeOK
<1>3. body' \in [Players -> Body] /\ \A q \in Players : body'[q].online = body[q].online
  BY <1>1, <1>2, BodyMoved
<1>4. Rest' /\ Recorded
  BY <1>1, <1>2, <1>3, HistoriesEffect DEF Rest
<1>5. Sound(guard') /\ Lawful
  BY <1>1, ReissuedLawful DEF IInv
<1>6. QED
  BY <1>1, <1>3, <1>4, <1>5, QuietStep

LEMMA ReissueStep ==
  ASSUME IInv, NEW C, NEW P, Reissue(C, P)
  PROVE  Goal
<1>1. /\ Histories({}, {}) /\ guard' = Reissued(guard, C, P, body)
      /\ UNCHANGED <<crime, body, known, dialogue, told, prompted, answers>>
  BY DEF Reissue, clientVars, netVars
<1>2. Rest' /\ Recorded
  BY <1>1, HistoriesEffect DEF Rest, IInv, Hypotheses, TypeOK
<1>3. Sound(guard') /\ Lawful
  BY <1>1, ReissuedLawful DEF IInv
<1>4. QED
  BY <1>1, <1>2, <1>3, QuietStep

LEMMA DieStep ==
  ASSUME IInv, NEW p \in Players, Die(p)
  PROVE  Goal
<1>1. /\ body' = [body EXCEPT ![p].alive = FALSE] /\ Histories({}, {})
      /\ UNCHANGED <<crime, known, dialogue, told, prompted, answers>>
  BY DEF Die, clientVars, netVars
<1>2. body \in [Players -> Body] /\ dialogue \in [Players -> Dialogues] /\ moved \subseteq Guards
  BY DEF IInv, Hypotheses, TypeOK
<1>3. body' \in [Players -> Body] /\ \A q \in Players : body'[q].online = body[q].online
  BY <1>1, <1>2, BodyHurt
<1>4. Rest' /\ Recorded
  BY <1>1, <1>2, <1>3, HistoriesEffect DEF Rest
<1>5. Sound(guard') /\ Lawful
  BY DieLawful DEF IInv
<1>6. QED
  BY <1>1, <1>3, <1>4, <1>5, QuietStep

LEMMA ResurrectStep ==
  ASSUME IInv, NEW p \in Players, Resurrect(p)
  PROVE  Goal
<1>1. /\ body' = [body EXCEPT ![p].alive = TRUE]
      /\ UNCHANGED <<crime, guard, known, dialogue, told, prompted, answers, lost, moved>>
  BY DEF Resurrect, clientVars, netVars
<1>2. TypeOK
  BY DEF IInv, Hypotheses
<1>3. body' \in [Players -> Body] /\ \A q \in Players : body'[q].online = body[q].online
  BY <1>1, <1>2, BodyHurt DEF TypeOK
<1>4. Rest' /\ Recorded
  BY <1>1, <1>2, <1>3 DEF Rest, Recorded, TypeOK
<1>5. Sound(guard') /\ Lawful
  BY <1>1, Undisturbed DEF IInv
<1>6. QED
  BY <1>1, <1>3, <1>4, <1>5, QuietStep

LEMMA LeaveStep ==
  ASSUME IInv, NEW p \in Players, NEW handed, Leave(p, handed)
  PROVE  Goal
<1>1. /\ body' = [body EXCEPT ![p].online = FALSE] /\ crime' = crime
      /\ dialogue' = [dialogue EXCEPT ![p] = NoDialogue]
      /\ Histories(Engaged(p, "ArrestPending"), {})
  BY DEF Leave
<1>2. TypeOK
  BY DEF IInv, Hypotheses
<1>3. Rest' /\ Recorded
  BY <1>1, <1>2, HistoriesEffect DEF Rest, TypeOK, Body, Dialogues
<1>4. Ledgers' /\ \A q \in Players : Honestly(q)'
  BY LeaveLedgers
<1>5. Sound(guard') /\ Lawful
  BY LeaveLawful DEF IInv
<1>6. Fair
  BY <1>1, <1>2, FairIfEither
<1>7. QED
  BY <1>3, <1>4, <1>5, <1>6, Standard

LEMMA EnterStep ==
  ASSUME IInv, NEW p \in Players, Enter(p)
  PROVE  Goal
<1>1. /\ body' = [body EXCEPT ![p].online = TRUE, ![p].alive = TRUE]
      /\ UNCHANGED <<crime, guard, dialogue, answers, lost, moved>>
  BY DEF Enter, netVars
<1>2. TypeOK
  BY DEF IInv, Hypotheses
<1>3. Rest' /\ Recorded
  BY <1>1, <1>2 DEF Rest, Recorded, TypeOK, Body
<1>4. Ledgers' /\ \A q \in Players : Honestly(q)'
  BY EnterLedgers
<1>5. Sound(guard') /\ Lawful
  BY <1>1, Undisturbed DEF IInv
<1>6. Fair
  BY <1>1, <1>2, FairIfEither
<1>7. QED
  BY <1>3, <1>4, <1>5, <1>6, Standard

LEMMA MigrateStep ==
  ASSUME IInv, NEW g \in Guards, NEW c \in Cells, Migrate(g, c)
  PROVE  Goal
<1>1. /\ Histories({}, {g})
      /\ UNCHANGED <<crime, body, known, dialogue, told, prompted, answers>>
  BY DEF Migrate, clientVars, netVars
<1>2. Rest' /\ Recorded
  BY <1>1, HistoriesEffect DEF Rest, IInv, Hypotheses, TypeOK
<1>3. Sound(guard') /\ Lawful
  BY MigrateLawful DEF IInv
<1>4. QED
  BY <1>1, <1>2, <1>3, QuietStep

LEMMA ResetStep ==
  ASSUME IInv, NEW c \in Cells, Reset(c)
  PROVE  Goal
<1>1. /\ Histories({}, {})
      /\ UNCHANGED <<crime, body, known, dialogue, told, prompted, answers>>
  BY DEF Reset, clientVars, netVars
<1>2. Rest' /\ Recorded
  BY <1>1, HistoriesEffect DEF Rest, IInv, Hypotheses, TypeOK
<1>3. Sound(guard') /\ Lawful
  BY ResetLawful DEF IInv
<1>4. QED
  BY <1>1, <1>2, <1>3, QuietStep

LEMMA TalkStep ==
  ASSUME IInv, NEW p \in Players, NEW g \in Guards, Talk(p, g)
  PROVE  Goal
<1>1. /\ dialogue' = [dialogue EXCEPT ![p] = [guard |-> g, stage |-> "talk"]]
      /\ UNCHANGED <<crime, body, guard, known, told, prompted, answers, lost, moved>>
  BY DEF Talk, serverVars, netVars
<1>2. [guard |-> g, stage |-> "talk"] \in Dialogues
  BY DEF Dialogues
<1>3. Rest' /\ Recorded
  BY <1>1, <1>2 DEF Rest, Recorded, IInv, Hypotheses, TypeOK
<1>4. Sound(guard') /\ Lawful
  BY <1>1, Undisturbed DEF IInv
<1>5. QED
  BY <1>1, <1>3, <1>4, QuietStep

LEMMA CloseStep ==
  ASSUME IInv, NEW p \in Players, Close(p)
  PROVE  Goal
<1>1. /\ dialogue' = [dialogue EXCEPT ![p] = NoDialogue]
      /\ \E L : Histories(L, {})
      /\ UNCHANGED <<crime, body, guard, known, told, prompted, answers>>
  BY DEF Close, serverVars, netVars
<1>2. NoDialogue \in Dialogues
  BY DEF Dialogues
<1>3. Rest' /\ Recorded
  BY <1>1, <1>2, HistoriesEffect DEF Rest, IInv, Hypotheses, TypeOK
<1>4. Sound(guard') /\ Lawful
  BY <1>1, Undisturbed DEF IInv
<1>5. QED
  BY <1>1, <1>3, <1>4, QuietStep

LEMMA AnswerStep ==
  ASSUME IInv, NEW p \in Players, NEW a \in Actions, Answer(p, a)
  PROVE  Goal
<1>1. /\ dialogue' = [dialogue EXCEPT ![p].stage = "answered"]
      /\ dialogue[p].stage \in {"talk", "offer"}
      /\ UNCHANGED <<crime, body, guard, known, told, prompted, lost, moved>>
  BY DEF Answer, serverVars
<1>2. dialogue \in [Players -> Dialogues]
  BY DEF IInv, Hypotheses, TypeOK
<1>3. dialogue[p] \in [guard : Guards, stage : {"talk", "offer", "answered"}]
  BY <1>1, <1>2 DEF Dialogues, NoDialogue
<1>4. dialogue'[p] \in [guard : Guards, stage : {"talk", "offer", "answered"}]
  BY <1>1, <1>2, <1>3
<1>5. Rest' /\ Recorded
  BY <1>1, <1>2, <1>4 DEF Rest, Recorded, IInv, Hypotheses, TypeOK, Dialogues
<1>6. Ledgers' /\ \A q \in Players : Honestly(q)'
  BY <1>3, AnswerLedgers
<1>7. Sound(guard') /\ Lawful
  BY <1>1, Undisturbed DEF IInv
<1>8. Fair
  BY <1>1, FairIfEither DEF IInv, Hypotheses
<1>9. QED
  BY <1>5, <1>6, <1>7, <1>8, Standard

LEMMA ReceiveStateStep ==
  ASSUME IInv, NEW p \in Players, ReceiveState(p)
  PROVE  Goal
<1>1. UNCHANGED <<crime, body, guard, dialogue, prompted, answers, lost, moved>>
  BY DEF ReceiveState, serverVars
<1>2. Rest' /\ Recorded
  BY <1>1 DEF Rest, Recorded, IInv, Hypotheses, TypeOK
<1>3. Ledgers' /\ \A q \in Players : Honestly(q)'
  BY StateLedgers
<1>4. Sound(guard') /\ Lawful
  BY <1>1, Undisturbed DEF IInv
<1>5. Fair
  BY <1>1, FairIfEither DEF IInv, Hypotheses
<1>6. QED
  BY <1>2, <1>3, <1>4, <1>5, Standard

LEMMA ReceivePromptStep ==
  ASSUME IInv, NEW p \in Players, NEW near \in BOOLEAN, ReceivePrompt(p, near)
  PROVE  Goal
<1> DEFINE m == Head(prompted[p])
<1>1. /\ prompted[p] # <<>> /\ m.type = "prompt"
      /\ \/ dialogue' = dialogue
         \/ dialogue' = [dialogue EXCEPT ![p] = [guard |-> m.guard, stage |-> "offer"]]
      /\ \E L : Histories(L, {})
      /\ UNCHANGED <<crime, body, guard, known, told, answers>>
  BY DEF ReceivePrompt, serverVars
<1>2. prompted[p] \in Seq(Reaches \cup Results)
  BY DEF IInv, Hypotheses, TypeOK
<1>3. m \in Reaches \cup Results
  BY <1>1, <1>2, RangeTail
<1>4. [guard |-> m.guard, stage |-> "offer"] \in Dialogues
  BY <1>1, <1>3 DEF Reaches, Results, Dialogues
<1> HIDE DEF m
<1>5. Rest' /\ Recorded
  BY <1>1, <1>4, HistoriesEffect DEF Rest, IInv, Hypotheses, TypeOK
<1>6. Ledgers' /\ \A q \in Players : Honestly(q)'
  BY PromptLedgers
<1>7. Sound(guard') /\ Lawful
  BY <1>1, Undisturbed DEF IInv
<1>8. Fair
  BY <1>1, FairIfEither DEF IInv, Hypotheses
<1>9. QED
  BY <1>5, <1>6, <1>7, <1>8, Standard

LEMMA ReceiveResultStep ==
  ASSUME IInv, NEW p \in Players, ReceiveResult(p)
  PROVE  Goal
<1>1. /\ dialogue' = [dialogue EXCEPT ![p] = NoDialogue]
      /\ \E L : Histories(L, {})
      /\ UNCHANGED <<crime, body, guard, told, answers>>
  BY DEF ReceiveResult, serverVars
<1>2. NoDialogue \in Dialogues
  BY DEF Dialogues
<1>3. Rest' /\ Recorded
  BY <1>1, <1>2, HistoriesEffect DEF Rest, IInv, Hypotheses, TypeOK
<1>4. Ledgers' /\ \A q \in Players : Honestly(q)'
  BY ResultLedgers
<1>5. Sound(guard') /\ Lawful
  BY <1>1, Undisturbed DEF IInv
<1>6. Fair
  BY <1>1, FairIfEither DEF IInv, Hypotheses
<1>7. QED
  BY <1>3, <1>4, <1>5, <1>6, Standard

LEMMA PlayerStepGoal ==
  ASSUME IInv, NEW p \in Players, PlayerStep(p)
  PROVE  Goal
<1>1. CASE \E d \in {0, 1}, W \in SUBSET Guards : Crime(p, d, W)
  BY <1>1, CrimeStep
<1>2. CASE \E b \in 0 .. MaxBounty : SetBounty(p, b)
  BY <1>2, SetBountyStep
<1>3. CASE \E W \in SUBSET Guards : Observe(p, W)
  BY <1>3, ObserveStep
<1>4. CASE Refuse(p)
  BY <1>4, RefuseStep
<1>5. CASE Accept(p)
  BY <1>5, AcceptStep
<1>6. CASE \E c \in Cells, handed \in SUBSET (Stale \cap {body[p].cell}), continuous \in BOOLEAN :
             ChangeCell(p, c, continuous, handed)
  BY <1>6, ChangeCellStep
<1>7. CASE \E c \in Cells, handed \in {{}, Stale} : Teleport(p, c, handed)
  BY <1>7, TeleportStep
<1>8. CASE \E handed \in {{}, Stale} : Leave(p, handed)
  BY <1>8, LeaveStep
<1>9. CASE Die(p) \/ Resurrect(p) \/ Enter(p)
  BY <1>9, DieStep, ResurrectStep, EnterStep
<1>10. CASE \E a \in Actions : Answer(p, a)
  BY <1>10, AnswerStep
<1>11. CASE Close(p) \/ ReceiveState(p) \/ ReceiveResult(p)
  BY <1>11, CloseStep, ReceiveStateStep, ReceiveResultStep
<1>12. CASE \E near \in BOOLEAN : ReceivePrompt(p, near)
  BY <1>12, ReceivePromptStep
<1>13. QED
  BY <1>1, <1>2, <1>3, <1>4, <1>5, <1>6, <1>7, <1>8, <1>9, <1>10, <1>11, <1>12
     DEF PlayerStep

LEMMA Step ==
  ASSUME IInv, [Next]_vars
  PROVE  Goal
<1>1. CASE \E p \in Players : PlayerStep(p)
  BY <1>1, PlayerStepGoal
<1>2. CASE \E p \in Players, g \in Guards : Reach(p, g) \/ Talk(p, g)
  BY <1>2, ReachStep, TalkStep
<1>3. CASE \E c \in Stale, P \in {Players} \cup {{p} : p \in Players} : Reissue({c}, P)
  BY <1>3, ReissueStep
<1>4. CASE \E g \in Guards, c \in Cells : Migrate(g, c)
  BY <1>4, MigrateStep
<1>5. CASE \E c \in Cells : Reset(c)
  BY <1>5, ResetStep
<1>6. CASE UNCHANGED vars
  <2>1. UNCHANGED <<crime, body, guard, known, dialogue, told, prompted, answers, lost, moved>>
    BY <1>6 DEF vars, serverVars, clientVars, netVars
  <2>2. Rest' /\ Recorded
    BY <2>1 DEF Rest, Recorded, IInv, Hypotheses, TypeOK
  <2>3. Sound(guard') /\ Lawful
    BY <2>1, Undisturbed DEF IInv
  <2>4. QED
    BY <2>1, <2>2, <2>3, QuietStep
<1>7. QED
  BY <1>1, <1>2, <1>3, <1>4, <1>5, <1>6 DEF Next

LEMMA Start == Init => IInv
<1> SUFFICES ASSUME Init PROVE IInv
  OBVIOUS
<1>1. NoState \in CrimeState /\ NoState \in Honest(NoState)
  BY DEF NoState, CrimeState, Honest
<1>2. \A S : <<>> \in Seq(S)
  OBVIOUS
<1>3. TypeOK
  <2>1. body \in [Players -> Body]
    BY DEF Init, Body
  <2>2. /\ guard \in [Guards -> Record]
        /\ \A g \in Guards : guard[g].suspect = Nobody /\ guard[g].state = "None"
    <3> DEFINE idle == [suspect : {Nobody}, state : {"None"}, current : {FALSE},
                        cell : Cells, generation : {0}]
    <3>1. guard \in [Guards -> idle]
      BY DEF Init
    <3>2. \A r \in idle : r \in Record /\ r.suspect = Nobody /\ r.state = "None"
      <4> TAKE r \in idle
      <4>1. r.suspect \in {Nobody} /\ r.state \in {"None"} /\ r.cell \in Cells
        OBVIOUS
      <4>2. r.current \in {FALSE} /\ r.generation \in {0}
        OBVIOUS
      <4>3. r = [suspect |-> r.suspect, state |-> r.state, current |-> r.current,
                 cell |-> r.cell, generation |-> r.generation]
        OBVIOUS
      <4>4. {FALSE} \subseteq BOOLEAN /\ {0} \subseteq Nat
        OBVIOUS
      <4>5. r.current \in BOOLEAN /\ r.generation \in Nat
        BY <4>2, <4>4
      <4>6. r.suspect = Nobody /\ r.state = "None"
        BY <4>1
      <4>7. r \in Record
        BY <4>1, <4>3, <4>5 DEF Record, Enforcement
      <4>8. QED
        BY <4>6, <4>7
    <3> HIDE DEF idle
    <3>3. QED
      BY <3>1, <3>2
  <2>3. QED
    BY <1>1, <1>2, <2>1, <2>2 DEF Init, TypeOK, Dialogues
<1>4. NoPursuitWithoutCause
  BY DEF Init, NoPursuitWithoutCause
<1>5. OneOffer
  BY DEF Init, OneOffer, Engaged
<1>6. ASSUME NEW p \in Players PROVE Honestly(p)
  <2>1. /\ crime[p] = NoState /\ known[p] = NoState
        /\ told[p] = <<>> /\ prompted[p] = <<>> /\ answers[p] = <<>>
    BY DEF Init
  <2>2. Copies(NoState, <<>>, <<>>) = {NoState}
    BY DEF Copies, Range
  <2>3. Account(NoState, NoState, <<>>, <<>>, <<>>, body[p].online)
    BY <1>1, <1>2, <2>2 DEF Account
  <2>4. QED
    BY <2>1, <2>3 DEF Honestly
<1>7. QED
  BY <1>3, <1>4, <1>5, <1>6 DEF IInv, Hypotheses

LEMMA Invariance == Spec => []IInv
<1>1. IInv /\ [Next]_vars => IInv'
  BY Step DEF Goal
<1>2. QED
  BY <1>1, Start, PTL DEF Spec

-----------------------------------------------------------------------------
(* Offers that are open *)

LostKept == \A g \in lost : guard'[g].state = "ArrestPending" => g \in lost'

\* Who has been heard still is, or the offer is recorded as lost.
WordKept ==
  \A p \in Players, g \in Guards :
    /\ guard[g].state = "ArrestPending" /\ guard[g].suspect = p
    /\ guard'[g].state = "ArrestPending" /\ Heard(p, g)
    => Heard(p, g)' \/ g \in lost'

LEMMA LostByHistories ==
  ASSUME NEW L, NEW M, Histories(L, M), lost \subseteq Guards
  PROVE  /\ LostKept
         /\ \A g \in Guards : g \in L /\ guard'[g].state = "ArrestPending" => g \in lost'
BY DEF Histories, LostKept

LEMMA WordSame ==
  ASSUME UNCHANGED <<dialogue, prompted, answers>>
  PROVE  WordKept
BY DEF WordKept, Heard

\* What one player hears.
LEMMA WordOfOne ==
  ASSUME NEW p \in Players,
         \A q \in Players \ {p} :
           /\ dialogue'[q] = dialogue[q] /\ prompted'[q] = prompted[q]
           /\ answers'[q] = answers[q],
         \A g \in Guards :
           /\ guard[g].state = "ArrestPending" /\ guard[g].suspect = p
           /\ guard'[g].state = "ArrestPending" /\ Heard(p, g)
           => Heard(p, g)' \/ g \in lost'
  PROVE  WordKept
<1>1. ASSUME NEW q \in Players \ {p}, NEW g \in Guards, Heard(q, g) PROVE Heard(q, g)'
  BY <1>1 DEF Heard
<1>2. QED
  BY <1>1 DEF WordKept

LEMMA RangeHeadTail ==
  ASSUME NEW S, NEW q \in Seq(S), q # <<>>
  PROVE  Range(q) \subseteq Range(Tail(q)) \cup {Head(q)}
<1>1. /\ Len(q) \in Nat /\ DOMAIN q = 1 .. Len(q) /\ Head(q) = q[1]
      /\ DOMAIN Tail(q) = 1 .. Len(q) - 1
      /\ \A i \in 1 .. Len(q) - 1 : Tail(q)[i] = q[i + 1]
  <2>1. /\ Tail(q) \in Seq(S) /\ Head(q) = q[1] /\ Len(Tail(q)) = Len(q) - 1
        /\ \A i \in 1 .. Len(Tail(q)) : Tail(q)[i] = q[i + 1]
    BY HeadTailProperties, EmptySeq
  <2>2. QED
    BY <2>1, LenProperties
<1>2. ASSUME NEW i \in 1 .. Len(q), i # 1 PROVE q[i] \in Range(Tail(q))
  <2>1. i - 1 \in 1 .. Len(q) - 1 /\ (i - 1) + 1 = i
    BY <1>1, <1>2
  <2>2. Tail(q)[i - 1] = q[i]
    BY <1>1, <2>1
  <2>3. QED
    BY <1>1, <2>1, <2>2 DEF Range
<1>3. QED
  BY <1>1, <1>2 DEF Range

\* A guard makes itself heard.
LEMMA WordGiven ==
  ASSUME TypeOK, NEW p \in Players, NEW g \in Guards, Reach(p, g)
  PROVE  WordKept /\ LostKept /\ Heard(p, g)'
<1> DEFINE m == [type |-> "prompt", guard |-> g, cell |-> guard[g].cell,
                 generation |-> guard[g].generation]
<1>1. /\ prompted' = [prompted EXCEPT ![p] = Append(@, m)] /\ Histories({}, {})
      /\ UNCHANGED <<dialogue, answers>>
  BY DEF Reach, clientVars
<1>2. m.type = "prompt" /\ m.guard = g
  OBVIOUS
<1>3. m \in Reaches
  BY RecordFields DEF TypeOK, Reaches
<1> HIDE DEF m
<1>4. prompted'[p] = Append(prompted[p], m) /\ \A q \in Players \ {p} : prompted'[q] = prompted[q]
  BY <1>1 DEF TypeOK
<1>5. Range(prompted'[p]) = Range(prompted[p]) \cup {m}
  <2>1. prompted[p] \in Seq(Reaches \cup Results) /\ m \in Reaches \cup Results
    BY <1>3 DEF TypeOK
  <2>2. QED
    BY <1>4, <2>1, RangeAppend
<1>6. Heard(p, g)'
  BY <1>2, <1>5 DEF Heard
<1>7. \A h \in Guards : Heard(p, h) => Heard(p, h)'
  BY <1>1, <1>5 DEF Heard
<1>8. WordKept
  BY <1>1, <1>4, <1>7, WordOfOne
<1>9. QED
  BY <1>1, <1>6, <1>8, LostByHistories DEF TypeOK

LEMMA WordRefused ==
  ASSUME TypeOK, NEW p \in Players, Refuse(p)
  PROVE  WordKept /\ LostKept
<1> DEFINE m == Head(answers[p])
           n == [type |-> "result", crime |-> crime[p]]
<1>1. /\ answers[p] # <<>> /\ answers' = [answers EXCEPT ![p] = Tail(@)]
      /\ prompted' = [prompted EXCEPT ![p] = Append(@, n)]
      /\ UNCHANGED <<guard, dialogue>>
      /\ Histories({m.guard} \cap Engaged(p, "ArrestPending"), {})
  BY DEF Refuse, serverVars, clientVars
<1>2. n \in Results
  BY DEF TypeOK, Results
<1> HIDE DEF m, n
<1>3. /\ answers'[p] = Tail(answers[p]) /\ prompted'[p] = Append(prompted[p], n)
      /\ \A q \in Players \ {p} : answers'[q] = answers[q] /\ prompted'[q] = prompted[q]
  BY <1>1 DEF TypeOK
<1>4. Range(prompted[p]) \subseteq Range(prompted'[p])
  <2>1. prompted[p] \in Seq(Reaches \cup Results) /\ n \in Reaches \cup Results
    BY <1>2 DEF TypeOK
  <2>2. QED
    BY <1>3, <2>1, RangeAppend
<1>5. Range(answers[p]) \subseteq Range(answers'[p]) \cup {m}
  BY <1>1, <1>3, RangeHeadTail DEF TypeOK, m
<1>6. ASSUME NEW g \in Guards, guard[g].state = "ArrestPending", guard[g].suspect = p,
             guard'[g].state = "ArrestPending", Heard(p, g)
      PROVE  Heard(p, g)' \/ g \in lost'
  <2>1. CASE g = m.guard
    <3>1. g \in {m.guard} \cap Engaged(p, "ArrestPending")
      BY <1>6, <2>1 DEF Engaged
    <3>2. QED
      BY <1>1, <1>6, <3>1, LostByHistories DEF TypeOK
  <2>2. CASE g # m.guard
    BY <1>1, <1>4, <1>5, <1>6, <2>2 DEF Heard
  <2>3. QED
    BY <2>1, <2>2
<1>7. WordKept
  BY <1>1, <1>3, <1>6, WordOfOne
<1>8. QED
  BY <1>1, <1>7, LostByHistories DEF TypeOK

\* Whose offer is accepted waits no longer.
LEMMA WordAccepted ==
  ASSUME IInv, NEW p \in Players, Accept(p), IInv'
  PROVE  WordKept /\ LostKept
<1> DEFINE m == Head(answers[p])
           n == [type |-> "result", crime |-> crime'[p]]
<1>1. /\ answers[p] # <<>> /\ answers' = [answers EXCEPT ![p] = Tail(@)]
      /\ prompted' = [prompted EXCEPT ![p] = Append(@, n)]
      /\ UNCHANGED dialogue /\ Histories({}, {})
  BY DEF Accept, clientVars
<1>2. TypeOK /\ TypeOK' /\ NoPursuitWithoutCause'
  BY DEF IInv, Hypotheses
<1>3. n \in Results
  BY <1>2 DEF TypeOK, Results
<1>4. answers[p] \in Seq(Requests) /\ m \in Requests
  BY <1>1, <1>2, RangeTail DEF TypeOK
<1>5. m.guard \in Guards
  BY <1>4 DEF Requests
<1>6. guard'[m.guard].suspect = p => guard'[m.guard].state # "ArrestPending"
  <2>1. CASE m.action = "Resist"
    <3>1. guard'[m.guard] = After(guard[m.guard], p, "Combat")
      BY <1>2, <1>5, <2>1 DEF Accept, Resisted, TypeOK
    <3>2. guard'[m.guard].state = "Combat"
      <4>1. guard[m.guard] \in Record /\ "Combat" \in Enforcement
        BY <1>2, <1>5 DEF TypeOK, Enforcement
      <4>2. After(guard[m.guard], p, "Combat").state = "Combat"
        BY <4>1, AfterEffect
      <4>3. QED
        BY <3>1, <4>2
    <3>3. QED
      BY <3>2
  <2>2. CASE m.action # "Resist"
    <3>1. crime'[p].bounty = 0
      BY <1>2, <2>2 DEF Accept, Commit, TypeOK
    <3>2. QED
      BY <1>2, <1>5, <3>1 DEF NoPursuitWithoutCause
  <2>3. QED
    BY <2>1, <2>2
<1> HIDE DEF m, n
<1>7. /\ answers'[p] = Tail(answers[p]) /\ prompted'[p] = Append(prompted[p], n)
      /\ \A q \in Players \ {p} : answers'[q] = answers[q] /\ prompted'[q] = prompted[q]
  BY <1>1, <1>2 DEF TypeOK
<1>8. Range(prompted[p]) \subseteq Range(prompted'[p])
  <2>1. prompted[p] \in Seq(Reaches \cup Results) /\ n \in Reaches \cup Results
    BY <1>2, <1>3 DEF TypeOK
  <2>2. QED
    BY <1>7, <2>1, RangeAppend
<1>9. Range(answers[p]) \subseteq Range(answers'[p]) \cup {m}
  BY <1>1, <1>4, <1>7, RangeHeadTail DEF m
<1>10. \A g \in Guards : guard'[g].state = "ArrestPending" /\ g = m.guard
         => guard'[g].suspect = guard[g].suspect
  <2>1. Sound(guard') /\ Lawful
    BY <1>4, AcceptLawful DEF IInv, m
  <2>2. QED
    BY <2>1 DEF Lawful, Keeps
<1>11. ASSUME NEW g \in Guards, guard[g].state = "ArrestPending", guard[g].suspect = p,
              guard'[g].state = "ArrestPending", Heard(p, g)
       PROVE  Heard(p, g)' \/ g \in lost'
  <2>1. g # m.guard
    BY <1>6, <1>10, <1>11
  <2>2. QED
    BY <1>1, <1>8, <1>9, <1>11, <2>1 DEF Heard
<1>12. WordKept
  BY <1>1, <1>7, <1>11, WordOfOne
<1>13. QED
  BY <1>1, <1>2, <1>12, LostByHistories DEF TypeOK

LEMMA WordAnswered ==
  ASSUME IInv, NEW p \in Players, NEW a \in Actions, Answer(p, a)
  PROVE  WordKept /\ LostKept
<1> DEFINE g == dialogue[p].guard
           m == [action |-> a, guard |-> g, cell |-> guard[g].cell,
                 generation |-> guard[g].generation, revision |-> known[p].revision,
                 agreed |-> known[p].bounty]
<1>1. /\ answers' = [answers EXCEPT ![p] = Append(@, m)]
      /\ dialogue' = [dialogue EXCEPT ![p].stage = "answered"]
      /\ dialogue[p].stage \in {"talk", "offer"} /\ UNCHANGED <<prompted, guard, lost>>
  BY DEF Answer, serverVars
<1>2. TypeOK
  BY DEF IInv, Hypotheses
<1>3. g \in Guards
  BY <1>1, <1>2 DEF TypeOK, Dialogues, NoDialogue
<1>4. m \in Requests
  <2>1. guard[g].cell \in Cells /\ guard[g].generation \in Nat
    BY <1>2, <1>3, RecordFields DEF TypeOK
  <2>2. known[p].revision \in Nat /\ known[p].bounty \in Nat
    BY <1>2 DEF TypeOK, CrimeState
  <2>3. QED
    BY <1>3, <2>1, <2>2 DEF Requests
<1>5. m.guard = g
  OBVIOUS
<1> HIDE DEF m
<1>6. /\ answers'[p] = Append(answers[p], m)
      /\ \A q \in Players \ {p} : answers'[q] = answers[q] /\ dialogue'[q] = dialogue[q]
  BY <1>1, <1>2 DEF TypeOK
<1>7. Range(answers'[p]) = Range(answers[p]) \cup {m}
  BY <1>2, <1>4, <1>6, RangeAppend DEF TypeOK
<1>8. ASSUME NEW h \in Guards, Heard(p, h) PROVE Heard(p, h)'
  BY <1>1, <1>5, <1>7, <1>8 DEF Heard
<1>9. WordKept
  BY <1>1, <1>6, <1>8, WordOfOne
<1>10. QED
  BY <1>1, <1>9 DEF LostKept

\* A dialogue that is no choice comes, and may go.
LEMMA WordTalked ==
  ASSUME TypeOK, NEW p \in Players, NEW g \in Guards, Talk(p, g)
  PROVE  WordKept /\ LostKept
<1>1. /\ dialogue' = [dialogue EXCEPT ![p] = [guard |-> g, stage |-> "talk"]]
      /\ dialogue[p] = NoDialogue /\ UNCHANGED <<prompted, answers, lost>>
  BY DEF Talk, netVars
<1>2. \A q \in Players \ {p} : dialogue'[q] = dialogue[q]
  BY <1>1 DEF TypeOK
<1>3. ASSUME NEW h \in Guards, Heard(p, h) PROVE Heard(p, h)'
  BY <1>1, <1>3 DEF Heard, NoDialogue
<1>4. WordKept
  BY <1>1, <1>2, <1>3, WordOfOne
<1>5. QED
  BY <1>1, <1>4 DEF LostKept

LEMMA WordClosed ==
  ASSUME TypeOK, NEW p \in Players, Close(p)
  PROVE  WordKept /\ LostKept
<1> DEFINE L == IF dialogue[p].stage = "offer" THEN {dialogue[p].guard} ELSE {}
<1>1. /\ dialogue' = [dialogue EXCEPT ![p] = NoDialogue]
      /\ UNCHANGED <<prompted, answers>> /\ Histories(L, {})
  BY DEF Close, netVars
<1>2. \A q \in Players \ {p} : dialogue'[q] = dialogue[q]
  BY <1>1 DEF TypeOK
<1>3. \A g \in Guards : dialogue[p] = [guard |-> g, stage |-> "offer"] => g \in L
  OBVIOUS
<1> HIDE DEF L
<1>4. ASSUME NEW g \in Guards, guard'[g].state = "ArrestPending", Heard(p, g)
      PROVE  Heard(p, g)' \/ g \in lost'
  <2>1. CASE g \in L
    BY <1>1, <1>4, <2>1, LostByHistories DEF TypeOK
  <2>2. CASE g \notin L
    BY <1>1, <1>3, <1>4, <2>2 DEF Heard
  <2>3. QED
    BY <2>1, <2>2
<1>5. WordKept
  BY <1>1, <1>2, <1>4, WordOfOne
<1>6. QED
  BY <1>1, <1>5, LostByHistories DEF TypeOK

LEMMA WordShown ==
  ASSUME TypeOK, NEW p \in Players, NEW near \in BOOLEAN, ReceivePrompt(p, near)
  PROVE  WordKept /\ LostKept
<1> DEFINE m == Head(prompted[p])
           shown == /\ near /\ known[p].bounty > 0 /\ dialogue[p] = NoDialogue
                    /\ guard[m.guard].cell = m.cell
                    /\ guard[m.guard].generation = m.generation
           L == IF shown THEN {} ELSE {m.guard}
<1>1. /\ prompted[p] # <<>> /\ prompted' = [prompted EXCEPT ![p] = Tail(@)]
      /\ dialogue' = IF shown THEN [dialogue EXCEPT ![p] = [guard |-> m.guard, stage |-> "offer"]]
                     ELSE dialogue
      /\ UNCHANGED answers /\ Histories(L, {})
  BY DEF ReceivePrompt
<1>2. shown => dialogue[p] = NoDialogue
  OBVIOUS
<1>3. ~shown => L = {m.guard}
  OBVIOUS
<1> HIDE DEF m, shown, L
<1>4. /\ prompted'[p] = Tail(prompted[p])
      /\ shown => dialogue'[p] = [guard |-> m.guard, stage |-> "offer"]
      /\ ~shown => dialogue'[p] = dialogue[p]
      /\ \A q \in Players \ {p} : prompted'[q] = prompted[q] /\ dialogue'[q] = dialogue[q]
  BY <1>1 DEF TypeOK
<1>5. Range(prompted[p]) \subseteq Range(prompted'[p]) \cup {m}
  BY <1>1, <1>4, RangeHeadTail DEF TypeOK, m
<1>6. ASSUME NEW g \in Guards, guard'[g].state = "ArrestPending", Heard(p, g)
      PROVE  Heard(p, g)' \/ g \in lost'
  <2>1. CASE g = m.guard /\ shown
    BY <1>4, <2>1 DEF Heard
  <2>2. CASE g = m.guard /\ ~shown
    <3>1. g \in L
      BY <1>3, <2>2
    <3>2. QED
      BY <1>1, <1>6, <3>1, LostByHistories DEF TypeOK
  <2>3. CASE g # m.guard
    <3>1. dialogue[p] = [guard |-> g, stage |-> "offer"] => dialogue'[p] = dialogue[p]
      BY <1>2, <1>4 DEF NoDialogue
    <3>2. QED
      BY <1>1, <1>5, <1>6, <2>3, <3>1 DEF Heard
  <2>4. QED
    BY <2>1, <2>2, <2>3
<1>7. WordKept
  BY <1>1, <1>4, <1>6, WordOfOne
<1>8. QED
  BY <1>1, <1>7, LostByHistories DEF TypeOK

LEMMA WordFinished ==
  ASSUME TypeOK, NEW p \in Players, ReceiveResult(p)
  PROVE  WordKept /\ LostKept
<1> DEFINE L == IF dialogue[p].stage = "offer" THEN {dialogue[p].guard} ELSE {}
           m == Head(prompted[p])
<1>1. /\ prompted[p] # <<>> /\ m.type = "result" /\ prompted' = [prompted EXCEPT ![p] = Tail(@)]
      /\ dialogue' = [dialogue EXCEPT ![p] = NoDialogue]
      /\ UNCHANGED answers /\ Histories(L, {})
  BY DEF ReceiveResult
<1>2. /\ prompted'[p] = Tail(prompted[p])
      /\ \A q \in Players \ {p} : prompted'[q] = prompted[q] /\ dialogue'[q] = dialogue[q]
  BY <1>1 DEF TypeOK
<1>3. \A g \in Guards : dialogue[p] = [guard |-> g, stage |-> "offer"] => g \in L
  OBVIOUS
<1>4. Range(prompted[p]) \subseteq Range(prompted'[p]) \cup {m}
  BY <1>1, <1>2, RangeHeadTail DEF TypeOK
<1> HIDE DEF L, m
<1>5. ASSUME NEW g \in Guards, guard'[g].state = "ArrestPending", Heard(p, g)
      PROVE  Heard(p, g)' \/ g \in lost'
  <2>1. CASE g \in L
    BY <1>1, <1>5, <2>1, LostByHistories DEF TypeOK
  <2>2. CASE g \notin L
    BY <1>1, <1>3, <1>4, <1>5, <2>2 DEF Heard
  <2>3. QED
    BY <2>1, <2>2
<1>6. WordKept
  BY <1>1, <1>2, <1>5, WordOfOne
<1>7. QED
  BY <1>1, <1>6, LostByHistories DEF TypeOK

LEMMA WordLeft ==
  ASSUME TypeOK, NEW p \in Players, NEW handed, Leave(p, handed)
  PROVE  WordKept /\ LostKept
<1>1. /\ Histories(Engaged(p, "ArrestPending"), {})
      /\ dialogue' = [dialogue EXCEPT ![p] = NoDialogue]
      /\ prompted' = [prompted EXCEPT ![p] = <<>>] /\ answers' = [answers EXCEPT ![p] = <<>>]
  BY DEF Leave
<1>2. \A q \in Players \ {p} : /\ dialogue'[q] = dialogue[q] /\ prompted'[q] = prompted[q]
                               /\ answers'[q] = answers[q]
  BY <1>1 DEF TypeOK
<1>3. ASSUME NEW g \in Guards, guard[g].state = "ArrestPending", guard[g].suspect = p,
             guard'[g].state = "ArrestPending"
      PROVE  g \in lost'
  <2>1. g \in Engaged(p, "ArrestPending")
    BY <1>3 DEF Engaged
  <2>2. QED
    BY <1>1, <1>3, <2>1, LostByHistories DEF TypeOK
<1>4. WordKept
  BY <1>2, <1>3, WordOfOne
<1>5. QED
  BY <1>1, <1>4, LostByHistories DEF TypeOK

LEMMA PlayerWord ==
  ASSUME IInv, IInv', NEW p \in Players, PlayerStep(p)
  PROVE  WordKept /\ LostKept
<1>1. TypeOK
  BY DEF IInv, Hypotheses
<1>2. CASE \/ \E d \in {0, 1}, W \in SUBSET Guards : Crime(p, d, W)
           \/ \E b \in 0 .. MaxBounty : SetBounty(p, b)
           \/ \E W \in SUBSET Guards : Observe(p, W)
           \/ \E c \in Cells, handed \in SUBSET (Stale \cap {body[p].cell}), continuous \in BOOLEAN :
                ChangeCell(p, c, continuous, handed)
           \/ \E c \in Cells, handed \in {{}, Stale} : Teleport(p, c, handed)
           \/ Die(p)
  <2>1. UNCHANGED <<dialogue, prompted, answers>> /\ Histories({}, {})
    BY <1>2 DEF Crime, SetBounty, Observe, ChangeCell, Teleport, Die, clientVars, netVars
  <2>2. QED
    BY <1>1, <2>1, WordSame, LostByHistories DEF TypeOK
<1>3. CASE Resurrect(p) \/ Enter(p)
  <2>1. UNCHANGED <<dialogue, prompted, answers, lost>>
    BY <1>3 DEF Resurrect, Enter, clientVars, netVars
  <2>2. QED
    BY <2>1, WordSame DEF LostKept
<1>4. CASE ReceiveState(p)
  <2>1. UNCHANGED <<dialogue, prompted, answers, lost>>
    BY <1>4 DEF ReceiveState
  <2>2. QED
    BY <2>1, WordSame DEF LostKept
<1>5. CASE Refuse(p) \/ Accept(p)
  BY <1>1, <1>5, WordRefused, WordAccepted
<1>6. CASE \E handed \in {{}, Stale} : Leave(p, handed)
  BY <1>1, <1>6, WordLeft
<1>7. CASE \E a \in Actions : Answer(p, a)
  BY <1>7, WordAnswered
<1>8. CASE Close(p) \/ ReceiveResult(p)
  BY <1>1, <1>8, WordClosed, WordFinished
<1>9. CASE \E near \in BOOLEAN : ReceivePrompt(p, near)
  BY <1>1, <1>9, WordShown
<1>10. QED
  BY <1>2, <1>3, <1>4, <1>5, <1>6, <1>7, <1>8, <1>9 DEF PlayerStep

LEMMA EveryWord ==
  ASSUME IInv, IInv', [Next]_vars
  PROVE  WordKept /\ LostKept /\ \A p \in Players, g \in Guards : Reach(p, g) => Heard(p, g)'
<1>1. TypeOK
  BY DEF IInv, Hypotheses
<1>2. \A p \in Players, g \in Guards : Reach(p, g) => Heard(p, g)'
  BY <1>1, WordGiven
<1>3. CASE \E p \in Players : PlayerStep(p)
  BY <1>2, <1>3, PlayerWord
<1>4. CASE \E p \in Players, g \in Guards : Reach(p, g) \/ Talk(p, g)
  BY <1>1, <1>2, <1>4, WordGiven, WordTalked
<1>5. CASE \/ \E c \in Stale, P \in {Players} \cup {{p} : p \in Players} : Reissue({c}, P)
           \/ \E c \in Cells : Reset(c)
  <2>1. UNCHANGED <<dialogue, prompted, answers>> /\ Histories({}, {})
    BY <1>5 DEF Reissue, Reset, clientVars, netVars
  <2>2. QED
    BY <1>1, <1>2, <2>1, WordSame, LostByHistories DEF TypeOK
<1>6. CASE \E g \in Guards, c \in Cells : Migrate(g, c)
  <2>1. UNCHANGED <<dialogue, prompted, answers>> /\ \E M : Histories({}, M)
    BY <1>6 DEF Migrate, clientVars, netVars
  <2>2. QED
    BY <1>1, <1>2, <2>1, WordSame, LostByHistories DEF TypeOK
<1>7. CASE UNCHANGED vars
  <2>1. UNCHANGED <<dialogue, prompted, answers, lost>>
    BY <1>7 DEF vars, clientVars, netVars
  <2>2. QED
    BY <1>2, <2>1, WordSame DEF LostKept
<1>8. QED
  BY <1>3, <1>4, <1>5, <1>6, <1>7 DEF Next

LEMMA StandingStep ==
  ASSUME IInv, OfferStands, [Next]_vars
  PROVE  OfferStands'
<1>1. IInv' /\ Offers
  BY Step DEF Goal
<1>2. WordKept /\ LostKept /\ \A p \in Players, g \in Guards : Reach(p, g) => Heard(p, g)'
  BY <1>1, EveryWord
<1>3. ASSUME NEW g \in Guards, NEW p, g \notin lost', guard'[g].state = "ArrestPending",
             guard'[g].suspect = p
      PROVE  Heard(p, g)'
  <2>1. CASE guard[g].state = "ArrestPending" /\ guard[g].suspect = p
    <3>1. g \notin lost
      BY <1>2, <1>3 DEF LostKept
    <3>2. Heard(p, g)
      BY <2>1, <3>1 DEF OfferStands
    <3>3. p \in Players
      BY <2>1, GuardFacts DEF IInv
    <3>4. QED
      BY <1>2, <1>3, <2>1, <3>2, <3>3 DEF WordKept
  <2>2. CASE \E q \in Players : Reach(q, g)
    <3>1. PICK q \in Players : Reach(q, g)
      BY <2>2
    <3>2. Heard(q, g)' /\ guard'[g].suspect = q
      BY <1>2, <3>1, ReachLawful DEF IInv
    <3>3. QED
      BY <1>3, <3>2
  <2>3. QED
    BY <1>1, <1>3, <2>1, <2>2 DEF Offers
<1>4. QED
  BY <1>3 DEF OfferStands, Heard

-----------------------------------------------------------------------------
(* Theorems *)

\* Every variable stays within its type.
THEOREM TypesHold == Spec => []TypeOK
<1>1. IInv => TypeOK
  BY DEF IInv, Hypotheses
<1>2. QED
  BY <1>1, Invariance, PTL

\* A bounty that is paid, served or forgiven ends every pursuit in the step
\* that commits it, in whatever cell the guards are.
THEOREM PursuitsHaveCause == Spec => []NoPursuitWithoutCause
<1>1. IInv => NoPursuitWithoutCause
  BY DEF IInv, Hypotheses
<1>2. QED
  BY <1>1, Invariance, PTL

\* Guards of one cell take turns with a player, however many there are.
THEOREM OneOfferAtATime == Spec => []OneOffer
<1>1. IInv => OneOffer
  BY DEF IInv
<1>2. QED
  BY <1>1, Invariance, PTL

\* Whatever order the two lanes deliver in, a client ends up with the crime
\* state of the server, and never has to tell two states of one revision apart.
THEOREM ClientsCatchUp == Spec => []ClientCatchesUp
<1>1. IInv => ClientCatchesUp
  <2> SUFFICES ASSUME IInv, NEW p \in Players, body[p].online
               PROVE  /\ told[p] = <<>> /\ prompted[p] = <<>> => known[p] = crime[p]
                      /\ \A s \in Range(told[p]) \cup
                                  {m.crime : m \in {n \in Range(prompted[p]) : n.type = "result"}} :
                           s.revision = known[p].revision => s = known[p]
    BY DEF ClientCatchesUp
  <2>1. Account(crime[p], known[p], told[p], prompted[p], answers[p], body[p].online)
    BY DEF IInv, Honestly
  <2>2. told[p] = <<>> => known[p] = crime[p]
    BY <2>1 DEF Account
  <2>3. \A x, y \in Copies(known[p], told[p], prompted[p]) : x.revision = y.revision => x = y
    BY <2>1 DEF Account
  <2>4. QED
    BY <2>2, <2>3 DEF Copies
<1>2. QED
  BY <1>1, Invariance, PTL

\* No offer is forgotten on the way: whatever happens, a guard that waits is
\* waiting for something, or one of the recorded accidents has happened.
THEOREM OffersStand == Spec => []OfferStands
<1>1. Init => OfferStands
  <2> SUFFICES ASSUME Init, NEW g \in Guards PROVE guard[g].state = "None"
    BY DEF OfferStands
  <2>1. QED
    BY DEF Init
<1>2. IInv /\ OfferStands /\ [Next]_vars => OfferStands'
  BY StandingStep
<1>3. QED
  BY <1>1, <1>2, Invariance, PTL DEF Spec

\* Nobody pays, or goes to jail, for a bounty that was not on the screen.
THEOREM FinesAreFair == Spec => FairFine
<1>1. IInv /\ [Next]_vars => Fair
  BY Step DEF Goal
<1>2. Fair => \A p \in Players :
                LET m == Head(answers[p]) IN
                answers[p] # <<>> /\ answers'[p] = Tail(answers[p]) /\ crime'[p] # crime[p]
                  => m.agreed = crime[p].bounty
  BY DEF Fair
<1>3. QED
  BY <1>1, <1>2, Invariance, PTL DEF Spec, FairFine

\* A fight ends with a cause: no order of crimes, answers, journeys, deaths
\* and sessions turns it back into an offer, or lets the offender go.
THEOREM ResistanceIsFinal == Spec => ResistIsFinal
<1>1. IInv /\ [Next]_vars => \A g \in Guards : Fights(g)
  BY Step DEF Goal
<1>2. (\A g \in Guards : Fights(g)) =>
        \A g \in Guards :
          LET r == guard[g]
              s == guard'[g]
          IN r.state = "Combat" =>
               \/ s.suspect = r.suspect /\ s.state = "Combat"
               \/ s.suspect \in Players \ {r.suspect}
               \/ s.suspect = Nobody /\ ( \/ crime'[r.suspect].bounty = 0
                                          \/ ~body'[r.suspect].alive
                                          \/ s.generation # r.generation )
  BY DEF Fights
<1>3. QED
  BY <1>1, <1>2, Invariance, PTL DEF Spec, ResistIsFinal
=============================================================================
