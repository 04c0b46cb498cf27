---------------------------- MODULE GuardArrest -----------------------------
(***************************************************************************)
(* Bounties, and guards that pursue, arrest and fight for them.  The       *)
(* server keeps the crime state of each character under a revision, and    *)
(* with each guard whom it is after and how far that has gone.  The client *)
(* that simulates a guard reports that it has reached the offender; the    *)
(* server sends the offender a prompt, and judges the answer.              *)
(*                                                                         *)
(*   apps/openmw-server/Server.cpp   handleGuardArrest,                    *)
(*       dispatchCrimeReactions, dispatchOutstandingCrimePursuitsForCell,  *)
(*       suspendOutstandingCrimePursuitsForCharacterInCell,                *)
(*       clearOutstandingCrimePursuitsForCharacter,                        *)
(*       evaluateGuardCrimeEnforcement, sendAuthoritativeCrimeState        *)
(*   apps/openmw/mwmp/Main.cpp       requestGuardArrest,                   *)
(*       receiveGuardArrestPrompt, finishGuardArrest                       *)
(*                                                                         *)
(* Guards are alive, and every cell a player is in has an authority        *)
(* (ActorAuthority).  Whether distances, snapshots, gold, inventories and  *)
(* evidence allow an answer is either outcome, and so is whether a guard   *)
(* is busy.  A client knows where guards are; its answer may arrive after  *)
(* they have moved.                                                        *)
(***************************************************************************)
EXTENDS Integers, SequencesExt

CONSTANTS
  Players, Guards, Cells,
  Nobody,
  ArrestFrom,   \* iCrimeThreshold
  CombatFrom,   \* iCrimeThreshold * iCrimeThresholdMultiplier
  MaxBounty,    \* bound: no crime beyond it
  MaxCommits,   \* bound: changes of crime states
  MaxMoves,     \* bound: changes of generation of guards
  MaxPackets    \* bound: packets of a player before a step that sends some

ASSUME ActorAssumption == Nobody \notin Players /\ Nobody \notin Guards
ASSUME BountyAssumption ==
  ArrestFrom \in Nat \ {0} /\ CombatFrom \in Nat /\ ArrestFrom <= CombatFrom
ASSUME BoundAssumption ==
  MaxBounty \in Nat /\ MaxCommits \in Nat /\ MaxMoves \in Nat /\ MaxPackets \in Nat

VARIABLES
  crime,      \* PlayerCrimeState of each character
  body,       \* ConnectedClient: where, charSelectComplete, not isDead
  guard,      \* ActorRegistryRecord of each guard.  current: its
              \* crimePursuitLastGuid is that of the suspect's session
  known,      \* crime state of the client
  dialogue,   \* GM_Dialogue of the client, and what it has come to
  told,       \* PlayerBounty packets for the client (lane 1)
  prompted,   \* GuardArrest packets for the client (lane 0)
  answers,    \* GuardArrest requests of the client
  lost,       \* history: guards whose offer was refused, or is not shown
  moved       \* history: guards that have changed cell with an offer open

serverVars == <<crime, body, guard>>
clientVars == <<known, dialogue>>
netVars    == <<told, prompted, answers>>
vars == <<serverVars, clientVars, netVars, lost, moved>>

CrimeState == [bounty : Nat, revision : Nat]
NoState == [bounty |-> 0, revision |-> 0]
Body == [cell : Cells, online : BOOLEAN, alive : BOOLEAN]
Enforcement == {"None", "Arrest", "ArrestPending", "Combat"}
Record == [suspect : Players \cup {Nobody}, state : Enforcement, current : BOOLEAN,
           cell : Cells, generation : Nat]
Actions == {"Submit", "Resist"}   \* Submit: PayFine or Surrender
Reaches == [type : {"prompt"}, guard : Guards, cell : Cells, generation : Nat]
Results == [type : {"result"}, crime : CrimeState]
\* agreed: the bounty the player has seen (history).
Requests == [action : Actions, guard : Guards, cell : Cells, generation : Nat,
             revision : Nat, agreed : Nat]
NoDialogue == [guard |-> Nobody, stage |-> "none"]
Dialogues == {NoDialogue} \cup [guard : Guards, stage : {"talk", "offer", "answered"}]

TypeOK ==
  /\ crime \in [Players -> CrimeState] /\ body \in [Players -> Body]
  /\ guard \in [Guards -> Record]
  /\ \A g \in Guards : guard[g].suspect = Nobody <=> guard[g].state = "None"
  /\ known \in [Players -> CrimeState] /\ dialogue \in [Players -> Dialogues]
  /\ told \in [Players -> Seq(CrimeState)] /\ prompted \in [Players -> Seq(Reaches \cup Results)]
  /\ answers \in [Players -> Seq(Requests)]
  /\ lost \subseteq Guards /\ moved \subseteq Guards

Init ==
  /\ crime = [p \in Players |-> NoState]
  /\ body \in [Players -> [cell : Cells, online : {TRUE}, alive : {TRUE}]]
  /\ guard \in [Guards -> [suspect : {Nobody}, state : {"None"}, current : {FALSE},
                           cell : Cells, generation : {0}]]
  /\ known = crime
  /\ dialogue = [p \in Players |-> NoDialogue]
  /\ told = [p \in Players |-> <<>>] /\ prompted = [p \in Players |-> <<>>]
  /\ answers = [p \in Players |-> <<>>]
  /\ lost = {} /\ moved = {}

-----------------------------------------------------------------------------
(* Guards *)

Room(p) == Len(told[p]) + Len(prompted[p]) + Len(answers[p]) <= MaxPackets
MayMove == SumFunction([g \in Guards |-> guard[g].generation]) < MaxMoves

After(r, p, s) == [r EXCEPT !.suspect = p, !.state = s, !.current = TRUE]
FreeStateOnly(r) == [r EXCEPT !.state = "None", !.current = FALSE]
Free(r) == [r EXCEPT !.suspect = Nobody, !.state = "None", !.current = FALSE]

Engaged(p, s) == {g \in Guards : guard[g].suspect = p /\ guard[g].state = s}
In(c) == {g \in Guards : guard[g].cell = c}

\* Guards that deal with p already; others of the cell leave it to them.
HeldByFighters(p, c) == In(c) \cap Engaged(p, "Combat")
Held(p, c) == In(c) \cap (Engaged(p, "ArrestPending") \cup Engaged(p, "Combat"))

\* Guards of G, after p has been cleared.
ClearedHere(G, p) ==
  [g \in Guards |-> IF G[g].suspect = p /\ G[g].cell = body[p].cell THEN Free(G[g]) ELSE G[g]]
Cleared(G, p) == [g \in Guards |-> IF G[g].suspect = p THEN Free(G[g]) ELSE G[g]]

\* An offer that p walks out on is resisted.
Suspended(G, p, c) ==
  [g \in Guards |->
     IF G[g].suspect = p /\ G[g].cell = c /\ G[g].state = "ArrestPending"
     THEN [G[g] EXCEPT !.state = "Combat"] ELSE G[g]]

\* Guards in cells C are sent after those of P again, who may have come back
\* under another guid; one that fights a player holds the others back.
Reissued(G, C, P, bodies) ==
  [g \in Guards |->
     LET p == G[g].suspect
         hostile == \E h \in Guards : /\ G[h].suspect = p /\ G[h].cell = G[g].cell
                                      /\ G[h].state = "Combat"
     IN IF /\ G[g].cell \in C /\ p \in P
           /\ G[g].state = "Combat" \/ (G[g].state = "Arrest" /\ ~hostile)
           /\ bodies[p].online /\ bodies[p].alive /\ bodies[p].cell = G[g].cell
           /\ crime[p].bounty > 0
        THEN [G[g] EXCEPT !.current = TRUE] ELSE G[g]]

\* The histories speak of open offers only.
Histories(L, M) ==
  LET open == {g \in Guards : guard'[g].state = "ArrestPending"} IN
  /\ lost' = (lost \cup L) \cap open
  /\ moved' = (moved \cup M) \cap open

-----------------------------------------------------------------------------
(* Crime states *)

Commit(p, b) == crime' = [crime EXCEPT ![p] = [bounty |-> b, revision |-> @.revision + 1]]
MayCommit == SumFunction([p \in Players |-> crime[p].revision]) < MaxCommits

\* The packet, and what it does to guards of G.
Told(p) == told' = [told EXCEPT ![p] = Append(@, crime'[p])]
Settled(G, p) == IF crime'[p].bounty <= 0 THEN Cleared(G, p) ELSE G

\* A guard that is after p already goes on as it does.
ContinuesArrest(r, p) == r.suspect = p /\ r.state \in {"Arrest", "ArrestPending"}
Continues(r, p) == r.suspect = p /\ r.state # "None"

\* One crime; W are the guards who report it.
Crime(p, d, W) ==
  LET reacting == [g \in Guards |->
        IF g \in W THEN After(guard[g], p, IF Continues(guard[g], p) THEN guard[g].state ELSE "Arrest")
        ELSE guard[g]]
  IN /\ body[p].online /\ body[p].alive /\ MayCommit /\ Room(p)
     /\ crime[p].bounty + d <= MaxBounty
     /\ W # {} => d > 0
     /\ Commit(p, crime[p].bounty + d)
     /\ Told(p)
     /\ guard' = Settled(reacting, p)
     /\ Histories({}, {})
     /\ UNCHANGED <<body, clientVars, prompted, answers>>

\* A script of the server, or a proposal of a client's script that is
\* accepted.
SetBounty(p, b) ==
  /\ body[p].online /\ MayCommit /\ Room(p)
  /\ Commit(p, b)
  /\ Told(p)
  /\ guard' = Settled(guard, p)
  /\ Histories({}, {})
  /\ UNCHANGED <<body, clientVars, prompted, answers>>

\* Idle guards of W see a wanted player.
Observe(p, W) ==
  /\ body[p].online /\ body[p].alive /\ crime[p].bounty >= ArrestFrom
  /\ W # {} /\ \A g \in W : guard[g].suspect = Nobody
  /\ guard' = [g \in Guards |->
       IF g \notin W THEN guard[g]
       ELSE After(guard[g], p, IF crime[p].bounty >= CombatFrom THEN "Combat" ELSE "Arrest")]
  /\ Histories({}, {})
  /\ UNCHANGED <<crime, body, clientVars, netVars>>

-----------------------------------------------------------------------------
(* Arrests *)

\* handleGuardArrest, Reach: from a client that simulates g and is not p.
Reach(p, g) ==
  LET r == guard[g] IN
  /\ \E q \in Players \ {p} : body[q].online
  /\ body[p].online /\ body[p].alive /\ body[p].cell = r.cell /\ crime[p].bounty > 0
  /\ r.suspect = p /\ r.current /\ r.state = "Arrest"
  /\ Held(p, r.cell) = {}
  /\ Room(p)
  /\ guard' = [guard EXCEPT ![g].state = "ArrestPending"]
  /\ prompted' = [prompted EXCEPT ![p] = Append(@,
       [type |-> "prompt", guard |-> g, cell |-> r.cell, generation |-> r.generation])]
  /\ Histories({}, {})
  /\ UNCHANGED <<crime, body, clientVars, told, answers>>

\* What an answer is refused for, distance and possessions aside.
ValidAnyRevision(p, m) ==
  LET r == guard[m.guard] IN
  /\ m.cell = body[p].cell /\ body[p].alive
  /\ crime[p].bounty > 0
  /\ r.cell = m.cell /\ r.generation = m.generation
  /\ r.suspect \in {p, Nobody}
  /\ r.suspect = p => r.state # "Combat"
Valid(p, m) ==
  LET r == guard[m.guard] IN
  /\ m.cell = body[p].cell /\ body[p].alive
  /\ m.revision = crime[p].revision /\ crime[p].bounty > 0
  /\ r.cell = m.cell /\ r.generation = m.generation
  /\ r.suspect \in {p, Nobody}
  /\ r.suspect = p => r.state # "Combat"

\* handleGuardArrest, Request: refused.  The guard keeps waiting.
Refuse(p) ==
  /\ answers[p] # <<>>
  /\ prompted' = [prompted EXCEPT ![p] = Append(@, [type |-> "result", crime |-> crime[p]])]
  /\ answers' = [answers EXCEPT ![p] = Tail(@)]
  /\ UNCHANGED <<serverVars, clientVars, told>>
  /\ Histories({Head(answers[p]).guard} \cap Engaged(p, "ArrestPending"), {})

\* A guard whose arrest is resisted fights.
ResistedIdle(r, p) == IF r.suspect = p THEN r ELSE After(r, p, "Combat")
Resisted(r, p) == After(r, p, "Combat")

\* Accepted, and near enough, with what it takes to pay or to go to jail.
Accept(p) ==
  LET m == Head(answers[p]) IN
  /\ answers[p] # <<>> /\ Valid(p, m)
  /\ \/ /\ m.action = "Resist"
        /\ UNCHANGED crime
        /\ guard' = [guard EXCEPT ![m.guard] = Resisted(@, p)]
     \/ /\ m.action # "Resist"
        /\ Commit(p, 0)
        /\ guard' = Settled(guard, p)
  /\ Told(p)
  /\ prompted' = [prompted EXCEPT ![p] = Append(@, [type |-> "result", crime |-> crime'[p]])]
  /\ answers' = [answers EXCEPT ![p] = Tail(@)]
  /\ Histories({}, {})
  /\ UNCHANGED <<body, clientVars>>

-----------------------------------------------------------------------------
(* Players and guards come and go.  handed: cells that get another authority *)
(* in the same handler, which is sent what guards were doing.  When some do  *)
(* and others do not, a Reissue follows.                                     *)

\* handlePlayerCellChange
ChangeCell(p, c, continuous, handed) ==
  LET old == body[p].cell
      bodies == [body EXCEPT ![p].cell = c]
      kept == Reissued(guard, handed, Players, bodies)
      left == IF continuous THEN kept ELSE Suspended(kept, p, old)
  IN /\ body[p].online /\ c # old /\ handed \subseteq {old}
     /\ body' = bodies
     /\ guard' = Reissued(left, {c}, {p}, bodies)
     /\ Histories({}, {})
     /\ UNCHANGED <<crime, clientVars, netVars>>

\* teleportPlayer, by a script: nothing is suspended.
Teleport(p, c, handed) ==
  /\ body[p].online /\ c # body[p].cell
  /\ body' = [body EXCEPT ![p].cell = c]
  /\ guard' = Reissued(guard, handed, Players, body')
  /\ Histories({}, {})
  /\ UNCHANGED <<crime, clientVars, netVars>>

\* handlePlayerLoadedCells, or ActorAI of a guard that gave up: of p, or of
\* all in cells that change hands.
Reissue(C, P) ==
  /\ guard' = Reissued(guard, C, P, body)
  /\ Histories({}, {})
  /\ UNCHANGED <<crime, body, clientVars, netVars>>

\* handlePlayerDeath, handlePlayerResurrect
Die(p) ==
  /\ body[p].online /\ body[p].alive
  /\ body' = [body EXCEPT ![p].alive = FALSE]
  /\ guard' = Cleared(guard, p)
  /\ Histories({}, {})
  /\ UNCHANGED <<crime, clientVars, netVars>>

Resurrect(p) ==
  /\ body[p].online /\ ~body[p].alive
  /\ body' = [body EXCEPT ![p].alive = TRUE]
  /\ UNCHANGED <<crime, guard, clientVars, netVars, lost, moved>>

\* The session ends, on both sides.  Guards keep the character in mind.
Leave(p, handed) ==
  LET bodies == [body EXCEPT ![p].online = FALSE]
      gone == [g \in Guards |->
                 IF guard[g].suspect = p THEN [guard[g] EXCEPT !.current = FALSE] ELSE guard[g]]
  IN /\ body[p].online
     /\ body' = bodies
     /\ guard' = Reissued(gone, handed, Players, bodies)
     /\ dialogue' = [dialogue EXCEPT ![p] = NoDialogue]
     /\ told' = [told EXCEPT ![p] = <<>>] /\ prompted' = [prompted EXCEPT ![p] = <<>>]
     /\ answers' = [answers EXCEPT ![p] = <<>>]
     /\ Histories(Engaged(p, "ArrestPending"), {})
     /\ known' = [known EXCEPT ![p] = NoState]
     /\ UNCHANGED crime

\* A new session; its client enters the world with the crime state (Joining).
Enter(p) ==
  /\ ~body[p].online
  /\ body' = [body EXCEPT ![p].online = TRUE, ![p].alive = TRUE]
  /\ known' = [known EXCEPT ![p] = crime[p]]
  /\ UNCHANGED <<crime, guard, dialogue, netVars, lost, moved>>

\* handleActorCellChange
Migrate(g, c) ==
  /\ c # guard[g].cell /\ MayMove
  /\ \E p \in Players : body[p].online
  /\ guard' = [guard EXCEPT ![g].cell = c, ![g].generation = @ + 1]
  /\ Histories({}, {g})
  /\ UNCHANGED <<crime, body, clientVars, netVars>>

\* resetCellStatesForTesting: its actors are forgotten, and registered anew.
Reset(c) ==
  /\ In(c) # {} => MayMove
  /\ guard' = [g \in Guards |->
       IF g \in In(c) THEN [Free(guard[g]) EXCEPT !.generation = @ + 1] ELSE guard[g]]
  /\ Histories({}, {})
  /\ UNCHANGED <<crime, body, clientVars, netVars>>

-----------------------------------------------------------------------------
(* The client *)

\* RevisionedStateGate::receive
NewerAny(s, t) == t
Newer(s, t) == IF t.revision > s.revision THEN t ELSE s

\* The player talks to a guard, or is caught by one the client simulates.
Talk(p, g) ==
  /\ body[p].online /\ body[p].alive /\ body[p].cell = guard[g].cell
  /\ dialogue[p] = NoDialogue
  /\ dialogue' = [dialogue EXCEPT ![p] = [guard |-> g, stage |-> "talk"]]
  /\ UNCHANGED <<serverVars, known, netVars, lost, moved>>

\* requestGuardArrest
Answer(p, a) ==
  LET g == dialogue[p].guard IN
  /\ dialogue[p].stage \in {"talk", "offer"}
  /\ known[p].bounty > 0
  /\ Room(p)
  /\ answers' = [answers EXCEPT ![p] = Append(@,
       [action |-> a, guard |-> g, cell |-> guard[g].cell, generation |-> guard[g].generation,
        revision |-> known[p].revision, agreed |-> known[p].bounty])]
  /\ dialogue' = [dialogue EXCEPT ![p].stage = "answered"]
  /\ UNCHANGED <<serverVars, known, told, prompted, lost, moved>>

\* The player cannot walk out on a choice, except for want of a bounty: the
\* answer then runs the script of the game, and ends the dialogue.
Close(p) ==
  /\ dialogue[p] # NoDialogue
  /\ dialogue[p].stage = "offer" => known[p].bounty = 0
  /\ dialogue' = [dialogue EXCEPT ![p] = NoDialogue]
  /\ UNCHANGED <<serverVars, known, netVars>>
  /\ Histories(IF dialogue[p].stage = "offer" THEN {dialogue[p].guard} ELSE {}, {})

\* A PlayerBounty packet.
ReceiveState(p) ==
  /\ told[p] # <<>>
  /\ known' = [known EXCEPT ![p] = Newer(@, Head(told[p]))]
  /\ told' = [told EXCEPT ![p] = Tail(@)]
  /\ UNCHANGED <<serverVars, dialogue, prompted, answers, lost, moved>>

\* receiveGuardArrestPrompt.  near: the client has the guard's cell loaded.
ReceivePrompt(p, near) ==
  LET m == Head(prompted[p])
      shown == /\ near /\ known[p].bounty > 0 /\ dialogue[p] = NoDialogue
               /\ guard[m.guard].cell = m.cell /\ guard[m.guard].generation = m.generation
  IN /\ prompted[p] # <<>> /\ m.type = "prompt"
     /\ body[p].cell = m.cell => near
     /\ dialogue' = IF shown THEN [dialogue EXCEPT ![p] = [guard |-> m.guard, stage |-> "offer"]]
                    ELSE dialogue
     /\ prompted' = [prompted EXCEPT ![p] = Tail(@)]
     /\ UNCHANGED <<serverVars, known, told, answers>>
     /\ Histories(IF shown THEN {} ELSE {m.guard}, {})

\* finishGuardArrest: whatever dialogue there is ends.
ReceiveResult(p) ==
  LET m == Head(prompted[p]) IN
  /\ prompted[p] # <<>> /\ m.type = "result"
  /\ known' = [known EXCEPT ![p] = Newer(@, m.crime)]
  /\ dialogue' = [dialogue EXCEPT ![p] = NoDialogue]
  /\ prompted' = [prompted EXCEPT ![p] = Tail(@)]
  /\ UNCHANGED <<serverVars, told, answers>>
  /\ Histories(IF dialogue[p].stage = "offer" THEN {dialogue[p].guard} ELSE {}, {})

-----------------------------------------------------------------------------
\* Where something is to be said when the authority changes.
Stale == {guard[g].cell : g \in {h \in Guards : guard[h].suspect # Nobody /\ ~guard[h].current}}

PlayerStep(p) ==
  \/ \E d \in {0, 1}, W \in SUBSET Guards : Crime(p, d, W)
  \/ \E b \in 0 .. MaxBounty : SetBounty(p, b)
  \/ \E W \in SUBSET Guards : Observe(p, W)
  \/ Refuse(p) \/ Accept(p)
  \/ \E c \in Cells, handed \in SUBSET (Stale \cap {body[p].cell}), continuous \in BOOLEAN :
       ChangeCell(p, c, continuous, handed)
  \/ \E c \in Cells, handed \in {{}, Stale} : Teleport(p, c, handed)
  \/ \E handed \in {{}, Stale} : Leave(p, handed)
  \/ Die(p) \/ Resurrect(p) \/ Enter(p)
  \/ \E a \in Actions : Answer(p, a)
  \/ Close(p) \/ ReceiveState(p) \/ ReceiveResult(p)
  \/ \E near \in BOOLEAN : ReceivePrompt(p, near)

Next ==
  \/ \E p \in Players : PlayerStep(p)
  \/ \E p \in Players, g \in Guards : Reach(p, g) \/ Talk(p, g)
  \/ \E c \in Stale, P \in {Players} \cup {{p} : p \in Players} : Reissue({c}, P)
  \/ \E g \in Guards, c \in Cells : Migrate(g, c)
  \/ \E c \in Cells : Reset(c)

Spec == Init /\ [][Next]_vars

-----------------------------------------------------------------------------
(* Properties *)

\* Whoever is pursued, is asked to pay, or is fought, has a bounty: paying,
\* jail and pardon end it in every cell, in the step that commits them.
NoPursuitWithoutCause ==
  \A g \in Guards : guard[g].suspect # Nobody => crime[guard[g].suspect].bounty > 0

\* A player has one open offer in a cell at most, unless a guard brought one
\* from another cell.
OneOffer ==
  \A p \in Players, c \in Cells :
    \A g, h \in (Engaged(p, "ArrestPending") \cap In(c)) \ moved : g = h

\* The prompt is on its way, the player has the choice on the screen, or the
\* answer is on its way.
Heard(p, g) ==
  \/ \E m \in Range(prompted[p]) : m.type = "prompt" /\ m.guard = g
  \/ dialogue[p] = [guard |-> g, stage |-> "offer"]
  \/ \E m \in Range(answers[p]) : m.guard = g

\* A guard that waits for a player has been heard, unless the client could
\* not show the choice or took it off the screen, the server has refused the
\* answer, or the player was away since.
OfferStands ==
  \A g \in Guards \ lost : guard[g].state = "ArrestPending" => Heard(guard[g].suspect, g)

\* What the client is shown is the server's, once nothing is under way, and
\* two packets of one revision never differ (the client would disconnect).
ClientCatchesUp ==
  \A p \in Players : body[p].online =>
    /\ told[p] = <<>> /\ prompted[p] = <<>> => known[p] = crime[p]
    /\ \A s \in Range(told[p]) \cup {m.crime : m \in {n \in Range(prompted[p]) : n.type = "result"}} :
         s.revision = known[p].revision => s = known[p]

\* A player that pays or goes to jail does so for the bounty it has seen.
FairFine ==
  [][\A p \in Players :
       LET m == Head(answers[p]) IN
       answers[p] # <<>> /\ answers'[p] = Tail(answers[p]) /\ crime'[p] # crime[p]
         => m.agreed = crime[p].bounty]_vars

\* A guard that fights a player makes it no new offer, and stops only if the
\* player has paid, has died, or the guard is another's or a new one.
ResistIsFinal ==
  [][\A g \in Guards :
       LET r == guard[g]
           s == guard'[g]
       IN r.state = "Combat" =>
            \/ s.suspect = r.suspect /\ s.state = "Combat"
            \/ s.suspect \in Players \ {r.suspect}
            \/ s.suspect = Nobody /\ ( \/ crime'[r.suspect].bounty = 0
                                       \/ ~body'[r.suspect].alive
                                       \/ s.generation # r.generation )]_vars
=============================================================================
