----------------------------- MODULE Containers -----------------------------
(***************************************************************************)
(* What is in a container.  The server does not know what a container of   *)
(* the game's content holds: it asks the authority of the cell, whose      *)
(* first snapshot becomes the content for everybody (the bootstrap).  From *)
(* then on the server decides, until a reset of the cell forgets it all.   *)
(* The generation of the cell's authority fences packets from before.      *)
(*                                                                         *)
(*   apps/openmw-server/Server.cpp   handleContainer, the container part   *)
(*       of handleInventoryTakeRequest, sendCellObjectStateToClient,       *)
(*       resetCellStatesForTesting, sendPacketOnConfiguredLane             *)
(*   apps/openmw/mwmp/sync/WorldObjectSync.cpp  onLocalContainerOpened,    *)
(*       onServerContainer, onServerInventoryTakeResult, update            *)
(*   apps/openmw/mwmp/sync/ActorSync.cpp  shouldAcceptSnapshot,            *)
(*       onAuthorityUpdate, invalidateCellForReset                         *)
(*                                                                         *)
(* One cell and one container in it that no actor carries, with one kind   *)
(* of item.  ActorAuthority says whom the server appoints: here it is any  *)
(* client with the cell loaded.  A client loads and leaves the cell in one *)
(* step with the server's handling of its report.  A player has one take   *)
(* pending at a time, which finds its revision right (ItemTransfers).      *)
(* Packets of one lane stay in order; those of two lanes may not.          *)
(***************************************************************************)
EXTENDS Integers, SequencesExt

CONSTANTS
  Clients,
  NoClient,
  Rolls,           \* what the container may be found to hold at first
  InOrder,         \* no packet overtakes one of another lane
  MaxGeneration,   \* bound: no authority beyond this generation
  MaxResets,       \* bound: resets of the cell
  MaxPackets       \* bound: packets under way or held before a step
                   \* that sends some

ASSUME ClientAssumption == NoClient \notin Clients
ASSUME RollAssumption == Rolls \subseteq Nat /\ Rolls # {}
ASSUME BoundAssumption ==
  MaxGeneration \in Nat /\ MaxResets \in Nat /\ MaxPackets \in Nat /\ InOrder \in BOOLEAN

VARIABLES
  generation, owner,  \* CellActorState.authorityGeneration, authorityGuid
  where,              \* of a client: in the cell, beside it with the cell
                      \* loaded (loadedActorCells), or away
  box,                \* the ContainerRecord
  epoch,              \* history: resets of the cell
  cgen, mine,         \* a client's generation of the cell; mAuthority
  store, known,       \* what its world holds; mContainerRevisions has it
  held,               \* mPendingContainer
  take,               \* its mPendingInventoryTakes
  toServer, toClient, \* packets under way, oldest first
  crossed             \* history: a held packet was applied after a later one

serverVars == <<generation, owner, where, box, epoch>>
clientVars == <<cgen, mine, store, known, held, take, crossed>>
vars == <<serverVars, clientVars, toServer, toClient>>

Unresolved == -1
\* Contents, with the epoch they come from (history).
Content  == [epoch : Nat, items : Nat \cup {Unresolved}]
Base(e)  == [epoch |-> e, items |-> Unresolved]
Recorded == box.items # Unresolved

\* Container packets: Set, Remove (of one item), BootstrapRequest, Reset.
SetTo(g, x)  == [kind |-> "set", gen |-> g, content |-> x]
Removal(g)   == [kind |-> "remove", gen |-> g]
Ask(g)       == [kind |-> "ask", gen |-> g]
ResetTo(g, e) == [kind |-> "reset", gen |-> g, epoch |-> e]
\* ActorAuthority, and any packet about the actors with its generation.
\* outrun: a later one of the same generation has arrived already.
Authority(g, c, o) == [kind |-> "authority", gen |-> g, mine |-> c = o, outrun |-> FALSE]
ActorsOf(g)  == [kind |-> "actors", gen |-> g]
\* InventoryTakeRequest and its result.  The epoch the player saw stands for
\* the number of the request too: a reset forgets the one that is pending.
TakeOf(t)    == [kind |-> "take", gen |-> t.gen, epoch |-> t.epoch]
Result(m, o) == [kind |-> "result", epoch |-> m.epoch, outcome |-> o]

Full == [epoch : Nat, items : Nat]
ToServer == [kind : {"set"}, gen : Nat, content : Full]
            \cup [kind : {"ask"}, gen : Nat] \cup [kind : {"take"}, gen : Nat, epoch : Nat]
ToClient == [kind : {"set"}, gen : Nat, content : Full]
            \cup [kind : {"ask", "remove", "actors"}, gen : Nat]
            \cup [kind : {"reset"}, gen : Nat, epoch : Nat]
            \cup [kind : {"authority"}, gen : Nat, mine : BOOLEAN, outrun : BOOLEAN]
            \cup [kind : {"result"}, epoch : Nat, outcome : {"done", "refused", "unavailable"}]
Held == [set : BOOLEAN, content : Content, late : BOOLEAN]
Takes == [gen : Nat, epoch : Nat, waits : {"", "answer", "source"}]
NoTake == [gen |-> 0, epoch |-> 0, waits |-> ""]

TypeOK ==
  /\ generation \in Nat /\ owner \in Clients \cup {NoClient}
  /\ where \in [Clients -> {"here", "beside", "away"}]
  /\ box \in Content /\ epoch \in Nat
  /\ cgen \in [Clients -> Nat] /\ mine \in [Clients -> BOOLEAN]
  /\ store \in [Clients -> Content] /\ known \in [Clients -> BOOLEAN]
  /\ held \in [Clients -> Seq(Held)] /\ take \in [Clients -> Takes]
  /\ toServer \in [Clients -> Seq(ToServer)] /\ toClient \in [Clients -> Seq(ToClient)]
  /\ crossed \in [Clients -> BOOLEAN]

Init ==
  /\ generation = 0 /\ owner = NoClient
  /\ where = [c \in Clients |-> "away"]
  /\ box = Base(0) /\ epoch = 0
  /\ cgen = [c \in Clients |-> 0] /\ mine = [c \in Clients |-> FALSE]
  /\ store = [c \in Clients |-> Base(0)] /\ known = [c \in Clients |-> FALSE]
  /\ held = [c \in Clients |-> <<>>] /\ take = [c \in Clients |-> NoTake]
  /\ toServer = [c \in Clients |-> <<>>] /\ toClient = [c \in Clients |-> <<>>]
  /\ crossed = [c \in Clients |-> FALSE]

-----------------------------------------------------------------------------
(* The network *)

\* sendPacketOnConfiguredLane and the client's sendOnConfiguredLane.
Lane(m) == CASE m.kind \in {"take", "result"} -> 0
             [] m.kind = "actors"             -> 2
             [] OTHER                         -> 1

\* The packets of queue q that may arrive next.
Arriving(q) ==
  {i \in DOMAIN q : /\ InOrder => i = 1
                    /\ \A j \in 1 .. i - 1 : Lane(q[j]) # Lane(q[i])}

Room ==
  SumFunction([c \in Clients |-> Len(toServer[c]) + Len(toClient[c]) + Len(held[c])])
    <= MaxPackets

Send(c, ms) == toServer' = [toServer EXCEPT ![c] = @ \o ms]

\* clientHasActorCellLoaded
Near(w) == {c \in Clients : w[c] # "away"}

-----------------------------------------------------------------------------
(* The server *)

\* refreshActorAuthorityForCell: o stays or becomes the owner.
Refreshed(o) == IF o = owner THEN generation ELSE generation + 1

\* A cell change or a loaded-cells report.  Everyone with the cell loaded is
\* told of the authority; who loads it is sent the content, if there is one.
Move(c, w, o) ==
  LET there == [where EXCEPT ![c] = w]
      news(d) == IF d \in Near(there) THEN <<Authority(Refreshed(o), d, o)>> ELSE <<>>
      state(d) == IF d = c /\ w # "away" /\ where[c] = "away" /\ Recorded
                  THEN <<SetTo(Refreshed(o), box)>> ELSE <<>>
  IN  /\ Room /\ where[c] # w
      /\ IF Near(there) = {} THEN o = NoClient ELSE o \in Near(there)
      /\ Refreshed(o) <= MaxGeneration
      /\ where' = there
      /\ owner' = o /\ generation' = Refreshed(o)
      /\ toClient' = [d \in Clients |-> toClient[d] \o news(d) \o state(d)]
      /\ UNCHANGED <<box, epoch, clientVars, toServer>>

\* Any packet about the actors of the cell that carries the generation: its
\* authority reports them, and the others who have it loaded are told.
Publish ==
  /\ Room /\ owner # NoClient
  /\ mine[owner] /\ cgen[owner] = generation
  /\ toClient' = [d \in Clients |->
       IF d \in Near(where) \ {owner} THEN toClient[d] \o <<ActorsOf(generation)>>
       ELSE toClient[d]]
  /\ UNCHANGED <<serverVars, clientVars, toServer>>

\* resetCellStatesForTesting.  Clients with the cell loaded get the empty
\* population, every client the reset; then the authority is revoked and
\* granted anew, and its owner asked for what was recorded.
Reset(o) ==
  LET g == generation + 1
      h == IF o = NoClient THEN g ELSE g + 1
      near(d, ms) == IF d \in Near(where) THEN ms ELSE <<>>
  IN  /\ Room /\ epoch < MaxResets /\ h <= MaxGeneration
      /\ IF Near(where) = {} THEN o = NoClient ELSE o \in Near(where)
      /\ epoch' = epoch + 1
      /\ generation' = h /\ owner' = o
      /\ box' = Base(epoch + 1)
      /\ toClient' = [d \in Clients |->
           toClient[d] \o near(d, <<ActorsOf(g)>>) \o <<ResetTo(g, epoch + 1)>>
             \o near(d, <<Authority(g, d, NoClient), Authority(h, d, o)>>)
             \o (IF d = o /\ Recorded THEN <<Ask(h)>> ELSE <<>>)]
      /\ UNCHANGED <<where, clientVars, toServer>>

Reply(c, ms) == toClient' = [toClient EXCEPT ![c] = @ \o ms]
Current == SetTo(generation, box)

\* From a player in the cell, and of its present generation.
FencedByPlaceOnly(c, m) == where[c] = "here"
Fenced(c, m) == where[c] = "here" /\ m.gen # 0 /\ m.gen = generation

\* handleContainer, BootstrapRequest: answered with the record, or handed on.
ReceiveAsk(c, m) ==
  /\ m.kind = "ask"
  /\ IF ~Fenced(c, m) THEN UNCHANGED toClient
     ELSE IF Recorded THEN Reply(c, <<Current>>)
     ELSE IF owner # NoClient THEN Reply(owner, <<Ask(generation)>>)
     ELSE UNCHANGED toClient
  /\ UNCHANGED box

\* handleContainer, Set: the first one of the cell's authority is accepted;
\* any other, and one from somebody else, is answered with the record.
AcceptedQuietly(c, m) == box' = m.content /\ Reply(c, <<SetTo(generation, m.content)>>)
Accepted(c, m) ==
  /\ box' = m.content
  /\ toClient' = [d \in Clients |->
       IF d \in Near(where) THEN Append(toClient[d], SetTo(generation, m.content))
       ELSE toClient[d]]
ReceiveSetAgain(c, m) ==
  /\ m.kind = "set"
  /\ IF Fenced(c, m) /\ owner = c THEN Accepted(c, m)
     ELSE IF Fenced(c, m) /\ Recorded THEN Reply(c, <<Current>>) /\ UNCHANGED box
     ELSE UNCHANGED <<box, toClient>>
ReceiveSet(c, m) ==
  /\ m.kind = "set"
  /\ IF ~Fenced(c, m) THEN UNCHANGED <<box, toClient>>
     ELSE IF Recorded THEN Reply(c, <<Current>>) /\ UNCHANGED box
     ELSE IF owner = c THEN Accepted(c, m)
     ELSE UNCHANGED <<box, toClient>>

\* handleInventoryTakeRequest, as far as the container goes.
ReceiveTakeOfAnyAge(c, m) ==
  /\ m.kind = "take"
  /\ IF where[c] # "here" THEN Reply(c, <<Result(m, "refused")>>) /\ UNCHANGED box
     ELSE IF ~Recorded
     THEN /\ toClient' = [d \in Clients |->
               toClient[d] \o (IF d = owner THEN <<Ask(generation)>> ELSE <<>>)
                 \o (IF d = c THEN <<Result(m, "unavailable")>> ELSE <<>>)]
          /\ UNCHANGED box
     ELSE IF box.items = 0 THEN Reply(c, <<Result(m, "refused")>>) /\ UNCHANGED box
     ELSE /\ box' = [box EXCEPT !.items = @ - 1]
          /\ toClient' = [d \in Clients |->
               toClient[d] \o (IF d \in Near(where) THEN <<Removal(generation)>> ELSE <<>>)
                 \o (IF d = c THEN <<Result(m, "done")>> ELSE <<>>)]

ReceiveTake(c, m) ==
  /\ m.kind = "take"
  /\ IF ~Fenced(c, m) THEN Reply(c, <<Result(m, "refused")>>) /\ UNCHANGED box
     ELSE IF ~Recorded
     THEN /\ toClient' = [d \in Clients |->
               toClient[d] \o (IF d = owner THEN <<Ask(generation)>> ELSE <<>>)
                 \o (IF d = c THEN <<Result(m, "unavailable")>> ELSE <<>>)]
          /\ UNCHANGED box
     ELSE IF box.items = 0 THEN Reply(c, <<Result(m, "refused")>>) /\ UNCHANGED box
     ELSE /\ box' = [box EXCEPT !.items = @ - 1]
          /\ toClient' = [d \in Clients |->
               toClient[d] \o (IF d \in Near(where) THEN <<Removal(generation)>> ELSE <<>>)
                 \o (IF d = c THEN <<Result(m, "done")>> ELSE <<>>)]

Receive(c, i) ==
  /\ i \in Arriving(toServer[c])
  /\ toServer' = [toServer EXCEPT ![c] = RemoveAt(@, i)]
  /\ \/ ReceiveAsk(c, toServer[c][i])
     \/ ReceiveSet(c, toServer[c][i])
     \/ ReceiveTake(c, toServer[c][i])
  /\ UNCHANGED <<generation, owner, where, epoch, clientVars>>

-----------------------------------------------------------------------------
(* The client *)

\* sendLocalContainerSnapshot: the content is rolled at the latest now.
SnapshotUnresolved(c, r) == Send(c, <<SetTo(cgen[c], store[c])>>) /\ UNCHANGED store
Snapshot(c, r) ==
  LET x == IF store[c].items = Unresolved THEN [store[c] EXCEPT !.items = r] ELSE store[c]
  IN  /\ store' = [store EXCEPT ![c] = x]
      /\ Send(c, <<SetTo(cgen[c], x)>>)

\* onLocalContainerOpened: the authority reports the content, whoever has
\* never received it asks.
Open(c, r) ==
  /\ Room /\ where[c] = "here"
  /\ IF mine[c] THEN Snapshot(c, r)
     ELSE ~known[c] /\ Send(c, <<Ask(cgen[c])>>) /\ UNCHANGED store
  /\ UNCHANGED <<serverVars, cgen, mine, known, held, take, toClient, crossed>>

\* requestInventoryTake
RequestTake(c) ==
  LET t == [gen |-> cgen[c], epoch |-> store[c].epoch, waits |-> "answer"]
  IN  /\ Room /\ where[c] = "here"
      /\ take[c] = NoTake /\ store[c].items # 0
      /\ take' = [take EXCEPT ![c] = t]
      /\ Send(c, <<TakeOf(t)>>)
      /\ UNCHANGED <<serverVars, cgen, mine, store, known, held, toClient, crossed>>

\* tryApplyContainer
Applied(x, h) == IF h.set THEN h.content
                 ELSE [x EXCEPT !.items = IF @ > 0 THEN @ - 1 ELSE @]
Later(q) == [i \in DOMAIN q |-> [q[i] EXCEPT !.late = TRUE]]

\* onServerContainer, Set and Remove.  Without the cell there is nothing to
\* apply it to, and the packet is held, without its generation.
Update(c, h) ==
  IF where[c] = "away"
  THEN held' = [held EXCEPT ![c] = Append(@, h)] /\ UNCHANGED <<store, known, crossed>>
  ELSE /\ store' = [store EXCEPT ![c] = Applied(@, h)]
       /\ known' = [known EXCEPT ![c] = TRUE]
       /\ held' = [held EXCEPT ![c] = Later(@)]
       /\ crossed' = [crossed EXCEPT ![c] = @ /\ ~h.set]

\* Takes that wait for the container are sent again when it arrives.
WokenIfKnown(c) ==
  IF take[c].waits = "source" /\ known[c]
  THEN /\ take' = [take EXCEPT ![c].waits = "answer"]
       /\ Send(c, <<TakeOf(take[c])>>)
  ELSE UNCHANGED <<take, toServer>>
Woken(c) ==
  IF take[c].waits = "source"
  THEN /\ take' = [take EXCEPT ![c].waits = "answer"]
       /\ Send(c, <<TakeOf(take[c])>>)
  ELSE UNCHANGED <<take, toServer>>

\* shouldAcceptContainerAuthorityGeneration
Accept(c, m) ==
  m.gen # 0 /\ IF m.kind = "reset" THEN m.gen >= cgen[c] ELSE m.gen = cgen[c]

OnUpdate(c, m) ==
  /\ m.kind \in {"set", "remove"}
  /\ IF ~Accept(c, m) THEN UNCHANGED <<clientVars, toServer>>
     ELSE /\ IF m.kind = "set"
             THEN /\ Update(c, [set |-> TRUE, content |-> m.content, late |-> FALSE])
                  /\ Woken(c)
             ELSE /\ Update(c, [set |-> FALSE, content |-> Base(0), late |-> FALSE])
                  /\ UNCHANGED <<take, toServer>>
          /\ UNCHANGED <<cgen, mine>>

\* A BootstrapRequest needs the cell, not the authority.
OnAsk(c, m, r) ==
  /\ m.kind = "ask"
  /\ IF Accept(c, m) /\ where[c] # "away" THEN Snapshot(c, r) ELSE UNCHANGED <<store, toServer>>
  /\ UNCHANGED <<cgen, mine, known, held, take, crossed>>

\* invalidateContainerCellForReset, applyContainerCellReset (at the latest
\* when the cell is loaded again) and invalidateCellForReset.
OnReset(c, m) ==
  /\ m.kind = "reset"
  /\ IF Accept(c, m)
     THEN /\ store' = [store EXCEPT ![c] = Base(m.epoch)]
          /\ known' = [known EXCEPT ![c] = FALSE]
          /\ held' = [held EXCEPT ![c] = <<>>]
          /\ take' = [take EXCEPT ![c] = NoTake]
          /\ cgen' = [cgen EXCEPT ![c] = 0]
          /\ mine' = [mine EXCEPT ![c] = FALSE]
          /\ crossed' = [crossed EXCEPT ![c] = FALSE]
     ELSE UNCHANGED clientVars
  /\ UNCHANGED toServer

\* shouldAcceptSnapshot, onAuthorityUpdate.
OnAuthority(c, m) ==
  /\ m.kind = "authority"
  /\ IF m.gen < cgen[c] \/ (m.gen = cgen[c] /\ m.outrun) THEN UNCHANGED <<cgen, mine>>
     ELSE /\ cgen' = [cgen EXCEPT ![c] = m.gen]
          /\ mine' = [mine EXCEPT ![c] = m.mine]
  /\ UNCHANGED <<store, known, held, take, crossed, toServer>>

OnActors(c, m) ==
  /\ m.kind = "actors"
  /\ cgen' = [cgen EXCEPT ![c] = IF m.gen >= @ THEN m.gen ELSE @]
  /\ UNCHANGED <<mine, store, known, held, take, crossed, toServer>>

\* onServerInventoryTakeResult
OnResult(c, m) ==
  /\ m.kind = "result"
  /\ take' = [take EXCEPT ![c] =
       IF take[c] = NoTake \/ take[c].epoch # m.epoch THEN @
       ELSE IF m.outcome = "unavailable" THEN [@ EXCEPT !.waits = "source"] ELSE NoTake]
  /\ UNCHANGED <<cgen, mine, store, known, held, crossed, toServer>>

\* What is left of the queue when packet i arrives: sequence numbers make an
\* authority packet void once a later packet of its generation was seen.
Outrun(q, i) ==
  RemoveAt([j \in DOMAIN q |->
    IF j < i /\ q[i].kind = "actors" /\ q[j].kind = "authority" /\ q[j].gen = q[i].gen
    THEN [q[j] EXCEPT !.outrun = TRUE] ELSE q[j]], i)

Deliver(c, i, r) ==
  /\ i \in Arriving(toClient[c])
  /\ toClient' = [toClient EXCEPT ![c] = Outrun(@, i)]
  /\ LET m == toClient[c][i]
     IN  OnUpdate(c, m) \/ OnAsk(c, m, r) \/ OnReset(c, m)
           \/ OnAuthority(c, m) \/ OnActors(c, m) \/ OnResult(c, m)
  /\ UNCHANGED serverVars

\* update: any held packet may be the first to be tried again.
Retry(c, i) ==
  /\ where[c] # "away" /\ i \in DOMAIN held[c]
  /\ store' = [store EXCEPT ![c] = Applied(@, held[c][i])]
  /\ known' = [known EXCEPT ![c] = TRUE]
  /\ held' = [held EXCEPT ![c] = Later(SubSeq(@, 1, i - 1)) \o SubSeq(@, i + 1, Len(@))]
  /\ crossed' = [crossed EXCEPT ![c] = held[c][i].late \/ (@ /\ ~held[c][i].set)]
  /\ UNCHANGED <<serverVars, cgen, mine, take, toServer, toClient>>

-----------------------------------------------------------------------------
Next ==
  \/ \E c \in Clients, w \in {"here", "beside", "away"}, o \in Clients \cup {NoClient} :
       Move(c, w, o)
  \/ Publish
  \/ \E o \in Clients \cup {NoClient} : Reset(o)
  \/ \E c \in Clients : \E i \in DOMAIN toServer[c] : Receive(c, i)
  \/ \E c \in Clients, r \in Rolls : Open(c, r)
  \/ \E c \in Clients : RequestTake(c)
  \/ \E c \in Clients, r \in Rolls : \E i \in DOMAIN toClient[c] : Deliver(c, i, r)
  \/ \E c \in Clients : \E i \in DOMAIN held[c] : Retry(c, i)

Spec == Init /\ [][Next]_vars

-----------------------------------------------------------------------------
(* Properties *)

\* What the server holds was reported from a world that has seen every reset:
\* a client that slept through one, answers an old request or was appointed
\* meanwhile cannot bring the old content back ("so stale CellStores from a
\* previously visited cell cannot be republished after the new generation",
\* Server.cpp:19757).
ContentIsFresh == Recorded => box.epoch = epoch

\* Nothing is under way to or from c, or held by it.
Quiet(c) == toServer[c] = <<>> /\ toClient[c] = <<>> /\ held[c] = <<>>

\* Whatever authorities found in the container before the server recorded it,
\* everyone with the cell loaded ends with what the server holds.
StoresAgree ==
  \A c \in Near(where) :
    Quiet(c) /\ Recorded /\ ~crossed[c] => store[c] = box /\ known[c]

\* A take that waits for the content of the container is sent again when the
\* server has it: no client in the cell waits for what everybody has.
NoTakeForgotten ==
  \A c \in Near(where) : Quiet(c) /\ Recorded => take[c].waits # "source"

\* Between two resets the content is recorded once, by one of the clients
\* that may each have found another; then it only loses what is taken.
RecordedOnce ==
  [][Recorded /\ epoch' = epoch =>
       box'.items \in {box.items, box.items - 1} \cap Nat]_vars

\* Whoever takes something saw the content it is taken from: a request made
\* before a reset takes nothing from after it, and nothing else takes.
TakesAreFenced ==
  [][Recorded /\ epoch' = epoch /\ box' # box =>
       \E c \in Clients : \E i \in DOMAIN toServer[c] :
         /\ toServer' = [toServer EXCEPT ![c] = RemoveAt(@, i)]
         /\ toServer[c][i].kind = "take" /\ toServer[c][i].epoch = epoch]_vars
=============================================================================
