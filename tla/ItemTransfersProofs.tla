------------------------- MODULE ItemTransfersProofs -------------------------
(***************************************************************************)
(* Theorems about ItemTransfers: the database follows memory, the revision *)
(* of a report identifies the inventory it was made from, a client with    *)
(* nothing under way agrees with the server, and no item is made or lost.  *)
(***************************************************************************)
EXTENDS ItemTransfers, SequenceTheorems, FiniteSetTheorems, WellFoundedInduction, TLAPS

USE AmountAssumption

-----------------------------------------------------------------------------
(* The invariant *)

Numbers ==
  /\ have \in [Clients -> Nat] /\ rev \in [Clients -> Nat]
  /\ stored \in [Clients -> Nat] /\ storedRev \in [Clients -> Nat]

ServerTypes ==
  /\ ground \subseteq Nat /\ nextNum \in Nat /\ box \in Nat
  /\ guarded \in [Clients -> BOOLEAN] /\ polled \in [Clients -> Nat]
  /\ discarded \in BOOLEAN

ClientTypes ==
  /\ view \in [Clients -> Nat] /\ crev \in [Clients -> Nat]
  /\ gate \in [Clients -> BOOLEAN] /\ sent \in [Clients -> Nat]
  /\ base \in [Clients -> Nat] /\ waiting \in [Clients -> BOOLEAN]
  /\ snapshot \in [Clients -> Nat] /\ pending \in [Clients -> Kinds \cup {""}]

Types == Numbers /\ ServerTypes /\ ClientTypes

\* Packets that agree with the inventory h at revision r, or are older.
SoundReports(r, h) ==
  {m \in ToServer :
     m.kind = "report" => m.rev <= r /\ (~m.early /\ m.rev = r => m.base = h)}
SoundSnapshots(r, h) ==
  {m \in ToClient :
     m.kind = "inventory" => m.rev <= r /\ (m.rev = r => m.items = h)}

Channels ==
  /\ toServer = [c \in Clients |-> toServer[c]]
  /\ toClient = [c \in Clients |-> toClient[c]]

Sound(c) ==
  /\ toServer[c] \in Seq(SoundReports(rev[c], have[c]))
  /\ toClient[c] \in Seq(SoundSnapshots(rev[c], have[c]))
  /\ crev[c] <= rev[c]
  /\ crev[c] = rev[c] =>
       snapshot[c] = have[c] /\ (~waiting[c] => base[c] = have[c])

IInv == Types /\ Channels /\ \A c \in Clients : Sound(c)

-----------------------------------------------------------------------------
(* Packets and channels *)

\* A new revision makes every packet under way an older one.
LEMMA OlderPackets ==
  ASSUME NEW r \in Nat, NEW h, NEW k
  PROVE  /\ SoundReports(r, h) \subseteq SoundReports(r + 1, k)
         /\ SoundSnapshots(r, h) \subseteq SoundSnapshots(r + 1, k)
<1>1. ASSUME NEW m \in ToServer, m.kind = "report" PROVE m.rev \in Nat
  BY <1>1 DEF ToServer, Place, Kinds
<1>2. ASSUME NEW m \in ToClient, m.kind = "inventory" PROVE m.rev \in Nat
  BY <1>2 DEF ToClient
<1>3. SoundReports(r, h) \subseteq SoundReports(r + 1, k)
  BY <1>1 DEF SoundReports
<1>4. SoundSnapshots(r, h) \subseteq SoundSnapshots(r + 1, k)
  BY <1>2 DEF SoundSnapshots
<1>5. QED
  BY <1>3, <1>4

LEMMA Widened == ASSUME NEW S, NEW T, S \subseteq T, NEW s \in Seq(S) PROVE s \in Seq(T)
BY SeqMonotonic

\* Taking a packet out of a channel leaves packets of the same set.
LEMMA Removal ==
  ASSUME NEW S, NEW s \in Seq(S), NEW i \in 1 .. Len(s)
  PROVE  SubSeq(s, 1, i - 1) \o SubSeq(s, i + 1, Len(s)) \in Seq(S)
<1>1. Len(s) \in Nat /\ \A j \in 1 .. Len(s) : s[j] \in S
  BY LenProperties, ElementOfSeq
<1>2. SubSeq(s, 1, i - 1) \in Seq(S)
  <2>1. \A j \in 1 .. (i - 1) : s[j] \in S
    BY <1>1
  <2>2. i - 1 \in Int
    BY <1>1
  <2>3. QED
    BY <2>1, <2>2, SubSeqProperties
<1>3. SubSeq(s, i + 1, Len(s)) \in Seq(S)
  <2>1. \A j \in (i + 1) .. Len(s) : s[j] \in S
    BY <1>1
  <2>2. i + 1 \in Int /\ Len(s) \in Int
    BY <1>1
  <2>3. QED
    BY <2>1, <2>2, SubSeqProperties
<1>4. QED
  BY <1>2, <1>3, ConcatProperties

LEMMA Replies ==
  ASSUME NEW S, NEW s \in Seq(S), NEW a \in S, NEW b \in S
  PROVE  s \o <<a>> \in Seq(S) /\ s \o <<a, b>> \in Seq(S)
<1>1. <<a>> \in Seq(S) /\ <<a, b>> \in Seq(S)
  OBVIOUS
<1>2. QED
  BY <1>1, ConcatProperties

\* The packets the server and the clients make.
LEMMA Packets ==
  ASSUME NEW r \in Nat, NEW h \in Nat
  PROVE  /\ Inventory(r, h) \in SoundSnapshots(r, h)
         /\ \A o \in {"done", "refused", "stale"} : Result(o, r) \in SoundSnapshots(r, h)
         /\ Place \in SoundReports(r, h)
         /\ \A k \in Kinds, n \in Nat, q \in Nat : Request(k, n, q) \in SoundReports(r, h)
<1>1. Inventory(r, h) \in SoundSnapshots(r, h)
  BY DEF Inventory, SoundSnapshots, ToClient
<1>2. ASSUME NEW o \in {"done", "refused", "stale"}
      PROVE  Result(o, r) \in SoundSnapshots(r, h)
  BY DEF Result, SoundSnapshots, ToClient
<1>3. Place \in SoundReports(r, h)
  BY DEF Place, SoundReports, ToServer
<1>4. ASSUME NEW k \in Kinds, NEW n \in Nat, NEW q \in Nat
      PROVE  Request(k, n, q) \in SoundReports(r, h)
  BY DEF Request, SoundReports, ToServer, Kinds
<1>5. QED
  BY <1>1, <1>2, <1>3, <1>4

-----------------------------------------------------------------------------
(* Steps of one client or of one handler *)

Same(d) ==
  /\ have'[d] = have[d] /\ rev'[d] = rev[d]
  /\ toServer'[d] = toServer[d] /\ toClient'[d] = toClient[d]
  /\ crev'[d] = crev[d] /\ snapshot'[d] = snapshot[d]
  /\ waiting'[d] = waiting[d] /\ base'[d] = base[d]

\* A step that concerns one client.
LEMMA OneClient ==
  ASSUME IInv, NEW c \in Clients, Types', Channels', Sound(c)',
         \A d \in Clients \ {c} : Same(d)
  PROVE  IInv'
<1>1. ASSUME NEW d \in Clients, d # c PROVE Sound(d)'
  BY <1>1 DEF IInv, Sound, Same
<1>2. QED
  BY <1>1 DEF IInv

\* What a handler does to the packets of its client.
LEMMA Turn ==
  ASSUME IInv, NEW c \in Clients, NEW i \in DOMAIN toServer[c], NEW n \in DOMAIN toServer[c],
         InTurn(c, i, n)
  PROVE  /\ polled' \in [Clients -> Nat]
         /\ toServer' = [d \in Clients |-> toServer'[d]]
         /\ toServer'[c] \in Seq(SoundReports(rev[c], have[c]))
         /\ \A d \in Clients \ {c} : toServer'[d] = toServer[d]
<1> DEFINE s == toServer[c]
           t == SubSeq(s, 1, i - 1) \o SubSeq(s, i + 1, Len(s))
<1>1. s \in Seq(SoundReports(rev[c], have[c]))
  BY DEF IInv, Sound
<1>2. i \in 1 .. Len(s) /\ n \in 1 .. Len(s) /\ Len(s) \in Nat
  BY <1>1, LenProperties
<1>3. polled' \in [Clients -> Nat]
  <2>1. polled' = [polled EXCEPT ![c] = n - 1] /\ n - 1 \in Nat
    BY <1>2 DEF InTurn
  <2>2. QED
    BY <2>1 DEF IInv, Types, ServerTypes
<1>4. t \in Seq(SoundReports(rev[c], have[c]))
  BY <1>1, <1>2, Removal
<1>5. toServer' = [toServer EXCEPT ![c] = t]
  BY DEF InTurn
<1>6. toServer = [d \in Clients |-> toServer[d]]
  BY DEF IInv, Channels
<1> HIDE DEF t
<1>7. QED
  BY <1>3, <1>4, <1>5, <1>6

\* A handler answers without changing the account.
LEMMA Answered ==
  ASSUME IInv, NEW c \in Clients, NEW i \in DOMAIN toServer[c], NEW n \in DOMAIN toServer[c],
         InTurn(c, i, n), UNCHANGED <<accounts, client>>, ServerTypes',
         \/ UNCHANGED toClient
         \/ Reply(c, <<Current(c)>>)
         \/ \E o \in {"stale", "refused"} :
              Reply(c, <<Current(c), Result(o, rev[c])>>) \/ Reply(c, <<Result(o, rev[c])>>)
  PROVE  IInv'
<1> DEFINE S == SoundSnapshots(rev[c], have[c])
<1>1. rev[c] \in Nat /\ have[c] \in Nat
  BY DEF IInv, Types, Numbers
<1>2. Current(c) \in S /\ \A o \in {"stale", "refused"} : Result(o, rev[c]) \in S
  BY <1>1, Packets DEF Current
<1>3. toClient[c] \in Seq(S) /\ toClient = [d \in Clients |-> toClient[d]]
  BY DEF IInv, Sound, Channels
<1>4. PICK q \in Seq(S) : toClient' = [toClient EXCEPT ![c] = q]
  <2>1. CASE UNCHANGED toClient
    BY <2>1, <1>3
  <2>2. CASE Reply(c, <<Current(c)>>)
    <3>1. toClient[c] \o <<Current(c)>> \in Seq(S)
      BY <1>2, <1>3, Replies
    <3>2. QED
      BY <2>2, <3>1 DEF Reply
  <2>3. ASSUME NEW o \in {"stale", "refused"}, Reply(c, <<Current(c), Result(o, rev[c])>>)
        PROVE  \E q \in Seq(S) : toClient' = [toClient EXCEPT ![c] = q]
    <3>1. toClient[c] \o <<Current(c), Result(o, rev[c])>> \in Seq(S)
      BY <1>2, <1>3, Replies
    <3>2. QED
      BY <2>3, <3>1 DEF Reply
  <2>4. ASSUME NEW o \in {"stale", "refused"}, Reply(c, <<Result(o, rev[c])>>)
        PROVE  \E q \in Seq(S) : toClient' = [toClient EXCEPT ![c] = q]
    <3>1. toClient[c] \o <<Result(o, rev[c])>> \in Seq(S)
      BY <1>2, <1>3, Replies
    <3>2. QED
      BY <2>4, <3>1 DEF Reply
  <2>5. QED
    BY <2>1, <2>2, <2>3, <2>4
<1>5. /\ toClient' = [d \in Clients |-> toClient'[d]]
      /\ toClient'[c] \in Seq(S)
      /\ \A d \in Clients \ {c} : toClient'[d] = toClient[d]
  BY <1>3, <1>4
<1>6. Types'
  BY DEF IInv, Types, Numbers, ClientTypes, accounts, client
<1>7. Channels'
  BY <1>5, Turn DEF Channels
<1>8. Sound(c)'
  BY <1>5, Turn DEF IInv, Sound, accounts, client
<1>9. \A d \in Clients \ {c} : Same(d)
  BY <1>5, Turn DEF Same, accounts, client
<1>10. QED
  BY <1>6, <1>7, <1>8, <1>9, OneClient

\* A handler commits an inventory and answers with it.
LEMMA Changed ==
  ASSUME IInv, NEW c \in Clients, NEW i \in DOMAIN toServer[c], NEW n \in DOMAIN toServer[c],
         InTurn(c, i, n), UNCHANGED client, ServerTypes',
         NEW items \in Nat, NEW saved \in BOOLEAN, Commit(c, items, saved),
         Reply(c, <<Inventory(rev[c] + 1, items)>>) \/ Committed(c, items)
  PROVE  IInv'
<1> DEFINE r == rev[c] + 1
           S == SoundSnapshots(r, items)
<1>1. rev[c] \in Nat /\ r \in Nat /\ Numbers
  BY DEF IInv, Types, Numbers
<1>2. Inventory(r, items) \in S /\ Result("done", r) \in S
  BY <1>1, Packets
<1>3. /\ SoundReports(rev[c], have[c]) \subseteq SoundReports(r, items)
      /\ SoundSnapshots(rev[c], have[c]) \subseteq S
  BY <1>1, OlderPackets
<1>4. toClient[c] \in Seq(S) /\ toClient = [d \in Clients |-> toClient[d]]
  BY <1>3, Widened DEF IInv, Sound, Channels
<1>5. toServer'[c] \in Seq(SoundReports(r, items))
  BY <1>3, Turn, Widened
<1>6. PICK q \in Seq(S) : toClient' = [toClient EXCEPT ![c] = q]
  <2>1. toClient[c] \o <<Inventory(r, items)>> \in Seq(S)
    BY <1>2, <1>4, Replies
  <2>2. toClient[c] \o <<Inventory(r, items), Result("done", r)>> \in Seq(S)
    BY <1>2, <1>4, Replies
  <2>3. QED
    BY <2>1, <2>2 DEF Reply, Committed
<1>7. /\ toClient' = [d \in Clients |-> toClient'[d]]
      /\ toClient'[c] \in Seq(S)
      /\ \A d \in Clients \ {c} : toClient'[d] = toClient[d]
  BY <1>4, <1>6
<1>8. /\ have' = [have EXCEPT ![c] = items] /\ rev' = [rev EXCEPT ![c] = r]
      /\ stored' \in [Clients -> Nat] /\ storedRev' \in [Clients -> Nat]
  BY <1>1 DEF Commit, Numbers
<1>9. have'[c] = items /\ rev'[c] = r
  BY <1>1, <1>8 DEF Numbers
<1>10. Types'
  BY <1>1, <1>8 DEF IInv, Types, Numbers, ClientTypes, client
<1>11. Channels'
  BY <1>7, Turn DEF Channels
<1>12. Sound(c)'
  <2>1. crev'[c] = crev[c] /\ crev[c] \in Nat /\ crev[c] <= rev[c]
    BY DEF IInv, Sound, Types, ClientTypes, client
  <2>2. crev'[c] < r
    BY <1>1, <2>1
  <2>3. QED
    BY <1>1, <1>5, <1>7, <1>9, <2>1, <2>2 DEF Sound
<1>13. \A d \in Clients \ {c} : Same(d)
  BY <1>1, <1>7, <1>8, Turn DEF Same, Numbers, client
<1>14. QED
  BY <1>10, <1>11, <1>12, <1>13, OneClient

-----------------------------------------------------------------------------
(* The server's handlers *)

LEMMA Received ==
  ASSUME IInv, NEW c \in Clients, NEW i \in DOMAIN toServer[c]
  PROVE  /\ toServer[c][i] \in ToServer
         /\ toServer[c][i].kind = "report" =>
              toServer[c][i].items \in Nat /\ toServer[c][i].base \in Nat
<1>1. toServer[c] \in Seq(SoundReports(rev[c], have[c]))
  BY DEF IInv, Sound
<1>2. toServer[c][i] \in SoundReports(rev[c], have[c])
  BY <1>1, ElementOfSeq, LenProperties
<1>3. ASSUME NEW m \in ToServer, m.kind = "report" PROVE m.items \in Nat /\ m.base \in Nat
  BY <1>3 DEF ToServer, Place, Kinds
<1>4. QED
  BY <1>2, <1>3 DEF SoundReports

LEMMA ReportStep ==
  ASSUME IInv, NEW c \in Clients, NEW i \in DOMAIN toServer[c], NEW n \in DOMAIN toServer[c],
         NEW known \in BOOLEAN, NEW saved \in BOOLEAN, HandleReport(c, i, n, known, saved)
  PROVE  IInv'
<1> DEFINE m == toServer[c][i]
<1>1. InTurn(c, i, n) /\ m.kind = "report" /\ UNCHANGED client /\ UNCHANGED world
  BY DEF HandleReport
<1>2. m.items \in Nat
  BY <1>1, Received
<1>3. polled' \in [Clients -> Nat]
  BY <1>1, Turn
<1>4. ServerTypes
  BY DEF IInv, Types
<1>5. CASE Refusable(c, m, known)
  <2>1. /\ Reply(c, <<Current(c)>>) /\ discarded' = TRUE
        /\ UNCHANGED accounts /\ UNCHANGED guarded
    BY <1>5 DEF HandleReport
  <2>2. ServerTypes'
    BY <1>1, <1>3, <1>4, <2>1 DEF ServerTypes, world
  <2>3. QED
    BY <1>1, <2>1, <2>2, Answered
<1>6. CASE ~Refusable(c, m, known)
  <2>1. /\ Commit(c, m.items, saved)
        /\ Reply(c, <<Inventory(rev[c] + 1, m.items)>>)
        /\ guarded' = [guarded EXCEPT ![c] = FALSE]
        /\ discarded' = (discarded \/ m.early)
    BY <1>6 DEF HandleReport
  <2>2. guarded' \in [Clients -> BOOLEAN] /\ discarded' \in BOOLEAN
    BY <1>4, <2>1 DEF ServerTypes
  <2>3. ServerTypes'
    BY <1>1, <1>3, <1>4, <2>2 DEF ServerTypes, world
  <2>4. QED
    BY <1>1, <1>2, <2>1, <2>3, Changed
<1>7. QED
  BY <1>5, <1>6

LEMMA PlaceStep ==
  ASSUME IInv, NEW c \in Clients, NEW i \in DOMAIN toServer[c], NEW n \in DOMAIN toServer[c],
         NEW fit \in BOOLEAN, HandlePlace(c, i, n, fit)
  PROVE  IInv'
<1>1. InTurn(c, i, n) /\ UNCHANGED <<accounts, client>> /\ UNCHANGED toClient
  BY DEF HandlePlace
<1>2. polled' \in [Clients -> Nat]
  BY <1>1, Turn
<1>3. ServerTypes
  BY DEF IInv, Types
<1>4. UNCHANGED box /\ UNCHANGED guarded
  BY DEF HandlePlace
<1>5. CASE fit
  <2>1. ground' = ground \cup {nextNum} /\ nextNum' = nextNum + 1 /\ UNCHANGED discarded
    BY <1>5 DEF HandlePlace
  <2>2. ServerTypes'
    BY <1>2, <1>3, <1>4, <2>1 DEF ServerTypes
  <2>3. QED
    BY <1>1, <2>2, Answered
<1>6. CASE ~fit
  <2>1. UNCHANGED ground /\ UNCHANGED nextNum /\ discarded' = TRUE
    BY <1>6 DEF HandlePlace
  <2>2. ServerTypes'
    BY <1>2, <1>3, <1>4, <2>1 DEF ServerTypes
  <2>3. QED
    BY <1>1, <2>2, Answered
<1>7. QED
  BY <1>5, <1>6

LEMMA WorldTakeStep ==
  ASSUME IInv, NEW c \in Clients, NEW i \in DOMAIN toServer[c], NEW n \in DOMAIN toServer[c],
         NEW fit \in BOOLEAN, HandleWorldTake(c, i, n, fit)
  PROVE  IInv'
<1> DEFINE m == toServer[c][i]
           there == fit /\ m.num \in ground
<1>1. InTurn(c, i, n) /\ UNCHANGED client /\ UNCHANGED <<nextNum, box, guarded, discarded>>
  BY DEF HandleWorldTake
<1>2. polled' \in [Clients -> Nat]
  BY <1>1, Turn
<1>3. ground' \subseteq ground => ServerTypes'
  BY <1>1, <1>2 DEF IInv, Types, ServerTypes
<1>4. CASE there /\ m.rev = storedRev[c]
  <2>1. /\ Commit(c, have[c] + 1, TRUE) /\ Committed(c, have[c] + 1)
        /\ ground' \subseteq ground
    BY <1>4 DEF HandleWorldTake, Without
  <2>2. have[c] + 1 \in Nat
    BY DEF IInv, Types, Numbers
  <2>3. QED
    BY <1>1, <1>3, <2>1, <2>2, Changed
<1>5. CASE there /\ m.rev # storedRev[c]
  <2>1. /\ Reply(c, <<Current(c), Result("stale", rev[c])>>)
        /\ UNCHANGED accounts /\ UNCHANGED ground
    BY <1>5 DEF HandleWorldTake
  <2>2. QED
    BY <1>1, <1>3, <2>1, Answered
<1>6. CASE ~there
  <2>1. Reply(c, <<Result("refused", rev[c])>>) /\ UNCHANGED accounts /\ UNCHANGED ground
    BY <1>6 DEF HandleWorldTake
  <2>2. QED
    BY <1>1, <1>3, <2>1, Answered
<1>7. QED
  BY <1>4, <1>5, <1>6

LEMMA BoxStep ==
  ASSUME IInv, NEW c \in Clients, NEW i \in DOMAIN toServer[c], NEW n \in DOMAIN toServer[c],
         NEW fit \in BOOLEAN, HandleBox(c, i, n, fit)
  PROVE  IInv'
<1> DEFINE m == toServer[c][i]
           there == Present(c, m.kind)
           items == IF m.kind = "take" THEN have[c] + 1 ELSE have[c] - 1
<1>1. InTurn(c, i, n) /\ UNCHANGED client /\ UNCHANGED <<ground, nextNum, guarded, discarded>>
  BY DEF HandleBox
<1>2. polled' \in [Clients -> Nat]
  BY <1>1, Turn
<1>3. box' \in Nat => ServerTypes'
  BY <1>1, <1>2 DEF IInv, Types, ServerTypes
<1>4. box \in Nat /\ have[c] \in Nat
  BY DEF IInv, Types, Numbers, ServerTypes
<1>5. CASE fit /\ there /\ m.rev = rev[c] /\ m.rev = storedRev[c]
          /\ box' = (IF m.kind = "take" THEN box - 1 ELSE box + 1)
          /\ Commit(c, items, TRUE) /\ Committed(c, items)
  <2>1. box' \in Nat /\ items \in Nat
    BY <1>4, <1>5 DEF Present
  <2>2. QED
    BY <1>1, <1>3, <1>5, <2>1, Changed
<1>6. CASE /\ UNCHANGED accounts /\ UNCHANGED box
           /\ \/ Reply(c, <<Current(c), Result("stale", rev[c])>>)
              \/ Reply(c, <<Result("refused", rev[c])>>)
  BY <1>1, <1>3, <1>4, <1>6, Answered
<1>7. QED
  BY <1>5, <1>6 DEF HandleBox

LEMMA GuardStep ==
  ASSUME IInv, NEW c \in Clients, GuardEnds(c)
  PROVE  IInv'
<1>1. Types'
  BY DEF GuardEnds, IInv, Types, Numbers, ServerTypes, ClientTypes, accounts, world, client
<1>2. Channels' /\ \A d \in Clients : Sound(d)'
  BY DEF GuardEnds, IInv, Channels, Sound, accounts, client
<1>3. QED
  BY <1>1, <1>2 DEF IInv

LEMMA ReconnectStep ==
  ASSUME IInv, NEW c \in Clients, Reconnect(c)
  PROVE  IInv'
<1>1. Numbers /\ ServerTypes /\ ClientTypes
  BY DEF IInv, Types
<1>2. /\ have'[c] = stored[c] /\ rev'[c] = storedRev[c]
      /\ snapshot'[c] = stored[c] /\ base'[c] = stored[c] /\ crev'[c] = storedRev[c]
      /\ stored[c] \in Nat /\ storedRev[c] \in Nat
  BY <1>1 DEF Reconnect, Numbers, ClientTypes
<1>3. Numbers'
  BY <1>1 DEF Reconnect, Numbers
<1>4. ServerTypes'
  BY <1>1 DEF Reconnect, ServerTypes, world
<1>5. ClientTypes'
  BY <1>1 DEF Reconnect, Numbers, ClientTypes
<1>6. /\ Channels' /\ toServer'[c] = <<>> /\ toClient'[c] = <<>>
      /\ \A d \in Clients \ {c} : toServer'[d] = toServer[d] /\ toClient'[d] = toClient[d]
  BY DEF Reconnect, IInv, Channels
<1>7. Sound(c)'
  BY <1>2, <1>6 DEF Sound
<1>8. \A d \in Clients \ {c} : Same(d)
  BY <1>1, <1>6 DEF Reconnect, Same, Numbers, ClientTypes
<1>9. QED
  BY <1>3, <1>4, <1>5, <1>6, <1>7, <1>8, OneClient DEF Types

-----------------------------------------------------------------------------
(* The client *)

\* The client sends a packet and changes only what it keeps itself.
LEMMA Sending ==
  ASSUME IInv, NEW c \in Clients, NEW p \in SoundReports(rev[c], have[c]), Send(c, p),
         UNCHANGED <<accounts, world, guarded, polled, toClient, discarded>>,
         UNCHANGED <<crev, base, waiting, snapshot>>, ClientTypes'
  PROVE  IInv'
<1>1. toServer[c] \in Seq(SoundReports(rev[c], have[c]))
      /\ toServer = [d \in Clients |-> toServer[d]]
  BY DEF IInv, Sound, Channels
<1>2. Append(toServer[c], p) \in Seq(SoundReports(rev[c], have[c]))
  BY <1>1, AppendProperties
<1>3. toServer' = [toServer EXCEPT ![c] = Append(toServer[c], p)]
  BY DEF Send
<1>4. Types'
  BY DEF IInv, Types, Numbers, ServerTypes, accounts, world
<1>5. Channels' /\ \A d \in Clients \ {c} : Same(d)
  BY <1>1, <1>3 DEF IInv, Channels, Same, accounts
<1>6. Sound(c)'
  BY <1>1, <1>2, <1>3 DEF IInv, Sound, accounts
<1>7. QED
  BY <1>4, <1>5, <1>6, OneClient

LEMMA DropStep ==
  ASSUME IInv, NEW c \in Clients, Drop(c)
  PROVE  IInv'
<1>1. rev[c] \in Nat /\ have[c] \in Nat /\ view \in [Clients -> Nat]
  BY DEF IInv, Types, Numbers, ClientTypes
<1>2. Place \in SoundReports(rev[c], have[c])
  BY <1>1, Packets
<1>3. view' \in [Clients -> Nat]
  BY <1>1 DEF Drop
<1>4. ClientTypes'
  BY <1>3 DEF Drop, IInv, Types, ClientTypes
<1>5. QED
  BY <1>2, <1>4, Sending DEF Drop

LEMMA TickStep ==
  ASSUME IInv, NEW c \in Clients, Tick(c)
  PROVE  IInv'
<1> DEFINE p == Report(crev[c], view[c], base[c], waiting[c])
<1>1. /\ crev[c] \in Nat /\ view[c] \in Nat /\ base[c] \in Nat /\ waiting[c] \in BOOLEAN
      /\ crev[c] <= rev[c]
      /\ crev[c] = rev[c] => (~waiting[c] => base[c] = have[c])
  BY DEF IInv, Types, ClientTypes, Sound
<1>2. p \in ToServer
  BY <1>1 DEF Report, ToServer
<1>3. p.rev = crev[c] /\ p.early = waiting[c] /\ p.base = base[c]
  BY DEF Report
<1>4. p \in SoundReports(rev[c], have[c])
  BY <1>1, <1>2, <1>3 DEF SoundReports
<1>5. ClientTypes'
  BY DEF Tick, IInv, Types, ClientTypes
<1>6. QED
  BY <1>4, <1>5, Sending DEF Tick

LEMMA AskStep ==
  ASSUME IInv, NEW c \in Clients, NEW k \in Kinds, NEW n \in Nat, Ask(c, k, n)
  PROVE  IInv'
<1>1. rev[c] \in Nat /\ have[c] \in Nat /\ crev[c] \in Nat
  BY DEF IInv, Types, Numbers, ClientTypes
<1>2. Request(k, n, crev[c]) \in SoundReports(rev[c], have[c])
  BY <1>1, Packets
<1>3. ClientTypes'
  BY DEF Ask, IInv, Types, ClientTypes
<1>4. QED
  BY <1>2, <1>3, Sending DEF Ask

\* The head of a client's channel.
LEMMA Delivered ==
  ASSUME IInv, NEW c \in Clients, toClient[c] # <<>>,
         toClient' = [toClient EXCEPT ![c] = Tail(@)]
  PROVE  /\ Head(toClient[c]) \in SoundSnapshots(rev[c], have[c])
         /\ toClient' = [d \in Clients |-> toClient'[d]]
         /\ toClient'[c] \in Seq(SoundSnapshots(rev[c], have[c]))
         /\ \A d \in Clients \ {c} : toClient'[d] = toClient[d]
<1>1. toClient[c] \in Seq(SoundSnapshots(rev[c], have[c]))
      /\ toClient = [d \in Clients |-> toClient[d]]
  BY DEF IInv, Sound, Channels
<1>2. /\ Head(toClient[c]) \in SoundSnapshots(rev[c], have[c])
      /\ Tail(toClient[c]) \in Seq(SoundSnapshots(rev[c], have[c]))
  BY <1>1, HeadTailProperties
<1>3. QED
  BY <1>1, <1>2

LEMMA RebuiltTypes ==
  ASSUME NEW c \in Clients, ClientTypes, ServerTypes, NEW items \in Nat, Rebuilt(c, items)
  PROVE  /\ view' \in [Clients -> Nat] /\ sent' \in [Clients -> Nat]
         /\ base' \in [Clients -> Nat] /\ waiting' \in [Clients -> BOOLEAN]
         /\ discarded' \in BOOLEAN
         /\ base'[c] = items
         /\ \A d \in Clients \ {c} : base'[d] = base[d] /\ waiting'[d] = waiting[d]
BY DEF Rebuilt, ClientTypes, ServerTypes

LEMMA ReceiveStep ==
  ASSUME IInv, NEW c \in Clients, NEW lag \in BOOLEAN, Receive(c, lag)
  PROVE  IInv'
<1> DEFINE m == Head(toClient[c])
<1>1. /\ m.kind = "inventory" /\ m \in SoundSnapshots(rev[c], have[c])
      /\ toClient' = [d \in Clients |-> toClient'[d]]
      /\ toClient'[c] \in Seq(SoundSnapshots(rev[c], have[c]))
      /\ \A d \in Clients \ {c} : toClient'[d] = toClient[d]
  BY Delivered DEF Receive
<1>2. ASSUME NEW p \in ToClient, p.kind = "inventory" PROVE p.rev \in Nat /\ p.items \in Nat
  BY <1>2 DEF ToClient
<1>3. /\ m.rev \in Nat /\ m.items \in Nat /\ m.rev <= rev[c]
      /\ m.rev = rev[c] => m.items = have[c]
  BY <1>1, <1>2 DEF SoundSnapshots
<1>4. /\ gate' = [gate EXCEPT ![c] = FALSE] /\ crev' = [crev EXCEPT ![c] = m.rev]
      /\ snapshot' = [snapshot EXCEPT ![c] = m.items]
      /\ UNCHANGED <<accounts, world, guarded, polled, pending, toServer>>
  BY DEF Receive
<1> HIDE DEF m
<1>5. ServerTypes /\ ClientTypes /\ Numbers
  BY DEF IInv, Types
<1>6. /\ view' \in [Clients -> Nat] /\ sent' \in [Clients -> Nat]
      /\ base' \in [Clients -> Nat] /\ waiting' \in [Clients -> BOOLEAN]
      /\ discarded' \in BOOLEAN
      /\ ~waiting'[c] => base'[c] = m.items
      /\ \A d \in Clients \ {c} : base'[d] = base[d] /\ waiting'[d] = waiting[d]
  <2>1. CASE Rebuilt(c, m.items)
    BY <2>1, <1>3, <1>5, RebuiltTypes
  <2>2. CASE /\ base' = [base EXCEPT ![c] = m.items] /\ waiting' = [waiting EXCEPT ![c] = FALSE]
             /\ UNCHANGED <<view, sent, discarded>>
    BY <2>2, <1>3, <1>5 DEF ClientTypes, ServerTypes
  <2>3. CASE /\ waiting' = [waiting EXCEPT ![c] = TRUE]
             /\ UNCHANGED <<view, sent, base, discarded>>
    BY <2>3, <1>5 DEF ClientTypes, ServerTypes
  <2>4. QED
    BY <2>1, <2>2, <2>3 DEF Receive, m
<1>7. Types'
  <2>1. ClientTypes'
    BY <1>3, <1>4, <1>5, <1>6 DEF ClientTypes
  <2>2. ServerTypes'
    BY <1>4, <1>5, <1>6 DEF ServerTypes, world
  <2>3. QED
    BY <1>4, <1>5, <2>1, <2>2 DEF Types, Numbers, accounts
<1>8. Channels'
  BY <1>1, <1>4 DEF IInv, Channels
<1>9. Sound(c)'
  <2>1. crev'[c] = m.rev /\ snapshot'[c] = m.items
    BY <1>4, <1>5 DEF ClientTypes
  <2>2. rev'[c] = rev[c] /\ have'[c] = have[c] /\ toServer'[c] = toServer[c]
    BY <1>4 DEF accounts
  <2>3. QED
    BY <1>1, <1>3, <1>6, <2>1, <2>2 DEF IInv, Sound
<1>10. \A d \in Clients \ {c} : Same(d)
  BY <1>1, <1>4, <1>5, <1>6 DEF Same, ClientTypes, accounts
<1>11. QED
  BY <1>7, <1>8, <1>9, <1>10, OneClient

LEMMA RestoreStep ==
  ASSUME IInv, NEW c \in Clients, Restore(c)
  PROVE  IInv'
<1>1. ServerTypes /\ ClientTypes /\ Numbers /\ snapshot[c] \in Nat
  BY DEF IInv, Types, ClientTypes
<1>2. /\ Rebuilt(c, snapshot[c])
      /\ UNCHANGED <<accounts, world, guarded, polled, crev, gate, snapshot, pending>>
      /\ UNCHANGED toServer /\ UNCHANGED toClient
  BY DEF Restore
<1>3. /\ view' \in [Clients -> Nat] /\ sent' \in [Clients -> Nat]
      /\ base' \in [Clients -> Nat] /\ waiting' \in [Clients -> BOOLEAN]
      /\ discarded' \in BOOLEAN /\ base'[c] = snapshot[c]
      /\ \A d \in Clients \ {c} : base'[d] = base[d] /\ waiting'[d] = waiting[d]
  BY <1>1, <1>2, RebuiltTypes
<1>4. Types'
  BY <1>1, <1>2, <1>3 DEF Types, Numbers, ServerTypes, ClientTypes, accounts, world
<1>5. Channels' /\ \A d \in Clients \ {c} : Same(d)
  BY <1>2, <1>3 DEF IInv, Channels, Same, accounts
<1>6. Sound(c)'
  BY <1>2, <1>3 DEF IInv, Sound, accounts
<1>7. QED
  BY <1>4, <1>5, <1>6, OneClient

LEMMA ResultStep ==
  ASSUME IInv, NEW c \in Clients, ReceiveResult(c)
  PROVE  IInv'
<1> DEFINE m == Head(toClient[c])
           S == SoundReports(rev[c], have[c])
<1>1. /\ m.kind = "result" /\ m \in SoundSnapshots(rev[c], have[c])
      /\ toClient' = [d \in Clients |-> toClient'[d]]
      /\ toClient'[c] \in Seq(SoundSnapshots(rev[c], have[c]))
      /\ \A d \in Clients \ {c} : toClient'[d] = toClient[d]
  BY Delivered DEF ReceiveResult
<1>2. ASSUME NEW p \in ToClient, p.kind = "result" PROVE p.rev \in Nat
  BY <1>2 DEF ToClient
<1>3. m.rev \in Nat
  BY <1>1, <1>2 DEF SoundSnapshots
<1>4. /\ UNCHANGED <<accounts, world, guarded, polled, view, crev, gate, sent, base, waiting>>
      /\ UNCHANGED <<snapshot, discarded>>
      /\ \/ /\ m.outcome = "stale" /\ pending[c] \in {"take", "put"}
            /\ Send(c, Request(pending[c], 0, m.rev)) /\ UNCHANGED pending
         \/ pending' = [pending EXCEPT ![c] = ""] /\ UNCHANGED toServer
  BY DEF ReceiveResult
<1> HIDE DEF m
<1>5. /\ rev[c] \in Nat /\ have[c] \in Nat /\ pending[c] \in Kinds \cup {""}
      /\ toServer[c] \in Seq(S) /\ toServer = [d \in Clients |-> toServer[d]]
  BY DEF IInv, Types, Numbers, ClientTypes, Sound, Channels
<1>6. /\ toServer'[c] \in Seq(S) /\ toServer' = [d \in Clients |-> toServer'[d]]
      /\ \A d \in Clients \ {c} : toServer'[d] = toServer[d]
      /\ pending' \in [Clients -> Kinds \cup {""}]
  <2>1. CASE pending' = [pending EXCEPT ![c] = ""] /\ UNCHANGED toServer
    BY <1>5, <2>1 DEF IInv, Types, ClientTypes
  <2>2. CASE /\ m.outcome = "stale" /\ pending[c] \in {"take", "put"}
             /\ Send(c, Request(pending[c], 0, m.rev)) /\ UNCHANGED pending
    <3>1. Request(pending[c], 0, m.rev) \in S
      BY <1>3, <1>5, <2>2, Packets DEF Kinds
    <3>2. Append(toServer[c], Request(pending[c], 0, m.rev)) \in Seq(S)
      BY <1>5, <3>1, AppendProperties
    <3>3. QED
      BY <1>5, <2>2, <3>2 DEF Send, IInv, Types, ClientTypes
  <2>3. QED
    BY <1>4, <2>1, <2>2
<1>7. Types'
  BY <1>4, <1>6 DEF IInv, Types, Numbers, ServerTypes, ClientTypes, accounts, world
<1>8. Channels'
  BY <1>1, <1>6 DEF Channels
<1>9. Sound(c)'
  BY <1>1, <1>4, <1>6 DEF IInv, Sound, accounts
<1>10. \A d \in Clients \ {c} : Same(d)
  BY <1>1, <1>4, <1>6 DEF Same, accounts
<1>11. QED
  BY <1>7, <1>8, <1>9, <1>10, OneClient

-----------------------------------------------------------------------------
(* The theorems *)

LEMMA InitInvariant == Init => IInv
<1> SUFFICES ASSUME Init PROVE IInv
  OBVIOUS
<1>1. Carried \in Nat /\ Lying \in Nat /\ Boxed \in Nat
  BY AmountAssumption
<1>2. Types
  <2>1. Numbers
    BY <1>1 DEF Init, All, Numbers
  <2>2. ServerTypes
    <3>1. /\ ground = 1 .. Lying /\ nextNum = Lying + 1 /\ box = Boxed /\ discarded = FALSE
          /\ guarded = [c \in Clients |-> TRUE] /\ polled = [c \in Clients |-> 0]
      BY DEF Init, All
    <3>2. guarded \in [Clients -> BOOLEAN] /\ polled \in [Clients -> Nat]
      BY <3>1
    <3>3. ground \subseteq Nat /\ nextNum \in Nat
      BY <1>1, <3>1
    <3>4. QED
      BY <1>1, <3>1, <3>2, <3>3 DEF ServerTypes
  <2>3. ClientTypes
    BY <1>1 DEF Init, All, ClientTypes
  <2>4. QED
    BY <2>1, <2>2, <2>3 DEF Types
<1>3. Channels
  BY DEF Init, All, Channels
<1>4. ASSUME NEW c \in Clients PROVE Sound(c)
  <2>1. toServer[c] = <<>> /\ toClient[c] = <<>>
    BY DEF Init, All
  <2>2. /\ crev[c] = 0 /\ rev[c] = 0 /\ snapshot[c] = Carried /\ have[c] = Carried
        /\ base[c] = Carried
    BY DEF Init, All
  <2>3. QED
    BY <2>1, <2>2 DEF Sound
<1>5. QED
  BY <1>2, <1>3, <1>4 DEF IInv

LEMMA NextInvariant == IInv /\ [Next]_vars => IInv'
<1> SUFFICES ASSUME IInv, [Next]_vars PROVE IInv'
  OBVIOUS
<1>1. CASE UNCHANGED vars
  BY <1>1 DEF vars, accounts, world, client, IInv, Types, Numbers, ServerTypes, ClientTypes,
              Channels, Sound
<1>2. ASSUME NEW c \in Clients, ClientStep(c) PROVE IInv'
  <2>1. 0 .. MaxNum \subseteq Nat
    OBVIOUS
  <2>2. QED
    BY <1>2, <2>1, DropStep, TickStep, AskStep, ReceiveStep, RestoreStep, ResultStep
       DEF ClientStep
<1>3. ASSUME NEW c \in Clients, ServerStep(c) PROVE IInv'
  BY <1>3, ReportStep, PlaceStep, WorldTakeStep, BoxStep, GuardStep DEF ServerStep
<1>4. ASSUME NEW c \in Clients, Reconnect(c) PROVE IInv'
  BY <1>4, ReconnectStep
<1>5. QED
  BY <1>1, <1>2, <1>3, <1>4 DEF Next

LEMMA Invariance == Spec => []IInv
BY InitInvariant, NextInvariant, PTL DEF Spec

LEMMA InvariantTypes == IInv => TypeOK
<1> SUFFICES ASSUME IInv PROVE TypeOK
  OBVIOUS
<1>1. ASSUME NEW c \in Clients
      PROVE  toServer[c] \in Seq(ToServer) /\ toClient[c] \in Seq(ToClient)
  <2>1. /\ SoundReports(rev[c], have[c]) \subseteq ToServer
        /\ SoundSnapshots(rev[c], have[c]) \subseteq ToClient
    BY DEF SoundReports, SoundSnapshots
  <2>2. QED
    BY <2>1, Widened DEF IInv, Sound
<1>2. toServer \in [Clients -> Seq(ToServer)] /\ toClient \in [Clients -> Seq(ToClient)]
  BY <1>1 DEF IInv, Channels
<1>3. QED
  BY <1>2 DEF IInv, Types, Numbers, ServerTypes, ClientTypes, TypeOK

\* Inventories, revisions and packets keep their types: no transfer makes an
\* inventory negative.
THEOREM TypeCorrect == Spec => []TypeOK
BY InvariantTypes, Invariance, PTL

\* A report the server accepts was made from the inventory it replaces, for
\* any number of clients, items and packets: no change of another origin is
\* overwritten unseen, except by reports that do not wait for a restore.
THEOREM ReportsBuildOnWhatTheyReplace == Spec => []TokenIsSound
<1>1. IInv => TokenIsSound
  <2> SUFFICES ASSUME IInv, NEW c \in Clients, NEW i \in DOMAIN toServer[c],
                      toServer[c][i].kind = "report", ~toServer[c][i].early,
                      toServer[c][i].rev = rev[c]
               PROVE  toServer[c][i].base = have[c]
    BY DEF TokenIsSound
  <2>1. toServer[c] \in Seq(SoundReports(rev[c], have[c]))
    BY DEF IInv, Sound
  <2>2. toServer[c][i] \in SoundReports(rev[c], have[c])
    BY <2>1, ElementOfSeq, LenProperties
  <2>3. QED
    BY <2>2 DEF SoundReports
<1>2. QED
  BY <1>1, Invariance, PTL

LEMMA CommitFollows ==
  ASSUME Numbers, StoreFollows, NEW c \in Clients, NEW items, NEW saved \in BOOLEAN,
         Commit(c, items, saved)
  PROVE  StoreFollows'
<1>1. CASE saved
  BY <1>1 DEF Commit, StoreFollows, Numbers
<1>2. CASE ~saved
  BY <1>2 DEF Commit, StoreFollows, Numbers
<1>3. QED
  BY <1>1, <1>2

\* Whatever is saved or not, and however often clients and server come back,
\* memory and database agree on what each revision stands for.
THEOREM DatabaseFollows == Spec => []StoreFollows
<1>1. Init => StoreFollows
  <2> SUFFICES ASSUME Init, NEW c \in Clients
               PROVE  storedRev[c] = 0 /\ rev[c] = 0 /\ have[c] = stored[c]
    BY DEF StoreFollows
  <2>1. QED
    BY DEF Init, All
<1>2. IInv /\ StoreFollows /\ [Next]_vars => StoreFollows'
  <2> SUFFICES ASSUME IInv, StoreFollows, [Next]_vars PROVE StoreFollows'
    OBVIOUS
  <2>1. Numbers
    BY DEF IInv, Types
  <2>2. CASE UNCHANGED accounts
    BY <2>2 DEF StoreFollows, accounts
  <2>3. ASSUME NEW c \in Clients, ClientStep(c) PROVE UNCHANGED accounts
    BY <2>3 DEF ClientStep, Drop, Tick, Ask, Receive, Restore, ReceiveResult
  <2>4. ASSUME NEW c \in Clients, ServerStep(c)
        PROVE  \/ UNCHANGED accounts
               \/ \E items : \E saved \in BOOLEAN : Commit(c, items, saved)
    <3>1. ASSUME NEW i, NEW n, NEW known \in BOOLEAN, NEW saved \in BOOLEAN,
                 HandleReport(c, i, n, known, saved)
          PROVE  UNCHANGED accounts \/ Commit(c, toServer[c][i].items, saved)
      BY <3>1 DEF HandleReport
    <3>2. ASSUME NEW i, NEW n, NEW fit \in BOOLEAN,
                 HandlePlace(c, i, n, fit) \/ GuardEnds(c)
          PROVE  UNCHANGED accounts
      BY <3>2 DEF HandlePlace, GuardEnds
    <3>3. ASSUME NEW i, NEW n, NEW fit \in BOOLEAN, HandleWorldTake(c, i, n, fit)
          PROVE  UNCHANGED accounts \/ Commit(c, have[c] + 1, TRUE)
      BY <3>3 DEF HandleWorldTake
    <3>4. ASSUME NEW i, NEW n, NEW fit \in BOOLEAN, HandleBox(c, i, n, fit)
          PROVE  UNCHANGED accounts \/ \E items : Commit(c, items, TRUE)
      BY <3>4 DEF HandleBox
    <3>5. QED
      BY <2>4, <3>1, <3>2, <3>3, <3>4 DEF ServerStep
  <2>5. ASSUME NEW c \in Clients, Reconnect(c) PROVE StoreFollows'
    <3>1. /\ have' = [have EXCEPT ![c] = stored[c]]
          /\ rev' = [rev EXCEPT ![c] = storedRev[c]]
          /\ stored' = stored /\ storedRev' = storedRev
      BY <2>5 DEF Reconnect
    <3>2. QED
      BY <2>1, <3>1 DEF StoreFollows, Numbers
  <2>6. CASE UNCHANGED vars
    BY <2>2, <2>6 DEF vars
  <2>7. ASSUME NEW c \in Clients, ServerStep(c) PROVE StoreFollows'
    BY <2>1, <2>2, <2>4, <2>7, CommitFollows
  <2>8. ASSUME NEW c \in Clients, ClientStep(c) PROVE StoreFollows'
    BY <2>2, <2>3, <2>8
  <2>9. CASE Next
    BY <2>5, <2>7, <2>8, <2>9 DEF Next
  <2>10. QED
    BY <2>6, <2>9
<1>3. QED
  BY <1>1, <1>2, Invariance, PTL DEF Spec

-----------------------------------------------------------------------------
(* Clients at rest *)

\* What is always on its way: the answer to a report and to a request, and the
\* inventory of the server's revision if the client does not have it.
Carries(q, K) == \E i \in DOMAIN q : q[i].kind \in K
EndsAt(q, known, r) ==
  /\ Carries(q, {"inventory"}) \/ known = r
  /\ \A i \in DOMAIN q :
       /\ q[i].kind = "inventory"
       /\ \A j \in DOMAIN q : i < j => q[j].kind # "inventory"
       => q[i].rev = r
AnswerDue(c) ==
  /\ gate[c] => Carries(toServer[c], {"report"}) \/ Carries(toClient[c], {"inventory"})
  /\ pending[c] # "" => Carries(toServer[c], Kinds) \/ Carries(toClient[c], {"result"})
Told(c) ==
  /\ AnswerDue(c)
  /\ EndsAt(toClient[c], crev[c], rev[c])
  /\ ~gate[c] /\ ~waiting[c] => sent[c] = base[c]
AllTold == \A c \in Clients : Told(c)

LEMMA Appended ==
  ASSUME NEW S, NEW q \in Seq(S), NEW m \in S
  PROVE  /\ Append(q, m) \in Seq(S)
         /\ \A K : Carries(q, K) \/ m.kind \in K => Carries(Append(q, m), K)
         /\ \A k, r : m.kind = "inventory" /\ m.rev = r => EndsAt(Append(q, m), k, r)
         /\ \A k, r : m.kind # "inventory" /\ EndsAt(q, k, r) => EndsAt(Append(q, m), k, r)
<1> DEFINE a == Append(q, m)
<1>1. /\ a \in Seq(S) /\ Len(q) \in Nat /\ DOMAIN q = 1 .. Len(q)
      /\ DOMAIN a = 1 .. Len(q) + 1
      /\ \A i \in 1 .. Len(q) : a[i] = q[i]
      /\ a[Len(q) + 1] = m
  BY AppendProperties, LenProperties
<1> HIDE DEF a
<1>2. \A K : Carries(q, K) \/ m.kind \in K => Carries(a, K)
  BY <1>1 DEF Carries
<1>3. \A k, r : m.kind = "inventory" /\ m.rev = r => EndsAt(a, k, r)
  BY <1>1, <1>2 DEF EndsAt
<1>4. \A k, r : m.kind # "inventory" /\ EndsAt(q, k, r) => EndsAt(a, k, r)
  <2> SUFFICES ASSUME NEW k, NEW r, m.kind # "inventory", EndsAt(q, k, r)
               PROVE  EndsAt(a, k, r)
    OBVIOUS
  <2>1. Carries(a, {"inventory"}) \/ k = r
    BY <1>2 DEF EndsAt
  <2>2. ASSUME NEW i \in DOMAIN a, a[i].kind = "inventory",
               \A j \in DOMAIN a : i < j => a[j].kind # "inventory"
        PROVE  a[i].rev = r
    <3>1. i \in DOMAIN q /\ a[i] = q[i]
      BY <1>1, <2>2
    <3>2. \A j \in DOMAIN q : i < j => q[j].kind # "inventory"
      BY <1>1, <2>2
    <3>3. QED
      BY <2>2, <3>1, <3>2 DEF EndsAt
  <2>3. QED
    BY <2>1, <2>2 DEF EndsAt
<1>5. QED
  BY <1>1, <1>2, <1>3, <1>4 DEF a

\* p is q without its packet i.
Lacks(p, q, i) ==
  /\ Len(p) = Len(q) - 1
  /\ \A j \in 1 .. Len(q) - 1 :
       (j < i => p[j] = q[j]) /\ (~(j < i) => p[j] = q[j + 1])

LEMMA TakenOut ==
  ASSUME NEW S, NEW q \in Seq(S), NEW i \in 1 .. Len(q)
  PROVE  Lacks(SubSeq(q, 1, i - 1) \o SubSeq(q, i + 1, Len(q)), q, i)
<1> DEFINE p == SubSeq(q, 1, i - 1) \o SubSeq(q, i + 1, Len(q))
           s == SubSeq(q, 1, i - 1)
           t == SubSeq(q, i + 1, Len(q))
<1>1. i \in 1 .. Len(q) /\ Len(q) \in Nat /\ \A j \in 1 .. Len(q) : q[j] \in S
  BY LenProperties, ElementOfSeq
<1>2. s \in Seq(S) /\ Len(s) = i - 1 /\ \A j \in 1 .. i - 1 : s[j] = q[j]
  BY <1>1, SubSeqProperties
<1>3. t \in Seq(S) /\ Len(t) = Len(q) - i /\ \A j \in 1 .. Len(q) - i : t[j] = q[i + j]
  BY <1>1, SubSeqProperties
<1>4. p = s \o t
  OBVIOUS
<1> HIDE DEF s, t, p
<1>5. /\ Len(p) = Len(s) + Len(t)
      /\ \A j \in 1 .. Len(s) + Len(t) : p[j] = IF j <= Len(s) THEN s[j] ELSE t[j - Len(s)]
  <2>1. /\ s \o t \in Seq(S) /\ Len(s \o t) = Len(s) + Len(t)
        /\ \A j \in 1 .. Len(s) + Len(t) :
             (s \o t)[j] = IF j <= Len(s) THEN s[j] ELSE t[j - Len(s)]
    BY <1>2, <1>3, ConcatProperties
  <2>2. QED
    BY <1>4, <2>1
<1>6. Len(s) + Len(t) = Len(q) - 1
  BY <1>1, <1>2, <1>3
<1>7. ASSUME NEW j \in 1 .. Len(q) - 1 PROVE p[j] = IF j < i THEN q[j] ELSE q[j + 1]
  <2>1. p[j] = IF j <= i - 1 THEN s[j] ELSE t[j - (i - 1)]
    BY <1>2, <1>5, <1>6
  <2>2. CASE j < i
    <3>1. j <= i - 1 /\ j \in 1 .. i - 1
      BY <1>1, <2>2
    <3>2. QED
      BY <1>2, <2>1, <2>2, <3>1
  <2>3. CASE ~(j < i)
    <3>1. /\ ~(j <= i - 1) /\ j - (i - 1) \in 1 .. Len(q) - i
          /\ i + (j - (i - 1)) = j + 1
      BY <1>1, <2>3
    <3>2. QED
      BY <1>3, <2>1, <2>3, <3>1
  <2>4. QED
    BY <2>2, <2>3
<1>8. Lacks(p, q, i)
  BY <1>5, <1>6, <1>7 DEF Lacks
<1>9. QED
  BY <1>8 DEF p

\* A packet that is handled leaves the others under way.
LEMMA OthersStay ==
  ASSUME NEW S, NEW q \in Seq(S), NEW i \in 1 .. Len(q), NEW p \in Seq(S), Lacks(p, q, i),
         NEW j \in DOMAIN q, j # i
  PROVE  \E k \in DOMAIN p : p[k] = q[j]
<1>1. /\ Len(q) \in Nat /\ DOMAIN q = 1 .. Len(q) /\ DOMAIN p = 1 .. Len(q) - 1
  BY LenProperties DEF Lacks
<1>2. /\ Len(q) \in Nat /\ DOMAIN q = 1 .. Len(q) /\ DOMAIN p = 1 .. Len(q) - 1
      /\ \A k \in 1 .. Len(q) - 1 :
           (k < i => p[k] = q[k]) /\ (~(k < i) => p[k] = q[k + 1])
  BY <1>1 DEF Lacks
<1>3. i \in 1 .. Len(q) /\ j \in 1 .. Len(q)
  BY <1>2
<1>4. CASE j < i
  <2>1. j \in 1 .. Len(q) - 1
    BY <1>2, <1>3, <1>4
  <2>2. QED
    BY <1>2, <1>4, <2>1
<1>5. CASE i < j
  <2>1. j - 1 \in 1 .. Len(q) - 1 /\ ~(j - 1 < i) /\ (j - 1) + 1 = j
    BY <1>2, <1>3, <1>5
  <2>2. QED
    BY <1>2, <2>1
<1>6. QED
  BY <1>2, <1>3, <1>4, <1>5

LEMMA Taken ==
  ASSUME NEW S, NEW q \in Seq(S), NEW i \in 1 .. Len(q), NEW K, Carries(q, K),
         q[i].kind \notin K
  PROVE  Carries(SubSeq(q, 1, i - 1) \o SubSeq(q, i + 1, Len(q)), K)
<1> DEFINE p == SubSeq(q, 1, i - 1) \o SubSeq(q, i + 1, Len(q))
<1>1. p \in Seq(S) /\ Lacks(p, q, i)
  BY Removal, TakenOut
<1> HIDE DEF p
<1>2. PICK j \in DOMAIN q : q[j].kind \in K
  BY DEF Carries
<1>3. j # i
  BY <1>2
<1>4. \E k \in DOMAIN p : p[k] = q[j]
  BY <1>1, <1>3, OthersStay
<1>5. QED
  BY <1>2, <1>4 DEF Carries, p

\* The packet a client receives.
LEMMA Next1 ==
  ASSUME NEW S, NEW q \in Seq(S), q # <<>>
  PROVE  /\ \A K : Carries(q, K) => Head(q).kind \in K \/ Carries(Tail(q), K)
         /\ \A k, r : EndsAt(q, k, r) =>
              EndsAt(Tail(q), IF Head(q).kind = "inventory" THEN Head(q).rev ELSE k, r)
<1> DEFINE t == Tail(q)
<1>1. /\ Len(q) \in Nat \ {0} /\ DOMAIN q = 1 .. Len(q) /\ DOMAIN t = 1 .. Len(q) - 1
      /\ Head(q) = q[1] /\ \A i \in 1 .. Len(q) - 1 : t[i] = q[i + 1]
  BY HeadTailProperties, LenProperties, EmptySeq
<1> HIDE DEF t
<1>2. \A i \in 1 .. Len(q) : i # 1 => i - 1 \in 1 .. Len(q) - 1 /\ t[i - 1] = q[i]
  BY <1>1
<1>3. \A K : Carries(q, K) => Head(q).kind \in K \/ Carries(t, K)
  BY <1>1, <1>2 DEF Carries
<1>4. ASSUME NEW k, NEW r, EndsAt(q, k, r)
      PROVE  EndsAt(t, IF Head(q).kind = "inventory" THEN Head(q).rev ELSE k, r)
  <2>1. ASSUME NEW i \in DOMAIN t, t[i].kind = "inventory",
               \A j \in DOMAIN t : i < j => t[j].kind # "inventory"
        PROVE  t[i].rev = r
    <3>1. i + 1 \in DOMAIN q /\ q[i + 1] = t[i]
      BY <1>1
    <3>2. ASSUME NEW j \in DOMAIN q, i + 1 < j PROVE q[j].kind # "inventory"
      <4>1. j # 1 /\ i < j - 1
        BY <1>1, <3>2
      <4>2. j - 1 \in DOMAIN t /\ t[j - 1] = q[j]
        BY <1>1, <1>2, <4>1
      <4>3. QED
        BY <2>1, <4>1, <4>2
    <3>3. QED
      BY <1>4, <2>1, <3>1, <3>2 DEF EndsAt
  <2>2. CASE Carries(t, {"inventory"})
    BY <2>1, <2>2 DEF EndsAt
  <2>3. CASE ~Carries(t, {"inventory"}) /\ Head(q).kind = "inventory"
    <3>1. ASSUME NEW j \in DOMAIN q, 1 < j PROVE q[j].kind # "inventory"
      <4>1. j - 1 \in DOMAIN t /\ t[j - 1] = q[j]
        BY <1>1, <1>2, <3>1
      <4>2. QED
        BY <2>3, <4>1 DEF Carries
    <3>2. Head(q).rev = r
      BY <1>1, <1>4, <2>3, <3>1 DEF EndsAt
    <3>3. QED
      BY <2>1, <2>3, <3>2 DEF EndsAt
  <2>4. CASE ~Carries(t, {"inventory"}) /\ Head(q).kind # "inventory"
    <3>1. ~Carries(q, {"inventory"})
      BY <1>3, <2>4
    <3>2. QED
      BY <1>4, <2>1, <2>4, <3>1 DEF EndsAt
  <2>5. QED
    BY <2>2, <2>3, <2>4
<1>5. QED
  BY <1>3, <1>4 DEF t

Still(d) ==
  /\ Same(d) /\ gate'[d] = gate[d] /\ pending'[d] = pending[d] /\ sent'[d] = sent[d]

LEMMA OneIsTold ==
  ASSUME AllTold, NEW c \in Clients, Told(c)', \A d \in Clients \ {c} : Still(d)
  PROVE  AllTold'
<1>1. ASSUME NEW d \in Clients, d # c PROVE Told(d)'
  BY <1>1 DEF AllTold, Told, AnswerDue, Still, Same
<1>2. QED
  BY <1>1 DEF AllTold

LEMMA ReplyIs ==
  ASSUME TypeOK, NEW c \in Clients, NEW a \in ToClient, NEW b \in ToClient
  PROVE  /\ Reply(c, <<a>>) => toClient'[c] = Append(toClient[c], a)
         /\ Reply(c, <<a, b>>) => toClient'[c] = Append(Append(toClient[c], a), b)
<1> DEFINE q == toClient[c]
<1>1. q \in Seq(ToClient) /\ toClient \in [Clients -> Seq(ToClient)]
  BY DEF TypeOK
<1> HIDE DEF q
<1>2. q \o <<a>> = Append(q, a) /\ Append(q, a) \in Seq(ToClient)
  BY <1>1, AppendProperties, AppendIsConcat
<1>3. q \o <<a, b>> = Append(Append(q, a), b)
  <2> DEFINE z == <<a, b>>
             y == Append(q, a)
             x == Append(y, b)
  <2>1. z \in Seq(ToClient) /\ Len(z) = 2 /\ z[1] = a /\ z[2] = b
    OBVIOUS
  <2>2. /\ y \in Seq(ToClient) /\ Len(y) = Len(q) + 1 /\ y[Len(q) + 1] = a
        /\ \A j \in 1 .. Len(q) : y[j] = q[j]
    BY <1>1, AppendProperties
  <2> HIDE DEF z, y
  <2>3. /\ x \in Seq(ToClient) /\ Len(x) = Len(y) + 1 /\ x[Len(y) + 1] = b
        /\ \A j \in 1 .. Len(y) : x[j] = y[j]
    BY <2>2, AppendProperties
  <2>4. /\ q \o z \in Seq(ToClient) /\ Len(q \o z) = Len(q) + 2
        /\ \A j \in 1 .. Len(q) + 2 :
             (q \o z)[j] = IF j <= Len(q) THEN q[j] ELSE z[j - Len(q)]
    <3>1. /\ q \o z \in Seq(ToClient) /\ Len(q \o z) = Len(q) + Len(z)
          /\ \A j \in 1 .. Len(q) + Len(z) :
               (q \o z)[j] = IF j <= Len(q) THEN q[j] ELSE z[j - Len(q)]
      BY <1>1, <2>1, ConcatProperties
    <3>2. Len(q) + Len(z) = Len(q) + 2
      BY <2>1
    <3>3. QED
      BY <3>1, <3>2
  <2> HIDE DEF x
  <2>5. Len(q) \in Nat /\ Len(x) = Len(q) + 2
    BY <1>1, <2>2, <2>3, LenProperties
  <2>6. ASSUME NEW j \in 1 .. Len(q) + 2 PROVE (q \o z)[j] = x[j]
    <3>1. CASE j <= Len(q)
      BY <2>2, <2>3, <2>4, <2>5, <3>1
    <3>2. CASE j = Len(q) + 1
      <4>1. ~(j <= Len(q)) /\ j - Len(q) = 1 /\ j \in 1 .. Len(y) /\ j \in 1 .. Len(q) + 2
        BY <2>2, <2>5, <3>2
      <4>2. (q \o z)[j] = a
        BY <2>1, <2>4, <4>1
      <4>3. x[j] = a
        BY <2>2, <2>3, <3>2, <4>1
      <4>4. QED
        BY <4>2, <4>3
    <3>3. CASE j = Len(q) + 2
      <4>1. ~(j <= Len(q)) /\ j - Len(q) = 2 /\ j = Len(y) + 1
        BY <2>2, <2>5, <3>3
      <4>2. QED
        BY <2>1, <2>3, <2>4, <4>1
    <3>4. j <= Len(q) \/ j = Len(q) + 1 \/ j = Len(q) + 2
      BY <2>5
    <3>5. QED
      BY <3>1, <3>2, <3>3, <3>4
  <2>7. q \o z = x
    BY <2>3, <2>4, <2>5, <2>6, SeqEqual
  <2>8. QED
    BY <2>7 DEF x, y, z
<1>4. Reply(c, <<a>>) => toClient'[c] = q \o <<a>>
  BY <1>1 DEF Reply, q
<1>5. Reply(c, <<a, b>>) => toClient'[c] = q \o <<a, b>>
  BY <1>1 DEF Reply, q
<1>6. QED
  BY <1>2, <1>3, <1>4, <1>5 DEF q

\* A handler answers what it was asked, and tells of a revision it makes.
Answers(c, m) ==
  \/ m.kind = "place" /\ rev'[c] = rev[c] /\ UNCHANGED toClient
  \/ /\ m.kind = "report"
     /\ \E x \in Nat : Reply(c, <<Inventory(rev'[c], x)>>)
  \/ /\ m.kind \in Kinds
     /\ \E x, r \in Nat, o \in {"done", "refused", "stale"} :
          Reply(c, <<Inventory(rev'[c], x), Result(o, r)>>)
  \/ /\ m.kind \in Kinds /\ rev'[c] = rev[c]
     /\ \E r \in Nat, o \in {"done", "refused", "stale"} : Reply(c, <<Result(o, r)>>)

LEMMA HandlerTells ==
  ASSUME TypeOK, AllTold, NEW c \in Clients, NEW i \in DOMAIN toServer[c], NEW n,
         InTurn(c, i, n), UNCHANGED client, rev'[c] \in Nat, Answers(c, toServer[c][i])
  PROVE  Told(c)'
<1> DEFINE m == toServer[c][i]
           q == toClient[c]
           p == SubSeq(toServer[c], 1, i - 1) \o SubSeq(toServer[c], i + 1, Len(toServer[c]))
<1>1. /\ toServer[c] \in Seq(ToServer) /\ q \in Seq(ToClient) /\ i \in 1 .. Len(toServer[c])
      /\ toServer \in [Clients -> Seq(ToServer)]
  BY LenProperties DEF TypeOK
<1>2. toServer'[c] = p
  BY <1>1 DEF InTurn
<1>3. \A K : Carries(toServer[c], K) => m.kind \in K \/ Carries(p, K)
  BY <1>1, Taken
<1>4. /\ gate'[c] = gate[c] /\ pending'[c] = pending[c] /\ crev'[c] = crev[c]
      /\ waiting'[c] = waiting[c] /\ sent'[c] = sent[c] /\ base'[c] = base[c]
  BY DEF client
<1>5. /\ \A x \in Nat : Inventory(rev'[c], x) \in ToClient
      /\ \A r \in Nat, o \in {"done", "refused", "stale"} : Result(o, r) \in ToClient
  BY DEF Inventory, Result, ToClient
<1>6. /\ \A x : Inventory(rev'[c], x).kind = "inventory" /\ Inventory(rev'[c], x).rev = rev'[c]
      /\ \A o, r : Result(o, r).kind = "result"
  BY DEF Inventory, Result
<1>7. Told(c)
  BY DEF AllTold
<1> HIDE DEF m, p, q
<1>8. SUFFICES /\ \A K \in {{"report"}, Kinds} : Carries(toServer[c], K) =>
                    \/ Carries(p, K)
                    \/ Carries(toClient'[c], IF K = Kinds THEN {"result"} ELSE {"inventory"})
               /\ \A K : Carries(q, K) => Carries(toClient'[c], K)
               /\ EndsAt(toClient'[c], crev[c], rev'[c])
  <2>1. {"report"} # Kinds
    BY DEF Kinds
  <2>2. QED
    BY <1>2, <1>4, <1>7, <2>1 DEF Told, AnswerDue, q
<1>9. CASE m.kind = "place" /\ rev'[c] = rev[c] /\ UNCHANGED toClient
  BY <1>3, <1>7, <1>9 DEF Told, Kinds, q
<1>10. ASSUME m.kind = "report", NEW x \in Nat, Reply(c, <<Inventory(rev'[c], x)>>)
       PROVE  /\ Carries(toClient'[c], {"inventory"})
              /\ \A K : Carries(q, K) => Carries(toClient'[c], K)
              /\ EndsAt(toClient'[c], crev[c], rev'[c])
  <2> DEFINE a == Inventory(rev'[c], x)
  <2>1. a \in ToClient /\ a.kind = "inventory" /\ a.rev = rev'[c]
    BY <1>5, <1>6
  <2>2. toClient'[c] = Append(q, a)
    BY <1>5, <1>10, ReplyIs DEF q
  <2> HIDE DEF a
  <2>3. /\ \A K : Carries(q, K) => Carries(Append(q, a), K)
        /\ Carries(Append(q, a), {"inventory"})
    BY <1>1, <2>1, Appended
  <2>4. EndsAt(Append(q, a), crev[c], rev'[c])
    BY <1>1, <2>1, Appended
  <2>5. QED
    BY <2>2, <2>3, <2>4
<1>11. ASSUME m.kind \in Kinds, NEW x \in Nat, NEW r \in Nat,
              NEW o \in {"done", "refused", "stale"},
              Reply(c, <<Inventory(rev'[c], x), Result(o, r)>>)
       PROVE  /\ Carries(toClient'[c], {"result"})
              /\ \A K : Carries(q, K) => Carries(toClient'[c], K)
              /\ EndsAt(toClient'[c], crev[c], rev'[c])
  <2> DEFINE a == Append(q, Inventory(rev'[c], x))
  <2>1. toClient'[c] = Append(a, Result(o, r))
    BY <1>5, <1>11, ReplyIs DEF q
  <2>2. /\ a \in Seq(ToClient) /\ EndsAt(a, crev[c], rev'[c])
        /\ \A K : Carries(q, K) => Carries(a, K)
    BY <1>1, <1>5, <1>6, Appended
  <2> HIDE DEF a
  <2>3. Result(o, r) \in ToClient /\ Result(o, r).kind = "result"
    BY <1>5, <1>6
  <2>4. QED
    BY <2>1, <2>2, <2>3, Appended
<1>12. ASSUME m.kind \in Kinds, rev'[c] = rev[c], NEW r \in Nat,
              NEW o \in {"done", "refused", "stale"}, Reply(c, <<Result(o, r)>>)
       PROVE  /\ Carries(toClient'[c], {"result"})
              /\ \A K : Carries(q, K) => Carries(toClient'[c], K)
              /\ EndsAt(toClient'[c], crev[c], rev'[c])
  <2>1. toClient'[c] = Append(q, Result(o, r))
    BY <1>5, <1>12, ReplyIs DEF q
  <2>2. Result(o, r) \in ToClient /\ Result(o, r).kind = "result"
    BY <1>5, <1>6
  <2>3. EndsAt(q, crev[c], rev'[c])
    BY <1>7, <1>12 DEF Told, q
  <2>4. QED
    BY <1>1, <2>1, <2>2, <2>3, Appended
<1>13. CASE m.kind = "report" /\ \E x \in Nat : Reply(c, <<Inventory(rev'[c], x)>>)
  BY <1>3, <1>10, <1>13 DEF Kinds
<1>14. CASE m.kind \in Kinds /\ Carries(toClient'[c], {"result"})
            /\ (\A K : Carries(q, K) => Carries(toClient'[c], K))
            /\ EndsAt(toClient'[c], crev[c], rev'[c])
  BY <1>3, <1>14 DEF Kinds
<1>15. QED
  BY <1>9, <1>11, <1>12, <1>13, <1>14 DEF Answers, m

LEMMA HandlerLeaves ==
  ASSUME IInv, NEW c \in Clients, NEW i \in DOMAIN toServer[c], NEW n \in DOMAIN toServer[c],
         InTurn(c, i, n), UNCHANGED client,
         UNCHANGED accounts \/ \E items, saved : Commit(c, items, saved),
         UNCHANGED toClient \/ \E ms : Reply(c, ms)
  PROVE  \A d \in Clients \ {c} : Still(d)
<1> SUFFICES ASSUME NEW d \in Clients \ {c} PROVE Still(d)
  OBVIOUS
<1>1. toServer'[d] = toServer[d]
  BY Turn
<1>2. have'[d] = have[d] /\ rev'[d] = rev[d]
  BY DEF accounts, Commit, IInv, Types, Numbers
<1>3. toClient'[d] = toClient[d]
  BY DEF Reply, IInv, Channels
<1>4. QED
  BY <1>1, <1>2, <1>3 DEF Still, Same, client

LEMMA HandlersTell ==
  ASSUME IInv, AllTold, NEW c \in Clients, NEW i \in DOMAIN toServer[c],
         NEW n \in DOMAIN toServer[c], NEW fit \in BOOLEAN, NEW saved \in BOOLEAN,
         \/ HandleReport(c, i, n, fit, saved) \/ HandlePlace(c, i, n, fit)
         \/ HandleWorldTake(c, i, n, fit) \/ HandleBox(c, i, n, fit)
  PROVE  AllTold'
<1> DEFINE m == toServer[c][i]
<1>1. TypeOK /\ m \in ToServer /\ (m.kind = "report" => m.items \in Nat)
  BY InvariantTypes, Received
<1>2. rev[c] \in Nat /\ have[c] \in Nat /\ rev \in [Clients -> Nat]
  BY DEF IInv, Types, Numbers
<1>3. InTurn(c, i, n) /\ UNCHANGED client
  BY DEF HandleReport, HandlePlace, HandleWorldTake, HandleBox
<1>4. SUFFICES /\ rev'[c] \in Nat /\ Answers(c, m)
               /\ UNCHANGED accounts \/ \E items, s : Commit(c, items, s)
  <2>1. UNCHANGED toClient \/ \E ms : Reply(c, ms)
    BY <1>4 DEF Answers
  <2>2. Told(c)'
    BY <1>1, <1>3, <1>4, HandlerTells
  <2>3. \A d \in Clients \ {c} : Still(d)
    BY <1>3, <1>4, <2>1, HandlerLeaves
  <2>4. QED
    BY <2>2, <2>3, OneIsTold
<1> HIDE DEF m
<1>5. ASSUME NEW items, NEW s, Commit(c, items, s) PROVE rev'[c] = rev[c] + 1
  BY <1>2, <1>5 DEF Commit
<1>6. UNCHANGED accounts => rev'[c] = rev[c]
  BY DEF accounts
<1>7. CASE HandleReport(c, i, n, fit, saved)
  <2>1. m.kind = "report"
    BY <1>7 DEF HandleReport, m
  <2>2. CASE Reply(c, <<Current(c)>>) /\ UNCHANGED accounts
    BY <1>2, <1>6, <2>1, <2>2 DEF Answers, Current
  <2>3. CASE Commit(c, m.items, saved) /\ Reply(c, <<Inventory(rev[c] + 1, m.items)>>)
    BY <1>1, <1>2, <1>5, <2>1, <2>3 DEF Answers
  <2>4. QED
    BY <1>7, <2>2, <2>3 DEF HandleReport, m
<1>8. CASE HandlePlace(c, i, n, fit)
  <2>1. m.kind = "place" /\ UNCHANGED accounts /\ UNCHANGED toClient
    BY <1>8 DEF HandlePlace, m
  <2>2. QED
    BY <1>2, <1>6, <2>1 DEF Answers
<1>9. ASSUME m.kind \in Kinds,
             \/ \E items \in Nat : \E s : Commit(c, items, s) /\ Committed(c, items)
             \/ UNCHANGED accounts /\ Reply(c, <<Current(c), Result("stale", rev[c])>>)
             \/ UNCHANGED accounts /\ Reply(c, <<Result("refused", rev[c])>>)
      PROVE  /\ rev'[c] \in Nat /\ Answers(c, m)
             /\ UNCHANGED accounts \/ \E items, s : Commit(c, items, s)
  <2>1. ASSUME NEW items \in Nat, NEW s, Commit(c, items, s), Committed(c, items)
        PROVE  rev'[c] \in Nat /\ Answers(c, m)
    <3>1. rev'[c] = rev[c] + 1 /\ rev'[c] \in Nat
      BY <1>2, <1>5, <2>1
    <3>2. Reply(c, <<Inventory(rev'[c], items), Result("done", rev'[c])>>)
      BY <2>1, <3>1 DEF Committed
    <3>3. QED
      BY <1>9, <3>1, <3>2 DEF Answers
  <2>2. CASE UNCHANGED accounts /\ Reply(c, <<Current(c), Result("stale", rev[c])>>)
    <3>1. Reply(c, <<Inventory(rev'[c], have[c]), Result("stale", rev[c])>>)
      BY <1>6, <2>2 DEF Current
    <3>2. QED
      BY <1>2, <1>6, <1>9, <2>2, <3>1 DEF Answers
  <2>3. CASE UNCHANGED accounts /\ Reply(c, <<Result("refused", rev[c])>>)
    BY <1>2, <1>6, <1>9, <2>3 DEF Answers
  <2>4. QED
    BY <1>9, <2>1, <2>2, <2>3
<1>10. CASE HandleWorldTake(c, i, n, fit)
  <2>1. m.kind \in Kinds /\ have[c] + 1 \in Nat
    BY <1>2, <1>10 DEF HandleWorldTake, Kinds, m
  <2>2. QED
    BY <1>9, <1>10, <2>1 DEF HandleWorldTake, m
<1>11. CASE HandleBox(c, i, n, fit)
  <2> DEFINE items == IF m.kind = "take" THEN have[c] + 1 ELSE have[c] - 1
  <2>1. m.kind \in {"take", "put"} /\ m.kind \in Kinds
    BY <1>11 DEF HandleBox, Kinds, m
  <2>2. Present(c, m.kind) => items \in Nat
    BY <1>2, <2>1 DEF Present
  <2>3. \/ Present(c, m.kind) /\ Commit(c, items, TRUE) /\ Committed(c, items)
        \/ UNCHANGED accounts /\ Reply(c, <<Current(c), Result("stale", rev[c])>>)
        \/ UNCHANGED accounts /\ Reply(c, <<Result("refused", rev[c])>>)
    BY <1>11 DEF HandleBox, m
  <2> HIDE DEF items
  <2>4. QED
    BY <1>9, <2>1, <2>2, <2>3
<1>12. QED
  BY <1>7, <1>8, <1>10, <1>11

\* What a client does without hearing from the server.
LEMMA ClientTells ==
  ASSUME IInv, AllTold, NEW c \in Clients,
         \/ Drop(c) \/ Tick(c) \/ Restore(c)
         \/ \E k \in Kinds, n \in Nat : Ask(c, k, n)
  PROVE  AllTold'
<1>1. /\ toServer[c] \in Seq(ToServer) /\ toServer = [d \in Clients |-> toServer[d]]
      /\ Types /\ Told(c)
  BY InvariantTypes DEF TypeOK, IInv, Channels, AllTold
<1>2. /\ UNCHANGED <<accounts, crev, toClient>>
      /\ have' = have /\ rev' = rev
  BY DEF Drop, Tick, Restore, Ask, accounts
<1>3. ASSUME NEW p \in ToServer, Send(c, p)
      PROVE  /\ toServer'[c] = Append(toServer[c], p)
             /\ \A d \in Clients \ {c} : toServer'[d] = toServer[d]
             /\ \A K : Carries(toServer[c], K) \/ p.kind \in K => Carries(toServer'[c], K)
  BY <1>1, <1>3, Appended DEF Send
<1>4. CASE Drop(c)
  <2>1. Place \in ToServer /\ Send(c, Place)
    BY <1>4 DEF Drop, ToServer
  <2>2. /\ UNCHANGED <<gate, pending, waiting, sent, base, snapshot>>
    BY <1>4 DEF Drop
  <2>3. Told(c)'
    BY <1>1, <1>2, <1>3, <2>1, <2>2 DEF Told, AnswerDue
  <2>4. \A d \in Clients \ {c} : Still(d)
    BY <1>2, <1>3, <2>1, <2>2 DEF Still, Same
  <2>5. QED
    BY <2>3, <2>4, OneIsTold
<1>5. CASE Tick(c)
  <2> DEFINE p == Report(crev[c], view[c], base[c], waiting[c])
  <2>1. p \in ToServer /\ p.kind = "report" /\ Send(c, p)
    BY <1>1, <1>5 DEF Tick, Report, ToServer, Types, ClientTypes
  <2> HIDE DEF p
  <2>2. /\ gate' = [gate EXCEPT ![c] = TRUE] /\ sent' = [sent EXCEPT ![c] = view[c]]
        /\ UNCHANGED <<pending, waiting, base, snapshot>>
    BY <1>5 DEF Tick
  <2>3. gate'[c] /\ Carries(toServer'[c], {"report"})
    BY <1>1, <1>3, <2>1, <2>2 DEF Types, ClientTypes
  <2>4. Told(c)'
    BY <1>1, <1>2, <1>3, <2>1, <2>2, <2>3 DEF Told, AnswerDue
  <2>5. \A d \in Clients \ {c} : Still(d)
    BY <1>1, <1>2, <1>3, <2>1, <2>2 DEF Still, Same, Types, ClientTypes
  <2>6. QED
    BY <2>4, <2>5, OneIsTold
<1>6. ASSUME NEW k \in Kinds, NEW n \in Nat, Ask(c, k, n) PROVE AllTold'
  <2> DEFINE p == Request(k, n, crev[c])
  <2>1. p \in ToServer /\ p.kind \in Kinds /\ Send(c, p)
    BY <1>1, <1>6 DEF Ask, Request, ToServer, Types, ClientTypes
  <2> HIDE DEF p
  <2>2. /\ pending' = [pending EXCEPT ![c] = k]
        /\ UNCHANGED <<gate, sent, waiting, base, snapshot>>
    BY <1>6 DEF Ask
  <2>3. Carries(toServer'[c], Kinds)
    BY <1>3, <2>1
  <2>4. Told(c)'
    BY <1>1, <1>2, <1>3, <2>1, <2>2, <2>3 DEF Told, AnswerDue
  <2>5. \A d \in Clients \ {c} : Still(d)
    BY <1>1, <1>2, <1>3, <2>1, <2>2 DEF Still, Same, Types, ClientTypes
  <2>6. QED
    BY <2>4, <2>5, OneIsTold
<1>7. CASE Restore(c)
  <2>1. /\ UNCHANGED <<gate, pending, snapshot, toServer>> /\ Rebuilt(c, snapshot[c])
    BY <1>7 DEF Restore
  <2>2. /\ sent'[c] = base'[c]
        /\ \A d \in Clients \ {c} :
             sent'[d] = sent[d] /\ base'[d] = base[d] /\ waiting'[d] = waiting[d]
    BY <1>1, <2>1 DEF Rebuilt, Types, ClientTypes
  <2>3. Told(c)'
    BY <1>1, <1>2, <2>1, <2>2 DEF Told, AnswerDue
  <2>4. \A d \in Clients \ {c} : Still(d)
    BY <1>2, <2>1, <2>2 DEF Still, Same
  <2>5. QED
    BY <2>3, <2>4, OneIsTold
<1>8. QED
  BY <1>4, <1>5, <1>6, <1>7

\* A client hears from the server.
LEMMA HearingTells ==
  ASSUME IInv, AllTold, NEW c \in Clients,
         ReceiveResult(c) \/ \E lag \in BOOLEAN : Receive(c, lag)
  PROVE  AllTold'
<1> DEFINE q == toClient[c]
           m == Head(q)
<1>1. /\ q \in Seq(ToClient) /\ toClient = [d \in Clients |-> toClient[d]]
      /\ toServer[c] \in Seq(ToServer) /\ toServer = [d \in Clients |-> toServer[d]]
      /\ Types /\ Told(c)
  BY InvariantTypes DEF TypeOK, IInv, Channels, AllTold
<1>2. /\ q # <<>> /\ toClient' = [toClient EXCEPT ![c] = Tail(q)]
      /\ have' = have /\ rev' = rev
  BY DEF Receive, ReceiveResult, accounts
<1>3. m \in ToClient
  BY <1>1, <1>2, HeadTailProperties
<1>4. /\ \A K : Carries(q, K) => m.kind \in K \/ Carries(Tail(q), K)
      /\ EndsAt(Tail(q), IF m.kind = "inventory" THEN m.rev ELSE crev[c], rev[c])
  BY <1>1, <1>2, Next1 DEF Told
<1>5. /\ toClient'[c] = Tail(q)
      /\ \A d \in Clients \ {c} : toClient'[d] = toClient[d]
  BY <1>1, <1>2
<1> HIDE DEF m, q
<1>6. CASE ReceiveResult(c)
  <2>1. /\ m.kind = "result"
        /\ UNCHANGED <<gate, sent, crev, waiting, base, snapshot>>
        /\ \/ /\ pending[c] \in {"take", "put"} /\ UNCHANGED pending
              /\ Send(c, Request(pending[c], 0, m.rev))
           \/ pending' = [pending EXCEPT ![c] = ""] /\ UNCHANGED toServer
    BY <1>6 DEF ReceiveResult, m, q
  <2>2. m.rev \in Nat
    BY <1>3, <2>1 DEF ToClient
  <2>3. /\ \A d \in Clients \ {c} : toServer'[d] = toServer[d] /\ pending'[d] = pending[d]
        /\ Carries(toServer[c], {"report"}) => Carries(toServer'[c], {"report"})
        /\ pending'[c] # "" => Carries(toServer'[c], Kinds)
    <3>1. CASE /\ pending[c] \in {"take", "put"} /\ UNCHANGED pending
               /\ Send(c, Request(pending[c], 0, m.rev))
      <4> DEFINE p == Request(pending[c], 0, m.rev)
      <4>1. p \in ToServer /\ p.kind \in Kinds
        BY <2>2, <3>1 DEF Request, ToServer, Kinds
      <4> HIDE DEF p
      <4>2. /\ toServer'[c] = Append(toServer[c], p)
            /\ \A d \in Clients \ {c} : toServer'[d] = toServer[d]
        BY <1>1, <3>1 DEF Send, p
      <4>3. \A K : Carries(toServer[c], K) \/ p.kind \in K => Carries(toServer'[c], K)
        BY <1>1, <4>1, <4>2, Appended
      <4>4. QED
        BY <3>1, <4>1, <4>2, <4>3
    <3>2. CASE pending' = [pending EXCEPT ![c] = ""] /\ UNCHANGED toServer
      BY <1>1, <3>2 DEF Types, ClientTypes
    <3>3. QED
      BY <2>1, <3>1, <3>2
  <2>4. Told(c)'
    BY <1>1, <1>2, <1>4, <1>5, <2>1, <2>3 DEF Told, AnswerDue, q
  <2>5. \A d \in Clients \ {c} : Still(d)
    BY <1>2, <1>5, <2>1, <2>3 DEF Still, Same
  <2>6. QED
    BY <2>4, <2>5, OneIsTold
<1>7. ASSUME NEW lag \in BOOLEAN, Receive(c, lag) PROVE AllTold'
  <2>1. /\ m.kind = "inventory" /\ gate' = [gate EXCEPT ![c] = FALSE]
        /\ crev' = [crev EXCEPT ![c] = m.rev] /\ snapshot' = [snapshot EXCEPT ![c] = m.items]
        /\ UNCHANGED <<pending, toServer>>
    BY <1>7 DEF Receive, m, q
  <2>2. /\ ~waiting'[c] => sent'[c] = base'[c]
        /\ \A d \in Clients \ {c} :
             sent'[d] = sent[d] /\ base'[d] = base[d] /\ waiting'[d] = waiting[d]
    <3>1. CASE Rebuilt(c, m.items)
      BY <1>1, <3>1 DEF Rebuilt, Types, ClientTypes
    <3>2. CASE /\ m.items = sent[c] /\ base' = [base EXCEPT ![c] = m.items]
               /\ waiting' = [waiting EXCEPT ![c] = FALSE] /\ UNCHANGED sent
      BY <1>1, <3>2 DEF Types, ClientTypes
    <3>3. CASE waiting' = [waiting EXCEPT ![c] = TRUE] /\ UNCHANGED <<sent, base>>
      BY <1>1, <3>3 DEF Types, ClientTypes
    <3>4. QED
      BY <1>7, <3>1, <3>2, <3>3 DEF Receive, m, q
  <2>3. /\ ~gate'[c] /\ crev'[c] = m.rev
        /\ \A d \in Clients \ {c} :
             gate'[d] = gate[d] /\ crev'[d] = crev[d] /\ snapshot'[d] = snapshot[d]
    BY <1>1, <2>1 DEF Types, ClientTypes
  <2>4. Told(c)'
    BY <1>1, <1>2, <1>4, <1>5, <2>1, <2>2, <2>3 DEF Told, AnswerDue, q
  <2>5. \A d \in Clients \ {c} : Still(d)
    BY <1>2, <1>5, <2>1, <2>2, <2>3 DEF Still, Same
  <2>6. QED
    BY <2>4, <2>5, OneIsTold
<1>8. QED
  BY <1>6, <1>7

LEMMA NothingEnds == \A k : EndsAt(<<>>, k, k)
BY DEF EndsAt

LEMMA ReconnectTells ==
  ASSUME IInv, AllTold, NEW c \in Clients, Reconnect(c)
  PROVE  AllTold'
<1>1. Types
  BY DEF IInv
<1>2. /\ toServer'[c] = <<>> /\ toClient'[c] = <<>>
      /\ ~gate'[c] /\ pending'[c] = "" /\ crev'[c] = rev'[c] /\ sent'[c] = base'[c]
      /\ \A d \in Clients \ {c} : Still(d)
  BY <1>1 DEF Reconnect, Types, Numbers, ClientTypes, IInv, Channels, Still, Same
<1>3. Told(c)'
  BY <1>2, NothingEnds DEF Told, AnswerDue
<1>4. QED
  BY <1>2, <1>3, OneIsTold

LEMMA InitTells == Init => AllTold
<1> SUFFICES ASSUME Init, NEW c \in Clients PROVE Told(c)
  BY DEF AllTold
<1>1. /\ toClient[c] = <<>> /\ ~gate[c] /\ pending[c] = "" /\ crev[c] = 0 /\ rev[c] = 0
      /\ sent[c] = Carried /\ base[c] = Carried
  BY DEF Init, All
<1>2. QED
  BY <1>1, NothingEnds DEF Told, AnswerDue

LEMMA NextTells == IInv /\ AllTold /\ [Next]_vars => AllTold'
<1> SUFFICES ASSUME IInv, AllTold, [Next]_vars PROVE AllTold'
  OBVIOUS
<1>1. CASE UNCHANGED vars
  BY <1>1 DEF vars, accounts, client, AllTold, Told, AnswerDue
<1>2. ASSUME NEW c \in Clients, ClientStep(c) PROVE AllTold'
  <2>1. 0 .. MaxNum \subseteq Nat
    OBVIOUS
  <2>2. QED
    BY <1>2, <2>1, ClientTells, HearingTells DEF ClientStep
<1>3. ASSUME NEW c \in Clients, GuardEnds(c) PROVE AllTold'
  BY <1>3 DEF GuardEnds, accounts, client, AllTold, Told, AnswerDue
<1>4. ASSUME NEW c \in Clients, ServerStep(c) PROVE AllTold'
  BY <1>3, <1>4, HandlersTell DEF ServerStep
<1>5. ASSUME NEW c \in Clients, Reconnect(c) PROVE AllTold'
  BY <1>5, ReconnectTells
<1>6. QED
  BY <1>1, <1>2, <1>4, <1>5 DEF Next

LEMMA Telling == Spec => []AllTold
BY InitTells, NextTells, Invariance, PTL DEF Spec

\* However its reports, its requests and the changes of the server crossed, a
\* client with nothing under way has the inventory of the server, knows its
\* revision, waits for no answer and may report again.
THEOREM RestingClientsAgree == Spec => []ClientsAgree
<1>1. IInv /\ AllTold => ClientsAgree
  <2> SUFFICES ASSUME IInv, AllTold, NEW c \in Clients, Settled(c)
               PROVE  /\ ~gate[c] /\ pending[c] = ""
                      /\ view[c] = have[c] /\ crev[c] = rev[c]
    BY DEF ClientsAgree
  <2>1. \A K : ~Carries(toServer[c], K) /\ ~Carries(toClient[c], K)
    BY DEF Settled, Carries
  <2>2. ~gate[c] /\ pending[c] = "" /\ crev[c] = rev[c]
    BY <2>1 DEF AllTold, Told, AnswerDue, EndsAt
  <2>3. view[c] = sent[c] /\ sent[c] = base[c] /\ base[c] = have[c]
    BY <2>2 DEF Settled, Unsent, AllTold, Told, IInv, Sound
  <2>4. QED
    BY <2>2, <2>3
<1>2. QED
  BY <1>1, Invariance, Telling, PTL

-----------------------------------------------------------------------------
(* Sums *)

\* Every set of numbers has a least one.
LEMMA LeastNumber ==
  ASSUME NEW T, T \subseteq Nat, T # {}
  PROVE  \E n \in T : \A m \in T : n <= m
<1>1. IsWellFoundedOn(OpToRel(<, Nat), Nat)
  BY NatLessThanWellFounded
<1>2. PICK n \in T : \A m \in T : <<m, n>> \notin OpToRel(<, Nat)
  BY <1>1, WFMin
<1>3. \A m \in T : ~(m < n)
  BY <1>2 DEF OpToRel
<1>4. n \in Nat /\ \A m \in T : m \in Nat
  OBVIOUS
<1>5. \A m \in T : n <= m
  BY <1>3, <1>4
<1>6. QED
  BY <1>5

One(s) == CHOOSE x \in s : TRUE

\* g adds up f over every subset of S, one element after another.
Sums(S, f, g) ==
  /\ g \in [SUBSET S -> Int] /\ g[{}] = 0
  /\ \A s \in SUBSET S : s # {} => g[s] = f[One(s)] + g[s \ {One(s)}]

LEMMA OneLess ==
  ASSUME NEW s, IsFiniteSet(s), NEW x \in s
  PROVE  Cardinality(s \ {x}) = Cardinality(s) - 1
BY FS_RemoveElement

\* SumFunction is the sum that adds one element after another.
LEMMA SumIs ==
  ASSUME NEW S, IsFiniteSet(S), NEW f, DOMAIN f = S, NEW g, Sums(S, f, g)
  PROVE  SumFunction(f) = g[S]
<1> DEFINE F(i) == [s \in SUBSET S |->
                      IF s = {} THEN 0 ELSE f[One(s)] + i[s \ {One(s)}]]
           h == CHOOSE i : i = F(i)
<1>1. SumFunction(f) = h[S]
  BY DEF SumFunction, SumFunctionOnSet, FoldFunctionOnSet, MapThenFoldSet, One
<1>2. \A s \in SUBSET S : s # {} => One(s) \in s /\ s \ {One(s)} \in SUBSET S
  BY DEF One
<1>3. g = F(g)
  BY <1>2 DEF Sums
<1>4. h = F(h)
  BY <1>3
<1> HIDE DEF h
<1>5. \A s \in SUBSET S : h[s] = IF s = {} THEN 0 ELSE f[One(s)] + h[s \ {One(s)}]
  BY <1>4
<1>6. \A s \in SUBSET S : IsFiniteSet(s) /\ Cardinality(s) \in Nat
  BY FS_Subset, FS_CardinalityType
<1> DEFINE T == {n \in Nat : \E s \in SUBSET S : Cardinality(s) = n /\ h[s] # g[s]}
<1>7. CASE T # {}
  <2>1. PICK n \in T : \A m \in T : n <= m
    <3>1. T \subseteq Nat
      OBVIOUS
    <3> HIDE DEF T
    <3>2. QED
      BY <1>7, <3>1, LeastNumber
  <2>2. PICK s \in SUBSET S : Cardinality(s) = n /\ h[s] # g[s]
    BY <2>1
  <2>3. s # {}
    BY <1>5, <2>2 DEF Sums
  <2>4. Cardinality(s \ {One(s)}) = n - 1 /\ n - 1 \in Nat
    <3>1. One(s) \in s /\ IsFiniteSet(s)
      BY <1>2, <1>6, <2>3
    <3>2. Cardinality(s \ {One(s)}) = Cardinality(s) - 1
      BY <3>1, OneLess
    <3>3. Cardinality(s) \in Nat /\ Cardinality(s \ {One(s)}) \in Nat
      BY <1>2, <1>6, <2>3
    <3>4. QED
      BY <2>2, <3>2, <3>3
  <2>5. n - 1 \notin T
    <3> HIDE DEF T
    <3>1. n \in Nat
      BY <2>2, <1>6
    <3>2. QED
      BY <2>1, <3>1
  <2>6. h[s \ {One(s)}] = g[s \ {One(s)}]
    BY <1>2, <2>3, <2>4, <2>5
  <2>7. QED
    BY <1>5, <2>2, <2>3, <2>6 DEF Sums
<1>8. CASE T = {}
  BY <1>1, <1>6, <1>8
<1>9. QED
  BY <1>7, <1>8

LEMMA SumsConstant ==
  ASSUME NEW S, IsFiniteSet(S), NEW k \in Nat
  PROVE  Sums(S, [x \in S |-> k], [s \in SUBSET S |-> k * Cardinality(s)])
<1>1. \A s \in SUBSET S : IsFiniteSet(s) /\ Cardinality(s) \in Nat
  BY FS_Subset, FS_CardinalityType
<1>2. Cardinality({}) = 0
  BY FS_EmptySet
<1>3. ASSUME NEW s \in SUBSET S, s # {}
      PROVE  k * Cardinality(s) = k + k * Cardinality(s \ {One(s)})
  <2>1. One(s) \in s
    BY <1>3 DEF One
  <2>2. Cardinality(s \ {One(s)}) = Cardinality(s) - 1 /\ Cardinality(s) \in Nat
    BY <1>1, <2>1, FS_RemoveElement
  <2>3. \A n \in Nat : k * n = k + k * (n - 1)
    OBVIOUS
  <2>4. QED
    BY <2>2, <2>3
<1>4. \A s \in SUBSET S : s # {} => One(s) \in S /\ s \ {One(s)} \in SUBSET S
  BY DEF One
<1>5. \A s \in SUBSET S : k * Cardinality(s) \in Int
  BY <1>1
<1>6. k * 0 = 0
  OBVIOUS
<1>7. QED
  BY <1>2, <1>3, <1>4, <1>5, <1>6 DEF Sums

\* When one element of f changes, the sum changes by as much.
LEMMA SumsChange ==
  ASSUME NEW S, NEW f \in [S -> Int], NEW g, Sums(S, f, g), NEW c \in S,
         NEW e \in [S -> Int], \A x \in S \ {c} : e[x] = f[x]
  PROVE  \E h : Sums(S, e, h) /\ g[S] \in Int /\ h[S] = g[S] + (e[c] - f[c])
<1> DEFINE d == e[c] - f[c]
           h == [s \in SUBSET S |-> g[s] + (IF c \in s THEN d ELSE 0)]
<1>1. d \in Int /\ e[c] = f[c] + d /\ \A x \in S : x # c => e[x] = f[x]
  OBVIOUS
<1>2. /\ g \in [SUBSET S -> Int] /\ g[{}] = 0
      /\ \A s \in SUBSET S : s # {} => g[s] = f[One(s)] + g[s \ {One(s)}]
  BY DEF Sums
<1> HIDE DEF d
<1>3. ASSUME NEW s \in SUBSET S, s # {} PROVE h[s] = e[One(s)] + h[s \ {One(s)}]
  <2> DEFINE x == One(s)
             t == s \ {x}
  <2>1. x \in s /\ x \in S /\ t \in SUBSET S
    BY <1>3 DEF One
  <2>2. g[s] = f[x] + g[t] /\ g[t] \in Int /\ f[x] \in Int
    BY <1>2, <1>3, <2>1
  <2>3. h[s] = g[s] + (IF c \in s THEN d ELSE 0) /\ h[t] = g[t] + (IF c \in t THEN d ELSE 0)
    BY <2>1
  <2>4. c \in t <=> c \in s /\ c # x
    OBVIOUS
  <2> HIDE DEF x, t, h
  <2>5. ASSUME c = x PROVE h[s] = e[x] + h[t]
    BY <1>1, <2>1, <2>2, <2>3, <2>4, <2>5
  <2>6. ASSUME c # x PROVE h[s] = e[x] + h[t]
    <3>1. e[x] = f[x] /\ h[t] = g[t] + (IF c \in s THEN d ELSE 0)
      BY <1>1, <2>1, <2>3, <2>4, <2>6
    <3>2. QED
      BY <1>1, <2>2, <2>3, <3>1
  <2>7. h[s] = e[x] + h[t]
    BY <2>5, <2>6
  <2>8. QED
    BY <2>7 DEF x, t
<1>4. h \in [SUBSET S -> Int] /\ h[{}] = 0 /\ h[S] = g[S] + d
  BY <1>1, <1>2
<1> HIDE DEF h
<1>5. Sums(S, e, h)
  BY <1>3, <1>4 DEF Sums
<1>6. QED
  BY <1>2, <1>4, <1>5 DEF d

-----------------------------------------------------------------------------
(* What the packets under way weigh *)

\* What the handling of a packet adds to what the players and the ground have.
Weight(m) ==
  IF m.kind = "place" THEN 1 ELSE IF m.kind = "report" THEN m.items - m.base ELSE 0

\* The packets of q add n: v is the sum up to each of them.
Weighs(q, n) ==
  \E v \in [Nat -> Int] :
    /\ v[0] = 0 /\ v[Len(q)] = n
    /\ \A j \in 1 .. Len(q) : v[j] = v[j - 1] + Weight(q[j])

LEMMA WeightIs == \A m \in ToServer : Weight(m) \in Int
<1> SUFFICES ASSUME NEW m \in ToServer PROVE Weight(m) \in Int
  OBVIOUS
<1>1. m.kind = "report" => m.items \in Nat /\ m.base \in Nat
  BY DEF ToServer, Place, Kinds
<1>2. QED
  BY <1>1 DEF Weight

LEMMA NothingWeighs == Weighs(<<>>, 0)
<1> DEFINE v == [j \in Nat |-> 0]
<1>1. v \in [Nat -> Int] /\ v[0] = 0
  OBVIOUS
<1>2. Len(<<>>) = 0 /\ 1 .. 0 = {}
  BY EmptySeq
<1> HIDE DEF v
<1>3. \A j \in 1 .. Len(<<>>) : v[j] = v[j - 1] + Weight(<<>>[j])
  BY <1>2
<1>4. QED
  BY <1>1, <1>2, <1>3 DEF Weighs

\* A packet that is sent, or handled, adds or takes its weight.
LEMMA WeighsMore ==
  ASSUME NEW q \in Seq(ToServer), NEW m \in ToServer, NEW n, Weighs(q, n)
  PROVE  n \in Int /\ Weighs(Append(q, m), n + Weight(m))
<1> DEFINE l == Len(q)
           a == Append(q, m)
<1>1. /\ l \in Nat /\ a \in Seq(ToServer) /\ Len(a) = l + 1 /\ a[l + 1] = m
      /\ \A j \in 1 .. l : a[j] = q[j]
  BY AppendProperties, LenProperties
<1>2. PICK v \in [Nat -> Int] :
        v[0] = 0 /\ v[l] = n /\ \A j \in 1 .. l : v[j] = v[j - 1] + Weight(q[j])
  BY DEF Weighs
<1> DEFINE u == [v EXCEPT ![l + 1] = n + Weight(m)]
<1>3. n \in Int /\ Weight(m) \in Int
  BY <1>1, <1>2, WeightIs
<1> HIDE DEF l, a
<1>4. /\ u \in [Nat -> Int] /\ u[l + 1] = n + Weight(m)
      /\ \A j \in 0 .. l : u[j] = v[j]
  <2>1. n + Weight(m) \in Int
    BY <1>3
  <2>2. l \in Nat
    BY <1>1
  <2>3. l + 1 \in Nat /\ \A j \in 0 .. l : j \in Nat /\ j # l + 1
    BY <2>2
  <2>4. QED
    BY <2>1, <2>3
<1> HIDE DEF u
<1>5. ASSUME NEW j \in 1 .. l + 1 PROVE u[j] = u[j - 1] + Weight(a[j])
  <2>1. CASE j = l + 1
    <3>1. j - 1 = l /\ l \in 0 .. l
      BY <1>1, <2>1
    <3>2. QED
      BY <1>1, <1>2, <1>4, <2>1, <3>1
  <2>2. CASE j # l + 1
    <3>1. j \in 1 .. l /\ j \in 0 .. l /\ j - 1 \in 0 .. l
      BY <1>1, <2>2
    <3>2. QED
      BY <1>1, <1>2, <1>4, <3>1
  <2>3. QED
    BY <2>1, <2>2
<1>6. u[0] = 0 /\ u[Len(a)] = n + Weight(m)
  BY <1>1, <1>2, <1>4
<1>7. Weighs(a, n + Weight(m))
  BY <1>1, <1>4, <1>5, <1>6 DEF Weighs
<1>8. QED
  BY <1>3, <1>7 DEF a

LEMMA WeighsLess ==
  ASSUME NEW q \in Seq(ToServer), NEW i \in 1 .. Len(q), NEW n, Weighs(q, n),
         NEW p, Lacks(p, q, i)
  PROVE  n \in Int /\ Weighs(p, n - Weight(q[i]))
<1> DEFINE l == Len(q)
           w == Weight(q[i])
<1>1. /\ l \in Nat /\ Len(p) = l - 1 /\ i \in 1 .. l
      /\ \A j \in 1 .. l : q[j] \in ToServer
  <2>1. l \in Nat /\ \A j \in 1 .. l : q[j] \in ToServer
    BY LenProperties, ElementOfSeq
  <2>2. QED
    BY <2>1 DEF Lacks
<1>2. \A j \in 1 .. l - 1 : (j < i => p[j] = q[j]) /\ (~(j < i) => p[j] = q[j + 1])
  BY DEF Lacks
<1>3. PICK v \in [Nat -> Int] :
        v[0] = 0 /\ v[l] = n /\ \A j \in 1 .. l : v[j] = v[j - 1] + Weight(q[j])
  BY DEF Weighs
<1>4. w \in Int /\ \A j \in 1 .. l : Weight(q[j]) \in Int
  BY <1>1, WeightIs
<1>5. v[i] = v[i - 1] + w
  BY <1>1, <1>3
<1> DEFINE u == [j \in Nat |-> IF j < i THEN v[j] ELSE v[j + 1] - w]
<1> HIDE DEF w
<1>6. /\ u \in [Nat -> Int]
      /\ \A j \in Nat : j < i => u[j] = v[j]
      /\ \A j \in Nat : ~(j < i) => u[j] = v[j + 1] - w
  <2>1. w \in Int
    BY <1>4
  <2>2. \A j \in Nat : v[j] \in Int /\ v[j + 1] \in Int
    OBVIOUS
  <2>3. ASSUME NEW j \in Nat PROVE v[j + 1] - w \in Int
    <3>1. v[j + 1] \in Int
      BY <2>2
    <3>2. QED
      BY <2>1, <3>1
  <2>4. QED
    BY <2>2, <2>3
<1>7. u[0] = 0
  BY <1>1, <1>3, <1>6
<1> HIDE DEF u, l
<1>8. u[l - 1] = n - w
  <2>1. CASE l = i
    <3>1. l - 1 < i /\ l - 1 \in Nat /\ u[l - 1] = v[l - 1]
      BY <1>1, <1>6, <2>1
    <3>2. v[l - 1] \in Int
      BY <3>1, <1>3
    <3>3. QED
      BY <1>3, <1>4, <1>5, <2>1, <3>1, <3>2
  <2>2. CASE l # i
    <3>1. ~(l - 1 < i) /\ l - 1 \in Nat /\ (l - 1) + 1 = l
      BY <1>1, <2>2
    <3>2. QED
      BY <1>3, <1>6, <3>1
  <2>3. QED
    BY <2>1, <2>2
<1>9. ASSUME NEW j \in 1 .. l - 1 PROVE u[j] = u[j - 1] + Weight(p[j])
  <2>1. i \in Int /\ (j < i => p[j] = q[j]) /\ (~(j < i) => p[j] = q[j + 1])
    <3>1. i \in Int
      BY <1>1
    <3>2. QED
      BY <1>2, <3>1
  <2>2. /\ j \in Nat /\ j - 1 \in Nat /\ j \in 1 .. l /\ j + 1 \in 1 .. l
        /\ (j + 1) - 1 = j /\ (j - 1) + 1 = j
    BY <1>1
  <2>3. /\ v[j - 1] \in Int /\ v[j] \in Int /\ v[j + 1] \in Int
        /\ v[j] = v[j - 1] + Weight(q[j]) /\ v[j + 1] = v[j] + Weight(q[j + 1])
    BY <1>3, <2>2
  <2> DEFINE a == v[j - 1]
             b == v[j]
             d == v[j + 1]
             x == Weight(q[j + 1])
  <2>4. /\ a \in Int /\ b \in Int /\ d \in Int /\ x \in Int /\ w \in Int
        /\ b = a + Weight(q[j]) /\ d = b + x
        /\ j < i => u[j] = b
        /\ ~(j < i) => u[j] = d - w
        /\ j - 1 < i => u[j - 1] = a
        /\ ~(j - 1 < i) => u[j - 1] = b - w
        /\ j = i => b = a + w
    BY <1>4, <1>5, <1>6, <2>2, <2>3
  <2> HIDE DEF a, b, d, x
  <2>5. CASE j < i
    <3>1. j - 1 < i /\ p[j] = q[j]
      BY <2>1, <2>2, <2>5
    <3>2. QED
      BY <2>4, <2>5, <3>1
  <2>6. CASE j = i
    <3>1. j - 1 < i /\ ~(j < i) /\ p[j] = q[j + 1]
      BY <2>1, <2>2, <2>6
    <3>2. u[j] = d - w /\ u[j - 1] = a
      BY <2>4, <2>6, <3>1
    <3>3. d - w = a + x
      <4>1. a \in Int /\ x \in Int /\ w \in Int /\ b = a + w /\ d = b + x
        BY <2>4, <2>6
      <4>2. QED
        BY <4>1
    <3>4. QED
      BY <3>1, <3>2, <3>3 DEF x
  <2>7. CASE i < j
    <3>1. ~(j - 1 < i) /\ ~(j < i)
      BY <2>1, <2>7
    <3>2. ~(j - 1 < i) /\ ~(j < i) /\ p[j] = q[j + 1]
      BY <2>1, <3>1
    <3>3. u[j] = d - w /\ u[j - 1] = b - w
      BY <2>4, <3>2
    <3>4. d - w = (b - w) + x
      BY <2>4
    <3>5. QED
      BY <3>2, <3>3, <3>4 DEF x
  <2>8. QED
    BY <2>1, <2>2, <2>5, <2>6, <2>7
<1>10. n \in Int /\ Weighs(p, n - w)
  BY <1>1, <1>3, <1>6, <1>7, <1>8, <1>9 DEF Weighs
<1>11. QED
  BY <1>10 DEF w

LEMMA WeighsNothing ==
  ASSUME NEW q \in Seq(ToServer), NEW n, Weighs(q, n),
         \A j \in 1 .. Len(q) : Weight(q[j]) = 0
  PROVE  n = 0
<1> DEFINE l == Len(q)
<1>1. PICK v \in [Nat -> Int] :
        v[0] = 0 /\ v[l] = n /\ \A j \in 1 .. l : v[j] = v[j - 1] + Weight(q[j])
  BY DEF Weighs
<1>2. l \in Nat /\ \A j \in 1 .. l : v[j] = v[j - 1]
  BY <1>1, LenProperties
<1> HIDE DEF l
<1> DEFINE W == {j \in 0 .. l : v[j] # 0}
<1>3. CASE W = {}
  <2>1. l \in 0 .. l
    BY <1>2
  <2>2. QED
    BY <1>1, <1>3, <2>1
<1>4. CASE W # {}
  <2>1. W \subseteq Nat
    OBVIOUS
  <2>2. PICK j \in W : \A k \in W : j <= k
    BY <1>4, <2>1, LeastNumber
  <2>3. j \in 1 .. l /\ v[j] # 0
    BY <1>1, <2>2
  <2>4. j - 1 \in W
    BY <1>2, <2>3
  <2>5. QED
    BY <2>2, <2>3, <2>4
<1>5. QED
  BY <1>3, <1>4

-----------------------------------------------------------------------------
(* The balance of items *)

\* A report sent while a newer snapshot waits for its records is under way.
Early(c) ==
  \E i \in DOMAIN toServer[c] : toServer[c][i].kind = "report" /\ toServer[c][i].early

\* w: what the packets under way of each player weigh; g: the sums of what the
\* players have, what they have not yet reported and what is under way.
Balance ==
  \E w \in [Clients -> Int], g \in [SUBSET Clients -> Int] :
    /\ \A c \in Clients : Weighs(toServer[c], w[c])
    /\ Sums(Clients, [c \in Clients |-> have[c] + view[c] - sent[c] + w[c]], g)
    /\ g[Clients] + Cardinality(ground) + box = Carried * Cardinality(Clients) + Lying + Boxed

Numbered == nextNum # 0 /\ ground \subseteq 1 .. (nextNum - 1)

\* The amounts balance, unless something was discarded or a report made while a
\* snapshot waited is still under way.
Balanced == Numbered /\ (discarded \/ (\E c \in Clients : Early(c)) \/ Balance)

\* A step that leaves what is counted of d.
Apart(d) ==
  /\ have'[d] = have[d] /\ view'[d] = view[d] /\ sent'[d] = sent[d]
  /\ toServer'[d] = toServer[d]

\* The step puts packets that weigh k under way, and the rest makes up for it.
Sends(c, k) == \A n : Weighs(toServer[c], n) => Weighs(toServer'[c], n + k)
Pays(c, k) ==
  (have'[c] + view'[c] - sent'[c]) + k + (Cardinality(ground') + box')
    = (have[c] + view[c] - sent[c]) + (Cardinality(ground) + box)

LEMMA Objects ==
  ASSUME Types, Numbered
  PROVE  IsFiniteSet(ground) /\ Cardinality(ground) \in Nat /\ nextNum \notin ground
<1>1. nextNum \in Nat
  BY DEF Types, ServerTypes
<1>2. IsFiniteSet(1 .. (nextNum - 1)) /\ nextNum \notin 1 .. (nextNum - 1)
  <2>1. 1 \in Int /\ nextNum - 1 \in Int /\ nextNum \notin 1 .. (nextNum - 1)
    BY <1>1
  <2>2. QED
    BY <2>1, FS_Interval
<1>3. IsFiniteSet(ground)
  BY <1>2, FS_Subset DEF Numbered
<1>4. QED
  BY <1>2, <1>3, FS_CardinalityType DEF Numbered

\* A step of one client that makes and loses nothing.
LEMMA BalanceKept ==
  ASSUME IInv, IInv', Numbered, Numbered', Balance, NEW c \in Clients, NEW k \in Int,
         \A d \in Clients \ {c} : Apart(d), Sends(c, k), Pays(c, k)
  PROVE  Balance'
<1>1. PICK w \in [Clients -> Int], g \in [SUBSET Clients -> Int] :
        /\ \A d \in Clients : Weighs(toServer[d], w[d])
        /\ Sums(Clients, [d \in Clients |-> have[d] + view[d] - sent[d] + w[d]], g)
        /\ g[Clients] + Cardinality(ground) + box
             = Carried * Cardinality(Clients) + Lying + Boxed
  BY DEF Balance
<1> DEFINE f == [d \in Clients |-> have[d] + view[d] - sent[d] + w[d]]
           x == [w EXCEPT ![c] = @ + k]
           e == [d \in Clients |-> have'[d] + view'[d] - sent'[d] + x[d]]
<1>2. /\ Types /\ Types' /\ box \in Nat /\ box' \in Nat
      /\ Cardinality(ground) \in Nat /\ Cardinality(ground') \in Nat
  <2>1. Types /\ Types'
    BY DEF IInv
  <2>2. Cardinality(ground) \in Nat
    BY <2>1, Objects
  <2>3. Cardinality(ground') \in Nat
    <3>1. nextNum' - 1 \in Int
      BY <2>1 DEF Types, ServerTypes
    <3>2. IsFiniteSet(1 .. (nextNum' - 1))
      BY <3>1, FS_Interval
    <3>3. IsFiniteSet(ground')
      BY <3>2, FS_Subset DEF Numbered
    <3>4. QED
      BY <3>3, FS_CardinalityType
  <2>4. QED
    BY <2>1, <2>2, <2>3 DEF Types, ServerTypes
<1>3. /\ \A d \in Clients : have[d] \in Nat /\ view[d] \in Nat /\ sent[d] \in Nat
      /\ \A d \in Clients : have'[d] \in Nat /\ view'[d] \in Nat /\ sent'[d] \in Nat
  BY <1>2 DEF Types, Numbers, ClientTypes
<1>4. x \in [Clients -> Int] /\ x[c] = w[c] + k /\ \A d \in Clients \ {c} : x[d] = w[d]
  OBVIOUS
<1> HIDE DEF x
<1>5. f \in [Clients -> Int] /\ e \in [Clients -> Int]
  BY <1>3, <1>4
<1>6. /\ f[c] = have[c] + view[c] - sent[c] + w[c]
      /\ e[c] = have'[c] + view'[c] - sent'[c] + (w[c] + k)
  BY <1>4
<1>7. \A d \in Clients \ {c} : e[d] = f[d]
  BY <1>4 DEF Apart
<1>8. \A d \in Clients : Weighs(toServer'[d], x[d])
  <2>1. Weighs(toServer'[c], x[c])
    BY <1>1, <1>4 DEF Sends
  <2>2. ASSUME NEW d \in Clients, d # c PROVE Weighs(toServer'[d], x[d])
    BY <1>1, <1>4, <2>2 DEF Apart
  <2>3. QED
    BY <2>1, <2>2
<1>9. Sums(Clients, f, g)
  BY <1>1
<1> HIDE DEF f, e
<1>10. PICK h :
         Sums(Clients, e, h) /\ g[Clients] \in Int /\ h[Clients] = g[Clients] + (e[c] - f[c])
  BY <1>5, <1>7, <1>9, SumsChange
<1>11. h[Clients] + Cardinality(ground') + box'
         = Carried * Cardinality(Clients) + Lying + Boxed
  <2> DEFINE a == have[c] + view[c] - sent[c]
             b == have'[c] + view'[c] - sent'[c]
             s == Cardinality(ground) + box
             t == Cardinality(ground') + box'
  <2>1. a \in Int /\ b \in Int /\ s \in Int /\ t \in Int
    BY <1>2, <1>3
  <2>2. e[c] = b + (w[c] + k) /\ f[c] = a + w[c] /\ w[c] \in Int
    BY <1>6
  <2>3. b + k + t = a + s
    BY DEF Pays
  <2>4. g[Clients] + s = Carried * Cardinality(Clients) + Lying + Boxed
    BY <1>1, <1>2, <1>10
  <2> HIDE DEF a, b, s, t
  <2>5. h[Clients] + t = g[Clients] + s
    <3>1. e[c] - f[c] = b + k - a /\ b + k - a \in Int
      BY <2>1, <2>2
    <3>2. (b + k - a) + t = s
      BY <2>1, <2>3
    <3>3. QED
      BY <1>10, <2>1, <3>1, <3>2
  <2>6. h[Clients] \in Int
    BY <1>10, <2>1, <2>2
  <2>7. h[Clients] + t = Carried * Cardinality(Clients) + Lying + Boxed
    BY <2>4, <2>5
  <2>8. h[Clients] + t = h[Clients] + Cardinality(ground') + box'
    BY <1>2, <2>6 DEF t
  <2>9. QED
    BY <2>7, <2>8
<1>12. QED
  <2>1. h \in [SUBSET Clients -> Int]
    BY <1>10 DEF Sums
  <2>2. QED
    BY <1>4, <1>8, <1>10, <1>11, <2>1 DEF Balance, e

\* What a step adds to each of the amounts.
Gains(c, dh, dv, ds, dg, db) ==
  /\ have'[c] = have[c] + dh /\ view'[c] = view[c] + dv /\ sent'[c] = sent[c] + ds
  /\ Cardinality(ground') = Cardinality(ground) + dg /\ box' = box + db

LEMMA PaysFor ==
  ASSUME Types, Numbered, NEW c \in Clients, NEW k \in Int,
         NEW dh \in Int, NEW dv \in Int, NEW ds \in Int, NEW dg \in Int, NEW db \in Int,
         \* What a step adds to each of the amounts.
Gains(c, dh, dv, ds, dg, db), dh + dv - ds + k + dg + db = 0
  PROVE  Pays(c, k)
<1> DEFINE h == have[c]
           v == view[c]
           s == sent[c]
           g == Cardinality(ground)
<1>1. h \in Int /\ v \in Int /\ s \in Int /\ g \in Int /\ box \in Int
  <2>1. g \in Int
    BY Objects
  <2>2. h \in Nat /\ v \in Nat /\ s \in Nat /\ box \in Nat
    BY DEF Types, Numbers, ClientTypes, ServerTypes
  <2> HIDE DEF h, v, s, g
  <2>3. QED
    BY <2>1, <2>2
<1>2. /\ have'[c] = h + dh /\ view'[c] = v + dv /\ sent'[c] = s + ds
      /\ Cardinality(ground') = g + dg /\ box' = box + db
  BY DEF Gains
<1> HIDE DEF h, v, s, g
<1>3. ((h + dh) + (v + dv) - (s + ds)) + k + ((g + dg) + (box + db)) = (h + v - s) + (g + box)
  BY <1>1
<1>4. QED
  BY <1>2, <1>3 DEF Pays, h, v, s, g

\* A step keeps the balance when it discards something, leaves an early report
\* under way, or pays for what it sends.
LEMMA StepBalances ==
  ASSUME IInv, IInv', Balanced, Numbered', NEW c \in Clients,
         \A d \in Clients \ {c} : Apart(d),
         discarded => discarded',
         Early(c) => Early(c)' \/ discarded',
         discarded' \/ Early(c)' \/ \E k \in Int : Sends(c, k) /\ Pays(c, k)
  PROVE  Balanced'
<1>1. CASE discarded'
  BY <1>1 DEF Balanced
<1>2. CASE \E d \in Clients : Early(d)
  <2>1. PICK d \in Clients : Early(d)
    BY <1>2
  <2>2. discarded' \/ Early(d)'
    BY <2>1 DEF Early, Apart
  <2>3. QED
    BY <2>2 DEF Balanced
<1>3. CASE Early(c)'
  BY <1>3 DEF Balanced
<1>4. ASSUME Balance, NEW k \in Int, Sends(c, k), Pays(c, k) PROVE Balanced'
  BY <1>4, BalanceKept DEF Balanced
<1>5. QED
  BY <1>1, <1>2, <1>3, <1>4 DEF Balanced

\* Steps that send nothing, send a packet or handle one.
LEMMA SendsNothing ==
  ASSUME TypeOK, NEW c \in Clients, toServer'[c] = toServer[c]
  PROVE  Sends(c, 0) /\ (Early(c) => Early(c)')
<1>1. toServer[c] \in Seq(ToServer) /\ Len(toServer[c]) \in Nat
  BY LenProperties DEF TypeOK
<1>2. \A n : Weighs(toServer[c], n) => n \in Int
  BY <1>1 DEF Weighs
<1>3. ASSUME NEW n, Weighs(toServer[c], n) PROVE Weighs(toServer'[c], n + 0)
  <2>1. n + 0 = n
    BY <1>2, <1>3
  <2>2. QED
    BY <1>3, <2>1
<1>4. QED
  BY <1>3 DEF Sends, Early

LEMMA SendsOne ==
  ASSUME TypeOK, NEW c \in Clients, NEW m \in ToServer, toServer'[c] = Append(toServer[c], m)
  PROVE  /\ Weight(m) \in Int /\ Sends(c, Weight(m))
         /\ Early(c) => Early(c)'
         /\ m.kind = "report" /\ m.early => Early(c)'
<1> DEFINE q == toServer[c]
           a == toServer'[c]
<1>1. q \in Seq(ToServer) /\ a = Append(q, m)
  BY DEF TypeOK
<1>2. Weight(m) \in Int /\ Sends(c, Weight(m))
  BY <1>1, WeightIs, WeighsMore DEF Sends
<1> HIDE DEF q, a
<1>3. /\ DOMAIN q = 1 .. Len(q) /\ DOMAIN a = 1 .. Len(q) + 1 /\ Len(q) \in Nat
      /\ a[Len(q) + 1] = m /\ \A i \in 1 .. Len(q) : a[i] = q[i]
  BY <1>1, AppendProperties, LenProperties
<1>4. \A i \in DOMAIN q : i \in DOMAIN a /\ a[i] = q[i]
  BY <1>3
<1>5. Len(q) + 1 \in DOMAIN a
  BY <1>3
<1>6. QED
  BY <1>2, <1>3, <1>4, <1>5 DEF Early, q, a

LEMMA SendsLess ==
  ASSUME TypeOK, NEW c \in Clients, NEW i \in DOMAIN toServer[c], NEW n, InTurn(c, i, n)
  PROVE  /\ Weight(toServer[c][i]) \in Int /\ Sends(c, 0 - Weight(toServer[c][i]))
         /\ Early(c) => \/ Early(c)'
                        \/ toServer[c][i].kind = "report" /\ toServer[c][i].early
<1> DEFINE q == toServer[c]
           p == toServer'[c]
<1>1. /\ q \in Seq(ToServer) /\ i \in 1 .. Len(q)
      /\ toServer \in [Clients -> Seq(ToServer)]
  BY LenProperties DEF TypeOK
<1>2. p = SubSeq(q, 1, i - 1) \o SubSeq(q, i + 1, Len(q))
  BY <1>1 DEF InTurn
<1>3. Lacks(p, q, i)
  BY <1>1, <1>2, TakenOut
<1>4. q[i] \in ToServer /\ Weight(q[i]) \in Int
  BY <1>1, ElementOfSeq, WeightIs
<1>5. ASSUME NEW k, Weighs(q, k) PROVE Weighs(p, k + (0 - Weight(q[i])))
  <2>1. k \in Int /\ Weighs(p, k - Weight(q[i]))
    BY <1>1, <1>3, <1>5, WeighsLess
  <2>2. k - Weight(q[i]) = k + (0 - Weight(q[i]))
    BY <1>4, <2>1
  <2>3. QED
    BY <2>1, <2>2
<1>6. ASSUME NEW j \in DOMAIN q, j # i PROVE \E k \in DOMAIN p : p[k] = q[j]
  <2>1. p \in Seq(ToServer)
    BY <1>1, <1>2, Removal
  <2>2. QED
    BY <1>1, <1>3, <1>6, <2>1, OthersStay
<1>7. QED
  BY <1>4, <1>5, <1>6 DEF Sends, Early

\* Steps of a client that leave its inventory as the player made it.
LEMMA ClientBalances ==
  ASSUME IInv, IInv', AllTold, Balanced, NEW c \in Clients,
         \/ Drop(c) \/ Tick(c) \/ ReceiveResult(c)
         \/ \E k \in Kinds, n \in Nat : Ask(c, k, n)
  PROVE  Balanced'
<1>1. TypeOK /\ Types /\ Numbered
  BY InvariantTypes DEF IInv, Balanced
<1>2. /\ have' = have /\ ground' = ground /\ nextNum' = nextNum /\ box' = box
      /\ discarded' = discarded
  BY DEF Drop, Tick, Ask, ReceiveResult, accounts, world
<1>3. /\ Numbered' /\ have'[c] = have[c] + 0 /\ box' = box + 0
      /\ Cardinality(ground') = Cardinality(ground) + 0
  <2>1. have[c] \in Int /\ box \in Int /\ Cardinality(ground) \in Int
    BY <1>1, Objects DEF Types, Numbers, ServerTypes
  <2>2. QED
    BY <1>1, <1>2, <2>1 DEF Numbered
<1>4. view[c] \in Nat /\ sent[c] \in Nat /\ base[c] \in Nat /\ crev[c] \in Nat
  BY <1>1 DEF Types, ClientTypes
<1>5. ASSUME NEW m \in ToServer, Send(c, m)
      PROVE  /\ toServer'[c] = Append(toServer[c], m)
             /\ \A d \in Clients \ {c} : toServer'[d] = toServer[d]
  BY <1>1, <1>5 DEF Send, TypeOK
<1>6. CASE Drop(c)
  <2>1. Place \in ToServer /\ Send(c, Place) /\ Weight(Place) = 1
    BY <1>6 DEF Drop, ToServer, Weight, Place
  <2>2. /\ view'[c] = view[c] - 1 /\ sent'[c] = sent[c]
        /\ \A d \in Clients \ {c} : Apart(d)
    BY <1>1, <1>2, <1>5, <1>6, <2>1 DEF Drop, Apart, Types, ClientTypes
  <2>3. Sends(c, 1) /\ (Early(c) => Early(c)')
    BY <1>1, <1>5, <2>1, SendsOne
  <2>4. Pays(c, 1)
    <3>1. 0 + (0 - 1) - 0 + 1 + 0 + 0 = 0 /\ 0 - 1 \in Int
      OBVIOUS
    <3>2. view[c] - 1 = view[c] + (0 - 1) /\ sent[c] = sent[c] + 0
      BY <1>4
    <3>3. Gains(c, 0, 0 - 1, 0, 0, 0)
      BY <1>3, <2>2, <3>2 DEF Gains
    <3>4. QED
      BY <1>1, <3>1, <3>3, PaysFor
  <2>5. QED
    BY <1>2, <1>3, <2>2, <2>3, <2>4, StepBalances
<1>7. CASE Tick(c)
  <2> DEFINE m == Report(crev[c], view[c], base[c], waiting[c])
  <2>1. m \in ToServer /\ Send(c, m)
    BY <1>1, <1>7 DEF Tick, Report, ToServer, Types, ClientTypes
  <2>2. m.kind = "report" /\ m.early = waiting[c] /\ Weight(m) = view[c] - base[c]
    BY DEF Report, Weight
  <2> HIDE DEF m
  <2>3. /\ view'[c] = view[c] /\ sent'[c] = view[c]
        /\ \A d \in Clients \ {c} : Apart(d)
    BY <1>1, <1>2, <1>5, <1>7, <2>1 DEF Tick, Apart, Types, ClientTypes
  <2>4. /\ Sends(c, Weight(m)) /\ Weight(m) \in Int
        /\ (Early(c) => Early(c)') /\ (waiting[c] => Early(c)')
    BY <1>1, <1>5, <2>1, <2>2, SendsOne
  <2>5. ~waiting[c] => Pays(c, Weight(m))
    <3> SUFFICES ASSUME ~waiting[c] PROVE Pays(c, Weight(m))
      OBVIOUS
    <3>1. sent[c] = base[c]
      BY <1>7 DEF Tick, AllTold, Told
    <3>2. 0 + 0 - (view[c] - sent[c]) + Weight(m) + 0 + 0 = 0 /\ view[c] - sent[c] \in Int
      BY <1>4, <2>2, <3>1
    <3>3. view[c] = view[c] + 0 /\ view[c] = sent[c] + (view[c] - sent[c])
      BY <1>4
    <3>4. Gains(c, 0, 0, view[c] - sent[c], 0, 0)
      BY <1>3, <2>3, <3>3 DEF Gains
    <3>5. 0 \in Int /\ Weight(m) \in Int
      BY <2>4
    <3>6. QED
      BY <1>1, <3>2, <3>4, <3>5, PaysFor
  <2>6. QED
    BY <1>2, <1>3, <2>3, <2>4, <2>5, StepBalances
<1>8. CASE ReceiveResult(c) \/ \E k \in Kinds, n \in Nat : Ask(c, k, n)
  <2>1. view' = view /\ sent' = sent
    BY <1>8 DEF Ask, ReceiveResult
  <2>2. \/ \E m \in ToServer : Weight(m) = 0 /\ Send(c, m)
        \/ toServer' = toServer
    <3>1. ASSUME NEW k \in Kinds, NEW n \in Nat, NEW r \in Nat
          PROVE  Request(k, n, r) \in ToServer /\ Weight(Request(k, n, r)) = 0
      BY DEF Request, ToServer, Weight, Kinds
    <3>2. CASE \E k \in Kinds, n \in Nat : Ask(c, k, n)
      BY <1>4, <3>1, <3>2 DEF Ask
    <3>3. CASE ReceiveResult(c)
      <4> DEFINE q == toClient[c]
      <4>1. q \in Seq(ToClient) /\ q # <<>> /\ Head(q).kind = "result"
        BY <1>1, <3>3 DEF ReceiveResult, TypeOK
      <4> HIDE DEF q
      <4>2. Head(q).rev \in Nat
        BY <4>1, HeadTailProperties DEF ToClient
      <4>3. \/ toServer' = toServer
            \/ pending[c] \in Kinds /\ Send(c, Request(pending[c], 0, Head(q).rev))
        BY <3>3 DEF ReceiveResult, Kinds, q
      <4>4. QED
        BY <3>1, <4>2, <4>3
    <3>4. QED
      BY <1>8, <3>2, <3>3
  <2>3. \A d \in Clients \ {c} : Apart(d)
    BY <1>2, <1>5, <2>1, <2>2 DEF Apart
  <2>4. Sends(c, 0) /\ (Early(c) => Early(c)')
    BY <1>1, <1>5, <2>2, SendsOne, SendsNothing
  <2>5. Pays(c, 0)
    <3>1. view[c] = view[c] + 0 /\ sent[c] = sent[c] + 0
      BY <1>4
    <3>2. 0 + 0 - 0 + 0 + 0 + 0 = 0 /\ 0 \in Int
      OBVIOUS
    <3>3. Gains(c, 0, 0, 0, 0, 0)
      BY <1>3, <2>1, <3>1 DEF Gains
    <3>4. QED
      BY <1>1, <3>2, <3>3, PaysFor
  <2>6. QED
    BY <1>2, <1>3, <2>3, <2>4, <2>5, StepBalances
<1>9. QED
  BY <1>6, <1>7, <1>8

\* The inventory of the player follows a snapshot of the server.
LEMMA ViewBalances ==
  ASSUME IInv, IInv', Balanced, NEW c \in Clients,
         Restore(c) \/ GuardEnds(c) \/ \E lag \in BOOLEAN : Receive(c, lag)
  PROVE  Balanced'
<1>1. TypeOK /\ Types /\ Numbered
  BY InvariantTypes DEF IInv, Balanced
<1>2. /\ have' = have /\ ground' = ground /\ nextNum' = nextNum /\ box' = box
      /\ toServer' = toServer
  BY DEF Restore, GuardEnds, Receive, accounts, world
<1>3. \/ view' = view /\ sent' = sent /\ discarded' = discarded
      \/ \E x \in Nat : Rebuilt(c, x)
  <2>1. CASE Restore(c)
    BY <1>1, <2>1 DEF Restore, Types, ClientTypes
  <2>2. CASE GuardEnds(c)
    BY <2>2 DEF GuardEnds, client
  <2>3. ASSUME NEW lag \in BOOLEAN, Receive(c, lag)
        PROVE  \/ view' = view /\ sent' = sent /\ discarded' = discarded
               \/ \E x \in Nat : Rebuilt(c, x)
    <3> DEFINE q == toClient[c]
    <3>1. q \in Seq(ToClient) /\ q # <<>> /\ Head(q).kind = "inventory"
      BY <1>1, <2>3 DEF Receive, TypeOK
    <3>2. \/ view' = view /\ sent' = sent /\ discarded' = discarded
          \/ Rebuilt(c, Head(q).items)
      BY <2>3 DEF Receive
    <3> HIDE DEF q
    <3>3. Head(q).items \in Nat
      BY <3>1, HeadTailProperties DEF ToClient
    <3>4. QED
      BY <3>2, <3>3
  <2>4. QED
    BY <2>1, <2>2, <2>3
<1>4. view[c] \in Nat /\ sent[c] \in Nat /\ have[c] \in Nat /\ box \in Nat
  BY <1>1 DEF Types, Numbers, ClientTypes, ServerTypes
<1>5. Cardinality(ground) \in Nat
  BY <1>1, Objects
<1>6. /\ Numbered' /\ \A d \in Clients \ {c} : Apart(d)
      /\ discarded => discarded'
      /\ Sends(c, 0) /\ (Early(c) => Early(c)')
  <2>1. \A d \in Clients \ {c} : view'[d] = view[d] /\ sent'[d] = sent[d]
    BY <1>1, <1>3 DEF Rebuilt, Types, ClientTypes
  <2>2. discarded => discarded'
    BY <1>3 DEF Rebuilt
  <2>3. QED
    BY <1>1, <1>2, <2>1, <2>2, SendsNothing DEF Numbered, Apart
<1>7. \/ discarded'
      \/ \E x \in Int : Gains(c, 0, x, x, 0, 0)
  <2>1. /\ have[c] = have[c] + 0 /\ box = box + 0
        /\ Cardinality(ground) = Cardinality(ground) + 0
        /\ view[c] = view[c] + 0 /\ sent[c] = sent[c] + 0 /\ 0 \in Int
    BY <1>4, <1>5
  <2>2. CASE view' = view /\ sent' = sent
    BY <1>2, <2>1, <2>2 DEF Gains
  <2>3. ASSUME NEW x \in Nat, Rebuilt(c, x), view[c] = sent[c]
        PROVE  \E y \in Int : Gains(c, 0, y, y, 0, 0)
    <3>1. view'[c] = x /\ sent'[c] = x
      BY <1>1, <2>3 DEF Rebuilt, Types, ClientTypes
    <3>2. x - view[c] \in Int /\ x = view[c] + (x - view[c]) /\ x = sent[c] + (x - view[c])
      BY <1>4, <2>3
    <3>3. Gains(c, 0, x - view[c], x - view[c], 0, 0)
      BY <1>2, <2>1, <3>1, <3>2 DEF Gains
    <3>4. QED
      BY <3>2, <3>3
  <2>4. QED
    BY <1>3, <2>2, <2>3 DEF Rebuilt, Unsent
<1>8. ASSUME NEW x \in Int, Gains(c, 0, x, x, 0, 0) PROVE Pays(c, 0)
  <2>1. 0 + x - x + 0 + 0 + 0 = 0 /\ 0 \in Int
    OBVIOUS
  <2>2. QED
    BY <1>1, <1>8, <2>1, PaysFor
<1>9. 0 \in Int
  OBVIOUS
<1>10. QED
  BY <1>6, <1>7, <1>8, <1>9, StepBalances

\* What a handler gives or takes is what the packet it handles weighs.
LEMMA HandlersBalance ==
  ASSUME IInv, IInv', Balanced, NEW c \in Clients, NEW i \in DOMAIN toServer[c],
         NEW n \in DOMAIN toServer[c], NEW fit \in BOOLEAN, NEW saved \in BOOLEAN,
         \/ HandleReport(c, i, n, fit, saved) \/ HandlePlace(c, i, n, fit)
         \/ HandleWorldTake(c, i, n, fit) \/ HandleBox(c, i, n, fit)
  PROVE  Balanced'
<1> DEFINE m == toServer[c][i]
           k == 0 - Weight(m)
           g == Cardinality(ground)
<1>1. TypeOK /\ Types /\ Numbered
  BY InvariantTypes DEF IInv, Balanced
<1>2. InTurn(c, i, n) /\ view' = view /\ sent' = sent
  BY DEF HandleReport, HandlePlace, HandleWorldTake, HandleBox, client
<1>3. /\ Weight(m) \in Int /\ Sends(c, k)
      /\ Early(c) => Early(c)' \/ (m.kind = "report" /\ m.early)
  BY <1>1, <1>2, SendsLess
<1>4. /\ view[c] \in Nat /\ sent[c] \in Nat /\ have[c] \in Nat /\ box \in Nat
      /\ have \in [Clients -> Nat]
  BY <1>1 DEF Types, Numbers, ClientTypes, ServerTypes
<1>5. g \in Nat /\ IsFiniteSet(ground) /\ nextNum \notin ground /\ nextNum \in Nat
  BY <1>1, Objects DEF Types, ServerTypes
<1>6. /\ have[c] = have[c] + 0 /\ box = box + 0 /\ g = g + 0
      /\ view[c] = view[c] + 0 /\ sent[c] = sent[c] + 0 /\ 0 \in Int
  BY <1>4, <1>5
<1>7. toServer[c][i] \in ToServer /\ (m.kind = "report" => m.items \in Nat /\ m.base \in Nat)
  BY Received
<1>8. SUFFICES /\ Numbered'
               /\ UNCHANGED accounts \/ \E items, s : Commit(c, items, s)
               /\ UNCHANGED toClient \/ \E ms : Reply(c, ms)
               /\ discarded => discarded'
               /\ m.kind = "report" /\ m.early => discarded'
               /\ \/ discarded'
                  \/ \E h, x, b \in Int : Gains(c, h, 0, 0, x, b) /\ h + x + b = Weight(m)
  <2>1. \A d \in Clients \ {c} : Apart(d)
    BY <1>2, <1>4, <1>8, Turn DEF Apart, Commit, accounts
  <2>2. ASSUME NEW h \in Int, NEW x \in Int, NEW b \in Int,
               Gains(c, h, 0, 0, x, b), h + x + b = Weight(m)
        PROVE  k \in Int /\ Pays(c, k)
    <3>1. k \in Int /\ h + 0 - 0 + k + x + b = 0 /\ 0 \in Int
      BY <1>3, <2>2
    <3> HIDE DEF k
    <3>2. QED
      BY <1>1, <2>2, <3>1, PaysFor
  <2> HIDE DEF k, m
  <2>3. QED
    BY <1>3, <1>8, <2>1, <2>2, StepBalances
<1> HIDE DEF m, g
<1>9. CASE HandleReport(c, i, n, fit, saved)
  <2>1. m.kind = "report" /\ ground' = ground /\ nextNum' = nextNum /\ box' = box
    BY <1>9 DEF HandleReport, world, m
  <2>2. CASE Reply(c, <<Current(c)>>) /\ discarded' = TRUE /\ UNCHANGED accounts
    BY <1>1, <2>1, <2>2 DEF Numbered
  <2>3. CASE /\ m.rev = rev[c] /\ Commit(c, m.items, saved)
             /\ Reply(c, <<Inventory(rev[c] + 1, m.items)>>)
             /\ discarded' = (discarded \/ m.early)
    <3>1. Weight(m) = m.items - m.base /\ (~m.early => m.base = have[c])
      <4>1. toServer[c] \in Seq(SoundReports(rev[c], have[c]))
        BY DEF IInv, Sound
      <4>2. m \in SoundReports(rev[c], have[c])
        BY <4>1, ElementOfSeq, LenProperties DEF m
      <4>3. QED
        BY <2>1, <2>3, <4>2 DEF SoundReports, Weight
    <3>2. have'[c] = m.items
      BY <1>4, <2>3 DEF Commit
    <3>3. m.items - have[c] \in Int /\ m.items = have[c] + (m.items - have[c])
      BY <1>4, <1>7, <2>1
    <3>4. Gains(c, m.items - have[c], 0, 0, 0, 0)
      BY <1>2, <1>6, <2>1, <3>2, <3>3 DEF Gains, g
    <3>5. ~m.early => (m.items - have[c]) + 0 + 0 = Weight(m)
      BY <1>4, <1>7, <2>1, <3>1
    <3>6. QED
      BY <1>1, <1>6, <2>1, <2>3, <3>3, <3>4, <3>5 DEF Numbered
  <2>4. QED
    BY <1>9, <2>2, <2>3 DEF HandleReport, Refusable, m
<1>10. CASE HandlePlace(c, i, n, fit)
  <2>1. m.kind = "place" /\ UNCHANGED accounts /\ UNCHANGED toClient /\ box' = box
    BY <1>10 DEF HandlePlace, m
  <2>2. Weight(m) = 1 /\ have' = have
    BY <2>1 DEF Weight, accounts
  <2>3. CASE discarded' = TRUE /\ UNCHANGED <<ground, nextNum>>
    BY <1>1, <2>1, <2>3 DEF Numbered
  <2>4. CASE /\ ground' = ground \cup {nextNum} /\ nextNum' = nextNum + 1
             /\ UNCHANGED discarded
    <3>1. Cardinality(ground') = g + 1
      BY <1>5, <2>4, FS_AddElement DEF g
    <3>2. Numbered'
      <4>1. (nextNum + 1) - 1 = nextNum /\ nextNum + 1 # 0 /\ nextNum \in 1 .. nextNum
        BY <1>1, <1>5 DEF Numbered
      <4>2. ground \cup {nextNum} \subseteq 1 .. nextNum
        <5>1. 1 .. (nextNum - 1) \subseteq 1 .. nextNum
          BY <1>5
        <5>2. QED
          BY <1>1, <4>1, <5>1 DEF Numbered
      <4>3. QED
        BY <2>4, <4>1, <4>2 DEF Numbered
    <3>3. Gains(c, 0, 0, 0, 1, 0)
      BY <1>2, <1>6, <2>1, <2>2, <3>1 DEF Gains, g
    <3>4. 0 + 1 + 0 = 1 /\ 1 \in Int
      OBVIOUS
    <3>5. QED
      BY <1>6, <2>1, <2>2, <2>4, <3>2, <3>3, <3>4
  <2>5. QED
    BY <1>10, <2>3, <2>4 DEF HandlePlace
<1>11. CASE HandleWorldTake(c, i, n, fit)
  <2>1. m.kind = "world" /\ Weight(m) = 0 /\ nextNum' = nextNum /\ box' = box
        /\ discarded' = discarded
    BY <1>11 DEF HandleWorldTake, Weight, m
  <2>2. CASE /\ m.num \in ground /\ ground' = Without(m.num)
             /\ Commit(c, have[c] + 1, TRUE) /\ Committed(c, have[c] + 1)
    <3>1. Cardinality(ground') = g - 1
      BY <1>5, <2>2, FS_RemoveElement DEF Without, g
    <3>2. Numbered'
      BY <1>1, <2>1, <2>2 DEF Numbered, Without
    <3>3. have'[c] = have[c] + 1
      BY <1>4, <2>2 DEF Commit
    <3>4. g - 1 = g + (0 - 1)
      BY <1>5
    <3>5. Gains(c, 1, 0, 0, 0 - 1, 0)
      BY <1>2, <1>6, <2>1, <3>1, <3>3, <3>4 DEF Gains, g
    <3>6. 1 + (0 - 1) + 0 = 0 /\ 1 \in Int /\ 0 - 1 \in Int
      OBVIOUS
    <3>7. QED
      BY <1>6, <2>1, <2>2, <3>2, <3>5, <3>6 DEF Committed
  <2>3. CASE /\ UNCHANGED <<accounts, ground>>
             /\ \/ Reply(c, <<Current(c), Result("stale", rev[c])>>)
                \/ Reply(c, <<Result("refused", rev[c])>>)
    <3>1. Numbered' /\ have' = have /\ ground' = ground
      BY <1>1, <2>1, <2>3 DEF Numbered, accounts
    <3>2. Gains(c, 0, 0, 0, 0, 0)
      BY <1>2, <1>6, <2>1, <3>1 DEF Gains, g
    <3>3. 0 + 0 + 0 = 0
      OBVIOUS
    <3>4. QED
      BY <1>6, <2>1, <2>3, <3>1, <3>2, <3>3
  <2>4. QED
    BY <1>11, <2>2, <2>3 DEF HandleWorldTake, m
<1>12. CASE HandleBox(c, i, n, fit)
  <2>1. /\ m.kind \in {"take", "put"} /\ Weight(m) = 0 /\ nextNum' = nextNum
        /\ ground' = ground /\ discarded' = discarded
    BY <1>12 DEF HandleBox, Weight, m
  <2>2. Numbered'
    BY <1>1, <2>1 DEF Numbered
  <2>3. ASSUME NEW x \in {1, 0 - 1}, box' = box - x, Commit(c, have[c] + x, TRUE),
               Committed(c, have[c] + x)
        PROVE  \E h, y, b \in Int : Gains(c, h, 0, 0, y, b) /\ h + y + b = Weight(m)
    <3>1. have'[c] = have[c] + x
      BY <1>4, <2>3 DEF Commit
    <3>2. x \in Int /\ 0 - x \in Int /\ box - x = box + (0 - x) /\ x + 0 + (0 - x) = 0
      BY <1>4
    <3>3. Gains(c, x, 0, 0, 0, 0 - x)
      BY <1>2, <1>6, <2>1, <2>3, <3>1, <3>2 DEF Gains, g
    <3>4. QED
      BY <1>6, <2>1, <3>2, <3>3
  <2>4. CASE /\ m.kind = "take" /\ box' = box - 1
             /\ Commit(c, have[c] + 1, TRUE) /\ Committed(c, have[c] + 1)
    BY <2>1, <2>2, <2>3, <2>4 DEF Committed
  <2>5. CASE /\ m.kind = "put" /\ box' = box + 1
             /\ Commit(c, have[c] - 1, TRUE) /\ Committed(c, have[c] - 1)
    <3>1. have[c] - 1 = have[c] + (0 - 1) /\ box + 1 = box - (0 - 1)
      BY <1>4
    <3>2. QED
      BY <2>1, <2>2, <2>3, <2>5, <3>1 DEF Committed
  <2>6. CASE /\ UNCHANGED <<accounts, box>>
             /\ \/ Reply(c, <<Current(c), Result("stale", rev[c])>>)
                \/ Reply(c, <<Result("refused", rev[c])>>)
    <3>1. have' = have /\ box' = box
      BY <2>6 DEF accounts
    <3>2. Gains(c, 0, 0, 0, 0, 0)
      BY <1>2, <1>6, <2>1, <3>1 DEF Gains, g
    <3>3. 0 + 0 + 0 = 0
      OBVIOUS
    <3>4. QED
      BY <1>6, <2>1, <2>2, <2>6, <3>2, <3>3
  <2>7. QED
    BY <1>12, <2>1, <2>4, <2>5, <2>6 DEF HandleBox, m
<1>13. QED
  BY <1>9, <1>10, <1>11, <1>12

\* A connection that is lost with nothing of the player's own under way.
LEMMA ReconnectBalances ==
  ASSUME IInv, IInv', Balanced, NEW c \in Clients, Reconnect(c)
  PROVE  Balanced'
<1>1. TypeOK /\ Types /\ Numbered
  BY InvariantTypes DEF IInv, Balanced
<1>2. /\ UNCHANGED world /\ have'[c] = stored[c] /\ view'[c] = stored[c]
      /\ sent'[c] = stored[c] /\ toServer'[c] = <<>>
  BY <1>1 DEF Reconnect, Types, Numbers, ClientTypes, TypeOK
<1>3. \A d \in Clients \ {c} : Apart(d)
  BY <1>1 DEF Reconnect, Types, Numbers, ClientTypes, TypeOK, Apart
<1>4. Numbered' /\ ground' = ground /\ box' = box
  BY <1>1, <1>2 DEF world, Numbered
<1>5. (discarded => discarded') /\ (Early(c) => discarded')
  BY DEF Reconnect, Early
<1>6. ASSUME ~discarded'
      PROVE  /\ view[c] = sent[c] /\ have[c] = stored[c]
             /\ \A j \in DOMAIN toServer[c] : toServer[c][j].kind \notin {"place", "report"}
  BY <1>6 DEF Reconnect, Unsent
<1>7. ASSUME ~discarded' PROVE Sends(c, 0)
  <2> DEFINE q == toServer[c]
  <2>1. q \in Seq(ToServer)
    BY <1>1 DEF TypeOK
  <2>2. \A j \in 1 .. Len(q) : Weight(q[j]) = 0
    BY <1>6, <1>7, <2>1, LenProperties DEF Weight
  <2>3. ASSUME NEW n, Weighs(q, n) PROVE Weighs(<<>>, n + 0)
    <3>1. n = 0 /\ n + 0 = 0
      BY <2>1, <2>2, <2>3, WeighsNothing
    <3>2. QED
      BY <3>1, NothingWeighs
  <2>4. QED
    BY <1>2, <2>3 DEF Sends
<1>8. ASSUME ~discarded' PROVE Pays(c, 0)
  <2>1. /\ have[c] \in Nat /\ view[c] \in Nat /\ stored[c] \in Nat /\ box \in Nat
        /\ Cardinality(ground) \in Nat
    <3>1. Cardinality(ground) \in Nat
      BY <1>1, Objects
    <3>2. QED
      BY <1>1, <3>1 DEF Types, Numbers, ClientTypes, ServerTypes
  <2> DEFINE x == stored[c] - view[c]
  <2>2. /\ x \in Int /\ stored[c] = view[c] + x /\ stored[c] = sent[c] + x
        /\ stored[c] = have[c] + 0 /\ box = box + 0
        /\ Cardinality(ground) = Cardinality(ground) + 0
    BY <1>6, <1>8, <2>1
  <2> HIDE DEF x
  <2>3. Gains(c, 0, x, x, 0, 0)
    BY <1>2, <1>4, <2>2 DEF Gains
  <2>4. 0 + x - x + 0 + 0 + 0 = 0 /\ 0 \in Int
    BY <2>2
  <2>5. QED
    BY <1>1, <2>2, <2>3, <2>4, PaysFor
<1>9. 0 \in Int
  OBVIOUS
<1>10. QED
  BY <1>3, <1>4, <1>5, <1>7, <1>8, <1>9, StepBalances

LEMMA InitBalances == Init => Balanced
<1> SUFFICES ASSUME Init PROVE Balanced
  OBVIOUS
<1> DEFINE w == [c \in Clients |-> 0]
           f == [c \in Clients |-> have[c] + view[c] - sent[c] + w[c]]
           g == [s \in SUBSET Clients |-> Carried * Cardinality(s)]
<1>1. /\ ground = 1 .. Lying /\ nextNum = Lying + 1 /\ box = Boxed
      /\ \A c \in Clients : have[c] = Carried /\ view[c] = Carried /\ sent[c] = Carried
      /\ \A c \in Clients : toServer[c] = <<>>
  BY DEF Init, All
<1>2. Lying \in Nat /\ Carried \in Nat /\ Boxed \in Nat
  BY DEF AmountAssumption
<1>3. Numbered
  BY <1>1, <1>2 DEF Numbered
<1>4. w \in [Clients -> Int] /\ \A c \in Clients : Weighs(toServer[c], w[c])
  BY <1>1, NothingWeighs
<1>5. f = [c \in Clients |-> Carried]
  BY <1>1, <1>2
<1>6. Sums(Clients, f, g)
  BY <1>2, <1>5, SumsConstant, ClientAssumption
<1>7. g[Clients] = Carried * Cardinality(Clients) /\ Cardinality(Clients) \in Nat
  BY FS_CardinalityType, ClientAssumption
<1>8. Cardinality(ground) = Lying
  <2>1. 1 \in Int /\ Lying \in Int /\ (IF 1 > Lying THEN 0 ELSE Lying - 1 + 1) = Lying
    BY <1>2
  <2>2. QED
    BY <1>1, <2>1, FS_Interval
<1>9. Balance
  <2> HIDE DEF g, f, w
  <2>1. Sums(Clients, [c \in Clients |-> have[c] + view[c] - sent[c] + w[c]], g)
    BY <1>6 DEF f
  <2>2. QED
    BY <1>1, <1>4, <1>7, <1>8, <2>1 DEF Balance, Sums
<1>10. QED
  BY <1>3, <1>9 DEF Balanced

LEMMA NextBalances == IInv /\ AllTold /\ Balanced /\ [Next]_vars => Balanced'
<1> SUFFICES ASSUME IInv, AllTold, Balanced, [Next]_vars PROVE Balanced'
  OBVIOUS
<1>1. IInv'
  BY NextInvariant
<1>2. CASE UNCHANGED vars
  BY <1>2 DEF vars, accounts, world, client, Balanced, Numbered, Early, Balance
<1>3. ASSUME NEW c \in Clients, ClientStep(c) PROVE Balanced'
  <2>1. 0 .. MaxNum \subseteq Nat
    OBVIOUS
  <2>2. QED
    BY <1>1, <1>3, <2>1, ClientBalances, ViewBalances DEF ClientStep
<1>4. ASSUME NEW c \in Clients, ServerStep(c) PROVE Balanced'
  BY <1>1, <1>4, HandlersBalance, ViewBalances DEF ServerStep
<1>5. ASSUME NEW c \in Clients, Reconnect(c) PROVE Balanced'
  BY <1>1, <1>5, ReconnectBalances
<1>6. QED
  BY <1>2, <1>3, <1>4, <1>5 DEF Next

\* Whatever the players take from the world and the container, put back or drop,
\* and however the packets about it cross, all that they have, all that lies on
\* the ground and all that is in the container add up to what there was at
\* first, when nothing is under way: unless the server refused or lost what a
\* client had done, or a client overwrote a snapshot it had staged.
THEOREM NoItemIsMadeOrLost == Spec => []ItemsConserved
<1>1. IInv /\ Balanced => ItemsConserved
  <2> SUFFICES ASSUME IInv, Balanced, \A c \in Clients : Settled(c), ~discarded
               PROVE  SumFunction(have) + Cardinality(ground) + box
                        = SumFunction(All(Carried)) + Lying + Boxed
    BY DEF ItemsConserved
  <2>1. \A c \in Clients : toServer[c] = <<>> /\ view[c] = sent[c]
    BY DEF Settled, Unsent
  <2>2. Balance
    <3>1. \A c \in Clients : ~Early(c)
      BY <2>1 DEF Early
    <3>2. QED
      BY <3>1 DEF Balanced
  <2>3. PICK w \in [Clients -> Int], g \in [SUBSET Clients -> Int] :
          /\ \A c \in Clients : Weighs(toServer[c], w[c])
          /\ Sums(Clients, [c \in Clients |-> have[c] + view[c] - sent[c] + w[c]], g)
          /\ g[Clients] + Cardinality(ground) + box
               = Carried * Cardinality(Clients) + Lying + Boxed
    BY <2>2 DEF Balance
  <2>4. \A c \in Clients : w[c] = 0
    <3>1. <<>> \in Seq(ToServer) /\ 1 .. Len(<<>>) = {}
      BY EmptySeq
    <3>2. \A n : Weighs(<<>>, n) => n = 0
      BY <3>1, WeighsNothing
    <3>3. QED
      BY <2>1, <2>3, <3>2
  <2>5. have \in [Clients -> Nat] /\ view \in [Clients -> Nat]
    BY DEF IInv, Types, Numbers, ClientTypes
  <2>6. [c \in Clients |-> have[c] + view[c] - sent[c] + w[c]] = have
    <3>1. \A c \in Clients : have[c] + view[c] - sent[c] + w[c] = have[c]
      BY <2>1, <2>4, <2>5
    <3>2. QED
      BY <2>5, <3>1
  <2>7. SumFunction(have) = g[Clients]
    BY <2>3, <2>5, <2>6, SumIs, ClientAssumption
  <2>8. SumFunction(All(Carried)) = Carried * Cardinality(Clients)
    <3> DEFINE h == [s \in SUBSET Clients |-> Carried * Cardinality(s)]
    <3>1. Carried \in Nat
      BY DEF AmountAssumption
    <3>2. Sums(Clients, All(Carried), h) /\ DOMAIN All(Carried) = Clients
      BY <3>1, SumsConstant, ClientAssumption DEF All
    <3>3. h[Clients] = Carried * Cardinality(Clients)
      OBVIOUS
    <3> HIDE DEF h
    <3>4. SumFunction(All(Carried)) = h[Clients]
      BY <3>2, SumIs, ClientAssumption
    <3>5. QED
      BY <3>3, <3>4
  <2>9. QED
    BY <2>3, <2>7, <2>8
<1>2. Spec => []Balanced
  BY InitBalances, NextBalances, Invariance, Telling, PTL DEF Spec
<1>3. QED
  BY <1>1, <1>2, Invariance, PTL
=============================================================================
