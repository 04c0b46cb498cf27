--------------------------- MODULE DoorStatesProofs ---------------------------
(***************************************************************************)
(* Theorems about DoorStates, in every behaviour: its types, that the      *)
(* server never falls behind what it told, and that clients converge,      *)
(* those that come and go as well as those that stay.                      *)
(***************************************************************************)
EXTENDS DoorStates, SequenceTheorems, WellFoundedInduction, TLAPS

USE BaseAssumption, BoundAssumption

-----------------------------------------------------------------------------
(* The server and its database *)

\* The server never differs from its database, and has told no more.
Durable ==
  /\ door.revision \in Nat /\ told \in Nat /\ epoch \in Nat
  /\ db = door
  /\ told <= door.revision

LEMMA DurableInit == Init => Durable
BY DEF Init, Durable, Base, Door

LEMMA DurableStep ==
  ASSUME Durable, [Next]_vars
  PROVE  Durable' /\ (epoch' = epoch => door'.revision >= door.revision)
<1>1. ASSUME UNCHANGED serverVars
      PROVE  Durable' /\ (epoch' = epoch => door'.revision >= door.revision)
  BY <1>1 DEF serverVars, Durable
<1>2. ASSUME NEW c \in Clients, NEW fit \in BOOLEAN, NEW stored \in BOOLEAN,
             Receive(c, fit, stored)
      PROVE  Durable' /\ (epoch' = epoch => door'.revision >= door.revision)
  <2> DEFINE p == Head(toServer[c]).door
  <2>1. CASE fit /\ stored /\ Valid(p)
    <3>1. door' = p /\ db' = p /\ told' = p.revision /\ epoch' = epoch
      BY <1>2, <2>1 DEF Receive
    <3>2. p.revision = door.revision + 1
      BY <2>1 DEF Valid
    <3> HIDE DEF p
    <3>3. QED
      BY <3>1, <3>2 DEF Durable
  <2>2. CASE ~(fit /\ stored /\ Valid(p))
    BY <1>1, <1>2, <2>2 DEF Receive, serverVars
  <2>3. QED
    BY <2>1, <2>2
<1>3. ASSUME Reset
      PROVE  Durable' /\ (epoch' = epoch => door'.revision >= door.revision)
  <2>1. door' = Base /\ db' = Base /\ told' = 0 /\ Base.revision = 0
    BY <1>3 DEF Reset, Base, Door
  <2>2. epoch' = epoch + 1 /\ epoch \in Nat
    BY <1>3 DEF Reset, Durable
  <2>3. QED
    BY <2>1, <2>2 DEF Durable
<1>4. ASSUME Restart
      PROVE  Durable' /\ (epoch' = epoch => door'.revision >= door.revision)
  BY <1>4 DEF Restart, Durable
<1>5. ASSUME NEW c \in Clients,
             Toggle(c) \/ Deliver(c) \/ LoadScene(c) \/ UnloadScene(c) \/ Retry(c)
               \/ Enter(c) \/ Leave(c)
      PROVE  UNCHANGED serverVars
  BY <1>5 DEF Toggle, Deliver, LoadScene, UnloadScene, Retry, Enter, Leave
<1>6. CASE UNCHANGED vars
  BY <1>1, <1>6 DEF vars
<1>7. QED
  BY <1>1, <1>2, <1>3, <1>4, <1>5, <1>6 DEF Next, Stay, Roam

LEMMA DurableAlways == Spec => []Durable
<1>1. Durable /\ [Next]_vars => Durable'
  BY DurableStep
<1>2. QED
  BY <1>1, DurableInit, PTL DEF Spec

\* Whatever clients propose, whichever writes fail and whenever the server
\* restarts from its database: it never falls behind what it told.
THEOREM ToldIsKept == Spec => ToldStands
<1>1. Durable /\ [Next]_vars => [epoch' = epoch => door'.revision >= told]_vars
  <2> SUFFICES ASSUME Durable, [Next]_vars, epoch' = epoch
               PROVE  door'.revision >= told
    OBVIOUS
  <2>1. Durable' /\ door'.revision >= door.revision
    BY DurableStep
  <2>2. QED
    BY <2>1 DEF Durable
<1>2. QED
  BY <1>1, DurableAlways, PTL DEF Spec, ToldStands

-----------------------------------------------------------------------------
(* Types *)

LEMMA BaseDoor == Base \in Doors /\ Base.revision = 0 /\ Look(Base) \in Looks
BY DEF Base, Door, Doors, Look, Looks

LEMMA DoorLook == \A d \in Doors : Look(d) \in Looks /\ d.revision \in 0 .. MaxRevision
BY DEF Doors, Look, Looks

\* Saying d appends it to the packets of the clients addressed.
SaidTo(cs, d) ==
  /\ toClient' \in [Clients -> Seq(Messages)]
  /\ \A c \in Clients :
       IF c \in cs THEN toClient'[c] # <<>> /\ toClient'[c][Len(toClient'[c])].door = d
       ELSE toClient'[c] = toClient[c]

LEMMA SayFacts ==
  ASSUME toClient \in [Clients -> Seq(Messages)], NEW cs, NEW d \in Doors,
         NEW b \in BOOLEAN, Say(cs, d, b)
  PROVE  SaidTo(cs, d)
<1> DEFINE m == [door |-> d, bootstrap |-> b]
<1>1. m \in Messages /\ m.door = d
  BY DEF Messages
<1> HIDE DEF m
<1>2. ASSUME NEW c \in Clients
      PROVE  /\ toClient[c] \in Seq(Messages)
             /\ Append(toClient[c], m) \in Seq(Messages)
             /\ Append(toClient[c], m) # <<>>
             /\ Append(toClient[c], m)[Len(Append(toClient[c], m))].door = d
  <2>1. toClient[c] \in Seq(Messages)
    OBVIOUS
  <2>2. QED
    BY <1>1, <2>1, AppendProperties
<1>3. toClient' = [c \in Clients |->
                    IF c \in cs THEN Append(toClient[c], m) ELSE toClient[c]]
  BY DEF Say, m
<1>4. QED
  BY <1>2, <1>3 DEF SaidTo

\* Every set of numbers has a least one.
LEMMA LeastNumber ==
  ASSUME NEW T, T \subseteq Nat, T # {}
  PROVE  \E n \in T : \A m \in T : n <= m
<1>1. PICK n \in T : \A m \in T : <<m, n>> \notin OpToRel(<, Nat)
  BY NatLessThanWellFounded, WFMin
<1>2. n \in Nat /\ \A m \in T : m \in Nat /\ ~(m < n)
  BY <1>1 DEF OpToRel
<1>3. \A m \in T : n <= m
  BY <1>2
<1>4. QED
  BY <1>3

\* f is what Unshown keeps of the first i of q, for each i up to n.
Keeps(q, n, f) ==
  f = [i \in 0 .. n |->
         IF i = 0 THEN <<>>
         ELSE IF q[i].bootstrap THEN f[i - 1]
         ELSE Append(f[i - 1], q[i])]

\* How far a queue can be read, and what is kept of it is a queue.
LEMMA KeepsMore ==
  ASSUME NEW q \in Seq(Kept), NEW n \in Nat, n + 1 <= Len(q),
         NEW f \in [0 .. n -> Seq(Kept)], Keeps(q, n, f)
  PROVE  \E g \in [0 .. n + 1 -> Seq(Kept)] : Keeps(q, n + 1, g)
<1> DEFINE more == IF q[n + 1].bootstrap THEN f[n] ELSE Append(f[n], q[n + 1])
           g == [i \in 0 .. n + 1 |-> IF i = n + 1 THEN more ELSE f[i]]
<1>1. q[n + 1] \in Kept /\ f[n] \in Seq(Kept)
  BY LenProperties, ElementOfSeq
<1>2. more \in Seq(Kept)
  BY <1>1, AppendProperties
<1>3. g[n + 1] = more /\ \A i \in 0 .. n : g[i] = f[i]
  OBVIOUS
<1>4. \A i \in 0 .. n : f[i] = IF i = 0 THEN <<>>
                               ELSE IF q[i].bootstrap THEN f[i - 1]
                               ELSE Append(f[i - 1], q[i])
  BY DEF Keeps
<1>5. ASSUME NEW i \in 0 .. n + 1
      PROVE  g[i] = IF i = 0 THEN <<>>
                    ELSE IF q[i].bootstrap THEN g[i - 1]
                    ELSE Append(g[i - 1], q[i])
  <2>1. CASE i = n + 1
    <3>1. i # 0 /\ i - 1 = n /\ g[i - 1] = f[n]
      BY <2>1, <1>3
    <3>2. QED
      BY <2>1, <3>1, <1>3
  <2>2. CASE i \in 1 .. n
    <3>1. i \in 0 .. n /\ i - 1 \in 0 .. n
      BY <2>2
    <3>2. g[i] = f[i] /\ g[i - 1] = f[i - 1]
      BY <3>1, <1>3
    <3> HIDE DEF g
    <3>3. QED
      BY <3>1, <3>2, <1>4
  <2>3. CASE i = 0
    BY <2>3, <1>3, <1>4
  <2>4. QED
    BY <2>1, <2>2, <2>3
<1>6. g \in [0 .. n + 1 -> Seq(Kept)]
  BY <1>2
<1> HIDE DEF g
<1>7. DOMAIN g = 0 .. n + 1
  BY <1>6
<1>8. g = [i \in 0 .. n + 1 |-> g[i]]
  BY <1>6
<1>9. Keeps(q, n + 1, g)
  BY <1>5, <1>8 DEF Keeps
<1>10. QED
  BY <1>6, <1>9

LEMMA KeepsAll ==
  ASSUME NEW q \in Seq(Kept)
  PROVE  \A n \in 0 .. Len(q) : \E f \in [0 .. n -> Seq(Kept)] : Keeps(q, n, f)
<1> DEFINE Fine(n) == \E f \in [0 .. n -> Seq(Kept)] : Keeps(q, n, f)
           T == {n \in 0 .. Len(q) : ~Fine(n)}
<1>1. Len(q) \in Nat
  BY LenProperties
<1>2. Fine(0)
  <2> DEFINE f == [i \in 0 .. 0 |-> <<>>]
  <2>1. f \in [0 .. 0 -> Seq(Kept)]
    BY EmptySeq
  <2>2. Keeps(q, 0, f)
    BY DEF Keeps
  <2>3. QED
    BY <2>1, <2>2
<1>3. ASSUME NEW n \in Nat, n + 1 <= Len(q), Fine(n) PROVE Fine(n + 1)
  BY <1>3, KeepsMore
<1> HIDE DEF Fine
<1>4. T = {}
  <2> SUFFICES ASSUME T # {} PROVE FALSE
    OBVIOUS
  <2>1. PICK n \in T : \A m \in T : n <= m
    <3>1. T \subseteq Nat
      BY <1>1
    <3> HIDE DEF T
    <3>2. QED
      BY <3>1, LeastNumber
  <2>2. n \in 0 .. Len(q) /\ ~Fine(n)
    BY <2>1
  <2>3. n # 0
    BY <1>2, <2>2
  <2>4. n - 1 \in 0 .. Len(q) /\ n - 1 \in Nat /\ (n - 1) + 1 = n /\ n <= Len(q)
    BY <1>1, <2>2, <2>3
  <2>5. Fine(n - 1)
    BY <2>1, <2>4
  <2>6. QED
    BY <1>3, <2>2, <2>4, <2>5
<1>5. QED
  BY <1>4 DEF Fine

LEMMA Appended ==
  ASSUME NEW S, NEW s \in Seq(S), NEW x \in S
  PROVE  Append(s, x) # <<>> /\ Append(s, x)[Len(Append(s, x))] = x
BY AppendProperties

\* What stays of a queue of kept states is one, and its last is the last there
\* was unless that leaves.
LEMMA Unshowing ==
  ASSUME NEW q \in Seq(Kept)
  PROVE  /\ Unshown(q) \in Seq(Kept)
         /\ q # <<>> /\ ~q[Len(q)].bootstrap =>
              Unshown(q) # <<>> /\ Unshown(q)[Len(Unshown(q))] = q[Len(q)]
<1> DEFINE n == Len(q)
           f == CHOOSE f : Keeps(q, n, f)
<1>1. n \in Nat
  BY LenProperties
<1>2. \E g : Keeps(q, n, g)
  BY <1>1, KeepsAll
<1>3. Unshown(q) = f[n] /\ Keeps(q, n, f)
  BY <1>2 DEF Unshown, Keeps
<1> HIDE DEF f
<1>4. PICK g \in [0 .. n -> Seq(Kept)] : Keeps(q, n, g)
  BY <1>1, KeepsAll
<1> DEFINE T == {i \in 0 .. n : f[i] # g[i]}
<1>5. ASSUME NEW i \in 0 .. n, i = 0 \/ f[i - 1] = g[i - 1]
      PROVE  f[i] = g[i]
  BY <1>3, <1>4, <1>5 DEF Keeps
<1>6. T = {}
  <2> SUFFICES ASSUME T # {} PROVE FALSE
    OBVIOUS
  <2>1. PICK i \in T : \A j \in T : i <= j
    <3>1. T \subseteq Nat
      BY <1>1
    <3> HIDE DEF T
    <3>2. QED
      BY <3>1, LeastNumber
  <2>2. i \in 0 .. n /\ f[i] # g[i]
    BY <2>1
  <2>3. i # 0
    BY <1>5, <2>2
  <2>4. i - 1 \in 0 .. n /\ ~(i <= i - 1)
    BY <1>1, <2>2, <2>3
  <2>5. f[i - 1] = g[i - 1]
    BY <2>1, <2>4
  <2>6. QED
    BY <1>5, <2>2, <2>5
<1>7. f[n] = g[n] /\ n \in 0 .. n
  BY <1>1, <1>6
<1>8. Unshown(q) \in Seq(Kept)
  BY <1>3, <1>4, <1>7
<1>9. ASSUME q # <<>>, ~q[n].bootstrap
      PROVE  Unshown(q) # <<>> /\ Unshown(q)[Len(Unshown(q))] = q[n]
  <2>1. n # 0
    BY <1>9, EmptySeq
  <2>2. n - 1 \in 0 .. n /\ n \in 0 .. n /\ n \in 1 .. Len(q)
    BY <1>1, <2>1
  <2>3. g[n] = Append(g[n - 1], q[n])
    <3>1. \A i \in 0 .. n : g[i] = IF i = 0 THEN <<>>
                                 ELSE IF q[i].bootstrap THEN g[i - 1]
                                 ELSE Append(g[i - 1], q[i])
      BY <1>4 DEF Keeps
    <3> HIDE DEF n
    <3>2. QED
      BY <1>9, <2>1, <2>2, <3>1
  <2>4. g[n - 1] \in Seq(Kept) /\ q[n] \in Kept
    BY <1>4, <2>2, ElementOfSeq
  <2> DEFINE a == Append(g[n - 1], q[n])
  <2>5. Unshown(q) = a
    BY <1>3, <1>7, <2>3
  <2>6. a # <<>> /\ a[Len(a)] = q[n]
    BY <2>4, Appended, Zenon
  <2> HIDE DEF a
  <2>7. QED
    BY <2>5, <2>6
<1>10. QED
  BY <1>8, <1>9

\* What is left when one of the states a client keeps is shown: the last
\* stays the last.
LEMMA Removal ==
  ASSUME NEW q \in Seq(Kept), NEW i \in 1 .. Len(q)
  PROVE  LET r == SubSeq(q, 1, i - 1) \o SubSeq(q, i + 1, Len(q))
         IN  /\ r \in Seq(Kept)
             /\ i # Len(q) => r # <<>> /\ r[Len(r)] = q[Len(q)]
<1> DEFINE s == SubSeq(q, 1, i - 1)
           t == SubSeq(q, i + 1, Len(q))
           r == s \o t
<1>1. Len(q) \in Nat /\ \A j \in 1 .. Len(q) : q[j] \in Kept
  BY LenProperties, ElementOfSeq
<1>2. s \in Seq(Kept) /\ Len(s) = i - 1
  BY <1>1, SubSeqProperties
<1>3. t \in Seq(Kept) /\ Len(t) = Len(q) - i /\ \A j \in 1 .. Len(q) - i : t[j] = q[i + j]
  BY <1>1, SubSeqProperties
<1> HIDE DEF s, t
<1>4. /\ r \in Seq(Kept) /\ Len(r) = Len(s) + Len(t)
      /\ \A j \in 1 .. Len(s) + Len(t) : r[j] = IF j <= Len(s) THEN s[j] ELSE t[j - Len(s)]
  BY <1>2, <1>3, ConcatProperties
<1> HIDE DEF r
<1>5. ASSUME i # Len(q)
      PROVE  r # <<>> /\ r[Len(r)] = q[Len(q)]
  <2>1. /\ Len(r) = Len(q) - 1 /\ Len(r) \in 1 .. Len(s) + Len(t) /\ ~(Len(r) <= Len(s))
        /\ Len(r) - Len(s) \in 1 .. Len(q) - i /\ i + (Len(r) - Len(s)) = Len(q)
    BY <1>1, <1>2, <1>3, <1>4, <1>5
  <2>2. r[Len(r)] = t[Len(r) - Len(s)]
    BY <1>4, <2>1
  <2>3. t[Len(r) - Len(s)] = q[Len(q)]
    BY <1>3, <2>1
  <2>4. r # <<>>
    BY <1>4, <2>1, EmptySeq
  <2>5. QED
    BY <2>2, <2>3, <2>4
<1>6. QED
  BY <1>4, <1>5 DEF r, s, t

LEMMA InitTypes == Init => TypeOK
BY BaseDoor, EmptySeq DEF Init, TypeOK

LEMMA ToggleTypes ==
  ASSUME TypeOK, NEW c \in Clients, Toggle(c)
  PROVE  TypeOK'
<1> DEFINE open == ~view[c].open
           locked == view[c].locked /\ ~open
           p == [door |-> Door(open, locked, rev[c] + 1)]
<1>1. /\ view[c] \in Looks /\ open \in BOOLEAN /\ locked \in BOOLEAN
      /\ rev[c] + 1 \in 0 .. MaxRevision
      /\ toServer[c] \in Seq(Proposals)
  BY DEF TypeOK, Toggle, Looks
<1>2. p \in Proposals /\ [open |-> open, locked |-> locked] \in Looks
  BY <1>1 DEF Proposals, Doors, Door, Looks
<1>3. /\ view' = [view EXCEPT ![c] = [open |-> open, locked |-> locked]]
      /\ rev' = [rev EXCEPT ![c] = rev[c] + 1]
      /\ toServer' = [toServer EXCEPT ![c] = Append(toServer[c], p)]
      /\ UNCHANGED <<serverVars, near, scene, pending, newest, toClient, missed>>
  BY DEF Toggle
<1> HIDE DEF p, open, locked
<1>4. Append(toServer[c], p) \in Seq(Proposals)
  BY <1>1, <1>2, AppendProperties
<1>5. QED
  BY <1>1, <1>2, <1>3, <1>4 DEF TypeOK, serverVars

LEMMA DeliverTypes ==
  ASSUME TypeOK, NEW c \in Clients, Deliver(c)
  PROVE  TypeOK'
<1> DEFINE m == Head(toClient[c])
           k == [look |-> Look(m.door), bootstrap |-> m.bootstrap]
<1>1. /\ toClient[c] \in Seq(Messages) /\ toClient[c] # <<>>
      /\ pending[c] \in Seq(Kept)
      /\ toClient' = [toClient EXCEPT ![c] = Tail(toClient[c])]
      /\ rev' = [rev EXCEPT ![c] = m.door.revision]
      /\ \/ view' = [view EXCEPT ![c] = Look(m.door)] /\ UNCHANGED pending
         \/ pending' = [pending EXCEPT ![c] = Append(pending[c], k)] /\ UNCHANGED view
      /\ newest' \in [Clients -> {"shown", "kept", "covered"}]
      /\ UNCHANGED <<serverVars, near, scene, toServer, missed>>
  BY DEF TypeOK, Deliver
<1>2. m \in Messages /\ Tail(toClient[c]) \in Seq(Messages)
  BY <1>1, HeadTailProperties
<1> HIDE DEF m
<1>3. Look(m.door) \in Looks /\ m.door.revision \in 0 .. MaxRevision /\ m.bootstrap \in BOOLEAN
  BY <1>2, DoorLook DEF Messages
<1>4. k \in Kept
  BY <1>3 DEF Kept
<1> HIDE DEF k
<1>5. Append(pending[c], k) \in Seq(Kept)
  BY <1>1, <1>4, AppendProperties
<1>6. QED
  BY <1>1, <1>2, <1>3, <1>5 DEF TypeOK, serverVars

\* Showing a state that is kept.
LEMMA ShowTypes ==
  ASSUME TypeOK, NEW c \in Clients, NEW i \in 1 .. Len(pending[c]), Show(c, i)
  PROVE  view' \in [Clients -> Looks] /\ newest' \in [Clients -> {"shown", "kept", "covered"}]
<1>1. pending[c] \in Seq(Kept)
  BY DEF TypeOK
<1>2. pending[c][i] \in Kept
  BY <1>1, ElementOfSeq
<1>3. QED
  BY <1>2 DEF TypeOK, Show, Kept

LEMMA RetryTypes ==
  ASSUME TypeOK, NEW c \in Clients, Retry(c)
  PROVE  TypeOK'
<1> DEFINE q == pending[c]
<1>1. PICK i \in 1 .. Len(q) :
        /\ Show(c, i)
        /\ pending' = [pending EXCEPT ![c] = SubSeq(q, 1, i - 1) \o SubSeq(q, i + 1, Len(q))]
  BY DEF Retry
<1>2. q \in Seq(Kept)
  BY DEF TypeOK
<1>3. view' \in [Clients -> Looks] /\ newest' \in [Clients -> {"shown", "kept", "covered"}]
  BY <1>1, ShowTypes
<1> HIDE DEF q
<1>4. SubSeq(q, 1, i - 1) \o SubSeq(q, i + 1, Len(q)) \in Seq(Kept)
  BY <1>2, Removal
<1>5. UNCHANGED <<serverVars, near, scene, rev, toServer, toClient, missed>>
  BY DEF Retry
<1>6. QED
  BY <1>1, <1>3, <1>4, <1>5 DEF TypeOK, serverVars

LEMMA LoadSceneTypes ==
  ASSUME TypeOK, NEW c \in Clients, LoadScene(c)
  PROVE  TypeOK'
<1>1. /\ scene' = [scene EXCEPT ![c] = TRUE]
      /\ pending' = [pending EXCEPT ![c] = Unshown(pending[c])]
      /\ UNCHANGED <<serverVars, near, rev, toServer, toClient, missed>>
      /\ \/ UNCHANGED <<view, newest>>
         \/ \E i \in 1 .. Len(pending[c]) : Show(c, i)
  BY DEF LoadScene
<1>2. pending[c] \in Seq(Kept)
  BY DEF TypeOK
<1>3. Unshown(pending[c]) \in Seq(Kept)
  BY <1>2, Unshowing
<1>4. view' \in [Clients -> Looks] /\ newest' \in [Clients -> {"shown", "kept", "covered"}]
  BY <1>1, ShowTypes DEF TypeOK
<1>5. QED
  BY <1>1, <1>3, <1>4 DEF TypeOK, serverVars

LEMMA ReceiveTypes ==
  ASSUME TypeOK, NEW c \in Clients, NEW fit \in BOOLEAN, NEW stored \in BOOLEAN,
         Receive(c, fit, stored)
  PROVE  TypeOK'
<1> DEFINE p == Head(toServer[c]).door
<1>1. /\ toServer[c] \in Seq(Proposals) /\ toServer[c] # <<>>
      /\ toServer' = [toServer EXCEPT ![c] = Tail(toServer[c])]
      /\ UNCHANGED <<epoch, near, scene, view, rev, pending, newest>>
      /\ missed' \in [Clients -> BOOLEAN]
      /\ \/ /\ door' = p /\ db' = p /\ told' = p.revision
            /\ Say({d \in Clients : near[d]} \cup {c}, p, FALSE)
         \/ UNCHANGED <<door, db, told>> /\ Say({c}, door, FALSE)
  BY DEF TypeOK, Receive, Tell, clientVars
<1>2. p \in Doors /\ Tail(toServer[c]) \in Seq(Proposals)
  <2>1. Head(toServer[c]) \in Proposals /\ Tail(toServer[c]) \in Seq(Proposals)
    BY <1>1, HeadTailProperties
  <2>2. QED
    BY <2>1 DEF Proposals
<1> HIDE DEF p
<1>3. toClient \in [Clients -> Seq(Messages)] /\ door \in Doors
  BY DEF TypeOK
<1>4. toClient' \in [Clients -> Seq(Messages)]
  <2>1. CASE Say({d \in Clients : near[d]} \cup {c}, p, FALSE)
    BY <1>2, <1>3, <2>1, SayFacts, Zenon DEF SaidTo
  <2>2. CASE Say({c}, door, FALSE)
    BY <1>3, <2>2, SayFacts, Zenon DEF SaidTo
  <2>3. QED
    BY <1>1, <2>1, <2>2
<1>5. door' \in Doors /\ db' \in Doors /\ told' \in 0 .. MaxRevision
  BY <1>1, <1>2, DoorLook DEF TypeOK
<1>6. QED
  BY <1>1, <1>2, <1>4, <1>5 DEF TypeOK

LEMMA ResetTypes ==
  ASSUME TypeOK, Reset
  PROVE  TypeOK'
<1>1. /\ door' = Base /\ db' = Base /\ epoch' = epoch + 1 /\ told' = 0
      /\ Say({c \in Clients : near[c]}, Base, TRUE)
      /\ missed' \in [Clients -> BOOLEAN]
      /\ UNCHANGED <<clientVars, toServer>>
      /\ toClient \in [Clients -> Seq(Messages)]
  BY DEF TypeOK, Reset
<1>2. toClient' \in [Clients -> Seq(Messages)]
  BY <1>1, BaseDoor, SayFacts, Zenon DEF SaidTo
<1>3. 0 \in 0 .. MaxRevision
  OBVIOUS
<1>4. QED
  BY <1>1, <1>2, <1>3, BaseDoor DEF TypeOK, clientVars

LEMMA EnterTypes ==
  ASSUME TypeOK, NEW c \in Clients, Enter(c)
  PROVE  TypeOK'
<1>1. /\ near' = [near EXCEPT ![c] = TRUE]
      /\ Say({d \in {c} : door.revision # 0}, door, TRUE)
      /\ missed' \in [Clients -> BOOLEAN]
      /\ UNCHANGED <<serverVars, scene, view, rev, pending, newest, toServer>>
      /\ toClient \in [Clients -> Seq(Messages)] /\ door \in Doors
  BY DEF TypeOK, Enter, Tell
<1>2. toClient' \in [Clients -> Seq(Messages)]
  BY <1>1, SayFacts, Zenon DEF SaidTo
<1>3. QED
  BY <1>1, <1>2 DEF TypeOK, serverVars

LEMMA RestartTypes ==
  ASSUME TypeOK, Restart
  PROVE  TypeOK'
<1>1. 0 \in 0 .. MaxRevision /\ Look(Base) \in Looks
  BY BaseDoor
<1>2. QED
  BY <1>1, EmptySeq DEF TypeOK, Restart

LEMMA StepTypes == TypeOK /\ [Next]_vars => TypeOK'
<1> SUFFICES ASSUME TypeOK, [Next]_vars PROVE TypeOK'
  OBVIOUS
<1>1. CASE UNCHANGED vars
  BY <1>1 DEF vars, serverVars, clientVars, TypeOK
<1>2. CASE Stay
  BY <1>2, ToggleTypes, DeliverTypes, ReceiveTypes, ResetTypes DEF Stay
<1>3. CASE \E c \in Clients : UnloadScene(c) \/ Leave(c)
  BY <1>3 DEF TypeOK, UnloadScene, Leave, serverVars
<1>4. CASE Roam
  BY <1>3, <1>4, LoadSceneTypes, RetryTypes, EnterTypes, RestartTypes DEF Roam
<1>5. QED
  BY <1>1, <1>2, <1>4 DEF Next

\* However clients come and go, and the server restarts: revisions stay within
\* their width, and what is under way to a client or kept by it is a door.
THEOREM TypeCorrect == Spec => []TypeOK
BY InitTypes, StepTypes, PTL DEF Spec

-----------------------------------------------------------------------------
(* Convergence *)

\* Once nothing of c is under way to the server, the last packet to c has the
\* server's door; if there is none, the newest state c received has.
Informed(c) ==
  IF toClient[c] # <<>> THEN toClient[c][Len(toClient[c])].door = door
  ELSE /\ rev[c] = door.revision
       /\ newest[c] = "shown" => view[c] = Look(door)
       /\ newest[c] = "kept" => pending[c][Len(pending[c])].look = Look(door)

\* The server tells c of every change, or there was none that c missed.
Heard(c) == (near[c] \/ door.revision = 0) /\ ~missed[c] /\ toServer[c] = <<>>

RInv ==
  /\ TypeOK /\ Durable
  /\ door.revision = 0 => door = Base
  /\ \A c \in Clients : newest[c] = "kept" => pending[c] # <<>>
  /\ \A c \in Clients : Heard(c) => Informed(c)

LEMMA InitConverges == Init => RInv
<1> SUFFICES ASSUME Init PROVE RInv
  OBVIOUS
<1>1. TypeOK /\ Durable
  BY InitTypes, DurableInit
<1>2. \A c \in Clients : Informed(c) /\ newest[c] = "shown"
  BY BaseDoor DEF Init, Informed
<1>3. door = Base
  BY DEF Init
<1>4. QED
  BY <1>1, <1>2, <1>3 DEF RInv

LEMMA ToggleConverges ==
  ASSUME RInv, NEW c \in Clients, Toggle(c)
  PROVE  RInv'
<1> DEFINE open == ~view[c].open
           p == [door |-> Door(open, view[c].locked /\ ~open, rev[c] + 1)]
<1>1. /\ \A d \in Clients : d # c => view'[d] = view[d] /\ rev'[d] = rev[d]
      /\ toServer' = [toServer EXCEPT ![c] = Append(toServer[c], p)]
      /\ UNCHANGED <<serverVars, near, scene, pending, newest, toClient, missed>>
  BY DEF RInv, TypeOK, Toggle
<1>2. Append(toServer[c], p) # <<>>
  <2>1. view[c] \in Looks /\ rev[c] + 1 \in 0 .. MaxRevision
    BY DEF RInv, TypeOK, Toggle
  <2>2. p \in Proposals
    BY <2>1 DEF Proposals, Doors, Door, Looks
  <2> HIDE DEF p
  <2>3. toServer[c] \in Seq(Proposals)
    BY DEF RInv, TypeOK
  <2>4. QED
    BY <2>2, <2>3, AppendProperties
<1> HIDE DEF p
<1>3. ASSUME NEW d \in Clients, Heard(d)' PROVE Informed(d)'
  <2>1. d # c
    BY <1>1, <1>2, <1>3 DEF RInv, TypeOK, Heard
  <2>2. Heard(d)
    BY <1>1, <1>3, <2>1 DEF RInv, TypeOK, Heard, serverVars
  <2>3. QED
    BY <1>1, <2>1, <2>2 DEF RInv, Informed, serverVars
<1>4. TypeOK' /\ Durable'
  BY <1>1, ToggleTypes DEF RInv, Durable, serverVars
<1>5. QED
  BY <1>1, <1>3, <1>4 DEF RInv, serverVars

\* A client takes the first packet: the last stays the last, or is the newest.
LEMMA DeliverConverges ==
  ASSUME RInv, NEW c \in Clients, Deliver(c)
  PROVE  RInv'
<1> DEFINE q == toClient[c]
           m == Head(q)
           k == [look |-> Look(m.door), bootstrap |-> m.bootstrap]
<1>1. q \in Seq(Messages) /\ q # <<>> /\ toClient' = [toClient EXCEPT ![c] = Tail(q)]
  BY DEF RInv, TypeOK, Deliver
<1>2. /\ m \in Messages
      /\ Tail(q) = <<>> => m = q[Len(q)]
      /\ Tail(q) # <<>> => Tail(q)[Len(Tail(q))] = q[Len(q)]
  <2> HIDE DEF q
  <2>1. /\ m \in Messages /\ Tail(q) \in Seq(Messages)
        /\ Len(Tail(q)) = Len(q) - 1
        /\ \A i \in 1 .. Len(Tail(q)) : Tail(q)[i] = q[i + 1]
    BY <1>1, HeadTailProperties
  <2>2. m = q[1] /\ Len(q) \in Nat
    BY <1>1, LenProperties
  <2>3. Tail(q) = <<>> => Len(q) = 1
    <3>1. Tail(q) = <<>> => Len(Tail(q)) = 0
      BY EmptySeq
    <3> HIDE DEF m
    <3>2. QED
      BY <2>1, <2>2, <3>1
  <2>4. ASSUME Tail(q) # <<>> PROVE Tail(q)[Len(Tail(q))] = q[Len(q)]
    <3>1. Len(Tail(q)) \in Nat \ {0}
      BY <2>1, <2>4, EmptySeq
    <3>2. QED
      BY <2>1, <2>2, <3>1
  <2>5. QED
    BY <2>1, <2>2, <2>3, <2>4
<1>3. /\ rev' = [rev EXCEPT ![c] = m.door.revision]
      /\ \/ /\ view' = [view EXCEPT ![c] = Look(m.door)] /\ UNCHANGED pending
            /\ newest' = [newest EXCEPT ![c] = "shown"]
         \/ /\ pending' = [pending EXCEPT ![c] = Append(pending[c], k)] /\ UNCHANGED view
            /\ newest' = [newest EXCEPT ![c] = "kept"]
      /\ UNCHANGED <<serverVars, near, scene, toServer, missed>>
  BY DEF Deliver
<1>4. TypeOK' /\ Durable'
  BY <1>3, DeliverTypes DEF RInv, Durable, serverVars
<1> HIDE DEF q, m
<1>5. /\ Append(pending[c], k) # <<>>
      /\ Append(pending[c], k)[Len(Append(pending[c], k))].look = Look(m.door)
  <2>1. k \in Kept /\ k.look = Look(m.door)
    BY <1>2, DoorLook DEF Kept, Messages
  <2>2. pending[c] \in Seq(Kept)
    BY DEF RInv, TypeOK
  <2> HIDE DEF k
  <2>3. QED
    BY <2>1, <2>2, AppendProperties
<1> HIDE DEF k
<1>6. ASSUME NEW d \in Clients, Heard(d)' PROVE Informed(d)'
  <2>1. Informed(d)
    BY <1>3, <1>6 DEF RInv, Heard, serverVars
  <2>2. CASE d # c
    BY <1>1, <1>3, <2>1, <2>2 DEF RInv, TypeOK, Informed, serverVars
  <2>3. CASE d = c
    <3>1. q[Len(q)].door = door
      BY <1>1, <2>1, <2>3 DEF Informed, q
    <3>2. /\ toClient'[c] = Tail(q) /\ rev'[c] = m.door.revision /\ door' = door
          /\ \/ view'[c] = Look(m.door) /\ newest'[c] = "shown"
             \/ pending'[c] = Append(pending[c], k) /\ newest'[c] = "kept"
      BY <1>1, <1>3 DEF RInv, TypeOK, serverVars
    <3>3. CASE Tail(q) # <<>>
      BY <1>2, <2>3, <3>1, <3>2, <3>3 DEF Informed
    <3>4. CASE Tail(q) = <<>>
      <4>1. m.door = door
        BY <1>2, <3>1, <3>4
      <4>2. QED
        BY <1>5, <2>3, <3>2, <3>4, <4>1 DEF Informed
    <3>5. QED
      BY <3>3, <3>4
  <2>4. QED
    BY <2>2, <2>3
<1>7. \A d \in Clients : newest'[d] = "kept" => pending'[d] # <<>>
  BY <1>3, <1>5 DEF RInv, TypeOK
<1>8. QED
  BY <1>3, <1>4, <1>6, <1>7 DEF RInv, serverVars

\* A client shows a state it kept, or several, and keeps r.
LEMMA ShowingInforms ==
  ASSUME RInv, NEW c \in Clients, NEW r, TypeOK',
         pending' = [pending EXCEPT ![c] = r],
         UNCHANGED <<serverVars, near, rev, toServer, toClient, missed>>,
         \/ UNCHANGED <<view, newest>>
         \/ \E i \in 1 .. Len(pending[c]) : Show(c, i),
         newest[c] = "kept" /\ newest'[c] = "kept" =>
           r # <<>> /\ r[Len(r)] = pending[c][Len(pending[c])]
  PROVE  RInv'
<1>1. /\ pending'[c] = r
      /\ \A d \in Clients : d # c =>
           pending'[d] = pending[d] /\ view'[d] = view[d] /\ newest'[d] = newest[d]
  BY DEF RInv, TypeOK, Show
<1>2. \/ view'[c] = view[c] /\ newest'[c] = newest[c]
      \/ newest'[c] = "covered"
      \/ newest[c] = "kept" /\ newest'[c] = "kept"
      \/ /\ newest[c] = "kept" /\ newest'[c] = "shown"
         /\ view'[c] = pending[c][Len(pending[c])].look
  BY DEF RInv, TypeOK, Show
<1>3. ASSUME NEW d \in Clients, Heard(d)' PROVE Informed(d)'
  <2>1. Informed(d)
    BY <1>3 DEF RInv, Heard, serverVars
  <2>2. CASE d # c
    BY <1>1, <2>1, <2>2 DEF Informed, serverVars
  <2>3. CASE d = c
    BY <1>1, <1>2, <2>1, <2>3 DEF Informed, serverVars
  <2>4. QED
    BY <2>2, <2>3
<1>4. \A d \in Clients : newest'[d] = "kept" => pending'[d] # <<>>
  BY <1>1, <1>2 DEF RInv
<1>5. QED
  BY <1>3, <1>4 DEF RInv, Durable, serverVars

LEMMA RetryConverges ==
  ASSUME RInv, NEW c \in Clients, Retry(c)
  PROVE  RInv'
<1> DEFINE q == pending[c]
<1>1. PICK i \in 1 .. Len(q) :
        /\ Show(c, i)
        /\ pending' = [pending EXCEPT ![c] = SubSeq(q, 1, i - 1) \o SubSeq(q, i + 1, Len(q))]
  BY DEF Retry
<1> DEFINE r == SubSeq(q, 1, i - 1) \o SubSeq(q, i + 1, Len(q))
<1>2. q \in Seq(Kept)
  BY DEF RInv, TypeOK
<1>3. i # Len(q) => r # <<>> /\ r[Len(r)] = q[Len(q)]
  BY <1>1, <1>2, Removal
<1>4. newest[c] = "kept" /\ newest'[c] = "kept" => i # Len(q)
  BY <1>1 DEF RInv, TypeOK, Show
<1>5. UNCHANGED <<serverVars, near, rev, toServer, toClient, missed>> /\ TypeOK'
  BY RetryTypes DEF Retry, RInv
<1>6. pending' = [pending EXCEPT ![c] = r]
  BY <1>1
<1> HIDE DEF r
<1>7. QED
  BY <1>1, <1>3, <1>4, <1>5, <1>6, ShowingInforms

LEMMA LoadSceneConverges ==
  ASSUME RInv, NEW c \in Clients, LoadScene(c)
  PROVE  RInv'
<1> DEFINE q == pending[c]
           Bootstraps == {i \in 1 .. Len(q) : q[i].bootstrap}
<1>1. /\ pending' = [pending EXCEPT ![c] = Unshown(q)]
      /\ UNCHANGED <<serverVars, near, rev, toServer, toClient, missed>>
      /\ \/ Bootstraps = {} /\ UNCHANGED <<view, newest>>
         \/ \E last \in Bootstraps : (\A i \in Bootstraps : i <= last) /\ Show(c, last)
  BY DEF LoadScene
<1>2. q \in Seq(Kept) /\ Len(q) \in Nat
  BY LenProperties DEF RInv, TypeOK
<1>3. ASSUME newest[c] = "kept", newest'[c] = "kept"
      PROVE  q # <<>> /\ ~q[Len(q)].bootstrap
  <2>1. q # <<>>
    BY <1>3 DEF RInv
  <2>2. Len(q) \in 1 .. Len(q)
    BY <1>2, <2>1, EmptySeq
  <2>3. CASE Bootstraps = {}
    BY <2>1, <2>2, <2>3
  <2>4. ASSUME NEW last \in Bootstraps, \A i \in Bootstraps : i <= last, Show(c, last)
        PROVE  ~q[Len(q)].bootstrap
    <3>1. last # Len(q)
      BY <1>3, <2>4 DEF RInv, TypeOK, Show
    <3>2. ~(Len(q) <= last)
      BY <1>2, <3>1
    <3>3. QED
      BY <2>2, <2>4, <3>2
  <2>5. QED
    BY <1>1, <2>1, <2>3, <2>4
<1>4. TypeOK'
  BY LoadSceneTypes DEF RInv
<1>5. newest[c] = "kept" /\ newest'[c] = "kept" =>
        Unshown(q) # <<>> /\ Unshown(q)[Len(Unshown(q))] = q[Len(q)]
  BY <1>2, <1>3, Unshowing
<1>6. \/ UNCHANGED <<view, newest>>
      \/ \E i \in 1 .. Len(q) : Show(c, i)
  BY <1>1
<1>7. QED
  BY <1>1, <1>4, <1>5, <1>6, ShowingInforms

\* The server tells cs of d.
LEMMA TellFacts ==
  ASSUME RInv, NEW cs, NEW d \in Doors, NEW b \in BOOLEAN, Tell(cs, d, b)
  PROVE  \A c \in Clients :
           IF c \in cs THEN toClient'[c] # <<>> /\ toClient'[c][Len(toClient'[c])].door = d
           ELSE toClient'[c] = toClient[c] /\ (missed'[c] <=> missed[c])
<1>1. toClient \in [Clients -> Seq(Messages)] /\ Say(cs, d, b)
  BY DEF RInv, TypeOK, Tell
<1>2. SaidTo(cs, d)
  BY <1>1, SayFacts, Zenon
<1>3. \A c \in Clients : missed'[c] <=> missed[c] /\ c \notin cs
  BY DEF Tell
<1>4. QED
  BY <1>2, <1>3 DEF SaidTo

LEMMA ReceiveConverges ==
  ASSUME RInv, NEW c \in Clients, NEW fit \in BOOLEAN, NEW stored \in BOOLEAN,
         Receive(c, fit, stored)
  PROVE  RInv'
<1> DEFINE p == Head(toServer[c]).door
<1>1. /\ toServer' = [toServer EXCEPT ![c] = Tail(toServer[c])]
      /\ UNCHANGED <<epoch, near, scene, view, rev, pending, newest>>
      /\ TypeOK' /\ Durable'
  <2>1. Next
    BY DEF Next, Stay
  <2>2. QED
    BY <2>1, ReceiveTypes, DurableStep DEF RInv, Receive, clientVars
<1>2. p \in Doors /\ door \in Doors
  <2>1. Head(toServer[c]) \in Proposals
    BY HeadTailProperties DEF RInv, TypeOK, Receive
  <2>2. QED
    BY <2>1 DEF Proposals, RInv, TypeOK
<1>3. CASE fit /\ stored /\ Valid(p)
  <2>1. door' = p /\ Tell({d \in Clients : near[d]} \cup {c}, p, FALSE)
    BY <1>3 DEF Receive
  <2>2. p.revision # 0
    BY <1>2, <1>3 DEF Valid, Doors
  <2> HIDE DEF p
  <2>3. \A d \in Clients : d \in {e \in Clients : near[e]} \cup {c} =>
          toClient'[d] # <<>> /\ toClient'[d][Len(toClient'[d])].door = p
    BY <1>2, <2>1, TellFacts, Zenon
  <2>4. ASSUME NEW d \in Clients, Heard(d)' PROVE Informed(d)'
    <3>1. near[d]
      BY <1>1, <2>1, <2>2, <2>4 DEF Heard
    <3>2. QED
      BY <2>1, <2>3, <3>1 DEF Informed
  <2>5. QED
    BY <1>1, <2>1, <2>2, <2>4 DEF RInv
<1>4. CASE ~(fit /\ stored /\ Valid(p))
  <2>1. door' = door /\ Tell({c}, door, FALSE)
    BY <1>4 DEF Receive
  <2> HIDE DEF p
  <2>2. /\ toClient'[c] # <<>> /\ toClient'[c][Len(toClient'[c])].door = door
        /\ \A d \in Clients : d # c =>
             toClient'[d] = toClient[d] /\ (missed'[d] <=> missed[d])
    BY <1>2, <2>1, TellFacts
  <2>3. ASSUME NEW d \in Clients, Heard(d)' PROVE Informed(d)'
    <3>1. CASE d = c
      BY <2>1, <2>2, <3>1 DEF Informed
    <3>2. CASE d # c
      <4>1. Heard(d)
        BY <1>1, <2>1, <2>2, <2>3, <3>2 DEF RInv, TypeOK, Heard
      <4>2. QED
        BY <1>1, <2>1, <2>2, <3>2, <4>1 DEF RInv, Informed
    <3>3. QED
      BY <3>1, <3>2
  <2>4. QED
    BY <1>1, <2>1, <2>3 DEF RInv
<1>5. QED
  BY <1>3, <1>4

LEMMA ResetConverges ==
  ASSUME RInv, Reset
  PROVE  RInv'
<1>1. /\ door' = Base /\ Say({c \in Clients : near[c]}, Base, TRUE)
      /\ missed' = [c \in Clients |-> ~near[c]]
      /\ UNCHANGED <<near, scene, view, rev, pending, newest, toServer>>
  BY DEF Reset, clientVars
<1>2. TypeOK' /\ Durable'
  BY ResetTypes, DurableStep DEF RInv, Next, Stay
<1>3. SaidTo({c \in Clients : near[c]}, Base)
  <2>1. toClient \in [Clients -> Seq(Messages)]
    BY DEF RInv, TypeOK
  <2>2. QED
    BY <1>1, <2>1, BaseDoor, SayFacts, Zenon
<1>4. ASSUME NEW d \in Clients, Heard(d)' PROVE Informed(d)'
  <2>1. near[d]
    BY <1>1, <1>4 DEF Heard
  <2>2. QED
    BY <1>1, <1>3, <2>1 DEF SaidTo, Informed
<1>5. QED
  BY <1>1, <1>2, <1>4 DEF RInv

LEMMA EnterConverges ==
  ASSUME RInv, NEW c \in Clients, Enter(c)
  PROVE  RInv'
<1> DEFINE cs == {d \in {c} : door.revision # 0}
<1>1. /\ near' = [near EXCEPT ![c] = TRUE] /\ Tell(cs, door, TRUE)
      /\ UNCHANGED <<serverVars, scene, view, rev, pending, newest, toServer>>
  BY DEF Enter
<1>2. TypeOK' /\ Durable'
  BY <1>1, EnterTypes DEF RInv, Durable, serverVars
<1>3. door \in Doors
  BY DEF RInv, TypeOK
<1> HIDE DEF cs
<1>4. \A d \in Clients :
        IF d \in cs THEN toClient'[d] # <<>> /\ toClient'[d][Len(toClient'[d])].door = door
        ELSE toClient'[d] = toClient[d] /\ (missed'[d] <=> missed[d])
  BY <1>1, <1>3, TellFacts
<1>5. ASSUME NEW d \in Clients, Heard(d)' PROVE Informed(d)'
  <2>1. CASE d \in cs
    BY <1>1, <1>4, <2>1 DEF Informed, serverVars
  <2>2. CASE d \notin cs
    <3>1. Heard(d)
      <4>1. d = c => door.revision = 0
        BY <2>2 DEF cs
      <4>2. QED
        BY <1>1, <1>4, <1>5, <2>2, <4>1 DEF RInv, TypeOK, Heard, serverVars
    <3>2. QED
      BY <1>1, <1>4, <2>2, <3>1 DEF RInv, Informed, serverVars
  <2>3. QED
    BY <2>1, <2>2
<1>6. QED
  BY <1>1, <1>2, <1>5 DEF RInv, serverVars

\* After a restart clients and server begin with what the database has: a
\* client that has nothing may know nothing.
LEMMA RestartConverges ==
  ASSUME RInv, Restart
  PROVE  RInv'
<1>1. /\ door' = door
      /\ \A c \in Clients : /\ toClient'[c] = <<>> /\ rev'[c] = 0 /\ newest'[c] = "shown"
                            /\ view'[c] = Look(Base) /\ ~near'[c]
  BY DEF RInv, Durable, Restart
<1>2. TypeOK' /\ Durable'
  BY RestartTypes, DurableStep DEF RInv, Next, Roam
<1>3. ASSUME NEW d \in Clients, Heard(d)' PROVE Informed(d)'
  BY <1>1, <1>3, BaseDoor DEF RInv, Heard, Informed
<1>4. QED
  BY <1>1, <1>2, <1>3 DEF RInv

LEMMA StepConverges == RInv /\ [Next]_vars => RInv'
<1> SUFFICES ASSUME RInv, [Next]_vars PROVE RInv'
  OBVIOUS
<1>1. CASE UNCHANGED vars
  BY <1>1, StepTypes DEF vars, serverVars, clientVars, RInv, Durable, Heard, Informed
<1>2. CASE Stay
  BY <1>2, ToggleConverges, DeliverConverges, ReceiveConverges, ResetConverges DEF Stay
<1>3. ASSUME NEW c \in Clients, UnloadScene(c) \/ Leave(c) PROVE RInv'
  <2>1. /\ UNCHANGED <<serverVars, view, rev, pending, newest, toServer, toClient, missed>>
        /\ \A d \in Clients : near'[d] => near[d]
    BY <1>3 DEF UnloadScene, Leave, RInv, TypeOK
  <2>2. TypeOK'
    BY <1>3, StepTypes DEF RInv, Next, Roam
  <2>3. ASSUME NEW d \in Clients, Heard(d)' PROVE Informed(d)'
    BY <2>1, <2>3 DEF RInv, Heard, Informed, serverVars
  <2>4. QED
    BY <2>1, <2>2, <2>3 DEF RInv, Durable, serverVars
<1>4. CASE Roam
  BY <1>3, <1>4, LoadSceneConverges, RetryConverges, EnterConverges, RestartConverges DEF Roam
<1>5. QED
  BY <1>1, <1>2, <1>4 DEF Next

\* However clients move the door at once, come and go, load and unload it, and
\* the server restarts: who has nothing under way has the server's revision,
\* and the server's door unless an older state was shown after it.
THEOREM EverybodyConverges == Spec => []RoamersConverge
<1>1. RInv => RoamersConverge
  BY DEF RInv, Heard, Informed, RoamersConverge, Quiet, TypeOK
<1>2. QED
  BY <1>1, InitConverges, StepConverges, PTL DEF Spec

\* Who stays keeps nothing and misses nothing.
Staying ==
  /\ near = [c \in Clients |-> TRUE] /\ scene = [c \in Clients |-> TRUE]
  /\ pending = [c \in Clients |-> <<>>]
  /\ newest = [c \in Clients |-> "shown"]
  /\ missed = [c \in Clients |-> FALSE]

\* Clients that stay in the cell agree with the server as soon as nothing is
\* under way to or from them, whatever they proposed at the same time.
THEOREM StayersConverge == StaySpec => []ClientsConverge
<1>1. Init => Staying
  BY DEF Init, Staying
<1>2. Staying /\ [Stay]_vars => Staying'
  <2> SUFFICES ASSUME Staying, [Stay]_vars PROVE Staying'
    OBVIOUS
  <2>1. CASE UNCHANGED vars
    BY <2>1 DEF vars, clientVars, Staying
  <2>2. ASSUME NEW c \in Clients, Toggle(c) \/ Deliver(c) PROVE Staying'
    BY <2>2 DEF Toggle, Deliver, Staying
  <2>3. ASSUME NEW c \in Clients, NEW fit \in BOOLEAN, NEW stored \in BOOLEAN,
               Receive(c, fit, stored)
        PROVE  Staying'
    BY <2>3 DEF Receive, Tell, clientVars, Staying
  <2>4. CASE Reset
    BY <2>4 DEF Reset, clientVars, Staying
  <2>5. QED
    BY <2>1, <2>2, <2>3, <2>4 DEF Stay
<1>3. [Stay]_vars => [Next]_vars
  BY DEF Next
<1>4. RInv /\ Staying => ClientsConverge
  BY DEF RInv, Heard, Informed, Staying, ClientsConverge, Quiet
<1>5. QED
  BY <1>1, <1>2, <1>3, <1>4, InitConverges, StepConverges, PTL DEF StaySpec
=============================================================================
