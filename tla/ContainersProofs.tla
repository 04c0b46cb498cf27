--------------------------- MODULE ContainersProofs -------------------------
(***************************************************************************)
(* Theorems about Containers, when no packet overtakes one of another      *)
(* lane: no reset is undone by what a client still has from before it,     *)
(* everybody ends with the content the server recorded, and no take is     *)
(* forgotten, for any number of clients, resets and packets under way.     *)
(***************************************************************************)
EXTENDS Containers, SequenceTheorems, TLAPS

USE ClientAssumption, RollAssumption, BoundAssumption

-----------------------------------------------------------------------------
(* Queues: what taking a packet out of the middle of one, and putting some at *)
(* its end, leaves where.                                                     *)

\* Without its i-th element, what was behind it moves up by one.
LEMMA RemovalAt ==
  ASSUME NEW S, NEW q \in Seq(S), NEW i \in DOMAIN q
  PROVE  /\ RemoveAt(q, i) \in Seq(S)
         /\ Len(RemoveAt(q, i)) = Len(q) - 1
         /\ \A j \in 1 .. Len(q) - 1 :
              RemoveAt(q, i)[j] = IF j < i THEN q[j] ELSE q[j + 1]
<1> DEFINE s == SubSeq(q, 1, i - 1)
           t == SubSeq(q, i + 1, Len(q))
<1>1. i \in 1 .. Len(q) /\ Len(q) \in Nat
  BY LenProperties
<1>2. \A j \in 1 .. Len(q) : q[j] \in S
  BY LenProperties, ElementOfSeq
<1>3. s \in Seq(S) /\ Len(s) = i - 1 /\ \A j \in 1 .. i - 1 : s[j] = q[j]
  BY <1>1, <1>2, SubSeqProperties
<1>4. t \in Seq(S) /\ Len(t) = Len(q) - i /\ \A j \in 1 .. Len(q) - i : t[j] = q[i + j]
  BY <1>1, <1>2, SubSeqProperties
<1> HIDE DEF s, t
<1>5. /\ s \o t \in Seq(S) /\ Len(s \o t) = Len(s) + Len(t)
      /\ \A j \in 1 .. Len(s) + Len(t) : (s \o t)[j] = IF j <= Len(s) THEN s[j] ELSE t[j - Len(s)]
  BY <1>3, <1>4, ConcatProperties
<1>6. RemoveAt(q, i) = s \o t
  BY DEF RemoveAt, s, t
<1>7. Len(s) + Len(t) = Len(q) - 1
  BY <1>1, <1>3, <1>4
<1>8. ASSUME NEW j \in 1 .. Len(q) - 1
      PROVE  (s \o t)[j] = IF j < i THEN q[j] ELSE q[j + 1]
  <2>1. CASE j < i
    BY <2>1, <1>1, <1>3, <1>5, <1>7
  <2>2. CASE ~(j < i)
    <3>1. j - (i - 1) \in 1 .. Len(q) - i /\ i + (j - (i - 1)) = j + 1
      BY <2>2, <1>1
    <3>2. (s \o t)[j] = t[j - (i - 1)]
      BY <2>2, <1>1, <1>3, <1>5, <1>7
    <3>3. QED
      BY <2>2, <3>1, <3>2, <1>4
  <2>3. QED
    BY <2>1, <2>2
<1>9. QED
  BY <1>5, <1>6, <1>7, <1>8

\* Where the j-th of the others was when the i-th is removed.
Before(i, j) == IF j < i THEN j ELSE j + 1

LEMMA RemovalFrom ==
  ASSUME NEW S, NEW q \in Seq(S), NEW i \in DOMAIN q, NEW j \in DOMAIN RemoveAt(q, i)
  PROVE  /\ Before(i, j) \in DOMAIN q \ {i}
         /\ RemoveAt(q, i)[j] = q[Before(i, j)]
<1>1. /\ Len(q) \in Nat /\ i \in 1 .. Len(q) /\ j \in 1 .. Len(q) - 1
      /\ DOMAIN q = 1 .. Len(q)
  BY RemovalAt, LenProperties
<1>2. RemoveAt(q, i)[j] = IF j < i THEN q[j] ELSE q[j + 1]
  BY <1>1, RemovalAt
<1>3. QED
  BY <1>1, <1>2 DEF Before

LEMMA ConcatRange ==
  ASSUME NEW S, NEW q \in Seq(S), NEW s \in Seq(S)
  PROVE  Range(q \o s) = Range(q) \cup Range(s)
<1>1. /\ Len(q) \in Nat /\ Len(s) \in Nat /\ Len(q \o s) = Len(q) + Len(s)
      /\ DOMAIN q = 1 .. Len(q) /\ DOMAIN s = 1 .. Len(s)
      /\ DOMAIN (q \o s) = 1 .. Len(q) + Len(s)
  BY ConcatProperties, LenProperties
<1>2. \A j \in 1 .. Len(q) + Len(s) :
        (q \o s)[j] = IF j <= Len(q) THEN q[j] ELSE s[j - Len(q)]
  BY ConcatProperties
<1>3. ASSUME NEW j \in 1 .. Len(q) + Len(s)
      PROVE  (q \o s)[j] \in Range(q) \cup Range(s)
  <2>1. j <= Len(q) => j \in 1 .. Len(q)
    BY <1>1
  <2>2. ~(j <= Len(q)) => j - Len(q) \in 1 .. Len(s)
    BY <1>1
  <2>3. QED
    BY <1>1, <1>2, <2>1, <2>2 DEF Range
<1>4. ASSUME NEW j \in 1 .. Len(q) PROVE q[j] \in Range(q \o s)
  <2>1. j \in 1 .. Len(q) + Len(s) /\ j <= Len(q)
    BY <1>1
  <2>2. QED
    BY <1>1, <1>2, <2>1 DEF Range
<1>5. ASSUME NEW j \in 1 .. Len(s) PROVE s[j] \in Range(q \o s)
  <2>1. /\ Len(q) + j \in 1 .. Len(q) + Len(s) /\ ~(Len(q) + j <= Len(q))
        /\ (Len(q) + j) - Len(q) = j
    BY <1>1
  <2>2. (q \o s)[Len(q) + j] = s[j]
    BY <1>2, <2>1
  <2>3. QED
    BY <1>1, <2>1, <2>2 DEF Range
<1>6. QED
  BY <1>1, <1>3, <1>4, <1>5 DEF Range

\* Where things are in a longer queue.
LEMMA ConcatAt ==
  ASSUME NEW S, NEW q \in Seq(S), NEW s \in Seq(S)
  PROVE  /\ \A j \in DOMAIN q : j \in DOMAIN (q \o s) /\ (q \o s)[j] = q[j]
         /\ \A j \in DOMAIN (q \o s) :
              j \notin DOMAIN q => (q \o s)[j] \in Range(s) /\ \A i \in DOMAIN q : i < j
<1>1. /\ Len(q) \in Nat /\ Len(s) \in Nat /\ q \o s \in Seq(S)
      /\ Len(q \o s) = Len(q) + Len(s)
      /\ DOMAIN q = 1 .. Len(q) /\ DOMAIN s = 1 .. Len(s)
      /\ DOMAIN (q \o s) = 1 .. Len(q) + Len(s)
  BY ConcatProperties, LenProperties
<1>2. \A j \in 1 .. Len(q) + Len(s) :
        (q \o s)[j] = IF j <= Len(q) THEN q[j] ELSE s[j - Len(q)]
  BY ConcatProperties
<1>3. \A j \in 1 .. Len(q) : j \in 1 .. Len(q) + Len(s) /\ (q \o s)[j] = q[j]
  <2> TAKE j \in 1 .. Len(q)
  <2>1. j \in 1 .. Len(q) + Len(s) /\ j <= Len(q)
    BY <1>1
  <2>2. QED
    BY <1>2, <2>1
<1>4. ASSUME NEW j \in 1 .. Len(q) + Len(s), j \notin 1 .. Len(q)
      PROVE  (q \o s)[j] \in Range(s) /\ \A i \in 1 .. Len(q) : i < j
  <2>1. ~(j <= Len(q)) /\ j - Len(q) \in 1 .. Len(s) /\ \A i \in 1 .. Len(q) : i < j
    BY <1>1, <1>4
  <2>2. (q \o s)[j] = s[j - Len(q)]
    BY <1>2, <2>1
  <2>3. QED
    BY <1>1, <2>1, <2>2 DEF Range
<1>5. QED
  BY <1>1, <1>3, <1>4

-----------------------------------------------------------------------------
(* What the server sends *)

\* To whom the server writes, and what: of its present generation, about the
\* present content, and no reset.
Good(p) == /\ p.kind # "reset"
           /\ p.kind # "result" => p.gen <= generation'
           /\ p.kind = "set" => p.content.epoch = epoch'
Grows(d) ==
  \E ms \in Seq(ToClient) :
    toClient'[d] = toClient[d] \o ms /\ \A p \in Range(ms) : Good(p)

LEMMA Nothing == <<>> \in Seq(ToClient) /\ Range(<<>>) = {}
BY DEF Range

LEMMA One == ASSUME NEW p \in ToClient PROVE <<p>> \in Seq(ToClient) /\ Range(<<p>>) = {p}
BY DEF Range

LEMMA GrowsByNothing ==
  ASSUME TypeOK, NEW d \in Clients, toClient'[d] = toClient[d]
  PROVE  Grows(d)
<1>1. toClient[d] \o <<>> = toClient[d]
  BY ConcatEmptySeq DEF TypeOK
<1>2. QED
  BY <1>1, Nothing DEF Grows

LEMMA GrowsByOne ==
  ASSUME TypeOK, NEW d \in Clients, NEW p \in ToClient, Good(p),
         toClient'[d] = toClient[d] \o <<p>>
  PROVE  Grows(d)
<1>1. <<p>> \in Seq(ToClient) /\ Range(<<p>>) = {p}
  BY One
<1>2. QED
  BY <1>1 DEF Grows

\* Two parts, each empty or one packet.
LEMMA GrowsByTwo ==
  ASSUME TypeOK, NEW d \in Clients, NEW s \in Seq(ToClient), NEW t \in Seq(ToClient),
         toClient'[d] = toClient[d] \o s \o t,
         \A p \in Range(s) \cup Range(t) : Good(p)
  PROVE  Grows(d)
<1>1. toClient[d] \in Seq(ToClient)
  BY DEF TypeOK
<1>2. toClient'[d] = toClient[d] \o (s \o t)
  <2>1. \A q \in Seq(ToClient) : (q \o s) \o t = q \o (s \o t)
    BY ConcatAssociative
  <2>2. (toClient[d] \o s) \o t = toClient[d] \o (s \o t)
    BY <1>1, <2>1
  <2>3. QED
    BY <2>2, Zenon
<1>3. s \o t \in Seq(ToClient) /\ Range(s \o t) = Range(s) \cup Range(t)
  BY ConcatProperties, ConcatRange
<1>4. QED
  BY <1>2, <1>3 DEF Grows

LEMMA GrowsType ==
  ASSUME TypeOK, NEW d \in Clients, Grows(d)
  PROVE  toClient'[d] \in Seq(ToClient)
BY ConcatProperties DEF Grows, TypeOK

\* The packets of the server have their types.
LEMMA PacketTypes ==
  ASSUME NEW g \in Nat, NEW x \in Full, NEW c, NEW o
  PROVE  /\ SetTo(g, x) \in ToClient /\ Removal(g) \in ToClient /\ Ask(g) \in ToClient
         /\ ActorsOf(g) \in ToClient /\ Authority(g, c, o) \in ToClient
BY DEF SetTo, Removal, Ask, ActorsOf, Authority, ToClient

LEMMA BoxFull == TypeOK /\ Recorded => box \in Full
BY DEF TypeOK, Recorded, Content, Full

LEMMA MoveSends ==
  ASSUME TypeOK, box.epoch = epoch, NEW c \in Clients,
         NEW w \in {"here", "beside", "away"}, NEW o \in Clients \cup {NoClient}, Move(c, w, o)
  PROVE  /\ generation' \in Nat /\ generation <= generation'
         /\ owner' = owner => generation' = generation
         /\ owner' # owner => generation < generation'
         /\ \A d \in Clients : Grows(d)
<1> DEFINE there == [where EXCEPT ![c] = w]
           news(d) == IF d \in Near(there) THEN <<Authority(Refreshed(o), d, o)>> ELSE <<>>
           state(d) == IF d = c /\ w # "away" /\ where[c] = "away" /\ Recorded
                       THEN <<SetTo(Refreshed(o), box)>> ELSE <<>>
<1>1. generation' = Refreshed(o) /\ owner' = o /\ box' = box /\ epoch' = epoch
  BY DEF Move
<1>2. /\ generation' \in Nat /\ generation <= generation'
      /\ owner' = owner => generation' = generation
      /\ owner' # owner => generation < generation'
  BY <1>1 DEF Refreshed, TypeOK
<1>3. ASSUME NEW d \in Clients PROVE Grows(d)
  <2>1. toClient'[d] = toClient[d] \o news(d) \o state(d)
    BY DEF Move
  <2>2. news(d) \in Seq(ToClient) /\ \A p \in Range(news(d)) : Good(p)
    <3>1. CASE d \in Near(there)
      <4>1. /\ Authority(Refreshed(o), d, o) \in ToClient /\ Good(Authority(Refreshed(o), d, o))
        BY <1>1, <1>2 DEF Authority, ToClient, Good
      <4>2. QED
        BY <3>1, <4>1, One
    <3>2. CASE d \notin Near(there)
      BY <3>2, Nothing
    <3>3. QED
      BY <3>1, <3>2
  <2>3. state(d) \in Seq(ToClient) /\ \A p \in Range(state(d)) : Good(p)
    <3>1. CASE d = c /\ w # "away" /\ where[c] = "away" /\ Recorded
      <4>1. SetTo(Refreshed(o), box) \in ToClient /\ Good(SetTo(Refreshed(o), box))
        BY <1>1, <1>2, <3>1, BoxFull DEF SetTo, ToClient, Good
      <4>2. QED
        BY <3>1, <4>1, One
    <3>2. CASE ~(d = c /\ w # "away" /\ where[c] = "away" /\ Recorded)
      BY <3>2, Nothing
    <3>3. QED
      BY <3>1, <3>2
  <2> HIDE DEF news, state
  <2>4. QED
    BY <2>1, <2>2, <2>3, GrowsByTwo
<1>4. QED
  BY <1>2, <1>3

LEMMA PublishSends ==
  ASSUME TypeOK, Publish
  PROVE  \A d \in Clients : Grows(d)
<1> SUFFICES ASSUME NEW d \in Clients PROVE Grows(d)
  OBVIOUS
<1>1. ActorsOf(generation) \in ToClient /\ Good(ActorsOf(generation))
  BY DEF ActorsOf, ToClient, Good, Publish, serverVars, TypeOK
<1>2. CASE toClient'[d] = toClient[d]
  BY <1>2, GrowsByNothing
<1>3. CASE toClient'[d] = toClient[d] \o <<ActorsOf(generation)>>
  BY <1>1, <1>3, GrowsByOne
<1>4. QED
  BY <1>2, <1>3 DEF Publish

LEMMA ReceiveSends ==
  ASSUME TypeOK, box.epoch = epoch, NEW c \in Clients, NEW i \in DOMAIN toServer[c],
         Receive(c, i),
         LET m == toServer[c][i]
         IN  m.kind = "set" /\ Fenced(c, m) /\ owner = c => m.content.epoch = epoch
  PROVE  /\ \A d \in Clients : Grows(d)
         /\ box' \in Content /\ box'.epoch = epoch
         /\ epoch' = epoch /\ generation' = generation
<1> DEFINE m == toServer[c][i]
<1>1. /\ m \in ToServer /\ generation \in Nat /\ epoch \in Nat /\ box \in Content
      /\ epoch' = epoch /\ generation' = generation
      /\ toClient \in [Clients -> Seq(ToClient)]
  BY ElementOfSeq, LenProperties DEF TypeOK, Receive
<1>2. ReceiveAsk(c, m) \/ ReceiveSet(c, m) \/ ReceiveTake(c, m)
  BY DEF Receive
<1> HIDE DEF m
<1>3. ASSUME NEW e \in Clients, NEW p \in ToClient, Good(p), Reply(e, <<p>>)
      PROVE  \A d \in Clients : Grows(d)
  <2> SUFFICES ASSUME NEW d \in Clients PROVE Grows(d)
    OBVIOUS
  <2>1. CASE d = e
    BY <1>1, <1>3, <2>1, GrowsByOne DEF Reply
  <2>2. CASE d # e
    BY <1>1, <1>3, <2>2, GrowsByNothing DEF Reply
  <2>3. QED
    BY <2>1, <2>2
<1>4. UNCHANGED toClient => \A d \in Clients : Grows(d)
  BY GrowsByNothing
<1>5. Recorded => Current \in ToClient /\ Good(Current)
  BY <1>1, BoxFull DEF Current, SetTo, ToClient, Good
<1>6. Ask(generation) \in ToClient /\ Good(Ask(generation))
  BY <1>1 DEF Ask, ToClient, Good
<1>7. CASE ReceiveAsk(c, m)
  <2>1. /\ box' = box
        /\ \/ UNCHANGED toClient
           \/ Recorded /\ Reply(c, <<Current>>)
           \/ owner # NoClient /\ Reply(owner, <<Ask(generation)>>)
    BY <1>7 DEF ReceiveAsk
  <2>2. owner # NoClient => owner \in Clients
    BY DEF TypeOK
  <2>3. QED
    BY <1>1, <1>3, <1>4, <1>5, <1>6, <2>1, <2>2
<1>8. CASE ReceiveSet(c, m)
  <2>1. CASE UNCHANGED <<box, toClient>>
    BY <1>1, <1>4, <2>1
  <2>2. CASE Recorded /\ Reply(c, <<Current>>) /\ UNCHANGED box
    BY <1>1, <1>3, <1>5, <2>2
  <2>3. CASE Fenced(c, m) /\ owner = c /\ Accepted(c, m)
    <3>1. m.kind = "set" /\ m.content \in Full /\ m.content.epoch = epoch
      BY <1>1, <1>8, <2>3 DEF ReceiveSet, ToServer, m
    <3>2. box' = m.content /\ box' \in Content
      BY <2>3, <3>1 DEF Accepted, Full, Content
    <3>3. SetTo(generation, m.content) \in ToClient /\ Good(SetTo(generation, m.content))
      BY <1>1, <3>1 DEF SetTo, ToClient, Good
    <3>4. ASSUME NEW d \in Clients PROVE Grows(d)
      <4>1. Append(toClient[d], SetTo(generation, m.content))
              = toClient[d] \o <<SetTo(generation, m.content)>>
        BY <1>1, <3>3, AppendIsConcat
      <4>2. CASE toClient'[d] = toClient[d]
        BY <4>2, GrowsByNothing
      <4>3. CASE toClient'[d] = toClient[d] \o <<SetTo(generation, m.content)>>
        BY <3>3, <4>3, GrowsByOne
      <4>4. QED
        BY <2>3, <4>1, <4>2, <4>3 DEF Accepted
    <3>5. QED
      BY <1>1, <3>1, <3>2, <3>4
  <2>4. QED
    BY <1>8, <2>1, <2>2, <2>3 DEF ReceiveSet
<1>9. CASE ReceiveTake(c, m)
  <2>1. m.kind = "take" /\ m.epoch \in Nat
    BY <1>1, <1>9 DEF ReceiveTake, ToServer
  <2>2. ASSUME NEW k \in {"done", "refused", "unavailable"}
        PROVE  Result(m, k) \in ToClient /\ Good(Result(m, k))
    BY <2>1 DEF Result, ToClient, Good
  <2>3. CASE Reply(c, <<Result(m, "refused")>>) /\ UNCHANGED box
    BY <1>1, <1>3, <2>2, <2>3
  <2>4. CASE /\ toClient' = [d \in Clients |->
                   toClient[d] \o (IF d = owner THEN <<Ask(generation)>> ELSE <<>>)
                     \o (IF d = c THEN <<Result(m, "unavailable")>> ELSE <<>>)]
             /\ UNCHANGED box
    <3>1. ASSUME NEW d \in Clients PROVE Grows(d)
      <4> DEFINE s == IF d = owner THEN <<Ask(generation)>> ELSE <<>>
                 t == IF d = c THEN <<Result(m, "unavailable")>> ELSE <<>>
      <4>1. s \in Seq(ToClient) /\ \A p \in Range(s) : Good(p)
        BY <1>6, One, Nothing
      <4>2. t \in Seq(ToClient) /\ \A p \in Range(t) : Good(p)
        BY <2>2, One, Nothing
      <4>3. toClient'[d] = toClient[d] \o s \o t
        BY <2>4
      <4> HIDE DEF s, t
      <4>4. QED
        BY <4>1, <4>2, <4>3, GrowsByTwo
    <3>2. QED
      BY <1>1, <2>4, <3>1
  <2>5. CASE /\ Recorded /\ box.items # 0
             /\ box' = [box EXCEPT !.items = @ - 1]
             /\ toClient' = [d \in Clients |->
                   toClient[d] \o (IF d \in Near(where) THEN <<Removal(generation)>> ELSE <<>>)
                     \o (IF d = c THEN <<Result(m, "done")>> ELSE <<>>)]
    <3>1. Removal(generation) \in ToClient /\ Good(Removal(generation))
      BY <1>1 DEF Removal, ToClient, Good
    <3>2. box' \in Content /\ box'.epoch = epoch
      <4>1. box \in Full /\ box.epoch \in Nat /\ box.items \in Nat
        BY <2>5, BoxFull DEF Full
      <4>2. box.items - 1 \in Nat
        BY <2>5, <4>1
      <4>3. box' = [box EXCEPT !.items = box.items - 1]
        BY <2>5
      <4>4. QED
        BY <1>1, <4>1, <4>2, <4>3 DEF Content
    <3>3. ASSUME NEW d \in Clients PROVE Grows(d)
      <4> DEFINE s == IF d \in Near(where) THEN <<Removal(generation)>> ELSE <<>>
                 t == IF d = c THEN <<Result(m, "done")>> ELSE <<>>
      <4>1. s \in Seq(ToClient) /\ \A p \in Range(s) : Good(p)
        BY <3>1, One, Nothing
      <4>2. t \in Seq(ToClient) /\ \A p \in Range(t) : Good(p)
        BY <2>2, One, Nothing
      <4>3. toClient'[d] = toClient[d] \o s \o t
        BY <2>5
      <4> HIDE DEF s, t
      <4>4. QED
        BY <4>1, <4>2, <4>3, GrowsByTwo
    <3>4. QED
      BY <1>1, <3>2, <3>3
  <2>6. QED
    BY <1>9, <2>3, <2>4, <2>5 DEF ReceiveTake
<1>10. QED
  BY <1>2, <1>7, <1>8, <1>9

\* A reset of generation g and epoch e has the n-th place of queue s: what is
\* before it is not of a later generation, what is behind it of none beyond h.
Marked(s, n, g, e, h) ==
  /\ n \in DOMAIN s /\ s[n] = ResetTo(g, e)
  /\ \A j \in 1 .. n - 1 : s[j].kind # "result" => s[j].gen <= g
  /\ \A j \in DOMAIN s :
       n < j => /\ s[j].kind \notin {"set", "reset"}
                /\ s[j].kind # "result" => s[j].gen <= h

LEMMA MarkedStays ==
  ASSUME NEW s \in Seq(ToClient), NEW t \in Seq(ToClient), NEW g, NEW e, NEW h,
         NEW n, Marked(s, n, g, e, h),
         \A p \in Range(t) : /\ p.kind \notin {"set", "reset"}
                             /\ p.kind # "result" => p.gen <= h
  PROVE  s \o t \in Seq(ToClient) /\ Marked(s \o t, n, g, e, h)
<1>1. /\ \A j \in DOMAIN s : j \in DOMAIN (s \o t) /\ (s \o t)[j] = s[j]
      /\ \A j \in DOMAIN (s \o t) :
           j \notin DOMAIN s => (s \o t)[j] \in Range(t)
  BY ConcatAt
<1>2. s \o t \in Seq(ToClient)
  BY ConcatProperties
<1>3. n \in DOMAIN s /\ \A j \in 1 .. n - 1 : j \in DOMAIN s
  <2>1. n \in 1 .. Len(s) /\ Len(s) \in Nat /\ DOMAIN s = 1 .. Len(s)
    BY LenProperties DEF Marked
  <2>2. QED
    BY <2>1
<1>4. QED
  BY <1>1, <1>2, <1>3 DEF Marked

LEMMA MarkedFrom ==
  ASSUME NEW s \in Seq(ToClient), NEW g \in Nat, NEW e \in Nat, NEW h \in Nat,
         \A j \in DOMAIN s : s[j].kind # "result" => s[j].gen <= g
  PROVE  LET t == s \o <<ResetTo(g, e)>>
         IN  t \in Seq(ToClient) /\ Marked(t, Len(s) + 1, g, e, h)
<1> DEFINE r == <<ResetTo(g, e)>>
           t == s \o r
           n == Len(s) + 1
<1>1. ResetTo(g, e) \in ToClient
  BY DEF ResetTo, ToClient
<1>2. r \in Seq(ToClient) /\ Len(r) = 1 /\ r[1] = ResetTo(g, e)
  BY <1>1
<1> HIDE DEF r
<1>3. /\ t \in Seq(ToClient) /\ Len(t) = Len(s) + Len(r)
      /\ \A j \in 1 .. Len(s) + Len(r) : t[j] = IF j <= Len(s) THEN s[j] ELSE r[j - Len(s)]
  BY <1>2, ConcatProperties
<1>4. Len(s) \in Nat /\ DOMAIN s = 1 .. Len(s) /\ DOMAIN t = 1 .. Len(t)
  BY <1>3, LenProperties
<1> HIDE DEF t
<1>5. /\ DOMAIN t = 1 .. Len(s) + 1 /\ n \in DOMAIN t /\ ~(n <= Len(s)) /\ n - Len(s) = 1
      /\ \A j \in DOMAIN t : ~(n < j)
  BY <1>2, <1>3, <1>4
<1>6. t[n] = ResetTo(g, e)
  BY <1>2, <1>3, <1>5
<1>7. \A j \in 1 .. n - 1 : j \in DOMAIN s /\ t[j] = s[j]
  BY <1>2, <1>3, <1>4
<1>8. Marked(t, n, g, e, h)
  BY <1>5, <1>6, <1>7 DEF Marked
<1>9. QED
  BY <1>3, <1>8 DEF t, r

LEMMA ResetSends ==
  ASSUME TypeOK, \A d \in Clients : \A j \in DOMAIN toClient[d] :
                   toClient[d][j].kind # "result" => toClient[d][j].gen <= generation,
         NEW o \in Clients \cup {NoClient}, Reset(o)
  PROVE  /\ generation \in Nat /\ epoch \in Nat /\ generation' \in Nat
         /\ generation + 1 <= generation' /\ (owner' = NoClient \/ generation + 1 < generation')
         /\ \A d \in Clients : \E n \in DOMAIN toClient'[d] :
              Marked(toClient'[d], n, generation + 1, epoch + 1, generation')
         /\ \A d \in Clients : toClient'[d] \in Seq(ToClient)
<1> DEFINE g == generation + 1
           h == IF o = NoClient THEN g ELSE g + 1
           near(d, ms) == IF d \in Near(where) THEN ms ELSE <<>>
           a == <<ActorsOf(g)>>
           b(d) == <<Authority(g, d, NoClient), Authority(h, d, o)>>
           k(d) == IF d = o /\ Recorded THEN <<Ask(h)>> ELSE <<>>
<1>1. /\ generation \in Nat /\ epoch \in Nat /\ g \in Nat /\ h \in Nat /\ g <= h
      /\ generation <= g /\ epoch + 1 \in Nat
      /\ generation' = h /\ owner' = o /\ (o = NoClient \/ g < h)
  BY DEF Reset, TypeOK
<1>2. /\ a \in Seq(ToClient) /\ \A p \in Range(a) : p.gen <= g
  BY <1>1 DEF ActorsOf, ToClient, Range
<1>3. ASSUME NEW d
      PROVE  /\ b(d) \in Seq(ToClient)
             /\ \A p \in Range(b(d)) : p.kind \notin {"set", "reset"} /\ p.gen <= h
             /\ k(d) \in Seq(ToClient)
             /\ \A p \in Range(k(d)) : p.kind \notin {"set", "reset"} /\ p.gen <= h
  <2>1. /\ Authority(g, d, NoClient) \in ToClient /\ Authority(h, d, o) \in ToClient
        /\ Ask(h) \in ToClient
    BY <1>1 DEF Authority, Ask, ToClient
  <2>2. b(d) \in Seq(ToClient) /\ Range(b(d)) = {Authority(g, d, NoClient), Authority(h, d, o)}
    BY <2>1 DEF Range
  <2>3. k(d) \in Seq(ToClient) /\ Range(k(d)) \subseteq {Ask(h)}
    BY <2>1, One, Nothing
  <2>4. /\ Authority(g, d, NoClient).kind = "authority" /\ Authority(g, d, NoClient).gen = g
        /\ Authority(h, d, o).kind = "authority" /\ Authority(h, d, o).gen = h
        /\ Ask(h).kind = "ask" /\ Ask(h).gen = h
    BY DEF Authority, Ask
  <2> HIDE DEF b, k, g, h
  <2>5. QED
    BY <1>1, <2>2, <2>3, <2>4
<1>4. ASSUME NEW d \in Clients
      PROVE  toClient'[d] = toClient[d] \o near(d, a) \o <<ResetTo(g, epoch + 1)>>
                              \o near(d, b(d)) \o k(d)
  BY DEF Reset
<1> HIDE DEF g, h, a, b, k
<1>5. ASSUME NEW d \in Clients
      PROVE  /\ toClient'[d] \in Seq(ToClient)
             /\ \E n \in DOMAIN toClient'[d] : Marked(toClient'[d], n, g, epoch + 1, h)
  <2> DEFINE q == toClient[d]
             x == q \o near(d, a)
             y == x \o <<ResetTo(g, epoch + 1)>>
             z == y \o near(d, b(d))
             n == Len(x) + 1
  <2>1. q \in Seq(ToClient)
    BY DEF TypeOK
  <2>2. near(d, a) \in Seq(ToClient) /\ \A p \in Range(near(d, a)) : p.gen <= g
    BY <1>2, Nothing
  <2>3. x \in Seq(ToClient) /\ \A j \in DOMAIN x : x[j].kind # "result" => x[j].gen <= g
    <3>1. x \in Seq(ToClient)
      BY <2>1, <2>2, ConcatProperties
    <3>2. /\ \A j \in DOMAIN q : x[j] = q[j]
          /\ \A j \in DOMAIN x : j \notin DOMAIN q => x[j] \in Range(near(d, a))
      BY <2>1, <2>2, ConcatAt
    <3>3. ASSUME NEW j \in DOMAIN q, q[j].kind # "result" PROVE q[j].gen <= g
      <4>1. q[j].gen <= generation /\ q[j] \in ToClient
        BY <2>1, <3>3, ElementOfSeq, LenProperties
      <4>2. q[j].gen \in Nat
        BY <3>3, <4>1 DEF ToClient
      <4>3. QED
        BY <1>1, <4>1, <4>2
    <3> HIDE DEF x, q
    <3>4. QED
      BY <2>2, <3>1, <3>2, <3>3
  <2> HIDE DEF x, q
  <2>4. y \in Seq(ToClient) /\ Marked(y, n, g, epoch + 1, h)
    BY <1>1, <2>3, MarkedFrom
  <2> HIDE DEF y, n
  <2>5. /\ near(d, b(d)) \in Seq(ToClient)
        /\ \A p \in Range(near(d, b(d))) : p.kind \notin {"set", "reset"} /\ p.gen <= h
    BY <1>3, Nothing
  <2>6. z \in Seq(ToClient) /\ Marked(z, n, g, epoch + 1, h)
    BY <2>4, <2>5, MarkedStays
  <2> HIDE DEF z
  <2>7. z \o k(d) \in Seq(ToClient) /\ Marked(z \o k(d), n, g, epoch + 1, h)
    BY <1>3, <2>6, MarkedStays
  <2>8. toClient'[d] = z \o k(d)
    BY <1>4 DEF z, y, x, q
  <2>9. QED
    BY <2>7, <2>8 DEF Marked
<1>6. QED
  BY <1>1, <1>5 DEF g

-----------------------------------------------------------------------------
(* What the clients still have from before the last reset *)

\* No later packet of generation g can come from the authority.
Late(g) == g <= generation /\ (g < generation \/ owner = NoClient)

\* What under way to a client is not of the last reset.
Stale(p) == \/ p.kind = "set" /\ p.content.epoch # epoch
            \/ p.kind = "reset" /\ p.epoch # epoch

\* The last reset is the i-th packet under way to c, which will not find a
\* later generation there.
News(c, i) ==
  LET q == toClient[c]
  IN  /\ q[i].kind = "reset" /\ q[i].epoch = epoch /\ Late(q[i].gen)
      /\ q[i].gen # 0 /\ cgen[c] <= q[i].gen
      /\ \A j \in 1 .. i - 1 : q[j].kind # "result" => q[j].gen <= q[i].gen

\* No generation is ahead of the server's.
Recent(c) ==
  /\ cgen[c] <= generation
  /\ \A j \in DOMAIN toClient[c] :
       toClient[c][j].kind # "result" => toClient[c][j].gen <= generation

\* Old content in the world of c, or on its way there, will be reset.
OldHere(c) ==
  \/ store[c].epoch # epoch
  \/ \E k \in DOMAIN held[c] : held[c][k].set /\ held[c][k].content.epoch # epoch
Learns(c) == OldHere(c) => \E i \in DOMAIN toClient[c] : News(c, i)
Corrected(c) ==
  \A j \in DOMAIN toClient[c] :
    Stale(toClient[c][j]) => \E i \in DOMAIN toClient[c] : j < i /\ News(c, i)

\* What c says of content from before the last reset is of a late generation.
Behind(m) ==
  /\ m.gen <= generation
  /\ m.kind = "set" /\ m.content.epoch # epoch => Late(m.gen)
  /\ m.kind = "take" /\ m.epoch # epoch => Late(m.gen)
Past(c) ==
  /\ \A j \in DOMAIN toServer[c] : Behind(toServer[c][j])
  /\ take[c].gen <= generation
  /\ take[c] # NoTake /\ take[c].epoch # epoch => Late(take[c].gen)

Served == \A c \in Clients : where[c] # "away" => owner # NoClient

Holds(c) == Recent(c) /\ Learns(c) /\ Corrected(c) /\ Past(c)
IInv ==
  /\ TypeOK /\ box.epoch = epoch /\ Served
  /\ \A c \in Clients : Holds(c)

-----------------------------------------------------------------------------
(* Types *)

\* A queue is one shorter without what arrives; in order, it is its tail.
LEMMA OutrunIs ==
  ASSUME NEW q \in Seq(ToClient), NEW i \in DOMAIN q
  PROVE  /\ Outrun(q, i) \in Seq(ToClient)
         /\ i = 1 => /\ Len(Outrun(q, i)) = Len(q) - 1
                     /\ \A j \in 1 .. Len(q) - 1 : Outrun(q, i)[j] = q[j + 1]
<1> DEFINE s == [j \in DOMAIN q |->
                   IF j < i /\ q[i].kind = "actors" /\ q[j].kind = "authority"
                      /\ q[j].gen = q[i].gen
                   THEN [q[j] EXCEPT !.outrun = TRUE] ELSE q[j]]
<1>1. DOMAIN q = 1 .. Len(q) /\ Len(q) \in Nat
  BY LenProperties
<1>2. \A j \in DOMAIN q : s[j] \in ToClient
  <2>1. ASSUME NEW p \in ToClient, p.kind = "authority"
        PROVE  [p EXCEPT !.outrun = TRUE] \in ToClient
    <3>1. p \in [kind : {"authority"}, gen : Nat, mine : BOOLEAN, outrun : BOOLEAN]
      BY <2>1 DEF ToClient
    <3>2. [p EXCEPT !.outrun = TRUE]
            \in [kind : {"authority"}, gen : Nat, mine : BOOLEAN, outrun : BOOLEAN]
      BY <3>1
    <3>3. QED
      BY <3>2 DEF ToClient
  <2>2. \A j \in DOMAIN q : q[j] \in ToClient
    BY <1>1, ElementOfSeq
  <2>3. QED
    BY <2>1, <2>2
<1>3. s \in Seq(ToClient) /\ Len(s) = Len(q) /\ DOMAIN s = DOMAIN q
  <2>1. s = [j \in 1 .. Len(q) |-> s[j]]
    BY <1>1
  <2>2. s \in [1 .. Len(q) -> ToClient]
    BY <1>1, <1>2
  <2> HIDE DEF s
  <2>3. QED
    BY <1>1, <2>2, SeqDef
<1>4. i = 1 => \A j \in DOMAIN q : s[j] = q[j]
  BY <1>1
<1>5. Outrun(q, i) = RemoveAt(s, i)
  BY DEF Outrun
<1> HIDE DEF s
<1>6. /\ RemoveAt(s, i) \in Seq(ToClient)
      /\ Len(RemoveAt(s, i)) = Len(s) - 1
      /\ \A j \in 1 .. Len(s) - 1 : RemoveAt(s, i)[j] = IF j < i THEN s[j] ELSE s[j + 1]
  BY <1>3, RemovalAt
<1>7. ASSUME i = 1, NEW j \in 1 .. Len(q) - 1
      PROVE  RemoveAt(s, i)[j] = q[j + 1]
  <2>1. ~(j < i) /\ j + 1 \in DOMAIN q
    BY <1>1, <1>7
  <2>2. RemoveAt(s, i)[j] = s[j + 1]
    BY <1>3, <1>6, <2>1
  <2>3. QED
    BY <1>4, <1>7, <2>1, <2>2
<1>8. QED
  BY <1>3, <1>5, <1>6, <1>7

LEMMA SendType ==
  ASSUME TypeOK, NEW c \in Clients, NEW m \in ToServer, Send(c, <<m>>)
  PROVE  /\ toServer' \in [Clients -> Seq(ToServer)]
         /\ toServer'[c] = Append(toServer[c], m)
         /\ \A d \in Clients \ {c} : toServer'[d] = toServer[d]
<1>1. toServer[c] \in Seq(ToServer) /\ <<m>> \in Seq(ToServer)
  BY DEF TypeOK
<1>2. Append(toServer[c], m) = toServer[c] \o <<m>> /\ Append(toServer[c], m) \in Seq(ToServer)
  BY <1>1, AppendIsConcat, AppendProperties
<1>3. QED
  BY <1>2 DEF TypeOK, Send

\* The snapshot of a store: of the client's generation, from the store's epoch.
LEMMA SnapshotIs ==
  ASSUME TypeOK, NEW c \in Clients, NEW r \in Rolls, Snapshot(c, r)
  PROVE  /\ store' \in [Clients -> Content] /\ toServer' \in [Clients -> Seq(ToServer)]
         /\ store'[c].epoch = store[c].epoch
         /\ \A d \in Clients \ {c} : store'[d] = store[d] /\ toServer'[d] = toServer[d]
         /\ \E x \in Full : /\ x.epoch = store[c].epoch
                            /\ SetTo(cgen[c], x) \in ToServer
                            /\ toServer'[c] = Append(toServer[c], SetTo(cgen[c], x))
<1> DEFINE x == IF store[c].items = Unresolved THEN [store[c] EXCEPT !.items = r] ELSE store[c]
<1>1. store[c] \in Content /\ cgen[c] \in Nat /\ r \in Nat
  BY DEF TypeOK
<1>2. x \in Full /\ x \in Content /\ x.epoch = store[c].epoch
  BY <1>1 DEF Content, Full
<1>3. store' = [store EXCEPT ![c] = x] /\ Send(c, <<SetTo(cgen[c], x)>>)
  BY DEF Snapshot
<1> HIDE DEF x
<1>4. SetTo(cgen[c], x) \in ToServer
  BY <1>1, <1>2 DEF SetTo, ToServer
<1>5. QED
  BY <1>2, <1>3, <1>4, SendType DEF TypeOK

LEMMA AppliedType ==
  ASSUME NEW x \in Content, NEW h \in Held
  PROVE  Applied(x, h) \in Content
<1>1. CASE h.set
  BY <1>1 DEF Applied, Held
<1>2. CASE ~h.set
  <2>1. Applied(x, h) = [x EXCEPT !.items = IF x.items > 0 THEN x.items - 1 ELSE x.items]
    BY <1>2 DEF Applied
  <2>2. x.items \in Nat \cup {-1}
    BY DEF Content, Unresolved
  <2>3. (IF x.items > 0 THEN x.items - 1 ELSE x.items) \in Nat \cup {-1}
    BY <2>2
  <2>4. QED
    BY <2>1, <2>3 DEF Content, Unresolved
<1>3. QED
  BY <1>1, <1>2

LEMMA LaterType ==
  ASSUME NEW q \in Seq(Held)
  PROVE  /\ Later(q) \in Seq(Held) /\ DOMAIN Later(q) = DOMAIN q
         /\ \A k \in DOMAIN q : /\ Later(q)[k].set = q[k].set /\ Later(q)[k].content = q[k].content
                               /\ Later(q)[k].late
<1>1. DOMAIN q = 1 .. Len(q) /\ Len(q) \in Nat /\ \A k \in DOMAIN q : q[k] \in Held
  BY LenProperties, ElementOfSeq
<1>2. \A k \in DOMAIN q : [q[k] EXCEPT !.late = TRUE] \in Held
  BY <1>1 DEF Held
<1>3. Later(q) \in [1 .. Len(q) -> Held]
  BY <1>1, <1>2 DEF Later
<1>4. QED
  BY <1>1, <1>3, SeqDef DEF Later, Held

-----------------------------------------------------------------------------
(* The steps of a client *)

\* A snapshot of the world, a take from it, or the pending one once more.
Says(c, x) ==
  \/ /\ x.kind = "set" /\ x.gen = cgen[c] /\ x.content.epoch = store[c].epoch
  \/ /\ x.kind = "take" /\ take[c] # NoTake /\ x.gen = take[c].gen /\ x.epoch = take[c].epoch
  \/ x.kind = "take" /\ x.gen = cgen[c] /\ x.epoch = store[c].epoch
  \/ x.kind = "ask" /\ x.gen = cgen[c]
SaysLittle(c) ==
  \/ toServer'[c] = toServer[c]
  \/ \E x \in ToServer : Says(c, x) /\ toServer'[c] = Append(toServer[c], x)
KeepsTake(c) ==
  \/ take'[c] = NoTake
  \/ take[c] # NoTake /\ take'[c].gen = take[c].gen /\ take'[c].epoch = take[c].epoch
  \/ take'[c].gen = cgen[c] /\ take'[c].epoch = store[c].epoch

ClientTypes ==
  /\ cgen' \in [Clients -> Nat] /\ mine' \in [Clients -> BOOLEAN]
  /\ store' \in [Clients -> Content] /\ known' \in [Clients -> BOOLEAN]
  /\ held' \in [Clients -> Seq(Held)] /\ take' \in [Clients -> Takes]
  /\ toServer' \in [Clients -> Seq(ToServer)] /\ crossed' \in [Clients -> BOOLEAN]

\* What one client does alone.
Alone(c) ==
  /\ ClientTypes /\ SaysLittle(c) /\ KeepsTake(c)
  /\ \A d \in Clients \ {c} :
       /\ cgen'[d] = cgen[d] /\ store'[d] = store[d] /\ held'[d] = held[d]
       /\ take'[d] = take[d] /\ toServer'[d] = toServer[d]

\* What a packet changes of what is old.
Ages(c, m) ==
  /\ \/ cgen'[c] = cgen[c]
     \/ m.kind \in {"authority", "actors"} /\ cgen'[c] = m.gen
     \/ m.kind = "reset" /\ cgen'[c] = 0
  /\ m.kind = "reset" /\ cgen[c] <= m.gen /\ m.gen # 0 =>
       store'[c].epoch = m.epoch /\ held'[c] = <<>>
  /\ \/ OldHere(c)' => OldHere(c)
     \/ m.kind = "set" /\ m.content.epoch # epoch
     \/ m.kind = "reset" /\ cgen[c] <= m.gen /\ m.gen # 0

LEMMA UpdateIs ==
  ASSUME TypeOK, NEW c \in Clients, NEW h \in Held, Update(c, h), UNCHANGED epoch
  PROVE  /\ store' \in [Clients -> Content] /\ known' \in [Clients -> BOOLEAN]
         /\ held' \in [Clients -> Seq(Held)] /\ crossed' \in [Clients -> BOOLEAN]
         /\ \A d \in Clients \ {c} : store'[d] = store[d] /\ held'[d] = held[d]
         /\ OldHere(c)' => OldHere(c) \/ (h.set /\ h.content.epoch # epoch)
<1>1. store[c] \in Content /\ held[c] \in Seq(Held)
  BY DEF TypeOK
<1>2. CASE where[c] = "away"
  <2>1. held' = [held EXCEPT ![c] = Append(held[c], h)] /\ UNCHANGED <<store, known, crossed>>
    BY <1>2 DEF Update
  <2>2. /\ Append(held[c], h) \in Seq(Held)
        /\ Len(Append(held[c], h)) = Len(held[c]) + 1
        /\ \A k \in 1 .. Len(held[c]) : Append(held[c], h)[k] = held[c][k]
        /\ Append(held[c], h)[Len(held[c]) + 1] = h
        /\ Len(held[c]) \in Nat
        /\ DOMAIN held[c] = 1 .. Len(held[c])
        /\ DOMAIN Append(held[c], h) = 1 .. Len(held[c]) + 1
    BY <1>1, AppendProperties, LenProperties
  <2>3. held'[c] = Append(held[c], h)
    BY <2>1 DEF TypeOK
  <2>4. OldHere(c)' => OldHere(c) \/ (h.set /\ h.content.epoch # epoch)
    <3>1. CASE store'[c].epoch # epoch'
      BY <2>1, <3>1 DEF OldHere
    <3>2. ASSUME NEW k \in DOMAIN held'[c], held'[c][k].set, held'[c][k].content.epoch # epoch
          PROVE  OldHere(c) \/ (h.set /\ h.content.epoch # epoch)
      <4>1. k \in 1 .. Len(held[c]) \/ k = Len(held[c]) + 1
        BY <2>2, <2>3
      <4>2. CASE k \in 1 .. Len(held[c])
        BY <2>2, <2>3, <3>2, <4>2 DEF OldHere
      <4>3. CASE k = Len(held[c]) + 1
        BY <2>2, <2>3, <3>2, <4>3
      <4>4. QED
        BY <4>1, <4>2, <4>3
    <3>3. QED
      BY <3>1, <3>2 DEF OldHere
  <2>5. QED
    BY <2>1, <2>2, <2>4 DEF TypeOK
<1>3. CASE where[c] # "away"
  <2>1. /\ store' = [store EXCEPT ![c] = Applied(store[c], h)]
        /\ known' = [known EXCEPT ![c] = TRUE]
        /\ held' = [held EXCEPT ![c] = Later(held[c])]
        /\ crossed' = [crossed EXCEPT ![c] = crossed[c] /\ ~h.set]
    BY <1>3 DEF Update
  <2>2. Applied(store[c], h) \in Content /\ Later(held[c]) \in Seq(Held)
    BY <1>1, AppliedType, LaterType
  <2>3. (crossed[c] /\ ~h.set) \in BOOLEAN
    OBVIOUS
  <2>4. Applied(store[c], h).epoch = IF h.set THEN h.content.epoch ELSE store[c].epoch
    BY <1>1 DEF Applied, Content
  <2>5. OldHere(c)' => OldHere(c) \/ (h.set /\ h.content.epoch # epoch)
    <3>1. store'[c] = Applied(store[c], h) /\ held'[c] = Later(held[c])
      BY <2>1 DEF TypeOK
    <3>2. /\ DOMAIN Later(held[c]) = DOMAIN held[c]
          /\ \A k \in DOMAIN held[c] :
               /\ Later(held[c])[k].set = held[c][k].set
               /\ Later(held[c])[k].content = held[c][k].content
      BY <1>1, LaterType
    <3>3. QED
      BY <2>4, <3>1, <3>2 DEF OldHere
  <2>6. QED
    BY <2>1, <2>2, <2>3, <2>5 DEF TypeOK
<1>4. QED
  BY <1>2, <1>3

LEMMA WokenIs ==
  ASSUME TypeOK, NEW c \in Clients, Woken(c)
  PROVE  /\ take' \in [Clients -> Takes] /\ toServer' \in [Clients -> Seq(ToServer)]
         /\ SaysLittle(c) /\ KeepsTake(c)
         /\ \A d \in Clients \ {c} : take'[d] = take[d] /\ toServer'[d] = toServer[d]
<1>1. take[c] \in Takes
  BY DEF TypeOK
<1>2. CASE take[c].waits = "source"
  <2>1. /\ take' = [take EXCEPT ![c].waits = "answer"]
        /\ Send(c, <<TakeOf(take[c])>>)
    BY <1>2 DEF Woken
  <2>7. take[c] # NoTake
    <3>1. NoTake.waits = ""
      BY DEF NoTake
    <3>2. QED
      BY <1>2, <3>1
  <2>2. TakeOf(take[c]) \in ToServer /\ Says(c, TakeOf(take[c]))
    BY <1>1, <2>7 DEF TakeOf, Takes, ToServer, Says
  <2>3. [take[c] EXCEPT !.waits = "answer"] \in Takes
    BY <1>1 DEF Takes
  <2>4. /\ take' \in [Clients -> Takes] /\ take[c] # NoTake
        /\ take'[c].gen = take[c].gen /\ take'[c].epoch = take[c].epoch
        /\ \A d \in Clients \ {c} : take'[d] = take[d]
    BY <1>1, <2>7, <2>1, <2>3 DEF TypeOK, Takes
  <2>5. /\ toServer' \in [Clients -> Seq(ToServer)]
        /\ toServer'[c] = Append(toServer[c], TakeOf(take[c]))
        /\ \A d \in Clients \ {c} : toServer'[d] = toServer[d]
    BY <2>1, <2>2, SendType
  <2>6. QED
    BY <1>2, <2>2, <2>4, <2>5 DEF SaysLittle, KeepsTake
<1>3. CASE take[c].waits # "source"
  BY <1>3 DEF Woken, SaysLittle, KeepsTake, TypeOK
<1>4. QED
  BY <1>2, <1>3

LEMMA DeliverIs ==
  ASSUME TypeOK, NEW c \in Clients, NEW r \in Rolls, NEW i \in DOMAIN toClient[c],
         Deliver(c, i, r)
  PROVE  Alone(c) /\ Ages(c, toClient[c][i])
<1> DEFINE m == toClient[c][i]
<1>1. /\ m \in ToClient /\ cgen[c] \in Nat /\ UNCHANGED <<generation, owner, where, box, epoch>>
  BY ElementOfSeq, LenProperties DEF TypeOK, Deliver, serverVars
<1>2. \/ OnUpdate(c, m) \/ OnAsk(c, m, r) \/ OnReset(c, m)
      \/ OnAuthority(c, m) \/ OnActors(c, m) \/ OnResult(c, m)
  BY DEF Deliver
<1> HIDE DEF m
<1>3. ASSUME UNCHANGED <<store, held>>
      PROVE  OldHere(c)' = OldHere(c)
  BY <1>1, <1>3 DEF OldHere
<1>4. ASSUME UNCHANGED toServer PROVE SaysLittle(c)
  BY <1>4 DEF SaysLittle
<1>5. ASSUME UNCHANGED take PROVE KeepsTake(c)
  BY <1>5 DEF KeepsTake
<1>6. CASE OnUpdate(c, m)
  <2>1. m.kind \in {"set", "remove"}
    BY <1>6 DEF OnUpdate
  <2>2. CASE ~Accept(c, m)
    <3>1. UNCHANGED <<clientVars, toServer>>
      BY <1>6, <2>2 DEF OnUpdate
    <3>2. QED
      BY <1>3, <1>4, <1>5, <2>1, <3>1 DEF Alone, Ages, ClientTypes, TypeOK, clientVars, m
  <2>3. CASE Accept(c, m) /\ m.kind = "set"
    <3> DEFINE h == [set |-> TRUE, content |-> m.content, late |-> FALSE]
    <3>1. Update(c, h) /\ Woken(c) /\ UNCHANGED <<cgen, mine>>
      BY <1>6, <2>3 DEF OnUpdate
    <3>2. h \in Held /\ h.set /\ h.content = m.content
      BY <1>1, <2>3 DEF ToClient, Held, Full, Content
    <3> HIDE DEF h
    <3>3. /\ store' \in [Clients -> Content] /\ known' \in [Clients -> BOOLEAN]
          /\ held' \in [Clients -> Seq(Held)] /\ crossed' \in [Clients -> BOOLEAN]
          /\ \A d \in Clients \ {c} : store'[d] = store[d] /\ held'[d] = held[d]
          /\ OldHere(c)' => OldHere(c) \/ (h.set /\ h.content.epoch # epoch)
      BY <1>1, <3>1, <3>2, UpdateIs
    <3>4. /\ take' \in [Clients -> Takes] /\ toServer' \in [Clients -> Seq(ToServer)]
          /\ SaysLittle(c) /\ KeepsTake(c)
          /\ \A d \in Clients \ {c} : take'[d] = take[d] /\ toServer'[d] = toServer[d]
      BY <3>1, WokenIs
    <3>5. Ages(c, m)
      BY <2>3, <3>1, <3>2, <3>3 DEF Ages
    <3>6. Alone(c)
      BY <3>1, <3>3, <3>4 DEF Alone, ClientTypes, TypeOK
    <3>7. QED
      BY <3>5, <3>6 DEF m
  <2>4. CASE Accept(c, m) /\ m.kind = "remove"
    <3> DEFINE h == [set |-> FALSE, content |-> Base(0), late |-> FALSE]
    <3>1. Update(c, h) /\ UNCHANGED <<take, toServer, cgen, mine>>
      BY <1>6, <2>4 DEF OnUpdate
    <3>2. h \in Held /\ ~h.set
      BY DEF Held, Base, Content
    <3> HIDE DEF h
    <3>3. /\ store' \in [Clients -> Content] /\ known' \in [Clients -> BOOLEAN]
          /\ held' \in [Clients -> Seq(Held)] /\ crossed' \in [Clients -> BOOLEAN]
          /\ \A d \in Clients \ {c} : store'[d] = store[d] /\ held'[d] = held[d]
          /\ OldHere(c)' => OldHere(c) \/ (h.set /\ h.content.epoch # epoch)
      BY <1>1, <3>1, <3>2, UpdateIs
    <3>4. Ages(c, m)
      BY <2>4, <3>1, <3>2, <3>3 DEF Ages
    <3>5. Alone(c)
      BY <1>4, <1>5, <3>1, <3>3 DEF Alone, ClientTypes, TypeOK
    <3>6. QED
      BY <3>4, <3>5 DEF m
  <2>5. QED
    BY <2>1, <2>2, <2>3, <2>4
<1>7. CASE OnAsk(c, m, r)
  <2>1. m.kind = "ask" /\ UNCHANGED <<cgen, mine, known, held, take, crossed>>
    BY <1>7 DEF OnAsk
  <2>2. CASE UNCHANGED <<store, toServer>>
    BY <1>3, <1>4, <1>5, <2>1, <2>2 DEF Alone, Ages, ClientTypes, TypeOK, m
  <2>3. CASE Snapshot(c, r)
    <3>1. /\ store' \in [Clients -> Content] /\ toServer' \in [Clients -> Seq(ToServer)]
          /\ store'[c].epoch = store[c].epoch
          /\ \A d \in Clients \ {c} : store'[d] = store[d] /\ toServer'[d] = toServer[d]
      BY <2>3, SnapshotIs
    <3>2. PICK x \in Full : /\ x.epoch = store[c].epoch
                            /\ SetTo(cgen[c], x) \in ToServer
                            /\ toServer'[c] = Append(toServer[c], SetTo(cgen[c], x))
      BY <2>3, SnapshotIs
    <3>3. Says(c, SetTo(cgen[c], x))
      BY <3>2 DEF Says, SetTo
    <3>4. SaysLittle(c)
      BY <3>2, <3>3 DEF SaysLittle
    <3>5. OldHere(c)' = OldHere(c)
      BY <1>1, <2>1, <3>1 DEF OldHere
    <3>6. QED
      BY <1>5, <2>1, <3>1, <3>4, <3>5 DEF Alone, Ages, ClientTypes, TypeOK, m
  <2>4. QED
    BY <1>7, <2>2, <2>3 DEF OnAsk
<1>8. CASE OnReset(c, m)
  <2>1. m.kind = "reset" /\ UNCHANGED toServer /\ m.gen \in Nat /\ m.epoch \in Nat
    BY <1>1, <1>8 DEF OnReset, ToClient
  <2>2. CASE ~Accept(c, m)
    <3>1. UNCHANGED clientVars
      BY <1>8, <2>2 DEF OnReset
    <3>2. ~(cgen[c] <= m.gen /\ m.gen # 0)
      BY <1>1, <2>1, <2>2 DEF Accept
    <3>3. QED
      BY <1>3, <1>4, <1>5, <2>1, <3>1, <3>2 DEF Alone, Ages, ClientTypes, TypeOK, clientVars, m
  <2>3. CASE Accept(c, m)
    <3>1. /\ store' = [store EXCEPT ![c] = Base(m.epoch)]
          /\ known' = [known EXCEPT ![c] = FALSE]
          /\ held' = [held EXCEPT ![c] = <<>>]
          /\ take' = [take EXCEPT ![c] = NoTake]
          /\ cgen' = [cgen EXCEPT ![c] = 0]
          /\ mine' = [mine EXCEPT ![c] = FALSE]
          /\ crossed' = [crossed EXCEPT ![c] = FALSE]
      BY <1>8, <2>3 DEF OnReset
    <3>2. m.gen # 0 /\ cgen[c] <= m.gen
      BY <1>1, <2>1, <2>3 DEF Accept
    <3>3. /\ Base(m.epoch) \in Content /\ Base(m.epoch).epoch = m.epoch
          /\ NoTake \in Takes /\ <<>> \in Seq(Held)
      BY <2>1 DEF Base, Content, NoTake, Takes
    <3>4. ClientTypes /\ store'[c] = Base(m.epoch) /\ held'[c] = <<>> /\ take'[c] = NoTake
          /\ cgen'[c] = 0
      BY <2>1, <3>1, <3>3 DEF ClientTypes, TypeOK
    <3>5. Ages(c, m)
      BY <2>1, <3>2, <3>3, <3>4 DEF Ages
    <3>6. Alone(c)
      BY <1>4, <2>1, <3>1, <3>3, <3>4 DEF Alone, KeepsTake, TypeOK
    <3>7. QED
      BY <3>5, <3>6 DEF m
  <2>4. QED
    BY <2>2, <2>3
<1>9. CASE OnAuthority(c, m)
  <2>1. /\ m.kind = "authority" /\ m.gen \in Nat /\ m.mine \in BOOLEAN
        /\ UNCHANGED <<store, known, held, take, crossed, toServer>>
    BY <1>1, <1>9 DEF OnAuthority, ToClient
  <2>2. \/ UNCHANGED <<cgen, mine>>
        \/ cgen' = [cgen EXCEPT ![c] = m.gen] /\ mine' = [mine EXCEPT ![c] = m.mine]
    BY <1>9 DEF OnAuthority
  <2>3. QED
    BY <1>3, <1>4, <1>5, <2>1, <2>2 DEF Alone, Ages, ClientTypes, TypeOK, m
<1>10. CASE OnActors(c, m)
  <2>1. /\ m.kind = "actors" /\ m.gen \in Nat
        /\ cgen' = [cgen EXCEPT ![c] = IF m.gen >= @ THEN m.gen ELSE @]
        /\ UNCHANGED <<mine, store, known, held, take, crossed, toServer>>
    BY <1>1, <1>10 DEF OnActors, ToClient
  <2>2. QED
    BY <1>3, <1>4, <1>5, <2>1 DEF Alone, Ages, ClientTypes, TypeOK, m
<1>11. CASE OnResult(c, m)
  <2>1. /\ m.kind = "result"
        /\ UNCHANGED <<cgen, mine, store, known, held, crossed, toServer>>
        /\ \/ take' = take
           \/ take' = [take EXCEPT ![c] = [take[c] EXCEPT !.waits = "source"]] /\ take[c] # NoTake
           \/ take' = [take EXCEPT ![c] = NoTake]
    BY <1>11 DEF OnResult, TypeOK
  <2>2. take[c] \in Takes
    BY DEF TypeOK
  <2>3. take' \in [Clients -> Takes] /\ \A d \in Clients \ {c} : take'[d] = take[d]
    <3>1. [take[c] EXCEPT !.waits = "source"] \in Takes /\ NoTake \in Takes
      BY <2>2 DEF Takes, NoTake
    <3>2. take \in [Clients -> Takes]
      BY DEF TypeOK
    <3>3. ASSUME NEW t \in Takes, take' = [take EXCEPT ![c] = t]
          PROVE  take' \in [Clients -> Takes] /\ \A d \in Clients \ {c} : take'[d] = take[d]
      BY <3>2, <3>3
    <3>4. QED
      BY <2>1, <3>1, <3>2, <3>3
  <2>4. KeepsTake(c)
    <3>1. CASE take' = take
      BY <1>5, <3>1
    <3>2. CASE take' = [take EXCEPT ![c] = [take[c] EXCEPT !.waits = "source"]] /\ take[c] # NoTake
      <4>1. take'[c] = [take[c] EXCEPT !.waits = "source"]
        BY <3>2 DEF TypeOK
      <4>2. take'[c].gen = take[c].gen /\ take'[c].epoch = take[c].epoch
        BY <2>2, <4>1 DEF Takes
      <4>3. QED
        BY <3>2, <4>2 DEF KeepsTake
    <3>3. CASE take' = [take EXCEPT ![c] = NoTake]
      BY <3>3 DEF KeepsTake, TypeOK
    <3>4. QED
      BY <2>1, <3>1, <3>2, <3>3
  <2>5. QED
    BY <1>3, <1>4, <2>1, <2>3, <2>4 DEF Alone, Ages, ClientTypes, TypeOK, m
<1>12. QED
  BY <1>2, <1>6, <1>7, <1>8, <1>9, <1>10, <1>11

-----------------------------------------------------------------------------
(* Every step keeps it *)

LEMMA QueueTypes ==
  ASSUME TypeOK, NEW c \in Clients
  PROVE  /\ toClient[c] \in Seq(ToClient) /\ toServer[c] \in Seq(ToServer)
         /\ DOMAIN toClient[c] = 1 .. Len(toClient[c]) /\ Len(toClient[c]) \in Nat
         /\ \A j \in DOMAIN toClient[c] : toClient[c][j] \in ToClient
         /\ \A j \in DOMAIN toServer[c] : toServer[c][j] \in ToServer
         /\ cgen[c] \in Nat /\ generation \in Nat /\ epoch \in Nat
BY ElementOfSeq, LenProperties DEF TypeOK

LEMMA KindsHaveGens ==
  /\ \A p \in ToClient : p.kind # "result" => p.gen \in Nat
  /\ \A m \in ToServer : m.gen \in Nat
BY DEF ToClient, ToServer

LEMMA LateStays ==
  ASSUME generation \in Nat, generation' \in Nat, generation <= generation',
         owner' # owner => generation < generation',
         NEW g \in Nat, Late(g)
  PROVE  Late(g)'
BY DEF Late

\* What old content there is belongs to a late generation.
LEMMA OldIsLate ==
  ASSUME TypeOK, NEW c \in Clients, Learns(c), OldHere(c)
  PROVE  Late(cgen[c])
<1>1. PICK i \in DOMAIN toClient[c] : News(c, i)
  BY DEF Learns
<1>2. toClient[c][i].gen \in Nat
  BY <1>1, QueueTypes, KindsHaveGens DEF News
<1>3. QED
  BY <1>1, <1>2, QueueTypes DEF News, Late

LEMMA GrowsHolds ==
  ASSUME TypeOK, NEW d \in Clients, Holds(d), Grows(d), generation' \in Nat,
         generation <= generation', owner' # owner => generation < generation',
         UNCHANGED epoch, cgen'[d] = cgen[d], store'[d] = store[d], held'[d] = held[d]
  PROVE  Recent(d)' /\ Learns(d)' /\ Corrected(d)'
<1> DEFINE q == toClient[d]
           s == toClient'[d]
<1>1. PICK ms \in Seq(ToClient) : s = q \o ms /\ \A p \in Range(ms) : Good(p)
  BY DEF Grows
<1>2. /\ q \in Seq(ToClient) /\ DOMAIN q = 1 .. Len(q) /\ Len(q) \in Nat
      /\ \A j \in DOMAIN q : q[j] \in ToClient
      /\ generation \in Nat /\ cgen[d] \in Nat
  BY QueueTypes
<1>3. /\ \A j \in DOMAIN q : j \in DOMAIN s /\ s[j] = q[j]
      /\ \A j \in DOMAIN s : j \notin DOMAIN q => Good(s[j])
  BY <1>1, <1>2, ConcatAt
<1> HIDE DEF q, s
<1>4. ASSUME NEW i \in DOMAIN q, News(d, i)
      PROVE  i \in DOMAIN s /\ News(d, i)'
  <2>1. PICK g \in Nat : g = q[i].gen /\ Late(g)
    BY <1>2, <1>4, KindsHaveGens DEF News, q
  <2>2. Late(g)'
    BY <1>2, <2>1, LateStays
  <2>3. \A j \in 1 .. i - 1 : j \in DOMAIN q
    BY <1>2, <1>4
  <2>4. QED
    BY <1>3, <1>4, <2>1, <2>2, <2>3 DEF News, Late, q, s
<1>5. Recent(d)'
  <2>1. ASSUME NEW j \in DOMAIN s, s[j].kind # "result" PROVE s[j].gen <= generation'
    <3>1. CASE j \in DOMAIN q
      <4>1. s[j] = q[j] /\ q[j].gen <= generation /\ q[j].gen \in Nat
        BY <1>2, <1>3, <2>1, <3>1, KindsHaveGens DEF Holds, Recent, q
      <4>2. QED
        BY <1>2, <4>1
    <3>2. CASE j \notin DOMAIN q
      BY <1>3, <2>1, <3>2 DEF Good
    <3>3. QED
      BY <3>1, <3>2
  <2>2. cgen[d] <= generation'
    BY <1>2 DEF Holds, Recent
  <2>3. QED
    BY <2>1, <2>2 DEF Recent, s
<1>6. Learns(d)'
  BY <1>4 DEF Holds, Learns, OldHere, q, s
<1>7. Corrected(d)'
  <2>1. ASSUME NEW j \in DOMAIN s, Stale(s[j])
        PROVE  \E i \in DOMAIN s : j < i /\ News(d, i)'
    <3>1. j \in DOMAIN q
      BY <1>3, <2>1 DEF Good, Stale
    <3>2. Stale(q[j])
      BY <1>3, <2>1, <3>1 DEF Stale
    <3>3. PICK i \in DOMAIN q : j < i /\ News(d, i)
      BY <3>1, <3>2 DEF Holds, Corrected, q
    <3>4. QED
      BY <1>4, <3>3
  <2>2. QED
    BY <2>1 DEF Corrected, Stale, s
<1>8. QED
  BY <1>5, <1>6, <1>7

\* Nothing on the way to c changes, nor what it has of old content.
LEMMA StaysHolds ==
  ASSUME NEW c \in Clients, Recent(c), Learns(c), Corrected(c),
         toClient'[c] = toClient[c], UNCHANGED <<generation, owner, epoch>>,
         cgen'[c] = cgen[c], OldHere(c)' => OldHere(c)
  PROVE  Recent(c)' /\ Learns(c)' /\ Corrected(c)'
<1>1. \A i \in DOMAIN toClient[c] : News(c, i) => News(c, i)'
  BY DEF News, Late
<1>2. Recent(c)'
  BY DEF Recent
<1>3. Learns(c)'
  BY <1>1 DEF Learns
<1>4. Corrected(c)'
  BY <1>1 DEF Corrected, Stale
<1>5. QED
  BY <1>2, <1>3, <1>4

\* What it says is new, or late.
LEMMA SaysHolds ==
  ASSUME TypeOK, NEW c \in Clients, Holds(c), SaysLittle(c), KeepsTake(c),
         UNCHANGED <<generation, owner, epoch>>
  PROVE  Past(c)'
<1>1. \A j \in DOMAIN toServer'[c] : Behind(toServer'[c][j]) => Behind(toServer[c][j])'
  BY DEF Behind, Late
<1>2. ASSUME NEW x, Says(c, x) PROVE Behind(x)
  <2>1. CASE x.kind = "set" /\ x.gen = cgen[c] /\ x.content.epoch = store[c].epoch
    BY <2>1, OldIsLate DEF Behind, Holds, OldHere, Recent
  <2>2. CASE x.kind = "take" /\ take[c] # NoTake /\ x.gen = take[c].gen /\ x.epoch = take[c].epoch
    BY <2>2 DEF Behind, Holds, Past
  <2>3. CASE x.kind = "take" /\ x.gen = cgen[c] /\ x.epoch = store[c].epoch
    BY <2>3, OldIsLate DEF Behind, Holds, OldHere, Recent
  <2>4. CASE x.kind = "ask" /\ x.gen = cgen[c]
    BY <2>4 DEF Behind, Holds, Recent
  <2>5. QED
    BY <1>2, <2>1, <2>2, <2>3, <2>4 DEF Says
<1>3. \A j \in DOMAIN toServer'[c] : Behind(toServer'[c][j])
  <2>1. CASE toServer'[c] = toServer[c]
    BY <2>1 DEF Holds, Past
  <2>2. ASSUME NEW x \in ToServer, Says(c, x), toServer'[c] = Append(toServer[c], x)
        PROVE  \A j \in DOMAIN toServer'[c] : Behind(toServer'[c][j])
    <3> DEFINE s == toServer[c]
    <3>1. s \in Seq(ToServer)
      BY QueueTypes
    <3> HIDE DEF s
    <3>2. /\ DOMAIN s = 1 .. Len(s) /\ Len(s) \in Nat
          /\ DOMAIN Append(s, x) = 1 .. Len(s) + 1
          /\ \A j \in 1 .. Len(s) : Append(s, x)[j] = s[j]
          /\ Append(s, x)[Len(s) + 1] = x
      BY <3>1, AppendProperties, LenProperties
    <3>3. \A j \in DOMAIN Append(s, x) : j \in DOMAIN s \/ j = Len(s) + 1
      BY <3>2
    <3>4. \A j \in DOMAIN s : Behind(s[j])
      BY DEF Holds, Past, s
    <3>5. \A j \in DOMAIN Append(s, x) : Behind(Append(s, x)[j])
      BY <1>2, <2>2, <3>2, <3>3, <3>4
    <3>6. QED
      BY <2>2, <3>5 DEF s
  <2>3. QED
    BY <2>1, <2>2 DEF SaysLittle
<1>4. /\ take'[c].gen <= generation
      /\ take'[c] # NoTake /\ take'[c].epoch # epoch => Late(take'[c].gen)
  <2>1. NoTake.gen <= generation
    BY QueueTypes DEF NoTake
  <2>2. store[c].epoch # epoch => Late(cgen[c])
    BY OldIsLate DEF OldHere, Holds
  <2>3. QED
    BY <2>1, <2>2 DEF KeepsTake, Holds, Past, Recent
<1>5. QED
  BY <1>1, <1>3, <1>4 DEF Past, Late

\* The same without a word, for a server ahead.
LEMMA SilentHolds ==
  ASSUME TypeOK, NEW d \in Clients, Past(d), UNCHANGED epoch,
         toServer'[d] = toServer[d], take'[d] = take[d], generation' \in Nat,
         generation <= generation', owner' # owner => generation < generation'
  PROVE  Past(d)'
<1>1. generation \in Nat /\ take[d] \in Takes
  BY DEF TypeOK
<1>2. ASSUME NEW m \in ToServer, Behind(m) PROVE Behind(m)'
  <2>1. m.gen \in Nat
    BY KindsHaveGens
  <2>2. Late(m.gen) => Late(m.gen)'
    BY <1>1, <2>1, LateStays
  <2>3. m.gen <= generation'
    BY <1>1, <1>2, <2>1 DEF Behind
  <2>4. QED
    BY <1>2, <2>2, <2>3 DEF Behind
<1>3. \A j \in DOMAIN toServer[d] : toServer[d][j] \in ToServer
  BY QueueTypes
<1>4. take[d].gen \in Nat
  BY <1>1 DEF Takes
<1>5. Late(take[d].gen) => Late(take[d].gen)'
  BY <1>1, <1>4, LateStays
<1>6. take[d].gen <= generation'
  BY <1>1, <1>4 DEF Past
<1>7. QED
  BY <1>2, <1>3, <1>5, <1>6 DEF Past

-----------------------------------------------------------------------------
(* The steps of the server *)

LEMMA MoveHolds ==
  ASSUME IInv, NEW c \in Clients, NEW w \in {"here", "beside", "away"},
         NEW o \in Clients \cup {NoClient}, Move(c, w, o)
  PROVE  IInv'
<1>1. TypeOK /\ box.epoch = epoch /\ Served /\ \A d \in Clients : Holds(d)
  BY DEF IInv
<1>2. /\ generation' \in Nat /\ generation <= generation'
      /\ owner' # owner => generation < generation'
      /\ \A d \in Clients : Grows(d)
  BY <1>1, MoveSends
<1>3. /\ UNCHANGED <<box, epoch, cgen, mine, store, known, held, take, crossed, toServer>>
      /\ where' = [where EXCEPT ![c] = w] /\ owner' = o
      /\ IF Near(where') = {} THEN o = NoClient ELSE o \in Near(where')
      /\ toClient' = [d \in Clients |-> toClient'[d]]
  BY DEF Move, clientVars
<1>4. TypeOK'
  <2>1. \A d \in Clients : toClient'[d] \in Seq(ToClient)
    BY <1>1, <1>2, GrowsType
  <2>2. toClient' \in [Clients -> Seq(ToClient)]
    BY <1>3, <2>1
  <2>3. QED
    BY <1>1, <1>2, <1>3, <2>2 DEF TypeOK
<1>5. Served'
  BY <1>3 DEF Served, Near
<1>6. ASSUME NEW d \in Clients PROVE Holds(d)'
  <2>1. Holds(d) /\ Past(d)
    BY <1>1 DEF Holds
  <2>2. /\ cgen'[d] = cgen[d] /\ store'[d] = store[d] /\ held'[d] = held[d]
        /\ take'[d] = take[d] /\ toServer'[d] = toServer[d] /\ UNCHANGED epoch
    BY <1>3
  <2>3. Recent(d)' /\ Learns(d)' /\ Corrected(d)'
    BY <1>1, <1>2, <2>1, <2>2, GrowsHolds
  <2>4. Past(d)'
    BY <1>1, <1>2, <2>1, <2>2, SilentHolds
  <2>5. QED
    BY <2>3, <2>4 DEF Holds
<1>7. QED
  BY <1>1, <1>3, <1>4, <1>5, <1>6 DEF IInv

LEMMA PublishHolds ==
  ASSUME IInv, Publish
  PROVE  IInv'
<1>1. TypeOK /\ box.epoch = epoch /\ Served /\ \A d \in Clients : Holds(d)
  BY DEF IInv
<1>2. /\ UNCHANGED <<generation, owner, where, box, epoch>>
      /\ UNCHANGED <<cgen, mine, store, known, held, take, crossed, toServer>>
      /\ toClient' = [d \in Clients |-> toClient'[d]]
  BY DEF Publish, serverVars, clientVars
<1>3. \A d \in Clients : Grows(d)
  BY <1>1, PublishSends
<1>4. generation \in Nat /\ generation' \in Nat /\ generation <= generation'
  BY <1>1, <1>2 DEF TypeOK
<1>5. TypeOK'
  <2>1. \A d \in Clients : toClient'[d] \in Seq(ToClient)
    BY <1>1, <1>3, GrowsType
  <2>2. toClient' \in [Clients -> Seq(ToClient)]
    BY <1>2, <2>1
  <2>3. QED
    BY <1>1, <1>2, <2>2 DEF TypeOK
<1>6. Served'
  BY <1>1, <1>2 DEF Served
<1>7. ASSUME NEW d \in Clients PROVE Holds(d)'
  <2>1. Holds(d) /\ Past(d)
    BY <1>1 DEF Holds
  <2>2. Recent(d)' /\ Learns(d)' /\ Corrected(d)'
    BY <1>1, <1>2, <1>3, <1>4, <2>1, GrowsHolds
  <2>3. Past(d)'
    BY <1>1, <1>2, <1>4, <2>1, SilentHolds
  <2>4. QED
    BY <2>2, <2>3 DEF Holds
<1>8. QED
  BY <1>1, <1>2, <1>5, <1>6, <1>7 DEF IInv

LEMMA ResetHolds ==
  ASSUME IInv, NEW o \in Clients \cup {NoClient}, Reset(o)
  PROVE  IInv'
<1>1. TypeOK /\ Served /\ \A d \in Clients : Holds(d)
  BY DEF IInv
<1>2. \A d \in Clients : \A j \in DOMAIN toClient[d] :
        toClient[d][j].kind # "result" => toClient[d][j].gen <= generation
  BY <1>1 DEF Holds, Recent
<1>3. /\ generation \in Nat /\ epoch \in Nat /\ generation' \in Nat
      /\ generation + 1 <= generation' /\ (owner' = NoClient \/ generation + 1 < generation')
      /\ \A d \in Clients : \E n \in DOMAIN toClient'[d] :
           Marked(toClient'[d], n, generation + 1, epoch + 1, generation')
      /\ \A d \in Clients : toClient'[d] \in Seq(ToClient)
  BY <1>1, <1>2, ResetSends
<1>4. /\ UNCHANGED <<where, cgen, mine, store, known, held, take, crossed, toServer>>
      /\ epoch' = epoch + 1 /\ owner' = o /\ box' = Base(epoch + 1)
      /\ IF Near(where) = {} THEN o = NoClient ELSE o \in Near(where)
      /\ toClient' = [d \in Clients |-> toClient'[d]]
  BY DEF Reset, clientVars
<1>5. /\ box' \in Content /\ box'.epoch = epoch'
      /\ epoch' \in Nat
  BY <1>3, <1>4 DEF Base, Content
<1>6. TypeOK'
  <2>1. toClient' \in [Clients -> Seq(ToClient)]
    BY <1>3, <1>4
  <2>2. QED
    BY <1>1, <1>3, <1>4, <1>5, <2>1 DEF TypeOK
<1>7. Served'
  BY <1>4 DEF Served, Near
<1>8. ASSUME NEW g \in Nat, g <= generation + 1 PROVE Late(g)'
  BY <1>3, <1>8 DEF Late
<1>9. ASSUME NEW d \in Clients PROVE Holds(d)'
  <2> DEFINE s == toClient'[d]
  <2>1. Holds(d)
    BY <1>1
  <2>2. PICK n \in DOMAIN s : Marked(s, n, generation + 1, epoch + 1, generation')
    BY <1>3
  <2>3. /\ s \in Seq(ToClient) /\ DOMAIN s = 1 .. Len(s) /\ Len(s) \in Nat
        /\ \A j \in DOMAIN s : s[j] \in ToClient
    BY <1>3, ElementOfSeq, LenProperties
  <2>4. cgen[d] \in Nat /\ cgen[d] <= generation /\ cgen'[d] = cgen[d]
    BY <1>1, <1>4, <2>1, QueueTypes DEF Holds, Recent
  <2> HIDE DEF s
  <2>5. /\ s[n].kind = "reset" /\ s[n].epoch = epoch' /\ s[n].gen = generation + 1
    BY <1>4, <2>2 DEF Marked, ResetTo
  <2>6. /\ \A j \in 1 .. n - 1 : s[j].kind # "result" => s[j].gen <= generation + 1
        /\ \A j \in DOMAIN s : n < j => s[j].kind \notin {"set", "reset"}
                                        /\ (s[j].kind # "result" => s[j].gen <= generation')
    BY <2>2 DEF Marked
  <2>7. News(d, n)'
    <3>1. PICK g \in Nat : g = generation + 1 /\ g # 0
      BY <1>3
    <3>2. Late(g)' /\ cgen'[d] <= g
      BY <1>3, <1>8, <2>4, <3>1
    <3>3. QED
      BY <2>5, <2>6, <3>1, <3>2 DEF News, Late, s
  <2>8. ASSUME NEW j \in DOMAIN s PROVE j \in 1 .. n - 1 \/ j = n \/ n < j
    BY <2>2, <2>3
  <2>9. Recent(d)'
    <3>1. ASSUME NEW j \in DOMAIN s, s[j].kind # "result" PROVE s[j].gen <= generation'
      <4>1. s[j].gen \in Nat
        BY <2>3, <3>1, KindsHaveGens
      <4>2. s[j].gen <= generation + 1 \/ s[j].gen <= generation'
        BY <1>3, <2>5, <2>6, <2>8, <3>1
      <4>3. QED
        BY <1>3, <4>1, <4>2
    <3>2. cgen'[d] <= generation'
      BY <1>3, <2>4
    <3>3. QED
      BY <3>1, <3>2 DEF Recent, s
  <2>10. Learns(d)'
    BY <2>2, <2>7 DEF Learns, s
  <2>11. Corrected(d)'
    <3>1. ASSUME NEW j \in DOMAIN s, NEW p, p = s[j], Stale(p)' PROVE j < n
      <4>1. p.kind \in {"set", "reset"} /\ (p.kind = "reset" => p.epoch # epoch')
        BY <3>1 DEF Stale
      <4>2. j # n /\ ~(n < j)
        BY <2>5, <2>6, <3>1, <4>1
      <4>3. QED
        BY <2>2, <2>3, <4>2
    <3>2. QED
      BY <2>2, <2>7, <3>1 DEF Corrected, Stale, s
  <2>12. Past(d)'
    <3>1. take[d].gen \in Nat /\ take[d].gen <= generation
      BY <1>1, <2>1 DEF TypeOK, Takes, Holds, Past
    <3>2. \A j \in DOMAIN toServer[d] :
            toServer[d][j].gen \in Nat /\ toServer[d][j].gen <= generation
      BY <1>1, <2>1, QueueTypes, KindsHaveGens DEF Holds, Past, Behind
    <3>3. ASSUME NEW g \in Nat, g <= generation PROVE Late(g)' /\ g <= generation'
      BY <1>3, <1>8, <3>3
    <3>4. ASSUME NEW m, m.gen \in Nat, m.gen <= generation PROVE Behind(m)'
      BY <3>3, <3>4 DEF Behind
    <3>5. QED
      BY <1>4, <3>1, <3>2, <3>3, <3>4 DEF Past
  <2>13. QED
    BY <2>9, <2>10, <2>11, <2>12 DEF Holds
<1>10. QED
  BY <1>5, <1>6, <1>7, <1>9 DEF IInv

LEMMA ReceiveHolds ==
  ASSUME IInv, NEW c \in Clients, NEW i \in DOMAIN toServer[c], Receive(c, i)
  PROVE  IInv'
<1> DEFINE m == toServer[c][i]
<1>1. TypeOK /\ box.epoch = epoch /\ Served /\ \A d \in Clients : Holds(d)
  BY DEF IInv
<1>2. m \in ToServer /\ Behind(m) /\ m.gen \in Nat
  BY <1>1, QueueTypes, KindsHaveGens DEF Holds, Past
<1>3. m.kind = "set" /\ Fenced(c, m) /\ owner = c => m.content.epoch = epoch
  BY <1>1, <1>2 DEF Behind, Fenced, Late, TypeOK
<1> HIDE DEF m
<1>4. /\ \A d \in Clients : Grows(d)
      /\ box' \in Content /\ box'.epoch = epoch
      /\ epoch' = epoch /\ generation' = generation
  BY <1>1, <1>3, ReceiveSends DEF m
<1>5. /\ UNCHANGED <<generation, owner, where, epoch, cgen, mine, store, known, held, take, crossed>>
      /\ toServer' = [toServer EXCEPT ![c] = RemoveAt(toServer[c], i)]
  BY DEF Receive, clientVars
<1>6. toClient' = [d \in Clients |-> toClient'[d]]
  <2>1. /\ toClient = [d \in Clients |-> toClient[d]]
        /\ \A e, ms : Reply(e, ms) => toClient' = [d \in Clients |-> toClient'[d]]
    BY <1>1 DEF TypeOK, Reply
  <2>2. ReceiveAsk(c, m) \/ ReceiveSet(c, m) \/ ReceiveTake(c, m)
    BY DEF Receive, m
  <2>3. ReceiveAsk(c, m) => toClient' = [d \in Clients |-> toClient'[d]]
    BY <2>1 DEF ReceiveAsk
  <2>4. ReceiveSet(c, m) => toClient' = [d \in Clients |-> toClient'[d]]
    BY <2>1 DEF ReceiveSet, Accepted
  <2>5. ReceiveTake(c, m) => toClient' = [d \in Clients |-> toClient'[d]]
    BY <2>1 DEF ReceiveTake
  <2>6. QED
    BY <2>2, <2>3, <2>4, <2>5
<1>7. /\ RemoveAt(toServer[c], i) \in Seq(ToServer)
      /\ \A j \in DOMAIN RemoveAt(toServer[c], i) :
           \E k \in DOMAIN toServer[c] : RemoveAt(toServer[c], i)[j] = toServer[c][k]
  BY <1>1, QueueTypes, RemovalAt, RemovalFrom
<1>8. TypeOK'
  <2>1. \A d \in Clients : toClient'[d] \in Seq(ToClient)
    BY <1>1, <1>4, GrowsType
  <2>2. toClient' \in [Clients -> Seq(ToClient)]
    BY <1>6, <2>1
  <2>3. toServer' \in [Clients -> Seq(ToServer)]
    BY <1>1, <1>5, <1>7 DEF TypeOK
  <2>4. QED
    BY <1>1, <1>4, <1>5, <2>2, <2>3 DEF TypeOK
<1>9. Served'
  BY <1>1, <1>5 DEF Served
<1>10. ASSUME NEW d \in Clients PROVE Holds(d)'
  <2>1. generation \in Nat /\ generation' \in Nat /\ generation <= generation' /\ Holds(d)
    BY <1>1, <1>5 DEF TypeOK
  <2>2. Recent(d)' /\ Learns(d)' /\ Corrected(d)'
    BY <1>1, <1>4, <1>5, <2>1, GrowsHolds
  <2>3. Past(d)'
    <3>1. CASE d # c
      <4>1. toServer'[d] = toServer[d]
        BY <1>5, <3>1 DEF TypeOK
      <4>2. QED
        BY <1>1, <1>5, <2>1, <4>1, SilentHolds DEF Holds
    <3>2. CASE d = c
      <4>1. toServer'[c] = RemoveAt(toServer[c], i)
        BY <1>1, <1>5 DEF TypeOK
      <4>2. \A j \in DOMAIN toServer'[c] : Behind(toServer'[c][j])
        BY <1>7, <2>1, <3>2, <4>1 DEF Holds, Past
      <4>3. \A j \in DOMAIN toServer'[c] : Behind(toServer[c][j])' <=> Behind(toServer'[c][j])
        BY <1>5 DEF Behind, Late
      <4>4. QED
        BY <1>5, <2>1, <3>2, <4>2, <4>3 DEF Holds, Past, Late
    <3>3. QED
      BY <3>1, <3>2
  <2>4. QED
    BY <2>2, <2>3 DEF Holds
<1>11. QED
  BY <1>4, <1>8, <1>9, <1>10 DEF IInv

-----------------------------------------------------------------------------
(* The steps of a client keep it *)

LEMMA AloneHolds ==
  ASSUME IInv, NEW c \in Clients, Alone(c), UNCHANGED serverVars,
         toClient' \in [Clients -> Seq(ToClient)],
         \A d \in Clients \ {c} : toClient'[d] = toClient[d],
         Recent(c)', Learns(c)', Corrected(c)'
  PROVE  IInv'
<1>1. TypeOK /\ box.epoch = epoch /\ Served /\ \A d \in Clients : Holds(d)
  BY DEF IInv
<1>2. UNCHANGED <<generation, owner, where, box, epoch>>
  BY DEF serverVars
<1>3. TypeOK'
  BY <1>1, <1>2 DEF TypeOK, Alone, ClientTypes
<1>4. Served'
  BY <1>1, <1>2 DEF Served
<1>5. Holds(c)'
  <2>1. Past(c)'
    BY <1>1, <1>2, SaysHolds DEF Alone
  <2>2. QED
    BY <2>1 DEF Holds
<1>6. ASSUME NEW d \in Clients \ {c} PROVE Holds(d)'
  <2>1. Holds(d) /\ generation \in Nat /\ generation' \in Nat /\ generation <= generation'
    BY <1>1, <1>2 DEF TypeOK
  <2>2. /\ cgen'[d] = cgen[d] /\ store'[d] = store[d] /\ held'[d] = held[d]
        /\ take'[d] = take[d] /\ toServer'[d] = toServer[d] /\ toClient'[d] = toClient[d]
    BY DEF Alone
  <2>3. OldHere(d)' => OldHere(d)
    BY <1>2, <2>2 DEF OldHere
  <2>4. Recent(d)' /\ Learns(d)' /\ Corrected(d)'
    BY <1>2, <2>1, <2>2, <2>3, StaysHolds DEF Holds
  <2>5. Past(d)'
    BY <1>1, <1>2, <2>1, <2>2, SilentHolds DEF Holds
  <2>6. QED
    BY <2>4, <2>5 DEF Holds
<1>7. QED
  BY <1>1, <1>2, <1>3, <1>4, <1>5, <1>6 DEF IInv

\* What leaves alone what is under way to the client.
LEMMA QuietHolds ==
  ASSUME IInv, NEW c \in Clients, Alone(c), UNCHANGED <<serverVars, toClient>>,
         cgen'[c] = cgen[c], OldHere(c)' => OldHere(c)
  PROVE  IInv'
<1>1. /\ TypeOK /\ Recent(c) /\ Learns(c) /\ Corrected(c)
      /\ UNCHANGED <<generation, owner, epoch>>
  BY DEF IInv, Holds, serverVars
<1>2. Recent(c)' /\ Learns(c)' /\ Corrected(c)'
  BY <1>1, StaysHolds
<1>3. toClient' \in [Clients -> Seq(ToClient)]
  BY <1>1 DEF TypeOK
<1>4. QED
  BY <1>2, <1>3, AloneHolds

LEMMA OpenHolds ==
  ASSUME IInv, NEW c \in Clients, NEW r \in Rolls, Open(c, r)
  PROVE  IInv'
<1>1. TypeOK
  BY DEF IInv
<1>2. UNCHANGED <<serverVars, cgen, mine, known, held, take, toClient, crossed>> /\ UNCHANGED epoch
  BY DEF Open, serverVars
<1>3. CASE Snapshot(c, r)
  <2>1. /\ store' \in [Clients -> Content] /\ toServer' \in [Clients -> Seq(ToServer)]
        /\ store'[c].epoch = store[c].epoch
        /\ \A d \in Clients \ {c} : store'[d] = store[d] /\ toServer'[d] = toServer[d]
    BY <1>1, <1>3, SnapshotIs
  <2>2. PICK x \in Full : /\ x.epoch = store[c].epoch
                          /\ SetTo(cgen[c], x) \in ToServer
                          /\ toServer'[c] = Append(toServer[c], SetTo(cgen[c], x))
    BY <1>1, <1>3, SnapshotIs
  <2>3. SaysLittle(c)
    BY <2>2 DEF SaysLittle, Says, SetTo
  <2>4. Alone(c)
    BY <1>1, <1>2, <2>1, <2>3 DEF Alone, ClientTypes, KeepsTake, TypeOK
  <2>5. OldHere(c)' => OldHere(c)
    BY <1>2, <2>1 DEF OldHere
  <2>6. QED
    BY <1>2, <2>4, <2>5, QuietHolds
<1>4. CASE Send(c, <<Ask(cgen[c])>>) /\ UNCHANGED store
  <2>1. Ask(cgen[c]) \in ToServer /\ Says(c, Ask(cgen[c]))
    BY <1>1, QueueTypes DEF Ask, ToServer, Says
  <2>2. /\ toServer' \in [Clients -> Seq(ToServer)]
        /\ toServer'[c] = Append(toServer[c], Ask(cgen[c]))
        /\ \A d \in Clients \ {c} : toServer'[d] = toServer[d]
    BY <1>1, <1>4, <2>1, SendType
  <2>3. Alone(c)
    BY <1>1, <1>2, <1>4, <2>1, <2>2 DEF Alone, ClientTypes, SaysLittle, KeepsTake, TypeOK
  <2>4. OldHere(c)' => OldHere(c)
    BY <1>2, <1>4 DEF OldHere
  <2>5. QED
    BY <1>2, <2>3, <2>4, QuietHolds
<1>5. QED
  BY <1>3, <1>4 DEF Open

LEMMA RequestTakeHolds ==
  ASSUME IInv, NEW c \in Clients, RequestTake(c)
  PROVE  IInv'
<1> DEFINE t == [gen |-> cgen[c], epoch |-> store[c].epoch, waits |-> "answer"]
<1>1. TypeOK /\ cgen[c] \in Nat /\ store[c] \in Content /\ store[c].epoch \in Nat
  BY DEF IInv, TypeOK, Content
<1>2. /\ UNCHANGED <<serverVars, cgen, mine, store, known, held, toClient, crossed>>
      /\ UNCHANGED epoch
      /\ take' = [take EXCEPT ![c] = t] /\ Send(c, <<TakeOf(t)>>)
  BY DEF RequestTake, serverVars
<1>3. t \in Takes /\ t.gen = cgen[c] /\ t.epoch = store[c].epoch
  BY <1>1 DEF Takes
<1> HIDE DEF t
<1>4. TakeOf(t) \in ToServer /\ Says(c, TakeOf(t))
  BY <1>1, <1>3 DEF TakeOf, ToServer, Says
<1>5. /\ toServer' \in [Clients -> Seq(ToServer)]
      /\ toServer'[c] = Append(toServer[c], TakeOf(t))
      /\ \A d \in Clients \ {c} : toServer'[d] = toServer[d]
  BY <1>1, <1>2, <1>4, SendType
<1>6. take' \in [Clients -> Takes] /\ take'[c] = t /\ \A d \in Clients \ {c} : take'[d] = take[d]
  BY <1>1, <1>2, <1>3 DEF TypeOK
<1>7. SaysLittle(c) /\ KeepsTake(c)
  BY <1>3, <1>4, <1>5, <1>6 DEF SaysLittle, KeepsTake
<1>8. Alone(c)
  BY <1>1, <1>2, <1>5, <1>6, <1>7 DEF Alone, ClientTypes, TypeOK
<1>9. OldHere(c)' => OldHere(c)
  BY <1>2 DEF OldHere
<1>10. QED
  BY <1>2, <1>8, <1>9, QuietHolds

\* The same packet, held as long or longer.
IsHeld(x, y) == x.set = y.set /\ x.content = y.content /\ (y.late => x.late)

\* What is left when packet i is applied was all held before.
LEMMA RetriedIs ==
  ASSUME NEW q \in Seq(Held), NEW i \in DOMAIN q
  PROVE  LET t == Later(SubSeq(q, 1, i - 1)) \o SubSeq(q, i + 1, Len(q))
         IN  /\ t \in Seq(Held)
             /\ \A k \in DOMAIN t : \E l \in DOMAIN q : IsHeld(t[k], q[l])
<1> DEFINE a == SubSeq(q, 1, i - 1)
           b == SubSeq(q, i + 1, Len(q))
           t == Later(a) \o b
<1>1. DOMAIN q = 1 .. Len(q) /\ Len(q) \in Nat /\ i \in 1 .. Len(q)
  BY LenProperties
<1>2. /\ a \in Seq(Held) /\ b \in Seq(Held)
      /\ DOMAIN a = 1 .. i - 1 /\ \A k \in 1 .. i - 1 : a[k] = q[k]
      /\ DOMAIN b = 1 .. Len(q) - i /\ \A k \in 1 .. Len(q) - i : b[k] = q[i + k]
  <2>1. \A k \in 1 .. Len(q) : q[k] \in Held
    BY <1>1, ElementOfSeq
  <2>2. /\ a \in Seq(Held) /\ Len(a) = i - 1 /\ \A k \in 1 .. i - 1 : a[k] = q[k]
    BY <1>1, <2>1
  <2>3. /\ b \in Seq(Held) /\ Len(b) = Len(q) - i /\ \A k \in 1 .. Len(q) - i : b[k] = q[i + k]
    BY <1>1, <2>1
  <2> HIDE DEF a, b
  <2>4. QED
    BY <2>2, <2>3, LenProperties
<1> HIDE DEF a, b
<1>3. /\ Later(a) \in Seq(Held) /\ DOMAIN Later(a) = DOMAIN a
      /\ \A k \in DOMAIN a : /\ Later(a)[k].set = a[k].set /\ Later(a)[k].content = a[k].content
                            /\ Later(a)[k].late
  BY <1>2, LaterType
<1>4. /\ t \in Seq(Held)
      /\ \A k \in DOMAIN Later(a) : t[k] = Later(a)[k]
      /\ \A k \in DOMAIN t : k \notin DOMAIN Later(a) => t[k] \in Range(b)
  <2>1. t \in Seq(Held)
    BY <1>2, <1>3, ConcatProperties
  <2>2. PICK u \in Seq(Held) : u = Later(a)
    BY <1>3
  <2>3. /\ \A k \in DOMAIN u : (u \o b)[k] = u[k]
        /\ \A k \in DOMAIN (u \o b) : k \notin DOMAIN u => (u \o b)[k] \in Range(b)
    BY <1>2, ConcatAt
  <2>4. QED
    BY <2>1, <2>2, <2>3
<1> HIDE DEF t
<1>5. ASSUME NEW k \in DOMAIN t
      PROVE  \E l \in DOMAIN q : IsHeld(t[k], q[l])
  <2>1. CASE k \in DOMAIN Later(a)
    <3>1. k \in DOMAIN q /\ a[k] = q[k]
      BY <1>1, <1>2, <1>3, <2>1
    <3>2. QED
      BY <1>3, <1>4, <2>1, <3>1 DEF IsHeld
  <2>2. CASE k \notin DOMAIN Later(a)
    <3>1. PICK l \in 1 .. Len(q) - i : t[k] = q[i + l]
      BY <1>2, <1>4, <2>2 DEF Range
    <3>2. i + l \in DOMAIN q
      BY <1>1
    <3>3. QED
      BY <3>1, <3>2 DEF IsHeld
  <2>3. QED
    BY <2>1, <2>2
<1>6. QED
  BY <1>4, <1>5 DEF t, a, b

LEMMA RetryHolds ==
  ASSUME IInv, NEW c \in Clients, NEW i \in DOMAIN held[c], Retry(c, i)
  PROVE  IInv'
<1> DEFINE h == held[c][i]
           t == Later(SubSeq(held[c], 1, i - 1)) \o SubSeq(held[c], i + 1, Len(held[c]))
<1>1. TypeOK /\ store[c] \in Content /\ held[c] \in Seq(Held) /\ h \in Held
  BY ElementOfSeq, LenProperties DEF IInv, TypeOK
<1>2. /\ UNCHANGED <<serverVars, cgen, mine, take, toServer, toClient>> /\ UNCHANGED epoch
      /\ store' = [store EXCEPT ![c] = Applied(store[c], h)]
      /\ known' = [known EXCEPT ![c] = TRUE]
      /\ held' = [held EXCEPT ![c] = t]
      /\ crossed' = [crossed EXCEPT ![c] = h.late \/ (crossed[c] /\ ~h.set)]
  BY DEF Retry, serverVars
<1>3. /\ t \in Seq(Held)
      /\ \A k \in DOMAIN t : \E l \in DOMAIN held[c] : IsHeld(t[k], held[c][l])
  BY <1>1, RetriedIs
<1>4. /\ Applied(store[c], h) \in Content
      /\ (h.late \/ (crossed[c] /\ ~h.set)) \in BOOLEAN
      /\ Applied(store[c], h).epoch = IF h.set THEN h.content.epoch ELSE store[c].epoch
  <2>1. Applied(store[c], h) \in Content
    BY <1>1, AppliedType
  <2>2. Applied(store[c], h).epoch = IF h.set THEN h.content.epoch ELSE store[c].epoch
    BY <1>1 DEF Applied, Content
  <2>3. (h.late \/ (crossed[c] /\ ~h.set)) \in BOOLEAN
    OBVIOUS
  <2>4. QED
    BY <2>1, <2>2, <2>3
<1>5. OldHere(c)' => OldHere(c)
  <2>1. store'[c] = Applied(store[c], h) /\ held'[c] = t
    BY <1>1, <1>2 DEF TypeOK
  <2> HIDE DEF t
  <2>2. CASE store'[c].epoch # epoch'
    BY <1>2, <1>4, <2>1, <2>2 DEF OldHere
  <2>3. CASE \E k \in DOMAIN held'[c] : held'[c][k].set /\ held'[c][k].content.epoch # epoch'
    BY <1>2, <1>3, <2>1, <2>3 DEF OldHere, IsHeld
  <2>4. QED
    BY <2>2, <2>3 DEF OldHere
<1> HIDE DEF h, t
<1>6. ClientTypes
  BY <1>1, <1>2, <1>3, <1>4 DEF ClientTypes, TypeOK
<1>7. Alone(c)
  BY <1>1, <1>2, <1>6 DEF Alone, SaysLittle, KeepsTake, TypeOK
<1>8. QED
  BY <1>2, <1>5, <1>7, QuietHolds

\* In order, what arrives is the oldest packet.
LEMMA DeliverHolds ==
  ASSUME IInv, InOrder, NEW c \in Clients, NEW r \in Rolls, NEW i \in DOMAIN toClient[c],
         Deliver(c, i, r)
  PROVE  IInv'
<1> DEFINE q == toClient[c]
           s == toClient'[c]
           m == q[1]
<1>1. TypeOK /\ Recent(c) /\ Learns(c) /\ Corrected(c)
  BY DEF IInv, Holds
<1>2. /\ i = 1 /\ toClient' = [toClient EXCEPT ![c] = Outrun(toClient[c], i)]
      /\ UNCHANGED serverVars /\ UNCHANGED <<generation, owner, epoch>>
  BY DEF Deliver, Arriving, serverVars
<1>3. /\ q \in Seq(ToClient) /\ DOMAIN q = 1 .. Len(q) /\ Len(q) \in Nat /\ 1 \in DOMAIN q
      /\ \A j \in DOMAIN q : q[j] \in ToClient
      /\ \A j \in DOMAIN q : q[j].kind # "result" => q[j].gen \in Nat
      /\ cgen[c] \in Nat /\ generation \in Nat
  BY <1>1, <1>2, QueueTypes, KindsHaveGens
<1>4. Alone(c) /\ Ages(c, m)
  BY <1>1, <1>2, DeliverIs
<1>5. /\ s = Outrun(q, 1) /\ s \in Seq(ToClient)
      /\ DOMAIN s = 1 .. Len(q) - 1 /\ \A j \in DOMAIN s : s[j] = q[j + 1] /\ j + 1 \in DOMAIN q
      /\ \A d \in Clients \ {c} : toClient'[d] = toClient[d]
      /\ toClient' \in [Clients -> Seq(ToClient)]
  <2>1. s = Outrun(q, 1) /\ \A d \in Clients \ {c} : toClient'[d] = toClient[d]
    BY <1>1, <1>2 DEF TypeOK
  <2>2. /\ Outrun(q, 1) \in Seq(ToClient) /\ Len(Outrun(q, 1)) = Len(q) - 1
        /\ \A j \in 1 .. Len(q) - 1 : Outrun(q, 1)[j] = q[j + 1]
    BY <1>3, OutrunIs
  <2>3. toClient' \in [Clients -> Seq(ToClient)]
    BY <1>1, <1>2, <2>2 DEF TypeOK
  <2> HIDE DEF q, s
  <2>4. DOMAIN s = 1 .. Len(q) - 1
    BY <2>1, <2>2, LenProperties
  <2>5. QED
    BY <1>3, <2>1, <2>2, <2>3, <2>4
<1>6. /\ cgen'[c] = cgen[c] \/ (m.kind \notin {"result", "reset"} /\ cgen'[c] = m.gen)
         \/ cgen'[c] = 0
      /\ m.kind = "reset" /\ cgen[c] <= m.gen /\ m.gen # 0 =>
           store'[c].epoch = m.epoch /\ held'[c] = <<>>
      /\ \/ OldHere(c)' => OldHere(c)
         \/ m.kind = "set" /\ m.content.epoch # epoch
         \/ m.kind = "reset" /\ cgen[c] <= m.gen /\ m.gen # 0
  BY <1>4 DEF Ages
<1> HIDE DEF q, s, m
<1>7. ASSUME NEW k \in DOMAIN q, 1 < k, News(c, k)
      PROVE  k - 1 \in DOMAIN s /\ News(c, k - 1)'
  <2>1. PICK l \in Nat : l = k - 1 /\ l \in DOMAIN s /\ l + 1 = k
    <3>1. k \in 1 .. Len(q) /\ k - 1 \in Nat /\ (k - 1) + 1 = k
      BY <1>3, <1>7
    <3>2. k - 1 \in 1 .. Len(q) - 1
      BY <1>3, <1>7, <3>1
    <3>3. QED
      BY <1>5, <3>1, <3>2
  <2>2. s[l] = q[k] /\ q[k].gen \in Nat
    BY <1>3, <1>5, <1>7, <2>1 DEF News, q
  <2>3. /\ q[k].kind = "reset" /\ q[k].epoch = epoch /\ Late(q[k].gen)
        /\ q[k].gen # 0 /\ cgen[c] <= q[k].gen
        /\ \A j \in 1 .. k - 1 : q[j].kind # "result" => q[j].gen <= q[k].gen
    BY <1>7 DEF News, q
  <2>4. cgen'[c] <= q[k].gen
    <3>1. m.kind # "result" => m.gen <= q[k].gen
      BY <1>3, <1>7, <2>3 DEF m
    <3>2. QED
      BY <1>6, <2>2, <2>3, <3>1
  <2>5. \A j \in 1 .. l - 1 : s[j].kind # "result" => s[j].gen <= s[l].gen
    <3>1. ASSUME NEW j \in 1 .. l - 1 PROVE s[j] = q[j + 1] /\ j + 1 \in 1 .. k - 1
      BY <1>3, <1>5, <2>1
    <3>2. QED
      BY <2>2, <2>3, <3>1
  <2>6. s[l].kind = "reset" /\ s[l].epoch = epoch' /\ Late(s[l].gen) /\ s[l].gen # 0
        /\ cgen'[c] <= s[l].gen
    BY <1>2, <2>2, <2>3, <2>4
  <2>7. News(c, l)'
    BY <1>2, <2>5, <2>6 DEF News, Late, s
  <2>8. QED
    BY <2>1, <2>7
<1>8. Recent(c)'
  <2>1. \A j \in DOMAIN q : q[j].kind # "result" => q[j].gen <= generation
    BY <1>1 DEF Recent, q
  <2>2. cgen'[c] <= generation
    BY <1>1, <1>3, <1>6, <2>1 DEF Recent, m
  <2>3. \A j \in DOMAIN s : s[j].kind # "result" => s[j].gen <= generation
    BY <1>5, <2>1
  <2>4. QED
    BY <1>2, <2>2, <2>3 DEF Recent, s
<1>9. Stale(m) => \E k \in DOMAIN q : 1 < k /\ News(c, k)
  BY <1>1, <1>3 DEF Corrected, q, m
<1>10. Learns(c)'
  <2>1. SUFFICES ASSUME OldHere(c)' PROVE \E l \in DOMAIN s : News(c, l)'
    BY DEF Learns, s
  <2>2. m.kind = "reset" /\ cgen[c] <= m.gen /\ m.gen # 0 => m.epoch # epoch
    BY <1>2, <1>6, <2>1 DEF OldHere
  <2>3. \E k \in DOMAIN q : 1 < k /\ News(c, k)
    <3>1. CASE OldHere(c)
      <4>1. PICK k \in DOMAIN q : News(c, k)
        BY <1>1, <3>1 DEF Learns, q
      <4>2. k # 1
        BY <2>2, <4>1 DEF News, q, m
      <4>3. QED
        BY <1>3, <4>1, <4>2
    <3>2. CASE Stale(m)
      BY <1>9, <3>2
    <3>3. QED
      BY <1>6, <2>1, <2>2, <3>1, <3>2 DEF Stale
  <2>4. QED
    BY <1>7, <2>3
<1>11. Corrected(c)'
  <2>1. ASSUME NEW j \in DOMAIN s, Stale(q[j + 1])
        PROVE  \E l \in DOMAIN s : j < l /\ News(c, l)'
    <3>1. PICK k \in DOMAIN q : j + 1 < k /\ News(c, k)
      BY <1>1, <1>5, <2>1 DEF Corrected, q
    <3>2. k - 1 \in DOMAIN s /\ News(c, k - 1)' /\ j < k - 1
      BY <1>3, <1>5, <1>7, <3>1
    <3>3. QED
      BY <3>2
  <2>2. \A p : Stale(p)' <=> Stale(p)
    BY <1>2 DEF Stale
  <2>3. QED
    BY <1>2, <1>5, <2>1 DEF Corrected, Stale, s
<1>12. QED
  BY <1>2, <1>4, <1>5, <1>8, <1>10, <1>11, AloneHolds

-----------------------------------------------------------------------------
(* Theorems *)

LEMMA InitHolds == Init => IInv
<1> SUFFICES ASSUME Init PROVE IInv
  OBVIOUS
<1>1. Base(0) \in Content /\ Base(0).epoch = 0 /\ NoTake \in Takes /\ NoTake.gen = 0
  BY DEF Base, Content, NoTake, Takes
<1>2. /\ <<>> \in Seq(Held) /\ <<>> \in Seq(ToServer) /\ <<>> \in Seq(ToClient)
      /\ DOMAIN <<>> = {}
  OBVIOUS
<1>3. TypeOK
  BY <1>1, <1>2 DEF Init, TypeOK
<1>4. Served /\ box.epoch = epoch
  BY <1>1 DEF Init, Served
<1>5. ASSUME NEW c \in Clients PROVE Holds(c)
  <2>1. ~OldHere(c)
    BY <1>1, <1>2 DEF Init, OldHere
  <2>2. QED
    BY <1>1, <1>2, <2>1 DEF Init, Holds, Recent, Learns, Corrected, Past
<1>6. QED
  BY <1>3, <1>4, <1>5 DEF IInv

LEMMA StepHolds == InOrder /\ IInv /\ [Next]_vars => IInv'
<1> SUFFICES ASSUME InOrder, IInv, [Next]_vars PROVE IInv'
  OBVIOUS
<1>1. ASSUME NEW c \in Clients, NEW w \in {"here", "beside", "away"},
             NEW o \in Clients \cup {NoClient}, Move(c, w, o)
      PROVE  IInv'
  BY <1>1, MoveHolds
<1>2. CASE Publish
  BY <1>2, PublishHolds
<1>3. ASSUME NEW o \in Clients \cup {NoClient}, Reset(o) PROVE IInv'
  BY <1>3, ResetHolds
<1>4. ASSUME NEW c \in Clients, NEW i \in DOMAIN toServer[c], Receive(c, i) PROVE IInv'
  BY <1>4, ReceiveHolds
<1>5. ASSUME NEW c \in Clients, NEW r \in Rolls, Open(c, r) PROVE IInv'
  BY <1>5, OpenHolds
<1>6. ASSUME NEW c \in Clients, RequestTake(c) PROVE IInv'
  BY <1>6, RequestTakeHolds
<1>7. ASSUME NEW c \in Clients, NEW r \in Rolls, NEW i \in DOMAIN toClient[c], Deliver(c, i, r)
      PROVE  IInv'
  BY <1>7, DeliverHolds
<1>8. ASSUME NEW c \in Clients, NEW i \in DOMAIN held[c], Retry(c, i) PROVE IInv'
  BY <1>8, RetryHolds
<1>9. CASE UNCHANGED vars
  BY <1>9 DEF vars, serverVars, clientVars, IInv, TypeOK, Served, Holds, Recent, Learns,
       Corrected, Past, Behind, OldHere, News, Stale, Late
<1>10. QED
  BY <1>1, <1>2, <1>3, <1>4, <1>5, <1>6, <1>7, <1>8, <1>9 DEF Next

\* As long as no packet overtakes another (InOrder), what is left of the time
\* before a reset is always followed or fenced off.
THEOREM NothingOldIsLeft == ASSUME InOrder PROVE Spec => []IInv
<1>1. Init => IInv
  BY InitHolds
<1>2. IInv /\ [Next]_vars => IInv'
  BY StepHolds
<1>3. QED
  BY <1>1, <1>2, PTL DEF Spec

\* What the server holds was found after the last reset (handleContainer,
\* resetCellStatesForTesting).
THEOREM ContentComesFresh == ASSUME InOrder PROVE Spec => []ContentIsFresh
<1>1. IInv => ContentIsFresh
  BY DEF IInv, ContentIsFresh
<1>2. QED
  BY <1>1, NothingOldIsLeft, PTL

\* The variables keep their types when nothing overtakes.
THEOREM TypesHold == ASSUME InOrder PROVE Spec => []TypeOK
<1>1. IInv => TypeOK
  BY DEF IInv
<1>2. QED
  BY <1>1, NothingOldIsLeft, PTL

\* The record is changed by a fenced take alone, until a reset.
LEMMA OnlyTakes ==
  ASSUME IInv, Next, Recorded, UNCHANGED epoch, box' # box
  PROVE  /\ box'.items = box.items - 1 /\ box'.items \in Nat
         /\ \E c \in Clients : \E i \in DOMAIN toServer[c] :
              /\ toServer' = [toServer EXCEPT ![c] = RemoveAt(toServer[c], i)]
              /\ toServer[c][i].kind = "take" /\ toServer[c][i].epoch = epoch
<1>1. TypeOK /\ Served /\ \A d \in Clients : Holds(d)
  BY DEF IInv
<1>2. \E c \in Clients : \E i \in DOMAIN toServer[c] : Receive(c, i)
  <2>1. epoch \in Nat /\ epoch # epoch + 1
    BY <1>1 DEF TypeOK
  <2>2. \A o \in Clients \cup {NoClient} : ~Reset(o)
    BY <2>1 DEF Reset
  <2>3. QED
    BY <2>2 DEF Next, Move, Publish, Open, RequestTake, Deliver, Retry, serverVars
<1>3. PICK c \in Clients : \E i \in DOMAIN toServer[c] : Receive(c, i)
  BY <1>2
<1>4. PICK i \in DOMAIN toServer[c] : Receive(c, i)
  BY <1>3
<1> DEFINE m == toServer[c][i]
<1>5. m \in ToServer /\ Behind(m) /\ m.gen \in Nat /\ box \in Full
  BY <1>1, QueueTypes, KindsHaveGens, BoxFull DEF Holds, Past
<1>6. toServer' = [toServer EXCEPT ![c] = RemoveAt(toServer[c], i)]
  BY <1>4 DEF Receive
<1>7. ReceiveAsk(c, m) \/ ReceiveSet(c, m) \/ ReceiveTake(c, m)
  BY <1>4 DEF Receive
<1> HIDE DEF m
<1>8. ReceiveTake(c, m)
  BY <1>7 DEF ReceiveAsk, ReceiveSet
<1>9. /\ m.kind = "take" /\ Fenced(c, m) /\ box.items # 0
      /\ box' = [box EXCEPT !.items = box.items - 1]
  BY <1>8 DEF ReceiveTake
<1>10. box'.items = box.items - 1 /\ box'.items \in Nat
  BY <1>5, <1>9 DEF Full
<1>11. m.epoch = epoch
  <2>1. owner # NoClient
    BY <1>1, <1>9 DEF Served, Fenced
  <2>2. ~Late(m.gen)
    BY <1>1, <1>5, <1>9, <2>1 DEF Late, Fenced, TypeOK
  <2>3. QED
    BY <1>5, <1>9, <2>2 DEF Behind
<1>12. QED
  BY <1>6, <1>9, <1>10, <1>11 DEF m

\* The content is recorded once: then it loses what is taken (handleContainer,
\* handleInventoryTakeRequest).
THEOREM ContentIsRecordedOnce == ASSUME InOrder PROVE Spec => RecordedOnce
<1>1. IInv /\ [Next]_vars =>
        [Recorded /\ epoch' = epoch =>
           box'.items \in {box.items, box.items - 1} \cap Nat]_vars
  <2> SUFFICES ASSUME IInv, Next, Recorded, epoch' = epoch
               PROVE  box'.items \in {box.items, box.items - 1} \cap Nat
    OBVIOUS
  <2>1. CASE box' = box
    <3>1. box.items \in Nat
      BY BoxFull DEF IInv, Full
    <3>2. QED
      BY <2>1, <3>1
  <2>2. CASE box' # box
    BY <2>2, OnlyTakes
  <2>3. QED
    BY <2>1, <2>2
<1>2. QED
  BY <1>1, NothingOldIsLeft, PTL DEF Spec, RecordedOnce

\* What is taken was seen by who takes it (handleInventoryTakeRequest).
THEOREM TakersSawIt == ASSUME InOrder PROVE Spec => TakesAreFenced
<1>1. IInv /\ [Next]_vars =>
        [Recorded /\ epoch' = epoch /\ box' # box =>
           \E c \in Clients : \E i \in DOMAIN toServer[c] :
             /\ toServer' = [toServer EXCEPT ![c] = RemoveAt(@, i)]
             /\ toServer[c][i].kind = "take" /\ toServer[c][i].epoch = epoch]_vars
  BY OnlyTakes
<1>2. QED
  BY <1>1, NothingOldIsLeft, PTL DEF Spec, TakesAreFenced

-----------------------------------------------------------------------------
(* What a client is about to read *)

\* The packets under way take a client of generation g that has read content
\* x, in order, to generation h and content y.  Unresolved content stands for
\* any the client may have: it is lost at a reset, and by an answer to a take
\* that will wait for the content, and found again in the next Set.
Sure(x) == x.items # Unresolved
Less(x) == [x EXCEPT !.items = IF @ > 0 THEN @ - 1 ELSE @]
After(m, g) ==
  IF m.kind \in {"authority", "actors"} /\ m.gen >= g THEN m.gen
  ELSE IF m.kind = "reset" /\ m.gen # 0 /\ m.gen >= g THEN 0 ELSE g
Reads(m, g, x, y) ==
  /\ m.kind \in {"set", "remove"} => m.gen = g /\ g # 0
  /\ m.kind = "set" => y = m.content
  /\ m.kind = "remove" => Sure(x) /\ y = Less(x)
  /\ m.kind \notin {"set", "remove"} => y = x
  /\ m.kind # "reset" /\ (m.kind = "result" => m.outcome # "unavailable")
Passes(m, g, x, h, y) == h = After(m, g) /\ (Sure(y) => Reads(m, g, x, y))
Leads(q, g, x, h, y) ==
  \E w \in [Nat -> Nat], v \in [Nat -> Content] :
    /\ w[0] = g /\ v[0] = x /\ w[Len(q)] = h /\ v[Len(q)] = y
    /\ \A j \in 1 .. Len(q) : Passes(q[j], w[j - 1], v[j - 1], w[j], v[j])

LEMMA LeadsNowhere ==
  /\ \A g \in Nat, x \in Content : Leads(<<>>, g, x, g, x)
  /\ \A g, x, h, y : Leads(<<>>, g, x, h, y) => g = h /\ x = y
<1>1. ASSUME NEW g \in Nat, NEW x \in Content PROVE Leads(<<>>, g, x, g, x)
  <2> DEFINE w == [j \in Nat |-> g]
             v == [j \in Nat |-> x]
  <2>1. /\ w \in [Nat -> Nat] /\ v \in [Nat -> Content]
        /\ w[0] = g /\ v[0] = x /\ w[Len(<<>>)] = g /\ v[Len(<<>>)] = x
        /\ 1 .. Len(<<>>) = {}
    OBVIOUS
  <2> HIDE DEF w, v
  <2>2. QED
    BY <2>1 DEF Leads
<1>2. Len(<<>>) = 0
  OBVIOUS
<1>3. QED
  BY <1>1, <1>2 DEF Leads

LEMMA LeadsOn ==
  ASSUME NEW m, NEW g \in Nat, NEW x \in Content, NEW h \in Nat, NEW y \in Content,
         Passes(m, g, x, h, y)
  PROVE  Leads(<<m>>, g, x, h, y)
<1> DEFINE q == <<m>>
           w == [j \in Nat |-> IF j = 0 THEN g ELSE h]
           v == [j \in Nat |-> IF j = 0 THEN x ELSE y]
<1>1. Len(q) = 1 /\ q[1] = m
  OBVIOUS
<1>2. /\ w \in [Nat -> Nat] /\ v \in [Nat -> Content]
      /\ w[0] = g /\ v[0] = x /\ w[1] = h /\ v[1] = y
  OBVIOUS
<1> HIDE DEF q, w, v
<1>3. \A j \in 1 .. Len(q) : j = 1 /\ j - 1 = 0
  BY <1>1
<1>4. \A j \in 1 .. Len(q) : Passes(q[j], w[j - 1], v[j - 1], w[j], v[j])
  BY <1>1, <1>2, <1>3
<1>5. Leads(q, g, x, h, y)
  BY <1>1, <1>2, <1>4 DEF Leads
<1>6. QED
  BY <1>5 DEF q

LEMMA LeadsTypes ==
  ASSUME NEW q \in Seq(ToClient), NEW g, NEW x, NEW h, NEW y, Leads(q, g, x, h, y)
  PROVE  g \in Nat /\ h \in Nat /\ x \in Content /\ y \in Content
BY LenProperties DEF Leads

LEMMA LeadsFurther ==
  ASSUME NEW q \in Seq(ToClient), NEW s \in Seq(ToClient), NEW g, NEW x, NEW h, NEW y,
         NEW k, NEW z, Leads(q, g, x, h, y), Leads(s, h, y, k, z)
  PROVE  Leads(q \o s, g, x, k, z)
<1>1. PICK w \in [Nat -> Nat], v \in [Nat -> Content] :
        /\ w[0] = g /\ v[0] = x /\ w[Len(q)] = h /\ v[Len(q)] = y
        /\ \A j \in 1 .. Len(q) : Passes(q[j], w[j - 1], v[j - 1], w[j], v[j])
  BY DEF Leads
<1>2. PICK a \in [Nat -> Nat], b \in [Nat -> Content] :
        /\ a[0] = h /\ b[0] = y /\ a[Len(s)] = k /\ b[Len(s)] = z
        /\ \A j \in 1 .. Len(s) : Passes(s[j], a[j - 1], b[j - 1], a[j], b[j])
  BY DEF Leads
<1> DEFINE n == Len(q)
           W == [j \in Nat |-> IF j <= n THEN w[j] ELSE a[j - n]]
           V == [j \in Nat |-> IF j <= n THEN v[j] ELSE b[j - n]]
           u == q \o s
<1>3. /\ n \in Nat /\ Len(s) \in Nat /\ Len(u) = n + Len(s)
      /\ \A j \in 1 .. n + Len(s) : u[j] = IF j <= n THEN q[j] ELSE s[j - n]
  BY ConcatProperties, LenProperties
<1> HIDE DEF n, u
<1>4. \A j \in Nat : ~(j <= n) => j - n \in Nat
  BY <1>3
<1>5. W \in [Nat -> Nat] /\ V \in [Nat -> Content]
  BY <1>4
<1>6. \A j \in Nat : /\ j <= n => W[j] = w[j] /\ V[j] = v[j]
                     /\ n <= j => W[j] = a[j - n] /\ V[j] = b[j - n]
  <2>1. \A j \in Nat : n <= j => j = n \/ ~(j <= n)
    BY <1>3
  <2>2. n - n = 0 /\ n <= n
    BY <1>3
  <2>3. QED
    BY <1>1, <1>2, <2>1, <2>2 DEF n
<1> HIDE DEF W, V
<1>7. W[0] = g /\ V[0] = x /\ W[Len(u)] = k /\ V[Len(u)] = z
  <2>1. /\ 0 <= n /\ Len(u) \in Nat /\ n <= Len(u) /\ Len(u) - n = Len(s)
    BY <1>3
  <2>2. QED
    BY <1>1, <1>2, <1>6, <2>1
<1>8. ASSUME NEW j \in 1 .. Len(u)
      PROVE  Passes(u[j], W[j - 1], V[j - 1], W[j], V[j])
  <2>0. n \in Nat /\ Len(s) \in Nat /\ j \in 1 .. n + Len(s)
    BY <1>3
  <2>1. CASE j <= n
    <3>1. /\ j \in 1 .. n /\ j \in 1 .. n + Len(s) /\ j \in Nat /\ j - 1 \in Nat /\ j - 1 <= n
      BY <2>0, <2>1
    <3>2. u[j] = q[j]
      BY <1>3, <2>1, <3>1
    <3>3. W[j - 1] = w[j - 1] /\ V[j - 1] = v[j - 1] /\ W[j] = w[j] /\ V[j] = v[j]
      BY <1>6, <2>1, <3>1
    <3>4. QED
      BY <1>1, <3>1, <3>2, <3>3 DEF n
  <2>2. CASE ~(j <= n)
    <3>1. /\ j - n \in 1 .. Len(s) /\ j \in 1 .. n + Len(s) /\ j \in Nat /\ j - 1 \in Nat
          /\ n <= j /\ n <= j - 1 /\ (j - 1) - n = (j - n) - 1
      BY <2>0, <2>2
    <3>2. u[j] = s[j - n]
      BY <1>3, <2>2, <3>1
    <3>3. /\ W[j - 1] = a[(j - n) - 1] /\ V[j - 1] = b[(j - n) - 1]
          /\ W[j] = a[j - n] /\ V[j] = b[j - n]
      BY <1>6, <3>1
    <3>4. QED
      BY <1>2, <3>1, <3>2, <3>3
  <2>3. QED
    BY <2>1, <2>2
<1>9. Leads(u, g, x, k, z)
  BY <1>5, <1>7, <1>8 DEF Leads
<1>10. QED
  BY <1>9 DEF u

\* Once more along the way.
LEMMA LeadsOneOn ==
  ASSUME NEW q \in Seq(ToClient), NEW m \in ToClient, NEW g, NEW x, NEW h, NEW y,
         Leads(q, g, x, h, y), NEW k \in Nat, NEW z \in Content, Passes(m, h, y, k, z)
  PROVE  Leads(q \o <<m>>, g, x, k, z)
<1>1. h \in Nat /\ y \in Content /\ <<m>> \in Seq(ToClient)
  BY LeadsTypes, One
<1>2. Leads(<<m>>, h, y, k, z)
  BY <1>1, LeadsOn
<1>3. QED
  BY <1>1, <1>2, LeadsFurther

\* The packet at the head, and the way from there.
LEMMA LeadsFrom ==
  ASSUME NEW q \in Seq(ToClient), NEW s \in Seq(ToClient), Len(q) # 0, Len(s) = Len(q) - 1,
         \A j \in 1 .. Len(q) - 1 : s[j] = q[j + 1],
         NEW g, NEW x, NEW k, NEW z, Leads(q, g, x, k, z)
  PROVE  \E h \in Nat, y \in Content : Passes(q[1], g, x, h, y) /\ Leads(s, h, y, k, z)
<1>1. PICK w \in [Nat -> Nat], v \in [Nat -> Content] :
        /\ w[0] = g /\ v[0] = x /\ w[Len(q)] = k /\ v[Len(q)] = z
        /\ \A j \in 1 .. Len(q) : Passes(q[j], w[j - 1], v[j - 1], w[j], v[j])
  BY DEF Leads
<1> DEFINE W == [j \in Nat |-> w[j + 1]]
           V == [j \in Nat |-> v[j + 1]]
<1>2. Len(q) \in Nat /\ 1 \in 1 .. Len(q) /\ 1 - 1 = 0 /\ Len(s) \in Nat /\ Len(s) + 1 = Len(q)
  BY LenProperties
<1>3. W \in [Nat -> Nat] /\ V \in [Nat -> Content]
  OBVIOUS
<1>4. \A j \in Nat : W[j] = w[j + 1] /\ V[j] = v[j + 1]
  OBVIOUS
<1> HIDE DEF W, V
<1>5. Passes(q[1], g, x, w[1], v[1])
  BY <1>1, <1>2
<1>6. W[0] = w[1] /\ V[0] = v[1] /\ W[Len(s)] = k /\ V[Len(s)] = z
  <2>1. 0 \in Nat /\ 0 + 1 = 1
    OBVIOUS
  <2>2. W[0] = w[1] /\ V[0] = v[1]
    BY <1>4, <2>1
  <2>3. W[Len(s)] = w[Len(s) + 1] /\ V[Len(s)] = v[Len(s) + 1]
    BY <1>2, <1>4
  <2>4. QED
    BY <1>1, <1>2, <2>2, <2>3
<1>7. ASSUME NEW j \in 1 .. Len(s) PROVE Passes(s[j], W[j - 1], V[j - 1], W[j], V[j])
  <2>1. /\ j + 1 \in 1 .. Len(q) /\ (j + 1) - 1 = j /\ j - 1 \in Nat /\ j \in Nat
        /\ (j - 1) + 1 = j /\ j \in 1 .. Len(q) - 1
    BY <1>2
  <2>2. s[j] = q[j + 1]
    BY <2>1
  <2>3. Passes(q[j + 1], w[j], v[j], w[j + 1], v[j + 1])
    BY <1>1, <2>1
  <2>4. W[j - 1] = w[j] /\ V[j - 1] = v[j] /\ W[j] = w[j + 1] /\ V[j] = v[j + 1]
    BY <1>4, <2>1
  <2>5. QED
    BY <2>2, <2>3, <2>4
<1>8. Leads(s, w[1], v[1], k, z)
  BY <1>3, <1>6, <1>7 DEF Leads
<1>9. QED
  BY <1>5, <1>8

\* A client of which nothing is known stays on its way.
LEMMA LeadsBlindly ==
  ASSUME NEW q \in Seq(ToClient), NEW g, NEW x, NEW h, NEW y, Leads(q, g, x, h, y)
  PROVE  Leads(q, g, Base(0), h, Base(0))
<1>1. PICK w \in [Nat -> Nat], v \in [Nat -> Content] :
        /\ w[0] = g /\ v[0] = x /\ w[Len(q)] = h /\ v[Len(q)] = y
        /\ \A j \in 1 .. Len(q) : Passes(q[j], w[j - 1], v[j - 1], w[j], v[j])
  BY DEF Leads
<1> DEFINE V == [j \in Nat |-> Base(0)]
<1>2. Base(0) \in Content /\ ~Sure(Base(0))
  BY DEF Base, Content, Sure
<1>3. V \in [Nat -> Content] /\ \A j \in Nat : V[j] = Base(0)
  BY <1>2
<1> HIDE DEF V
<1>4. Len(q) \in Nat /\ \A j \in 1 .. Len(q) : j \in Nat
  BY LenProperties
<1>5. \A j \in 1 .. Len(q) : Passes(q[j], w[j - 1], V[j - 1], w[j], V[j])
  BY <1>1, <1>2, <1>3, <1>4 DEF Passes
<1>6. V[0] = Base(0) /\ V[Len(q)] = Base(0)
  BY <1>3, <1>4
<1>7. QED
  BY <1>1, <1>3, <1>5, <1>6 DEF Leads

\* The same for two.
LEMMA LeadsOnBoth ==
  ASSUME NEW m \in ToClient, NEW n \in ToClient, NEW g \in Nat, NEW x \in Content,
         NEW h \in Nat, NEW y \in Content, NEW k \in Nat, NEW z \in Content,
         Passes(m, g, x, h, y), Passes(n, h, y, k, z)
  PROVE  <<m, n>> \in Seq(ToClient) /\ Leads(<<m, n>>, g, x, k, z)
<1>1. /\ <<m>> \in Seq(ToClient) /\ <<n>> \in Seq(ToClient) /\ <<m, n>> \in Seq(ToClient)
      /\ Len(<<m>>) = 1 /\ Len(<<n>>) = 1 /\ Len(<<m, n>>) = 2
      /\ <<m>>[1] = m /\ <<n>>[1] = n /\ <<m, n>>[1] = m /\ <<m, n>>[2] = n
  OBVIOUS
<1>2. Leads(<<m>>, g, x, h, y) /\ Leads(<<n>>, h, y, k, z)
  BY LeadsOn
<1> DEFINE q == <<m>>
           s == <<n>>
           u == <<m, n>>
<1>3. Leads(q \o s, g, x, k, z)
  BY <1>1, <1>2, LeadsFurther
<1> HIDE DEF q, s, u
<1>4. u = q \o s
  <2>1. /\ q \in Seq(ToClient) /\ s \in Seq(ToClient) /\ u \in Seq(ToClient)
        /\ Len(q) = 1 /\ Len(s) = 1 /\ Len(u) = 2
        /\ q[1] = m /\ s[1] = n /\ u[1] = m /\ u[2] = n
    BY <1>1 DEF q, s, u
  <2>2. /\ q \o s \in Seq(ToClient) /\ Len(q \o s) = Len(q) + Len(s)
        /\ \A j \in 1 .. Len(q) + Len(s) :
             (q \o s)[j] = IF j <= Len(q) THEN q[j] ELSE s[j - Len(q)]
    BY <2>1, ConcatProperties
  <2>3. Len(q \o s) = 2 /\ 1 \in 1 .. 2 /\ 2 \in 1 .. 2 /\ 1 <= 1 /\ ~(2 <= 1) /\ 2 - 1 = 1
    BY <2>1, <2>2
  <2>4. (q \o s)[1] = m /\ (q \o s)[2] = n
    BY <2>1, <2>2, <2>3
  <2>5. \A j \in 1 .. Len(u) : u[j] = (q \o s)[j]
    <3>1. \A j \in 1 .. 2 : j = 1 \/ j = 2
      OBVIOUS
    <3>2. QED
      BY <2>1, <2>4, <3>1
  <2>6. QED
    BY <2>1, <2>2, <2>3, <2>5, SeqEqual
<1>5. QED
  BY <1>1, <1>3, <1>4 DEF u

\* On the way a generation follows from the one before; nothing need be known.
LEMMA PassesBlindly ==
  ASSUME NEW m \in ToClient, NEW g \in Nat
  PROVE  /\ Base(0) \in Content /\ After(m, g) \in Nat
         /\ Passes(m, g, Base(0), After(m, g), Base(0))
<1>1. Base(0) \in Content /\ ~Sure(Base(0))
  BY DEF Base, Content, Sure
<1>2. After(m, g) \in Nat
  BY KindsHaveGens DEF After
<1>3. QED
  BY <1>1, <1>2 DEF Passes

-----------------------------------------------------------------------------
(* What a client knows, and what it will be told *)

\* The world of c holds x, unless what it held was applied too late (crossed);
\* no take of its waits for the content and what it still holds is older.
InStep(c, x) ==
  /\ x = store[c] \/ crossed[c]
  /\ known[c] /\ take[c].waits # "source"
  /\ \A i \in DOMAIN held[c] : held[c][i].late

\* Whoever has the cell loaded ends with the generation and the record of the
\* server.
Ends(c, g, x) ==
  /\ g <= generation
  /\ c \in Near(where) => g = generation /\ (Recorded => x = box)

\* What is under way takes c there from where it is.
Foretold(c) ==
  \E x0, g, x : /\ Leads(toClient[c], cgen[c], x0, g, x)
                /\ Sure(x0) => InStep(c, x0)
                /\ Ends(c, g, x)

Informed ==
  /\ IInv /\ (owner # NoClient => generation # 0)
  /\ \A c \in Clients : Foretold(c)

\* Nothing happens to c.
SameClient(c) ==
  /\ cgen'[c] = cgen[c] /\ store'[c] = store[c] /\ known'[c] = known[c]
  /\ held'[c] = held[c] /\ take'[c] = take[c] /\ crossed'[c] = crossed[c]

LEMMA SameForAll == UNCHANGED clientVars => \A c : SameClient(c)
BY DEF clientVars, SameClient

LEMMA ForetoldBy ==
  ASSUME NEW c \in Clients, SameClient(c), NEW x0, NEW g, NEW x,
         Leads(toClient'[c], cgen[c], x0, g, x), Sure(x0) => InStep(c, x0), Ends(c, g, x)'
  PROVE  Foretold(c)'
<1>1. Sure(x0) => InStep(c, x0)'
  BY DEF SameClient, InStep
<1>2. Leads(toClient'[c], cgen'[c], x0, g, x)
  BY DEF SameClient
<1>3. QED
  BY <1>1, <1>2 DEF Foretold

\* Nothing new is under way either.
LEMMA ForetoldStays ==
  ASSUME NEW c \in Clients, SameClient(c), Foretold(c), toClient'[c] = toClient[c],
         UNCHANGED <<generation, where, box>>
  PROVE  Foretold(c)'
<1>1. PICK x0, g, x : /\ Leads(toClient[c], cgen[c], x0, g, x)
                      /\ Sure(x0) => InStep(c, x0)
                      /\ Ends(c, g, x)
  BY DEF Foretold
<1>2. Ends(c, g, x)'
  BY <1>1 DEF Ends, Recorded, Near
<1>3. QED
  BY <1>1, <1>2, ForetoldBy

\* One part more is under way.
LEMMA ForetoldAfter ==
  ASSUME TypeOK, NEW c \in Clients, SameClient(c), NEW s \in Seq(ToClient),
         toClient'[c] = toClient[c] \o s, NEW x0, NEW g, NEW x, NEW h, NEW y,
         Leads(toClient[c], cgen[c], x0, g, x), Sure(x0) => InStep(c, x0),
         Leads(s, g, x, h, y), Ends(c, h, y)'
  PROVE  Foretold(c)'
<1>1. toClient[c] \in Seq(ToClient)
  BY DEF TypeOK
<1>2. Leads(toClient'[c], cgen[c], x0, h, y)
  BY <1>1, LeadsFurther
<1>3. QED
  BY <1>2, ForetoldBy

\* Of a client of which nothing is known, its generation is.
LEMMA ForetoldBlindly ==
  ASSUME TypeOK, NEW c \in Clients, Foretold(c)
  PROVE  \E g \in Nat : /\ Leads(toClient[c], cgen[c], Base(0), g, Base(0))
                        /\ g <= generation
                        /\ c \in Near(where) => g = generation
<1>1. PICK x0, g, x : Leads(toClient[c], cgen[c], x0, g, x) /\ Ends(c, g, x)
  BY DEF Foretold
<1>2. toClient[c] \in Seq(ToClient)
  BY DEF TypeOK
<1>3. g \in Nat /\ Leads(toClient[c], cgen[c], Base(0), g, Base(0))
  BY <1>1, <1>2, LeadsTypes, LeadsBlindly
<1>4. QED
  BY <1>1, <1>3 DEF Ends

-----------------------------------------------------------------------------
(* The server tells everybody *)

LEMMA MoveTells ==
  ASSUME Informed, NEW c \in Clients, NEW w \in {"here", "beside", "away"},
         NEW o \in Clients \cup {NoClient}, Move(c, w, o), NEW d \in Clients
  PROVE  Foretold(d)'
<1>0. PICK G : G = Refreshed(o)
  OBVIOUS
<1> DEFINE there == [where EXCEPT ![c] = w]
           news == IF d \in Near(there) THEN <<Authority(G, d, o)>> ELSE <<>>
           state == IF d = c /\ w # "away" /\ where[c] = "away" /\ Recorded
                    THEN <<SetTo(G, box)>> ELSE <<>>
<1>1. TypeOK /\ Served /\ (owner # NoClient => generation # 0) /\ Foretold(d)
  BY DEF Informed, IInv
<1>2. /\ generation' = G /\ owner' = o /\ box' = box /\ where' = there
      /\ toClient'[d] = toClient[d] \o news \o state
      /\ UNCHANGED clientVars
      /\ IF Near(there) = {} THEN o = NoClient ELSE o \in Near(there)
  BY <1>0 DEF Move
<1>3. generation \in Nat /\ G \in Nat /\ generation <= G /\ (o = owner => G = generation)
      /\ (o # owner => G # 0)
  BY <1>0, <1>1 DEF Refreshed, TypeOK
<1>4. d \in Near(there) => G # 0
  BY <1>1, <1>2, <1>3 DEF Near
<1>5. SameClient(d)
  BY <1>2, SameForAll
<1>6. PICK x0, g, x : /\ Leads(toClient[d], cgen[d], x0, g, x)
                      /\ Sure(x0) => InStep(d, x0)
                      /\ Ends(d, g, x)
  BY <1>1 DEF Foretold
<1>7. toClient[d] \in Seq(ToClient)
  BY <1>1 DEF TypeOK
<1>8. g \in Nat /\ x \in Content /\ g <= generation /\ g <= G
  <2>1. g \in Nat /\ x \in Content /\ g <= generation
    BY <1>6, <1>7, LeadsTypes DEF Ends
  <2>2. QED
    BY <1>3, <2>1
<1>9. CASE d \notin Near(there)
  <2>1. news = <<>> /\ state = <<>>
    BY <1>9, <1>1 DEF Near, TypeOK
  <2>2. toClient'[d] = toClient[d]
    BY <1>2, <1>7, <2>1, ConcatEmptySeq
  <2>3. Ends(d, g, x)'
    BY <1>2, <1>8, <1>9 DEF Ends, Near
  <2>4. QED
    BY <1>5, <1>6, <2>2, <2>3, ForetoldBy
<1>10. CASE d \in Near(there)
  <2> DEFINE a == Authority(G, d, o)
  <2>1. a \in ToClient /\ news = <<a>>
    BY <1>3, <1>10 DEF Authority, ToClient
  <2>2. Passes(a, g, x, G, x)
    BY <1>8 DEF Authority, Passes, After, Reads
  <2>3. CASE d = c /\ w # "away" /\ where[c] = "away" /\ Recorded
    <3>1. PICK z \in Full : z = box
      BY <1>1, <2>3, BoxFull
    <3> DEFINE s == SetTo(G, z)
    <3>2. z \in Content /\ s \in ToClient /\ state = <<s>>
      BY <1>3, <2>3, <3>1 DEF SetTo, ToClient, Full, Content
    <3>3. Passes(s, G, x, G, z)
      BY <1>4, <1>10 DEF SetTo, Passes, After, Reads
    <3>4. Leads(<<a>> \o <<s>>, g, x, G, z) /\ <<a>> \o <<s>> \in Seq(ToClient)
      <4>1. Leads(<<a>>, g, x, G, x) /\ <<a>> \in Seq(ToClient) /\ <<s>> \in Seq(ToClient)
        BY <1>3, <1>8, <2>1, <2>2, <3>2, LeadsOn, One
      <4>2. Leads(<<s>>, G, x, G, z)
        BY <1>3, <1>8, <3>2, <3>3, LeadsOn
      <4> HIDE DEF a, s
      <4>3. QED
        BY <4>1, <4>2, LeadsFurther, ConcatProperties
    <3>5. toClient'[d] = toClient[d] \o (<<a>> \o <<s>>)
      <4>1. toClient'[d] = toClient[d] \o <<a>> \o <<s>>
        BY <1>2, <2>1, <3>2
      <4>2. <<a>> \in Seq(ToClient) /\ <<s>> \in Seq(ToClient)
        BY <2>1, <3>2, One
      <4> HIDE DEF a, s
      <4>3. QED
        BY <1>7, <4>1, <4>2, ConcatAssociative
    <3>6. Ends(d, G, z)'
      BY <1>2, <1>3, <3>1 DEF Ends
    <3> HIDE DEF a, s
    <3>7. QED
      BY <1>1, <1>5, <1>6, <3>4, <3>5, <3>6, ForetoldAfter
  <2>4. CASE ~(d = c /\ w # "away" /\ where[c] = "away" /\ Recorded)
    <3>1. toClient'[d] = toClient[d] \o <<a>>
      <4>1. state = <<>>
        BY <2>4
      <4>2. toClient[d] \o <<a>> \in Seq(ToClient)
        BY <1>7, <2>1, ConcatProperties, One
      <4>3. (toClient[d] \o <<a>>) \o <<>> = toClient[d] \o <<a>>
        BY <4>2
      <4>4. QED
        BY <1>2, <2>1, <4>1, <4>3
    <3>2. Leads(<<a>>, g, x, G, x) /\ <<a>> \in Seq(ToClient)
      BY <1>3, <1>8, <2>1, <2>2, LeadsOn, One
    <3>3. Recorded => x = box
      <4>1. Recorded => d \in Near(where)
        BY <1>1, <1>10, <2>4 DEF Near, TypeOK
      <4>2. QED
        BY <1>6, <4>1 DEF Ends
    <3>4. Ends(d, G, x)'
      BY <1>2, <1>3, <3>3 DEF Ends, Recorded
    <3> HIDE DEF a
    <3>5. QED
      BY <1>1, <1>5, <1>6, <3>1, <3>2, <3>4, ForetoldAfter
  <2>5. QED
    BY <2>3, <2>4
<1>11. QED
  BY <1>9, <1>10

LEMMA PublishTells ==
  ASSUME Informed, Publish, NEW d \in Clients
  PROVE  Foretold(d)'
<1> DEFINE a == ActorsOf(generation)
<1>1. TypeOK /\ Foretold(d)
  BY DEF Informed, IInv
<1>2. SameClient(d) /\ UNCHANGED <<generation, where, box>>
  BY SameForAll DEF Publish, serverVars
<1>3. CASE toClient'[d] = toClient[d]
  BY <1>1, <1>2, <1>3, ForetoldStays
<1>4. CASE d \in Near(where) /\ toClient'[d] = toClient[d] \o <<a>>
  <2>1. PICK x0, g, x : /\ Leads(toClient[d], cgen[d], x0, g, x)
                        /\ Sure(x0) => InStep(d, x0)
                        /\ Ends(d, g, x)
    BY <1>1 DEF Foretold
  <2>2. g = generation /\ generation \in Nat /\ x \in Content
    BY <1>1, <1>4, <2>1, LeadsTypes DEF Ends, TypeOK
  <2>3. Passes(a, g, x, g, x) /\ a \in ToClient
    BY <2>2 DEF ActorsOf, Passes, After, Reads, ToClient
  <2>4. Leads(<<a>>, g, x, g, x) /\ <<a>> \in Seq(ToClient)
    BY <2>2, <2>3, LeadsOn, One
  <2>5. Ends(d, g, x)'
    BY <1>2, <2>1 DEF Ends, Recorded, Near
  <2> HIDE DEF a
  <2>6. QED
    BY <1>1, <1>2, <1>4, <2>1, <2>4, <2>5, ForetoldAfter
<1>5. QED
  BY <1>3, <1>4 DEF Publish

\* One packet more on the way of a client of which nothing is known.
LEMMA BlindlyOn ==
  ASSUME NEW q \in Seq(ToClient), NEW m \in ToClient, NEW g0, NEW g,
         Leads(q, g0, Base(0), g, Base(0))
  PROVE  /\ q \o <<m>> \in Seq(ToClient) /\ After(m, g) \in Nat
         /\ Leads(q \o <<m>>, g0, Base(0), After(m, g), Base(0))
<1>1. g \in Nat
  BY LeadsTypes
<1>2. /\ Base(0) \in Content /\ After(m, g) \in Nat
      /\ Passes(m, g, Base(0), After(m, g), Base(0))
  BY <1>1, PassesBlindly
<1>3. Leads(q \o <<m>>, g0, Base(0), After(m, g), Base(0))
  BY <1>2, LeadsOneOn
<1>4. QED
  BY <1>2, <1>3, One, ConcatProperties

LEMMA ResetTells ==
  ASSUME Informed, NEW o \in Clients \cup {NoClient}, Reset(o), NEW d \in Clients
  PROVE  Foretold(d)'
<1> DEFINE G == generation + 1
           H == IF o = NoClient THEN G ELSE G + 1
           near(ms) == IF d \in Near(where) THEN ms ELSE <<>>
           a == ActorsOf(G)
           r == ResetTo(G, epoch + 1)
           m == Authority(G, d, NoClient)
           n == Authority(H, d, o)
           k == Ask(H)
           ask == IF d = o /\ Recorded THEN <<k>> ELSE <<>>
           b == Base(0)
           q == toClient[d]
<1>1. TypeOK /\ Foretold(d)
  BY DEF Informed, IInv
<1>2. /\ generation' = H /\ where' = where /\ ~Recorded' /\ SameClient(d)
      /\ IF Near(where) = {} THEN o = NoClient ELSE o \in Near(where)
      /\ toClient'[d] = q \o near(<<a>>) \o <<r>> \o near(<<m, n>>) \o ask
  BY SameForAll DEF Reset, Base, Recorded
<1>3. /\ generation \in Nat /\ G \in Nat /\ H \in Nat /\ G <= H /\ G # 0 /\ generation < G
      /\ epoch + 1 \in Nat
  BY <1>1 DEF TypeOK
<1>4. /\ a \in ToClient /\ r \in ToClient /\ m \in ToClient /\ n \in ToClient /\ k \in ToClient
  BY <1>3 DEF ActorsOf, ResetTo, Authority, Ask, ToClient
<1>5. q \in Seq(ToClient) /\ b \in Content /\ ~Sure(b)
  BY <1>1 DEF TypeOK, Base, Content, Sure
<1>6. PICK g \in Nat : Leads(q, cgen[d], b, g, b) /\ g <= generation
  BY <1>1, ForetoldBlindly
<1>7. /\ After(a, g) = G
      /\ After(r, g) = 0 /\ After(r, G) = 0
      /\ After(m, 0) = G /\ After(n, G) = H /\ After(k, H) = H
  BY <1>3, <1>6 DEF ActorsOf, ResetTo, Authority, Ask, After
<1>8. ASSUME NEW h, Leads(toClient'[d], cgen[d], b, h, b), h \in {0, H},
             d \in Near(where) => h = H
      PROVE  Foretold(d)'
  <2>1. Ends(d, h, b)'
    BY <1>2, <1>3, <1>8 DEF Ends, Near
  <2>2. QED
    BY <1>2, <1>5, <1>8, <2>1, ForetoldBy
<1>9. CASE d \notin Near(where)
  <2>1. d # o
    BY <1>2, <1>9, ClientAssumption
  <2>2. toClient'[d] = q \o <<>> \o <<r>> \o <<>> \o <<>>
    BY <1>2, <1>9, <2>1
  <2>3. q \o <<r>> \in Seq(ToClient) /\ Leads(q \o <<r>>, cgen[d], b, 0, b)
    BY <1>4, <1>5, <1>6, <1>7, BlindlyOn
  <2>4. toClient'[d] = q \o <<r>>
    <3> HIDE DEF q, r
    <3>1. q \o <<>> = q /\ (q \o <<r>>) \o <<>> = q \o <<r>>
      BY <1>5, <2>3
    <3>2. QED
      BY <2>2, <3>1
  <2>5. QED
    BY <1>8, <1>9, <2>3, <2>4
<1>10. CASE d \in Near(where)
  <2> DEFINE u == q \o <<a>>
             v == u \o <<r>>
             s == v \o <<m, n>>
  <2>1. u \in Seq(ToClient) /\ Leads(u, cgen[d], b, G, b)
    BY <1>4, <1>5, <1>6, <1>7, BlindlyOn
  <2> HIDE DEF u
  <2>2. v \in Seq(ToClient) /\ Leads(v, cgen[d], b, 0, b)
    BY <1>4, <1>7, <2>1, BlindlyOn
  <2> HIDE DEF v
  <2>3. <<m, n>> \in Seq(ToClient) /\ Leads(<<m, n>>, 0, b, H, b)
    <3>1. Passes(m, 0, b, G, b) /\ Passes(n, G, b, H, b)
      BY <1>5, <1>7 DEF Passes
    <3>2. QED
      BY <1>3, <1>4, <1>5, <3>1, LeadsOnBoth
  <2>4. s \in Seq(ToClient) /\ Leads(s, cgen[d], b, H, b)
    BY <2>2, <2>3, LeadsFurther, ConcatProperties
  <2>5. toClient'[d] = s \o ask
    BY <1>2, <1>10 DEF u, v
  <2> HIDE DEF s
  <2>6. CASE d = o /\ Recorded
    <3>1. toClient'[d] = s \o <<k>>
      BY <2>5, <2>6
    <3>2. Leads(s \o <<k>>, cgen[d], b, H, b)
      BY <1>4, <1>7, <2>4, BlindlyOn
    <3>3. QED
      BY <1>8, <3>1, <3>2
  <2>7. CASE ~(d = o /\ Recorded)
    <3>1. toClient'[d] = s
      BY <2>4, <2>5, <2>7
    <3>2. QED
      BY <1>8, <2>4, <3>1
  <2>8. QED
    BY <2>6, <2>7
<1>11. QED
  BY <1>9, <1>10

\* A packet that says nothing of the content, and of no other generation.
LEMMA TellsNothing ==
  ASSUME Informed, NEW d \in Clients, SameClient(d), NEW m \in ToClient,
         toClient'[d] = toClient[d] \o <<m>>, UNCHANGED <<generation, where, box>>,
         m.kind = "ask" \/ (m.kind = "result" /\ m.outcome # "unavailable")
  PROVE  Foretold(d)'
<1>1. TypeOK /\ Foretold(d) /\ toClient[d] \in Seq(ToClient)
  BY DEF Informed, IInv, TypeOK
<1>2. PICK x0, g, x : /\ Leads(toClient[d], cgen[d], x0, g, x)
                      /\ Sure(x0) => InStep(d, x0)
                      /\ Ends(d, g, x)
  BY <1>1 DEF Foretold
<1>3. g \in Nat /\ x \in Content
  BY <1>1, <1>2, LeadsTypes
<1>4. Passes(m, g, x, g, x)
  BY DEF Passes, After, Reads
<1>5. <<m>> \in Seq(ToClient) /\ Leads(<<m>>, g, x, g, x)
  BY <1>3, <1>4, LeadsOn, One
<1>6. Ends(d, g, x)'
  BY <1>2 DEF Ends, Recorded, Near
<1>7. QED
  BY <1>1, <1>2, <1>5, <1>6, ForetoldAfter

\* The content, for a client with the cell loaded.
LEMMA TellsContent ==
  ASSUME Informed, NEW d \in Near(where), SameClient(d), NEW z \in Full, box' = z,
         toClient'[d] = toClient[d] \o <<SetTo(generation, z)>>, generation # 0,
         UNCHANGED <<generation, where>>
  PROVE  Foretold(d)'
<1> DEFINE m == SetTo(generation, z)
<1>1. TypeOK /\ Foretold(d) /\ toClient[d] \in Seq(ToClient) /\ d \in Clients
  BY DEF Informed, IInv, TypeOK, Near
<1>2. PICK x0, g, x : /\ Leads(toClient[d], cgen[d], x0, g, x)
                      /\ Sure(x0) => InStep(d, x0)
                      /\ Ends(d, g, x)
  BY <1>1 DEF Foretold
<1>3. g \in Nat /\ x \in Content /\ g = generation
  BY <1>1, <1>2, LeadsTypes DEF Ends
<1>4. m \in ToClient /\ Passes(m, g, x, g, z) /\ z \in Content
  BY <1>3 DEF Passes, After, Reads, SetTo, ToClient, Full, Content
<1>5. <<m>> \in Seq(ToClient) /\ Leads(<<m>>, g, x, g, z)
  BY <1>3, <1>4, LeadsOn, One
<1>6. Ends(d, g, z)'
  BY <1>2, <1>3 DEF Ends
<1> HIDE DEF m
<1>7. QED
  BY <1>1, <1>2, <1>5, <1>6, ForetoldAfter DEF m

\* One was taken out, for a client with the cell loaded.
LEMMA TellsRemoval ==
  ASSUME Informed, NEW c \in Clients, NEW m \in ToServer, ReceiveTake(c, m), Fenced(c, m), Recorded,
         box.items # 0, UNCHANGED <<generation, where, clientVars>>, NEW d \in Clients
  PROVE  Foretold(d)'
<1> DEFINE a == Removal(generation)
           r == Result(m, "done")
           s == IF d \in Near(where) THEN <<a>> ELSE <<>>
           t == IF d = c THEN <<r>> ELSE <<>>
           q == toClient[d]
<1>0. PICK z : z = [box EXCEPT !.items = box.items - 1]
  OBVIOUS
<1>1. /\ TypeOK /\ Foretold(d) /\ SameClient(d) /\ q \in Seq(ToClient)
      /\ generation \in Nat /\ box \in Full
  BY SameForAll, BoxFull DEF Informed, IInv, TypeOK
<1>2. m.kind = "take" /\ m.gen # 0 /\ m.gen = generation /\ c \in Near(where)
  BY DEF ReceiveTake, Fenced, Near
<1>3. box' = z /\ toClient'[d] = q \o s \o t
  BY <1>0 DEF ReceiveTake
<1>4. a \in ToClient /\ r \in ToClient /\ z \in Full /\ z \in Content
  BY <1>0, <1>1, <1>2 DEF Removal, Result, ToClient, ToServer, Full, Content
<1>5. box \in Content /\ Sure(box) /\ Less(box) = z
  BY <1>0, <1>1 DEF Recorded, Sure, Less, Full, Content
<1>6. PICK x0, g, x : /\ Leads(q, cgen[d], x0, g, x)
                      /\ Sure(x0) => InStep(d, x0)
                      /\ Ends(d, g, x)
  BY <1>1 DEF Foretold
<1>7. g \in Nat /\ x \in Content
  BY <1>1, <1>6, LeadsTypes
<1>8. CASE d \notin Near(where)
  <2>1. s = <<>> /\ t = <<>>
    BY <1>2, <1>8
  <2>2. toClient'[d] = q
    BY <1>1, <1>3, <2>1, ConcatEmptySeq
  <2>3. Ends(d, g, x)'
    BY <1>6, <1>8 DEF Ends, Near
  <2>4. QED
    BY <1>1, <1>6, <2>2, <2>3, ForetoldBy
<1>9. CASE d \in Near(where)
  <2>1. g = generation /\ x = box
    BY <1>6, <1>9 DEF Ends
  <2>2. Passes(a, g, x, g, z)
    BY <1>2, <1>5, <2>1 DEF Passes, After, Reads, Removal
  <2>3. <<a>> \in Seq(ToClient) /\ Leads(<<a>>, g, x, g, z)
    BY <1>4, <1>7, <2>2, LeadsOn, One
  <2>4. Ends(d, g, z)'
    BY <1>1, <1>3, <2>1 DEF Ends
  <2>5. toClient'[d] = q \o <<a>> \o t
    BY <1>3, <1>9
  <2>6. q \o <<a>> \in Seq(ToClient) /\ Leads(q \o <<a>>, cgen[d], x0, g, z)
    BY <1>1, <1>6, <2>3, LeadsFurther, ConcatProperties
  <2>7. CASE d = c
    <3>1. Passes(r, g, z, g, z)
      BY DEF Passes, After, Reads, Result
    <3>2. Leads((q \o <<a>>) \o <<r>>, cgen[d], x0, g, z)
      BY <1>4, <1>7, <2>6, <3>1, LeadsOneOn
    <3>3. toClient'[d] = (q \o <<a>>) \o <<r>>
      BY <2>5, <2>7
    <3>4. QED
      BY <1>1, <1>6, <2>4, <3>2, <3>3, ForetoldBy
  <2>8. CASE d # c
    <3> HIDE DEF a, q
    <3>1. toClient'[d] = q \o <<a>>
      BY <2>5, <2>6, <2>8
    <3>2. QED
      BY <1>1, <1>6, <2>4, <2>6, <3>1, ForetoldBy
  <2>9. QED
    BY <2>7, <2>8
<1>10. QED
  BY <1>8, <1>9

\* The content is not known: its authority is asked for it.
LEMMA TellsUnavailable ==
  ASSUME Informed, NEW c \in Clients, NEW m \in ToServer, ReceiveTake(c, m), Fenced(c, m), ~Recorded,
         UNCHANGED <<generation, where, clientVars>>, NEW d \in Clients
  PROVE  Foretold(d)'
<1> DEFINE a == Ask(generation)
           r == Result(m, "unavailable")
           s == IF d = owner THEN <<a>> ELSE <<>>
           t == IF d = c THEN <<r>> ELSE <<>>
           b == Base(0)
           q == toClient[d]
           u == q \o s
<1>1. /\ TypeOK /\ Foretold(d) /\ SameClient(d) /\ q \in Seq(ToClient)
      /\ generation \in Nat
  BY SameForAll DEF Informed, IInv, TypeOK
<1>2. m.kind = "take" /\ ~Recorded' /\ toClient'[d] = u \o t
  BY DEF ReceiveTake, Recorded
<1>3. a \in ToClient /\ r \in ToClient
  BY <1>1, <1>2 DEF Ask, Result, ToClient, ToServer
<1>4. PICK g \in Nat : /\ Leads(q, cgen[d], b, g, b)
                       /\ g <= generation
                       /\ d \in Near(where) => g = generation
  BY <1>1, ForetoldBlindly
<1>5. After(a, g) = g /\ After(r, g) = g /\ ~Sure(b)
  BY DEF After, Ask, Result, Sure, Base
<1>6. u \in Seq(ToClient) /\ Leads(u, cgen[d], b, g, b)
  <2> HIDE DEF a, q
  <2>1. CASE d = owner
    BY <1>1, <1>3, <1>4, <1>5, <2>1, BlindlyOn
  <2>2. CASE d # owner
    BY <1>1, <1>4, <2>2
  <2>3. QED
    BY <2>1, <2>2
<1> HIDE DEF u
<1>7. Leads(u \o t, cgen[d], b, g, b)
  <2> HIDE DEF r
  <2>1. CASE d = c
    BY <1>3, <1>5, <1>6, <2>1, BlindlyOn
  <2>2. CASE d # c
    BY <1>6, <2>2
  <2>3. QED
    BY <2>1, <2>2
<1>8. Ends(d, g, b)'
  BY <1>2, <1>4 DEF Ends, Near
<1>9. QED
  BY <1>1, <1>2, <1>5, <1>7, <1>8, ForetoldBy

LEMMA ReceiveTells ==
  ASSUME Informed, NEW c \in Clients, NEW i \in DOMAIN toServer[c], Receive(c, i),
         NEW d \in Clients
  PROVE  Foretold(d)'
<1> DEFINE m == toServer[c][i]
<1>1. /\ TypeOK /\ Foretold(d) /\ SameClient(d) /\ UNCHANGED <<generation, where, clientVars>>
      /\ generation \in Nat /\ box \in Content
  BY SameForAll DEF Informed, IInv, Receive, TypeOK
<1>2. m \in ToServer /\ (m.kind = "set" => m.content \in Full)
  BY <1>1, QueueTypes DEF ToServer
<1>3. ReceiveAsk(c, m) \/ ReceiveSet(c, m) \/ ReceiveTake(c, m)
  BY DEF Receive
<1> HIDE DEF m
<1>4. ASSUME toClient'[d] = toClient[d], box' = box PROVE Foretold(d)'
  BY <1>1, <1>4, ForetoldStays
<1>5. ASSUME NEW e, NEW n \in ToClient, Reply(e, <<n>>), box' = box,
             n.kind = "ask" \/ (n.kind = "result" /\ n.outcome # "unavailable")
      PROVE  Foretold(d)'
  <2>1. toClient'[d] = IF d = e THEN toClient[d] \o <<n>> ELSE toClient[d]
    BY <1>1, <1>5 DEF Reply, TypeOK
  <2>2. QED
    BY <1>1, <1>4, <1>5, <2>1, TellsNothing
<1>6. ASSUME Reply(c, <<Current>>), box' = box, Fenced(c, m), Recorded
      PROVE  Foretold(d)'
  <2>1. /\ box \in Full /\ generation # 0 /\ c \in Near(where)
        /\ Current = SetTo(generation, box)
    BY <1>1, <1>6, BoxFull DEF Fenced, Near, Current
  <2>2. toClient'[d] = IF d = c THEN toClient[d] \o <<Current>> ELSE toClient[d]
    BY <1>1, <1>6 DEF Reply, TypeOK
  <2>3. CASE d = c
    <3>1. toClient'[d] = toClient[d] \o <<SetTo(generation, box)>>
      BY <2>1, <2>2, <2>3
    <3>2. QED
      BY <1>1, <1>6, <2>1, <2>3, <3>1, TellsContent
  <2>4. CASE d # c
    BY <1>4, <1>6, <2>2, <2>4
  <2>5. QED
    BY <2>3, <2>4
<1>7. CASE ReceiveAsk(c, m)
  <2>1. Ask(generation) \in ToClient /\ Ask(generation).kind = "ask" /\ box' = box
    BY <1>1, <1>7 DEF Ask, ToClient, ReceiveAsk
  <2>2. \/ UNCHANGED toClient \/ Reply(owner, <<Ask(generation)>>)
        \/ (Reply(c, <<Current>>) /\ Fenced(c, m) /\ Recorded)
    BY <1>7 DEF ReceiveAsk
  <2>3. QED
    BY <1>4, <1>5, <1>6, <2>1, <2>2
<1>8. CASE ReceiveSet(c, m)
  <2>1. \/ UNCHANGED <<box, toClient>>
        \/ (Reply(c, <<Current>>) /\ box' = box /\ Fenced(c, m) /\ Recorded)
        \/ Accepted(c, m) /\ Fenced(c, m)
    BY <1>8 DEF ReceiveSet
  <2>2. CASE Accepted(c, m) /\ Fenced(c, m)
    <3>1. m.content \in Full /\ box' = m.content /\ generation # 0
      BY <1>2, <1>8, <2>2 DEF Accepted, Fenced, ReceiveSet
    <3>2. CASE d \in Near(where)
      <4>1. toClient'[d] = Append(toClient[d], SetTo(generation, m.content))
        BY <2>2, <3>2 DEF Accepted
      <4>2. SetTo(generation, m.content) \in ToClient /\ toClient[d] \in Seq(ToClient)
        BY <1>1, <3>1 DEF SetTo, ToClient, TypeOK
      <4>3. toClient'[d] = toClient[d] \o <<SetTo(generation, m.content)>>
        BY <4>1, <4>2, AppendIsConcat
      <4>4. QED
        BY <1>1, <3>1, <3>2, <4>3, TellsContent
    <3>3. CASE d \notin Near(where)
      <4>1. toClient'[d] = toClient[d]
        BY <2>2, <3>3 DEF Accepted
      <4>2. PICK x0, g, x : /\ Leads(toClient[d], cgen[d], x0, g, x)
                            /\ Sure(x0) => InStep(d, x0)
                            /\ Ends(d, g, x)
        BY <1>1 DEF Foretold
      <4>3. Ends(d, g, x)'
        BY <1>1, <3>3, <4>2 DEF Ends, Near
      <4>4. QED
        BY <1>1, <4>1, <4>2, <4>3, ForetoldBy
    <3>4. QED
      BY <3>2, <3>3
  <2>3. QED
    BY <1>4, <1>6, <2>1, <2>2
<1>9. CASE ReceiveTake(c, m)
  <2>1. /\ Result(m, "refused") \in ToClient /\ Result(m, "refused").kind = "result"
        /\ Result(m, "refused").outcome # "unavailable"
    BY <1>2, <1>9 DEF Result, ToClient, ToServer, ReceiveTake
  <2>2. CASE Reply(c, <<Result(m, "refused")>>) /\ box' = box
    BY <1>5, <2>1, <2>2
  <2>3. CASE Fenced(c, m) /\ ~Recorded
    BY <1>1, <1>2, <1>9, <2>3, TellsUnavailable
  <2>4. CASE Fenced(c, m) /\ Recorded /\ box.items # 0
    BY <1>1, <1>2, <1>9, <2>4, TellsRemoval
  <2>5. QED
    BY <1>9, <2>2, <2>3, <2>4 DEF ReceiveTake
<1>10. QED
  BY <1>3, <1>7, <1>8, <1>9

-----------------------------------------------------------------------------
(* The client follows *)

\* A snapshot changes only what is not resolved.
LEMMA SnapshotKeeps ==
  ASSUME TypeOK, NEW c \in Clients, NEW r \in Rolls, Snapshot(c, r)
  PROVE  Sure(store[c]) => store'[c] = store[c]
BY DEF Snapshot, Sure, TypeOK

\* A packet takes the client to the next generation, and no other client
\* anywhere.
LEMMA GenerationIs ==
  ASSUME TypeOK, NEW c \in Clients, NEW r \in Rolls, NEW i \in DOMAIN toClient[c],
         Deliver(c, i, r)
  PROVE  /\ cgen'[c] = After(toClient[c][i], cgen[c])
         /\ \A d \in Clients \ {c} : SameClient(d)
<1> DEFINE m == toClient[c][i]
<1>1. /\ m \in ToClient /\ (m.kind # "result" => m.gen \in Nat) /\ cgen[c] \in Nat
      /\ cgen \in [Clients -> Nat] /\ mine \in [Clients -> BOOLEAN]
      /\ store \in [Clients -> Content] /\ known \in [Clients -> BOOLEAN]
      /\ held \in [Clients -> Seq(Held)] /\ take \in [Clients -> Takes]
      /\ crossed \in [Clients -> BOOLEAN]
  BY QueueTypes, KindsHaveGens DEF TypeOK
<1>2. OnUpdate(c, m) \/ OnAsk(c, m, r) \/ OnReset(c, m)
        \/ OnAuthority(c, m) \/ OnActors(c, m) \/ OnResult(c, m)
  BY DEF Deliver
<1> HIDE DEF m
<1> DEFINE Goal == cgen'[c] = After(m, cgen[c]) /\ \A d \in Clients \ {c} : SameClient(d)
<1>3. ASSUME OnUpdate(c, m) PROVE Goal
  <2>1. m.kind \in {"set", "remove"} /\ cgen' = cgen
    BY <1>3 DEF OnUpdate, clientVars
  <2>2. After(m, cgen[c]) = cgen[c]
    BY <2>1 DEF After
  <2>3. ASSUME NEW h, Update(c, h), NEW d \in Clients \ {c}
        PROVE  /\ store'[d] = store[d] /\ known'[d] = known[d] /\ held'[d] = held[d]
               /\ crossed'[d] = crossed[d]
    BY <1>1, <2>3 DEF Update
  <2>4. ASSUME Woken(c) \/ UNCHANGED take, NEW d \in Clients \ {c}
        PROVE  take'[d] = take[d]
    BY <1>1, <2>4 DEF Woken
  <2>5. \/ UNCHANGED clientVars
        \/ (\E h : Update(c, h)) /\ (Woken(c) \/ UNCHANGED take)
    BY <1>3 DEF OnUpdate
  <2>6. CASE UNCHANGED clientVars
    BY <2>1, <2>2, <2>6, SameForAll
  <2>7. CASE (\E h : Update(c, h)) /\ (Woken(c) \/ UNCHANGED take)
    BY <2>1, <2>2, <2>3, <2>4, <2>7 DEF SameClient
  <2>8. QED
    BY <2>5, <2>6, <2>7
<1>4. ASSUME OnAsk(c, m, r) PROVE Goal
  <2>1. /\ After(m, cgen[c]) = cgen[c] /\ UNCHANGED <<cgen, known, held, take, crossed>>
    BY <1>4 DEF OnAsk, After
  <2>2. \A d \in Clients \ {c} : store'[d] = store[d]
    BY <1>1, <1>4 DEF OnAsk, Snapshot
  <2>3. QED
    BY <2>1, <2>2 DEF SameClient
<1>5. ASSUME OnReset(c, m) PROVE Goal
  <2>1. CASE Accept(c, m)
    <3>1. cgen'[c] = 0 /\ After(m, cgen[c]) = 0
      BY <1>1, <1>5, <2>1 DEF OnReset, Accept, After
    <3>2. \A d \in Clients \ {c} : SameClient(d)
      BY <1>1, <1>5, <2>1 DEF OnReset, SameClient
    <3>3. QED
      BY <3>1, <3>2
  <2>2. CASE ~Accept(c, m)
    <3>1. UNCHANGED clientVars /\ After(m, cgen[c]) = cgen[c]
      BY <1>1, <1>5, <2>2 DEF OnReset, Accept, After
    <3>2. QED
      BY <3>1, SameForAll DEF clientVars
  <2>3. QED
    BY <2>1, <2>2
<1>6. ASSUME OnAuthority(c, m) PROVE Goal
  <2>1. cgen'[c] = After(m, cgen[c])
    BY <1>1, <1>6 DEF OnAuthority, After
  <2>2. \A d \in Clients \ {c} : SameClient(d)
    BY <1>1, <1>6 DEF OnAuthority, SameClient
  <2>3. QED
    BY <2>1, <2>2
<1>7. ASSUME OnActors(c, m) PROVE Goal
  BY <1>1, <1>7 DEF OnActors, After, SameClient
<1>8. ASSUME OnResult(c, m) PROVE Goal
  BY <1>1, <1>8 DEF OnResult, After, SameClient
<1>9. Goal
  BY <1>2, <1>3, <1>4, <1>5, <1>6, <1>7, <1>8
<1>10. QED
  BY <1>9 DEF m

\* In the cell, what it reads is what it has then.
LEMMA FollowsUpdate ==
  ASSUME TypeOK, NEW c \in Clients, where[c] # "away", NEW m \in ToClient, OnUpdate(c, m),
         NEW x \in Content, NEW y \in Content, NEW h,
         Passes(m, cgen[c], x, h, y), Sure(x) => InStep(c, x), Sure(y)
  PROVE  InStep(c, y)'
<1>1. /\ store \in [Clients -> Content] /\ known \in [Clients -> BOOLEAN]
      /\ held \in [Clients -> Seq(Held)] /\ take \in [Clients -> Takes]
      /\ crossed \in [Clients -> BOOLEAN] /\ held[c] \in Seq(Held)
  BY DEF TypeOK
<1>2. m.kind \in {"set", "remove"} /\ m.gen = cgen[c] /\ m.gen # 0
  BY DEF OnUpdate, Passes, Reads
<1>3. Accept(c, m)
  BY <1>2 DEF Accept
<1>4. ASSUME NEW u, Update(c, u)
      PROVE  /\ store'[c] = Applied(store[c], u) /\ known'[c]
             /\ crossed'[c] = (crossed[c] /\ ~u.set)
             /\ \A i \in DOMAIN held'[c] : held'[c][i].late
  <2>1. /\ store'[c] = Applied(store[c], u) /\ known'[c] /\ held'[c] = Later(held[c])
        /\ crossed'[c] = (crossed[c] /\ ~u.set)
    BY <1>1, <1>4 DEF Update
  <2>2. QED
    BY <1>1, <2>1, LaterType
<1>5. CASE m.kind = "set"
  <2> DEFINE u == [set |-> TRUE, content |-> m.content, late |-> FALSE]
  <2>1. Update(c, u) /\ Woken(c)
    BY <1>3, <1>5 DEF OnUpdate
  <2>2. y = m.content
    BY <1>5 DEF Passes, Reads
  <2>3. Applied(store[c], u) = m.content /\ u.set
    BY DEF Applied
  <2>4. take'[c].waits # "source"
    <3>1. CASE take[c].waits = "source"
      <4>1. take' = [take EXCEPT ![c] = [take[c] EXCEPT !.waits = "answer"]]
        BY <2>1, <3>1 DEF Woken
      <4>2. take'[c] = [take[c] EXCEPT !.waits = "answer"] /\ take[c] \in Takes
        BY <1>1, <4>1
      <4>3. QED
        BY <4>2 DEF Takes
    <3>2. CASE take[c].waits # "source"
      BY <2>1, <3>2 DEF Woken
    <3>3. QED
      BY <3>1, <3>2
  <2> HIDE DEF u
  <2>5. QED
    BY <1>4, <2>1, <2>2, <2>3, <2>4 DEF InStep
<1>6. CASE m.kind = "remove"
  <2> DEFINE u == [set |-> FALSE, content |-> Base(0), late |-> FALSE]
  <2>1. Update(c, u) /\ take' = take
    BY <1>3, <1>6 DEF OnUpdate
  <2>2. Sure(x) /\ y = Less(x) /\ InStep(c, x)
    BY <1>6 DEF Passes, Reads
  <2>3. Applied(store[c], u) = Less(store[c]) /\ ~u.set
    BY DEF Applied, Less
  <2> HIDE DEF u
  <2>4. QED
    BY <1>4, <2>1, <2>2, <2>3 DEF InStep
<1>7. QED
  BY <1>2, <1>5, <1>6

LEMMA Follows ==
  ASSUME TypeOK, NEW c \in Clients, where[c] # "away", NEW r \in Rolls, NEW m \in ToClient,
         OnUpdate(c, m) \/ OnAsk(c, m, r) \/ OnReset(c, m)
           \/ OnAuthority(c, m) \/ OnActors(c, m) \/ OnResult(c, m),
         NEW x \in Content, NEW y \in Content, NEW h,
         Passes(m, cgen[c], x, h, y), Sure(x) => InStep(c, x), Sure(y)
  PROVE  InStep(c, y)'
<1>1. CASE OnUpdate(c, m)
  BY <1>1, FollowsUpdate
<1>2. CASE ~OnUpdate(c, m)
  <2>1. OnReset(c, m) => m.kind = "reset"
    BY DEF OnReset
  <2>2. m.kind # "reset"
    BY DEF Passes, Reads
  <2>3. OnAsk(c, m, r) \/ OnAuthority(c, m) \/ OnActors(c, m) \/ OnResult(c, m)
    BY <1>2, <2>1, <2>2
  <2>4. m.kind \notin {"set", "remove"}
    BY <2>3 DEF OnAsk, OnAuthority, OnActors, OnResult
  <2>5. y = x /\ InStep(c, x) /\ Sure(x)
    BY <2>4 DEF Passes, Reads
  <2>6. CASE OnAsk(c, m, r)
    <3>1. /\ known'[c] = known[c] /\ take'[c] = take[c] /\ held'[c] = held[c]
          /\ crossed'[c] = crossed[c]
      BY <2>6 DEF OnAsk
    <3>2. Sure(store[c]) => store'[c] = store[c]
      BY <2>6, SnapshotKeeps DEF OnAsk
    <3>3. QED
      BY <2>5, <3>1, <3>2 DEF InStep
  <2>7. CASE OnAuthority(c, m)
    BY <2>5, <2>7 DEF OnAuthority, InStep
  <2>8. CASE OnActors(c, m)
    BY <2>5, <2>8 DEF OnActors, InStep
  <2>9. CASE OnResult(c, m)
    <3>1. m.outcome # "unavailable"
      BY <2>9 DEF OnResult, Passes, Reads
    <3>2. take'[c] \in {take[c], NoTake} /\ UNCHANGED <<store, known, held, crossed>>
      BY <2>9, <3>1 DEF OnResult, TypeOK
    <3>3. /\ store'[c] = store[c] /\ known'[c] = known[c] /\ held'[c] = held[c]
          /\ crossed'[c] = crossed[c]
      BY <3>2
    <3>4. take'[c].waits # "source"
      <4>1. take[c].waits # "source"
        BY <2>5 DEF InStep
      <4>2. NoTake.waits # "source"
        BY DEF NoTake
      <4>3. QED
        BY <3>2, <4>1, <4>2
    <3>5. QED
      BY <2>5, <3>3, <3>4 DEF InStep
  <2>10. QED
    BY <2>3, <2>6, <2>7, <2>8, <2>9
<1>3. QED
  BY <1>1, <1>2

\* In order, what arrives is what it reads next.
LEMMA DeliverTells ==
  ASSUME Informed, InOrder, NEW c \in Clients, NEW r \in Rolls, NEW i \in DOMAIN toClient[c],
         Deliver(c, i, r), NEW d \in Clients
  PROVE  Foretold(d)'
<1>1. /\ TypeOK /\ UNCHANGED <<generation, where, box>> /\ Foretold(c) /\ Foretold(d)
      /\ toClient' = [toClient EXCEPT ![c] = Outrun(toClient[c], i)]
  BY DEF Informed, IInv, Deliver, serverVars
<1>2. CASE d # c
  <2>1. SameClient(d) /\ toClient'[d] = toClient[d]
    BY <1>1, <1>2, GenerationIs DEF TypeOK
  <2>2. QED
    BY <1>1, <2>1, ForetoldStays
<1>3. CASE d = c
  <2> DEFINE q == toClient[c]
             s == Outrun(q, 1)
             m == q[1]
  <2>1. /\ i = 1 /\ q \in Seq(ToClient) /\ 1 \in DOMAIN q /\ Len(q) # 0 /\ m \in ToClient
        /\ toClient'[c] = s
    <3>1. i = 1
      BY DEF Deliver, Arriving
    <3>2. toClient'[c] = Outrun(toClient[c], i)
      BY <1>1 DEF TypeOK
    <3>3. QED
      BY <1>1, <3>1, <3>2, QueueTypes
  <2>2. s \in Seq(ToClient) /\ Len(s) = Len(q) - 1 /\ \A j \in 1 .. Len(q) - 1 : s[j] = q[j + 1]
    BY <2>1, OutrunIs
  <2>3. /\ OnUpdate(c, m) \/ OnAsk(c, m, r) \/ OnReset(c, m)
             \/ OnAuthority(c, m) \/ OnActors(c, m) \/ OnResult(c, m)
        /\ cgen'[c] = After(m, cgen[c])
    BY <1>1, <2>1, GenerationIs DEF Deliver
  <2>4. PICK x0, g, x : /\ Leads(q, cgen[c], x0, g, x)
                        /\ Sure(x0) => InStep(c, x0)
                        /\ Ends(c, g, x)
    BY <1>1 DEF Foretold
  <2> HIDE DEF s, m, q
  <2>5. PICK h \in Nat, y \in Content : Passes(m, cgen[c], x0, h, y) /\ Leads(s, h, y, g, x)
    BY <2>1, <2>2, <2>4, LeadsFrom DEF m
  <2>6. h = cgen'[c] /\ x0 \in Content
    BY <2>1, <2>3, <2>4, <2>5, LeadsTypes DEF Passes
  <2>7. Leads(toClient'[c], cgen'[c], y, g, x)
    BY <2>1, <2>5, <2>6
  <2>8. CASE where[c] = "away"
    <3>1. Leads(toClient'[c], cgen'[c], Base(0), g, Base(0))
      BY <2>1, <2>2, <2>7, LeadsBlindly
    <3>2. ~Sure(Base(0)) /\ Ends(c, g, Base(0))'
      BY <1>1, <2>4, <2>8 DEF Ends, Near, Sure, Base
    <3>3. QED
      BY <1>3, <3>1, <3>2 DEF Foretold
  <2>9. CASE where[c] # "away"
    <3>1. Sure(y) => InStep(c, y)'
      BY <1>1, <2>1, <2>3, <2>4, <2>5, <2>6, <2>9, Follows
    <3>2. Ends(c, g, x)'
      BY <1>1, <2>4 DEF Ends, Near, Recorded
    <3>3. QED
      BY <1>3, <2>7, <3>1, <3>2 DEF Foretold
  <2>10. QED
    BY <2>8, <2>9
<1>4. QED
  BY <1>2, <1>3

LEMMA OpenTells ==
  ASSUME Informed, NEW c \in Clients, NEW r \in Rolls, Open(c, r), NEW d \in Clients
  PROVE  Foretold(d)'
<1>1. /\ TypeOK /\ Foretold(d)
      /\ UNCHANGED <<generation, where, box, cgen, known, held, take, toClient, crossed>>
  BY DEF Informed, IInv, Open, serverVars
<1>2. /\ Sure(store[c]) => store'[c] = store[c]
      /\ \A e \in Clients \ {c} : store'[e] = store[e]
  <2>1. Snapshot(c, r) \/ store' = store
    BY DEF Open
  <2>2. QED
    BY <1>1, <2>1, SnapshotKeeps, SnapshotIs
<1>3. PICK x0, g, x : /\ Leads(toClient[d], cgen[d], x0, g, x)
                      /\ Sure(x0) => InStep(d, x0)
                      /\ Ends(d, g, x)
  BY <1>1 DEF Foretold
<1>4. Ends(d, g, x)'
  BY <1>1, <1>3 DEF Ends, Near, Recorded
<1>5. Sure(x0) => InStep(d, x0)'
  BY <1>1, <1>2, <1>3 DEF InStep
<1>6. Leads(toClient'[d], cgen'[d], x0, g, x)
  BY <1>1, <1>3
<1>7. QED
  BY <1>4, <1>5, <1>6 DEF Foretold

LEMMA RequestTakeTells ==
  ASSUME Informed, NEW c \in Clients, RequestTake(c), NEW d \in Clients
  PROVE  Foretold(d)'
<1>1. /\ TypeOK /\ Foretold(d)
      /\ UNCHANGED <<generation, where, box, cgen, store, known, held, toClient, crossed>>
  BY DEF Informed, IInv, RequestTake, serverVars
<1>2. take'[d] = take[d] \/ take'[d].waits = "answer"
  BY <1>1 DEF RequestTake, TypeOK
<1>3. PICK x0, g, x : /\ Leads(toClient[d], cgen[d], x0, g, x)
                      /\ Sure(x0) => InStep(d, x0)
                      /\ Ends(d, g, x)
  BY <1>1 DEF Foretold
<1>4. Ends(d, g, x)'
  BY <1>1, <1>3 DEF Ends, Near, Recorded
<1>5. Sure(x0) => InStep(d, x0)'
  BY <1>1, <1>2, <1>3 DEF InStep
<1>6. Leads(toClient'[d], cgen'[d], x0, g, x)
  BY <1>1, <1>3
<1>7. QED
  BY <1>4, <1>5, <1>6 DEF Foretold

\* What a client that knows the content applies of what it held is too late.
LEMMA RetryTells ==
  ASSUME Informed, NEW c \in Clients, NEW i \in DOMAIN held[c], Retry(c, i), NEW d \in Clients
  PROVE  Foretold(d)'
<1> DEFINE t == Later(SubSeq(held[c], 1, i - 1)) \o SubSeq(held[c], i + 1, Len(held[c]))
<1>1. /\ TypeOK /\ Foretold(d) /\ held[c] \in Seq(Held)
      /\ UNCHANGED <<generation, where, box, cgen, take, toClient>>
  BY DEF Informed, IInv, Retry, serverVars, TypeOK
<1>2. \A e \in Clients \ {c} : SameClient(e)
  BY <1>1 DEF Retry, SameClient, TypeOK
<1>3. CASE d # c
  BY <1>1, <1>2, <1>3, ForetoldStays
<1>4. CASE d = c
  <2>1. PICK x0, g, x : /\ Leads(toClient[c], cgen[c], x0, g, x)
                        /\ Sure(x0) => InStep(c, x0)
                        /\ Ends(c, g, x)
    BY <1>1, <1>4 DEF Foretold
  <2>2. ASSUME InStep(c, x0) PROVE InStep(c, x0)'
    <3>1. \A l \in DOMAIN held[c] : held[c][l].late
      BY <2>2 DEF InStep
    <3>2. known'[c] /\ crossed'[c] /\ held'[c] = t
      BY <1>1, <3>1 DEF Retry, TypeOK
    <3>3. \A k \in DOMAIN t : \E l \in DOMAIN held[c] : IsHeld(t[k], held[c][l])
      BY <1>1, RetriedIs
    <3> HIDE DEF t
    <3>4. QED
      BY <1>1, <2>2, <3>1, <3>2, <3>3 DEF InStep, IsHeld
  <2>3. Ends(c, g, x)'
    BY <1>1, <2>1 DEF Ends, Near, Recorded
  <2>4. Leads(toClient'[c], cgen'[c], x0, g, x)
    BY <1>1, <2>1
  <2>5. QED
    BY <1>4, <2>1, <2>2, <2>3, <2>4 DEF Foretold
<1>5. QED
  BY <1>3, <1>4

LEMMA InitInforms == Init => Informed
<1> SUFFICES ASSUME Init PROVE Informed
  OBVIOUS
<1>1. IInv /\ (owner # NoClient => generation # 0)
  BY InitHolds DEF Init
<1>2. ASSUME NEW c \in Clients PROVE Foretold(c)
  <2>1. Base(0) \in Content /\ ~Sure(Base(0)) /\ 0 \in Nat
    BY DEF Base, Content, Sure
  <2>2. Leads(toClient[c], cgen[c], Base(0), 0, Base(0))
    BY <2>1, LeadsNowhere DEF Init
  <2>3. Ends(c, 0, Base(0))
    BY <2>1 DEF Init, Ends, Near
  <2>4. QED
    BY <2>1, <2>2, <2>3 DEF Foretold
<1>3. QED
  BY <1>1, <1>2 DEF Informed

LEMMA StepInforms == InOrder /\ Informed /\ [Next]_vars => Informed'
<1> SUFFICES ASSUME InOrder, Informed, [Next]_vars PROVE Informed'
  OBVIOUS
<1>1. IInv' /\ TypeOK
  BY StepHolds DEF Informed, IInv
<1>2. generation \in Nat /\ (owner # NoClient => generation # 0)
  BY <1>1 DEF Informed, TypeOK
<1>3. owner' # NoClient => generation' # 0
  <2>1. (owner' = owner /\ generation' = generation) \/ generation' \in {generation + 1, generation + 2}
    <3>1. ASSUME NEW c, NEW w, NEW o, Move(c, w, o)
          PROVE  (owner' = owner /\ generation' = generation) \/ generation' = generation + 1
      BY <3>1 DEF Move, Refreshed
    <3>2. ASSUME NEW o, Reset(o) PROVE generation' \in {generation + 1, generation + 2}
      BY <1>2, <3>2 DEF Reset
    <3>3. QED
      BY <3>1, <3>2 DEF Next, Publish, Receive, Open, RequestTake, Deliver, Retry, serverVars, vars
  <2>2. QED
    BY <1>2, <2>1
<1>4. ASSUME NEW d \in Clients PROVE Foretold(d)'
  <2>1. CASE UNCHANGED vars
    <3>1. SameClient(d) /\ Foretold(d) /\ toClient' = toClient /\ UNCHANGED <<generation, where, box>>
      BY <2>1, SameForAll DEF vars, serverVars, Informed
    <3>2. QED
      BY <3>1, ForetoldStays
  <2>2. CASE Next
    BY <2>2, MoveTells, PublishTells, ResetTells, ReceiveTells, OpenTells, RequestTakeTells,
       DeliverTells, RetryTells DEF Next
  <2>3. QED
    BY <2>1, <2>2
<1>5. QED
  BY <1>1, <1>3, <1>4 DEF Informed

\* In order, everybody with the cell loaded is on the way to what the server
\* has recorded (sendCellObjectStateToClient, handleContainer).
THEOREM EverybodyIsInformed == ASSUME InOrder PROVE Spec => []Informed
<1>1. Init => Informed
  BY InitInforms
<1>2. Informed /\ [Next]_vars => Informed'
  BY StepInforms
<1>3. QED
  BY <1>1, <1>2, PTL DEF Spec

\* Who has nothing more to come has arrived there.
LEMMA QuietIsThere ==
  ASSUME Informed, NEW c \in Near(where), Quiet(c), Recorded
  PROVE  InStep(c, box)
<1>1. c \in Clients /\ Foretold(c)
  BY DEF Near, Informed
<1>2. PICK x0, g, x : /\ Leads(toClient[c], cgen[c], x0, g, x)
                      /\ Sure(x0) => InStep(c, x0)
                      /\ Ends(c, g, x)
  BY <1>1 DEF Foretold
<1>3. x0 = x /\ x = box
  BY <1>2, LeadsNowhere DEF Quiet, Ends
<1>4. QED
  BY <1>2, <1>3 DEF Sure, Recorded

\* Whatever the authorities found in the container, everybody ends with what
\* the server recorded (handleContainer, onServerContainer).
THEOREM EverybodyReadsTheRecord == ASSUME InOrder PROVE Spec => []StoresAgree
<1>1. Informed => StoresAgree
  BY QuietIsThere DEF StoresAgree, InStep
<1>2. QED
  BY <1>1, EverybodyIsInformed, PTL

\* No take waits for content that everybody has (onServerInventoryTakeResult,
\* onServerContainer).
THEOREM EveryTakeIsSentAgain == ASSUME InOrder PROVE Spec => []NoTakeForgotten
<1>1. Informed => NoTakeForgotten
  BY QuietIsThere DEF NoTakeForgotten, InStep
<1>2. QED
  BY <1>1, EverybodyIsInformed, PTL
=============================================================================
