---------------------------- MODULE JoiningProofs ---------------------------
(***************************************************************************)
(* Theorems about Joining: that it implements Sessions, and that whoever   *)
(* waits for each answer gets one and enters the world as the selected     *)
(* character, for any number of clients, characters and records, any       *)
(* revisions, and packets of two lanes arriving in any order.              *)
(***************************************************************************)
EXTENDS Joining, SequenceTheorems, TLAPS

USE CharacterAssumption, RevisionAssumption, BoundAssumption

-----------------------------------------------------------------------------
(* Queues: what taking a packet out of the middle of one, and putting some at *)
(* its end, leaves where.                                                     *)

\* Without its i-th element, what was behind it moves up by one.
LEMMA RemovalAt ==
  ASSUME NEW S, NEW q \in Seq(S), NEW i \in DOMAIN q
  PROVE  /\ RemoveAt(q, i) \in Seq(S)
         /\ Len(RemoveAt(q, i)) = Len(q) - 1
         /\ \A j \in 1 .. Len(q) - 1 :
              RemoveAt(q, i)[j] = IF j < i THEN q[j] ELSE q[j + 1]
<1> DEFINE s == SubSeq(q, 1, i - 1)
           t == SubSeq(q, i + 1, Len(q))
<1>1. i \in 1 .. Len(q) /\ Len(q) \in Nat
  BY LenProperties
<1>2. \A j \in 1 .. Len(q) : q[j] \in S
  BY LenProperties, ElementOfSeq
<1>3. s \in Seq(S) /\ Len(s) = i - 1 /\ \A j \in 1 .. i - 1 : s[j] = q[j]
  BY <1>1, <1>2, SubSeqProperties
<1>4. t \in Seq(S) /\ Len(t) = Len(q) - i /\ \A j \in 1 .. Len(q) - i : t[j] = q[i + j]
  BY <1>1, <1>2, SubSeqProperties
<1> HIDE DEF s, t
<1>5. /\ s \o t \in Seq(S) /\ Len(s \o t) = Len(s) + Len(t)
      /\ \A j \in 1 .. Len(s) + Len(t) : (s \o t)[j] = IF j <= Len(s) THEN s[j] ELSE t[j - Len(s)]
  BY <1>3, <1>4, ConcatProperties
<1>6. RemoveAt(q, i) = s \o t
  BY DEF RemoveAt, s, t
<1>7. Len(s) + Len(t) = Len(q) - 1
  BY <1>1, <1>3, <1>4
<1>8. ASSUME NEW j \in 1 .. Len(q) - 1
      PROVE  (s \o t)[j] = IF j < i THEN q[j] ELSE q[j + 1]
  <2>1. CASE j < i
    BY <2>1, <1>1, <1>3, <1>5, <1>7
  <2>2. CASE ~(j < i)
    <3>1. j - (i - 1) \in 1 .. Len(q) - i /\ i + (j - (i - 1)) = j + 1
      BY <2>2, <1>1
    <3>2. (s \o t)[j] = t[j - (i - 1)]
      BY <2>2, <1>1, <1>3, <1>5, <1>7
    <3>3. QED
      BY <2>2, <3>1, <3>2, <1>4
  <2>3. QED
    BY <2>1, <2>2
<1>9. QED
  BY <1>5, <1>6, <1>7, <1>8

\* Where the k-th element goes when the i-th is removed, and where the j-th of
\* the others came from.
After(i, k)  == IF k < i THEN k ELSE k - 1
Before(i, j) == IF j < i THEN j ELSE j + 1

LEMMA RemovalKeeps ==
  ASSUME NEW S, NEW q \in Seq(S), NEW i \in DOMAIN q, NEW k \in DOMAIN q, k # i
  PROVE  After(i, k) \in DOMAIN RemoveAt(q, i) /\ RemoveAt(q, i)[After(i, k)] = q[k]
<1>1. /\ Len(q) \in Nat /\ i \in 1 .. Len(q) /\ k \in 1 .. Len(q)
      /\ DOMAIN RemoveAt(q, i) = 1 .. Len(q) - 1
  BY RemovalAt, LenProperties
<1>2. \A j \in 1 .. Len(q) - 1 : RemoveAt(q, i)[j] = IF j < i THEN q[j] ELSE q[j + 1]
  BY RemovalAt
<1>3. After(i, k) \in 1 .. Len(q) - 1
  BY <1>1 DEF After
<1>4. CASE k < i
  BY <1>1, <1>2, <1>3, <1>4 DEF After
<1>5. CASE ~(k < i)
  <2>1. After(i, k) = k - 1 /\ ~(k - 1 < i) /\ (k - 1) + 1 = k
    BY <1>1, <1>5 DEF After
  <2>2. QED
    BY <1>1, <1>2, <1>3, <2>1
<1>6. QED
  BY <1>4, <1>5

LEMMA RemovalFrom ==
  ASSUME NEW S, NEW q \in Seq(S), NEW i \in DOMAIN q, NEW j \in DOMAIN RemoveAt(q, i)
  PROVE  /\ Before(i, j) \in DOMAIN q \ {i}
         /\ RemoveAt(q, i)[j] = q[Before(i, j)]
<1>1. /\ Len(q) \in Nat /\ i \in 1 .. Len(q) /\ j \in 1 .. Len(q) - 1
      /\ DOMAIN q = 1 .. Len(q)
  BY RemovalAt, LenProperties
<1>2. RemoveAt(q, i)[j] = IF j < i THEN q[j] ELSE q[j + 1]
  BY <1>1, RemovalAt
<1>3. QED
  BY <1>1, <1>2 DEF Before

\* What is in a queue, whatever its place.
LEMMA RemovalRange ==
  ASSUME NEW S, NEW q \in Seq(S), NEW i \in DOMAIN q
  PROVE  /\ Range(RemoveAt(q, i)) \subseteq Range(q)
         /\ Range(q) \subseteq Range(RemoveAt(q, i)) \cup {q[i]}
<1>1. ASSUME NEW j \in DOMAIN RemoveAt(q, i) PROVE RemoveAt(q, i)[j] \in Range(q)
  BY RemovalFrom DEF Range
<1>2. ASSUME NEW k \in DOMAIN q, k # i PROVE q[k] \in Range(RemoveAt(q, i))
  BY <1>2, RemovalKeeps DEF Range
<1>3. QED
  BY <1>1, <1>2 DEF Range

LEMMA ConcatRange ==
  ASSUME NEW S, NEW q \in Seq(S), NEW s \in Seq(S)
  PROVE  Range(q \o s) = Range(q) \cup Range(s)
<1>1. /\ Len(q) \in Nat /\ Len(s) \in Nat /\ Len(q \o s) = Len(q) + Len(s)
      /\ DOMAIN q = 1 .. Len(q) /\ DOMAIN s = 1 .. Len(s)
      /\ DOMAIN (q \o s) = 1 .. Len(q) + Len(s)
  BY ConcatProperties, LenProperties
<1>2. \A j \in 1 .. Len(q) + Len(s) :
        (q \o s)[j] = IF j <= Len(q) THEN q[j] ELSE s[j - Len(q)]
  BY ConcatProperties
<1>3. ASSUME NEW j \in 1 .. Len(q) + Len(s)
      PROVE  (q \o s)[j] \in Range(q) \cup Range(s)
  <2>1. j <= Len(q) => j \in 1 .. Len(q)
    BY <1>1
  <2>2. ~(j <= Len(q)) => j - Len(q) \in 1 .. Len(s)
    BY <1>1
  <2>3. QED
    BY <1>1, <1>2, <2>1, <2>2 DEF Range
<1>4. ASSUME NEW j \in 1 .. Len(q) PROVE q[j] \in Range(q \o s)
  <2>1. j \in 1 .. Len(q) + Len(s) /\ j <= Len(q)
    BY <1>1
  <2>2. QED
    BY <1>1, <1>2, <2>1 DEF Range
<1>5. ASSUME NEW j \in 1 .. Len(s) PROVE s[j] \in Range(q \o s)
  <2>1. /\ Len(q) + j \in 1 .. Len(q) + Len(s) /\ ~(Len(q) + j <= Len(q))
        /\ (Len(q) + j) - Len(q) = j
    BY <1>1
  <2>2. (q \o s)[Len(q) + j] = s[j]
    BY <1>2, <2>1
  <2>3. QED
    BY <1>1, <2>1, <2>2 DEF Range
<1>6. QED
  BY <1>1, <1>3, <1>4, <1>5 DEF Range

-----------------------------------------------------------------------------
(* Types *)

LEMMA ShutType == Shut \in Gate
BY DEF Shut, Gate, NoData, Chosen, Nobody

LEMMA GateUpdates ==
  ASSUME NEW g \in Gate, NEW x \in Chosen
  PROVE  /\ [g EXCEPT !.lua = TRUE] \in Gate
         /\ [g EXCEPT !.content = TRUE] \in Gate
         /\ [g EXCEPT !.data = x] \in Gate
         /\ [g EXCEPT !.data = NoData, !.retained = x] \in Gate
         /\ [g EXCEPT !.retained = NoData, !.ready = TRUE, !.me = x] \in Gate
BY DEF Gate, NoData, Chosen

LEMMA TakenType ==
  ASSUME NEW g \in Gate, NEW ch \in Characters, NEW k
  PROVE  Taken(g, k, ch) \in Gate
BY DEF Gate, Taken

LEMMA GateFields ==
  ASSUME NEW g \in Gate
  PROVE  g.data \in Chosen /\ g.retained \in Chosen /\ g.me \in Chosen
BY DEF Gate

LEMMA FinalizedType == ASSUME NEW g \in Gate PROVE Finalized(g) \in Gate
<1> DEFINE moves == g.content /\ g.lua /\ g.data # NoData
           h == IF moves THEN [g EXCEPT !.data = NoData, !.retained = g.data] ELSE g
<1>1. h \in Gate
  <2>1. g.data \in Chosen
    BY GateFields
  <2>2. QED
    BY <2>1, GateUpdates
<1>2. [h EXCEPT !.retained = NoData, !.ready = TRUE, !.me = h.retained] \in Gate
  <2> HIDE DEF h
  <2>1. h.retained \in Chosen
    BY <1>1, GateFields
  <2>2. QED
    BY <1>1, <2>1, GateUpdates
<1>3. QED
  BY <1>1, <1>2 DEF Finalized

LEMMA TypeInit == Init => TypeOK
BY ShutType DEF Init, TypeOK, Screens, Nobody

\* The answer to a selection, by position.
LEMMA AnswerType ==
  ASSUME TypeOK, NEW ch \in Characters
  PROVE  /\ Answer(ch) \in Seq(ToClient)
         /\ Len(Answer(ch)) = records + 5
         /\ \A k \in 1 .. records : Answer(ch)[k] = Record(k)
         /\ Answer(ch)[records + 1] = Plain("marker")
         /\ Answer(ch)[records + 2] = State("crime", ch)
         /\ Answer(ch)[records + 3] = State("faction", ch)
         /\ Answer(ch)[records + 4] = State("topic", ch)
         /\ Answer(ch)[records + 5] = Data(ch, records)
<1> DEFINE rs == [n \in 1 .. records |-> Record(n)]
           ss == <<Plain("marker"), State("crime", ch), State("faction", ch),
                   State("topic", ch), Data(ch, records)>>
<1>1. records \in Nat
  BY DEF TypeOK
<1>2. rs \in Seq(ToClient) /\ Len(rs) = records /\ \A k \in 1 .. records : rs[k] = Record(k)
  <2>1. \A k \in 1 .. records : Record(k) \in ToClient
    BY <1>1 DEF Record, ToClient
  <2>2. QED
    BY <1>1, <2>1, IsASeq
<1>3. /\ ss \in Seq(ToClient) /\ Len(ss) = 5
      /\ ss[1] = Plain("marker") /\ ss[2] = State("crime", ch) /\ ss[3] = State("faction", ch)
      /\ ss[4] = State("topic", ch) /\ ss[5] = Data(ch, records)
  BY <1>1 DEF ToClient, Plain, State, Data
<1> HIDE DEF rs, ss
<1>4. /\ rs \o ss \in Seq(ToClient) /\ Len(rs \o ss) = records + 5
      /\ \A j \in 1 .. records + 5 :
           (rs \o ss)[j] = IF j <= records THEN rs[j] ELSE ss[j - records]
  <2>1. /\ rs \o ss \in Seq(ToClient) /\ Len(rs \o ss) = Len(rs) + Len(ss)
        /\ \A j \in 1 .. Len(rs) + Len(ss) :
             (rs \o ss)[j] = IF j <= Len(rs) THEN rs[j] ELSE ss[j - Len(rs)]
    BY <1>2, <1>3, ConcatProperties
  <2>2. QED
    BY <1>2, <1>3, <2>1
<1>5. Answer(ch) = rs \o ss
  BY DEF Answer, rs, ss
<1>6. /\ (rs \o ss)[records + 1] = ss[1] /\ (rs \o ss)[records + 2] = ss[2]
      /\ (rs \o ss)[records + 3] = ss[3] /\ (rs \o ss)[records + 4] = ss[4]
      /\ (rs \o ss)[records + 5] = ss[5]
  <2>1. \A n \in 1 .. 5 : (rs \o ss)[records + n] = ss[n]
    <3> TAKE n \in 1 .. 5
    <3>1. records + n \in 1 .. records + 5 /\ ~(records + n <= records)
      BY <1>1
    <3>2. (records + n) - records = n
      BY <1>1
    <3>3. QED
      BY <1>4, <3>1, <3>2
  <2>2. 1 \in 1 .. 5 /\ 2 \in 1 .. 5 /\ 3 \in 1 .. 5 /\ 4 \in 1 .. 5 /\ 5 \in 1 .. 5
    OBVIOUS
  <2>3. QED
    BY <2>1, <2>2, Zenon
<1>7. \A k \in 1 .. records : (rs \o ss)[k] = rs[k]
  BY <1>1, <1>4
<1>8. QED
  BY <1>2, <1>3, <1>4, <1>5, <1>6, <1>7

LEMMA ServeType ==
  ASSUME TypeOK, NEW c \in Clients, Serve(c)
  PROVE  TypeOK'
<1> DEFINE m == Head(toServer[c])
<1>1. m \in ToServer /\ Tail(toServer[c]) \in Seq(ToServer)
  BY HeadTailProperties DEF TypeOK, Serve
<1>2. m.char \in Characters
  BY <1>1 DEF ToServer
<1>3. toServer' \in [Clients -> Seq(ToServer)]
  BY <1>1 DEF TypeOK, Serve
<1>4. Admit(c, m) \/ Refuse(c, m) \/ Delete(c, m)
  BY DEF Serve
<1>5. records' = records /\ UNCHANGED clientVars
  BY DEF Serve
<1> HIDE DEF m
<1>6. ASSUME NEW ms \in Seq(ToClient), Reply(c, ms)
      PROVE  toClient' \in [Clients -> Seq(ToClient)]
  BY <1>6, ConcatProperties DEF TypeOK, Reply
<1>7. CASE Admit(c, m)
  <2>1. toClient' \in [Clients -> Seq(ToClient)]
    BY <1>2, <1>6, <1>7, AnswerType DEF Admit
  <2>2. /\ stored' \subseteq Characters
        /\ selected' \in [Clients -> BOOLEAN]
        /\ slot' \in [Clients -> Characters \cup {Nobody}]
        /\ character' \in [Clients -> Characters \cup {Nobody}]
    BY <1>2, <1>7 DEF Admit, TypeOK
  <2>3. QED
    BY <1>3, <1>5, <2>1, <2>2 DEF TypeOK, clientVars
<1>8. CASE Refuse(c, m)
  <2>1. <<Plain("error")>> \in Seq(ToClient)
    BY DEF Plain, ToClient
  <2>2. toClient' \in [Clients -> Seq(ToClient)]
    BY <1>6, <1>8, <2>1 DEF Refuse
  <2>3. /\ stored' \subseteq Characters
        /\ selected' = selected /\ slot' = slot
        /\ character' \in [Clients -> Characters \cup {Nobody}]
    BY <1>2, <1>8 DEF Refuse, TypeOK
  <2>4. QED
    BY <1>3, <1>5, <2>2, <2>3 DEF TypeOK, clientVars
<1>9. CASE Delete(c, m)
  <2>1. <<Plain("deleted")>> \in Seq(ToClient)
    BY DEF Plain, ToClient
  <2>2. toClient' \in [Clients -> Seq(ToClient)]
    BY <1>6, <1>9, <2>1 DEF Delete, TypeOK
  <2>3. stored' \subseteq Characters /\ UNCHANGED <<selected, slot, character>>
    BY <1>9 DEF Delete, TypeOK
  <2>4. QED
    BY <1>3, <1>5, <2>2, <2>3 DEF TypeOK, clientVars
<1>10. QED
  BY <1>4, <1>7, <1>8, <1>9

LEMMA DeliverType ==
  ASSUME TypeOK, NEW c \in Clients, NEW i \in DOMAIN toClient[c], Deliver(c, i)
  PROVE  TypeOK'
<1> DEFINE m == toClient[c][i]
<1>1. m \in ToClient /\ toClient' \in [Clients -> Seq(ToClient)]
  BY RemovalAt, ElementOfSeq, LenProperties DEF TypeOK, Deliver
<1>2. gate[c] \in Gate /\ gate \in [Clients -> Gate]
  BY DEF TypeOK
<1>3. UNCHANGED <<serverVars, toServer, hurried>>
  BY DEF Deliver
<1> HIDE DEF m
<1>4. SUFFICES /\ screen' \in [Clients -> Screens]
               /\ gate' \in [Clients -> Gate]
               /\ lua' \in [Clients -> {"none", "staged", "active"}]
               /\ defined' \in [Clients -> SUBSET Nat]
               /\ failed' \in [Clients -> BOOLEAN] /\ deleted' \in [Clients -> BOOLEAN]
  BY <1>1, <1>3 DEF TypeOK, serverVars
<1>5. CASE OnPackages(c, m)
  <2>1. [gate[c] EXCEPT !.lua = TRUE] \in Gate
    BY <1>2 DEF Gate
  <2>2. Finalized([gate[c] EXCEPT !.lua = TRUE]) \in Gate
    BY <2>1, FinalizedType
  <2>3. QED
    BY <1>2, <1>5, <2>2 DEF OnPackages, TypeOK
<1>6. CASE OnList(c, m)
  BY <1>6 DEF OnList, TypeOK, Screens
<1>7. CASE OnRecord(c, m)
  <2>1. m.id \in Nat
    BY <1>1, <1>7 DEF OnRecord, ToClient
  <2>2. QED
    BY <1>7, <2>1 DEF OnRecord, TypeOK
<1>8. CASE OnMarker(c, m)
  <2> DEFINE g == [gate[c] EXCEPT !.content = TRUE]
             h == IF Activates(g, lua[c]) THEN [g EXCEPT !.lua = TRUE] ELSE g
  <2>1. g \in Gate /\ [g EXCEPT !.lua = TRUE] \in Gate
    BY <1>2 DEF Gate
  <2>2. Finalized(h) \in Gate
    BY <2>1, FinalizedType
  <2>3. gate' = [gate EXCEPT ![c] = Finalized(h)]
    BY <1>8 DEF OnMarker
  <2> HIDE DEF h, g
  <2>4. QED
    BY <1>2, <1>8, <2>2, <2>3 DEF OnMarker, TypeOK
<1>9. CASE OnState(c, m)
  <2> DEFINE h == IF Newer(Known(gate[c], m.kind), m.char)
                  THEN Taken(gate[c], m.kind, m.char) ELSE gate[c]
  <2>1. m.char \in Characters
    BY <1>1, <1>9 DEF OnState, ToClient
  <2>2. Finalized(h) \in Gate
    BY <1>2, <2>1, TakenType, FinalizedType
  <2>3. gate' = [gate EXCEPT ![c] = Finalized(h)]
    BY <1>2, <1>9 DEF OnState
  <2> HIDE DEF h
  <2>4. QED
    BY <1>2, <1>9, <2>2, <2>3 DEF OnState, TypeOK
<1>10. CASE OnData(c, m)
  <2> DEFINE x == [char |-> m.char, records |-> m.records]
  <2>1. x \in Chosen
    BY <1>1, <1>10 DEF OnData, ToClient, Chosen
  <2>2. Finalized([gate[c] EXCEPT !.data = x]) \in Gate
    <3> HIDE DEF x
    <3>1. [gate[c] EXCEPT !.data = x] \in Gate
      BY <1>2, <2>1, GateUpdates
    <3>2. QED
      BY <3>1, FinalizedType
  <2>3. gate' = [gate EXCEPT ![c] = Finalized([gate[c] EXCEPT !.data = x])]
    BY <1>2, <1>10 DEF OnData
  <2> HIDE DEF x
  <2>4. QED
    BY <1>2, <1>10, <2>2, <2>3 DEF OnData, TypeOK
<1>11. CASE OnError(c, m)
  BY <1>11 DEF OnError, TypeOK
<1>12. CASE OnDeleted(c, m)
  BY <1>12 DEF OnDeleted, TypeOK
<1>13. QED
  BY <1>5, <1>6, <1>7, <1>8, <1>9, <1>10, <1>11, <1>12 DEF Deliver, m

LEMMA RequestType ==
  ASSUME TypeOK, NEW c \in Clients, NEW m \in ToServer, Request(c, m)
  PROVE  /\ toServer' \in [Clients -> Seq(ToServer)]
         /\ hurried' \in [Clients -> BOOLEAN]
<1>1. Append(toServer[c], m) \in Seq(ToServer)
  BY AppendProperties DEF TypeOK
<1>2. toServer' \in [Clients -> Seq(ToServer)]
  BY <1>1 DEF TypeOK, Request
<1>3. (hurried[c] \/ Unanswered(c)) \in BOOLEAN
  BY DEF Unanswered, TypeOK
<1>4. QED
  BY <1>2, <1>3 DEF TypeOK, Request

LEMMA LeaveType ==
  ASSUME TypeOK, NEW c \in Clients, Leave(c)
  PROVE  TypeOK'
<1>1. /\ toServer' \in [Clients -> Seq(ToServer)]
      /\ toClient' \in [Clients -> Seq(ToClient)]
  BY DEF TypeOK, Leave
<1>2. gate' \in [Clients -> Gate]
  BY ShutType DEF TypeOK, Leave
<1>3. QED
  BY <1>1, <1>2 DEF TypeOK, Leave, Screens

LEMMA TypeStep == TypeOK /\ [Next]_vars => TypeOK'
<1> SUFFICES ASSUME TypeOK, [Next]_vars PROVE TypeOK'
  OBVIOUS
<1>1. ASSUME NEW c \in Clients, Connect(c) PROVE TypeOK'
  <2>1. <<Plain("packages"), Plain("list")>> \in Seq(ToClient)
    BY DEF Plain, ToClient
  <2>2. toClient' \in [Clients -> Seq(ToClient)]
    BY <1>1, <2>1, ConcatProperties DEF TypeOK, Connect, Reply
  <2>3. QED
    BY <1>1, <2>2 DEF TypeOK, Connect, Screens, serverVars
<1>2. ASSUME NEW c \in Clients, Conflict(c) PROVE TypeOK'
  BY <1>2, LeaveType DEF Conflict
<1>3. ASSUME Define PROVE TypeOK'
  <2>1. records \in Nat /\ records' = records + 1
    BY <1>3 DEF TypeOK, Define
  <2>2. Record(records + 1) \in ToClient
    BY <2>1 DEF Record, ToClient
  <2>3. ASSUME NEW c \in Clients
        PROVE  Append(toClient[c], Record(records + 1)) \in Seq(ToClient)
    BY <2>2, AppendProperties DEF TypeOK
  <2>4. toClient' \in [Clients -> Seq(ToClient)]
    BY <1>3, <2>3 DEF TypeOK, Define
  <2>5. QED
    BY <1>3, <2>1, <2>4 DEF TypeOK, Define, clientVars
<1>4. ASSUME NEW c \in Clients, NEW ch \in Characters, NEW new \in BOOLEAN,
             SendSelect(c, ch, new)
      PROVE  TypeOK'
  <2>1. Select(ch, new) \in ToServer /\ Request(c, Select(ch, new))
    BY <1>4 DEF Select, ToServer, SendSelect
  <2>2. /\ toServer' \in [Clients -> Seq(ToServer)]
        /\ hurried' \in [Clients -> BOOLEAN]
    BY <2>1, RequestType
  <2>3. gate' \in [Clients -> Gate]
    BY <1>4, ShutType DEF TypeOK, SendSelect
  <2>4. QED
    BY <1>4, <2>2, <2>3 DEF TypeOK, SendSelect, Screens, Waiting, serverVars
<1>5. ASSUME NEW c \in Clients, NEW ch \in Characters, SendDelete(c, ch) PROVE TypeOK'
  <2>1. Remove_(ch) \in ToServer /\ Request(c, Remove_(ch))
    BY <1>5 DEF Remove_, ToServer, SendDelete
  <2>2. /\ toServer' \in [Clients -> Seq(ToServer)]
        /\ hurried' \in [Clients -> BOOLEAN]
    BY <2>1, RequestType
  <2>3. QED
    BY <1>5, <2>2 DEF TypeOK, SendDelete, Screens, Waiting, serverVars
<1>6. ASSUME NEW c \in Clients, Frame(c) PROVE TypeOK'
  BY <1>6 DEF TypeOK, Frame, Screens, serverVars
<1>7. ASSUME NEW c \in Clients, TimeOut(c) PROVE TypeOK'
  BY <1>7 DEF TypeOK, TimeOut, Screens, serverVars
<1>8. CASE UNCHANGED vars
  BY <1>8 DEF TypeOK, vars, serverVars, clientVars
<1>9. QED
  BY <1>1, <1>2, <1>3, <1>4, <1>5, <1>6, <1>7, <1>8, LeaveType, ServeType, DeliverType DEF Next

\* Every variable keeps its type.
THEOREM TypesHold == Spec => []TypeOK
BY TypeInit, TypeStep, PTL DEF Spec

-----------------------------------------------------------------------------
(* The sessions *)

LEMMA SessionsInit == Init => SessionsImpl!Init
BY DEF Init, SessionsImpl!Init, Playing

LEMMA PlayingOf ==
  ASSUME TypeOK, NEW d \in Clients
  PROVE  Playing[d] = IF selected[d] THEN slot[d] ELSE NoCharacter
BY DEF Playing

\* A request of client c makes one step of the sessions, or none.
LEMMA ServeRefines ==
  ASSUME TypeOK, NEW c \in Clients, Serve(c)
  PROVE  SessionsImpl!Next \/ UNCHANGED <<stored, Playing>>
<1> DEFINE m == Head(toServer[c])
<1>1. m.char \in Characters
  BY HeadTailProperties DEF TypeOK, Serve, ToServer
<1>2. Admit(c, m) \/ Refuse(c, m) \/ Delete(c, m)
  BY DEF Serve
<1> HIDE DEF m
<1>3. ASSUME NEW d \in Clients \ {c}, ~InUse(c, m.char)
      PROVE  Playing[d] # m.char
  BY <1>1, <1>3 DEF InUse, Playing
<1>4. CASE Admit(c, m)
  <2>1. Playing' = [Playing EXCEPT ![c] = m.char]
    BY <1>4 DEF Admit, Playing, TypeOK
  <2>2. SessionsImpl!Start(c, m.char)
    <3>1. CASE m.isNew
      BY <1>4, <2>1, <3>1 DEF Admit, Refused, SessionsImpl!Start
    <3>2. CASE ~m.isNew
      <4>1. m.char \in stored /\ ~InUse(c, m.char)
        BY <1>4, <3>2 DEF Admit, Refused
      <4>2. stored' = stored
        BY <1>4, <4>1 DEF Admit
      <4>3. \A d \in Clients \ {c} : Playing[d] # m.char
        BY <1>3, <4>1
      <4>4. QED
        BY <2>1, <4>1, <4>2, <4>3 DEF SessionsImpl!Start
    <3>3. QED
      BY <3>1, <3>2
  <2>3. QED
    BY <1>1, <2>2 DEF SessionsImpl!Next
<1>5. CASE Refuse(c, m)
  <2>1. Playing' = Playing
    BY <1>5 DEF Refuse, Playing
  <2>2. CASE stored' = stored
    BY <2>1, <2>2
  <2>3. CASE stored' # stored
    <3>1. stored' = stored \cup {m.char} /\ m.char \notin stored
      BY <1>5, <2>3 DEF Refuse
    <3>2. SessionsImpl!Create(m.char)
      BY <2>1, <3>1 DEF SessionsImpl!Create
    <3>3. QED
      BY <1>1, <3>2 DEF SessionsImpl!Next
  <2>4. QED
    BY <2>2, <2>3
<1>6. CASE Delete(c, m)
  <2>1. Playing' = Playing
    BY <1>6 DEF Delete, Playing
  <2>2. CASE stored' = stored
    BY <2>1, <2>2
  <2>3. CASE stored' # stored
    <3>1. ~selected[c] /\ ~InUse(c, m.char) /\ stored' = stored \ {m.char}
      BY <1>6, <2>3 DEF Delete
    <3>2. \A d \in Clients : Playing[d] # m.char
      BY <1>1, <1>3, <3>1 DEF Playing
    <3>3. SessionsImpl!Delete(m.char)
      BY <2>1, <3>1, <3>2 DEF SessionsImpl!Delete
    <3>4. QED
      BY <1>1, <3>3 DEF SessionsImpl!Next
  <2>4. QED
    BY <2>2, <2>3
<1>7. QED
  BY <1>2, <1>4, <1>5, <1>6

LEMMA LeaveRefines ==
  ASSUME TypeOK, NEW c \in Clients, Leave(c)
  PROVE  SessionsImpl!Next
<1>1. Playing' = [Playing EXCEPT ![c] = NoCharacter] /\ stored' = stored
  BY DEF Leave, Playing, TypeOK
<1>2. QED
  BY <1>1 DEF SessionsImpl!Next, SessionsImpl!Leave

LEMMA StepRefines ==
  TypeOK /\ [Next]_vars => [SessionsImpl!Next]_(SessionsImpl!vars)
<1> SUFFICES ASSUME TypeOK, [Next]_vars
             PROVE  SessionsImpl!Next \/ UNCHANGED <<stored, Playing>>
  BY DEF SessionsImpl!vars
<1>1. ASSUME UNCHANGED <<stored, selected, slot>>
      PROVE  UNCHANGED <<stored, Playing>>
  BY <1>1 DEF Playing
<1>2. ASSUME NEW c \in Clients, Conflict(c) PROVE SessionsImpl!Next
  BY <1>2, LeaveRefines DEF Conflict
<1>3. ASSUME NEW c \in Clients, Connect(c) \/ Frame(c) \/ TimeOut(c)
      PROVE  UNCHANGED <<stored, selected, slot>>
  BY <1>3 DEF Connect, Frame, TimeOut, serverVars
<1>4. ASSUME NEW c \in Clients, NEW ch \in Characters, NEW new \in BOOLEAN,
             SendSelect(c, ch, new) \/ SendDelete(c, ch)
      PROVE  UNCHANGED <<stored, selected, slot>>
  BY <1>4 DEF SendSelect, SendDelete, serverVars
<1>5. ASSUME NEW c \in Clients, NEW i \in DOMAIN toClient[c], Deliver(c, i)
      PROVE  UNCHANGED <<stored, selected, slot>>
  BY <1>5 DEF Deliver, serverVars
<1>6. CASE Define
  BY <1>1, <1>6 DEF Define
<1>7. CASE UNCHANGED vars
  BY <1>1, <1>7 DEF vars, serverVars
<1>8. QED
  BY <1>1, <1>2, <1>3, <1>4, <1>5, <1>6, <1>7, LeaveRefines, ServeRefines DEF Next

\* The server with its database, its clients and the network between them
\* does to the sessions of the account what Sessions allows.
THEOREM RefinesSessions == Spec => ImplementsSessions
BY SessionsInit, StepRefines, TypesHold, PTL
   DEF Spec, ImplementsSessions, SessionsImpl!Spec

\* What Sessions promises is inductive.
LEMMA PromiseInit == SessionsImpl!Init => SlotsAreExclusive /\ PlayedIsStored
BY DEF SessionsImpl!Init, SlotsAreExclusive, PlayedIsStored, SessionsImpl!Exclusive,
       SessionsImpl!PlayedIsStored

LEMMA PromiseStep ==
  ASSUME SlotsAreExclusive, PlayedIsStored, [SessionsImpl!Next]_(SessionsImpl!vars),
         Playing \in [Clients -> Characters \cup {NoCharacter}]
  PROVE  SlotsAreExclusive' /\ PlayedIsStored'
<1> USE DEF SlotsAreExclusive, PlayedIsStored, SessionsImpl!Exclusive,
            SessionsImpl!PlayedIsStored
<1>1. ASSUME NEW ch \in Characters, SessionsImpl!Create(ch) \/ SessionsImpl!Delete(ch)
      PROVE  SlotsAreExclusive' /\ PlayedIsStored'
  BY <1>1 DEF SessionsImpl!Create, SessionsImpl!Delete
<1>2. ASSUME NEW c \in Clients, NEW ch \in Characters, SessionsImpl!Start(c, ch)
      PROVE  SlotsAreExclusive' /\ PlayedIsStored'
  <2>1. \A d \in Clients \ {c} : Playing[d] # ch
    BY <1>2 DEF SessionsImpl!Start
  <2>2. ch \in stored' /\ stored \subseteq stored'
    BY <1>2 DEF SessionsImpl!Start
  <2>3. Playing' = [Playing EXCEPT ![c] = ch]
    BY <1>2 DEF SessionsImpl!Start
  <2>4. QED
    BY <2>1, <2>2, <2>3
<1>3. ASSUME NEW c \in Clients, SessionsImpl!Leave(c)
      PROVE  SlotsAreExclusive' /\ PlayedIsStored'
  BY <1>3 DEF SessionsImpl!Leave
<1>4. CASE UNCHANGED SessionsImpl!vars
  BY <1>4 DEF SessionsImpl!vars
<1>5. QED
  BY <1>1, <1>2, <1>3, <1>4 DEF SessionsImpl!Next

\* No two sessions of the account ever play, and save, the same character,
\* and none plays one that was deleted.
THEOREM SessionsArePromised == Spec => [](SlotsAreExclusive /\ PlayedIsStored)
<1>1. TypeOK => Playing \in [Clients -> Characters \cup {NoCharacter}]
  BY DEF TypeOK, Playing, Nobody
<1>2. TypeOK /\ SlotsAreExclusive /\ PlayedIsStored /\ [Next]_vars
        => SlotsAreExclusive' /\ PlayedIsStored'
  BY <1>1, StepRefines, PromiseStep
<1>3. Init => SlotsAreExclusive /\ PlayedIsStored
  BY SessionsInit, PromiseInit
<1>4. QED
  BY <1>2, <1>3, TypesHold, PTL DEF Spec

-----------------------------------------------------------------------------
(* What the client has, what is on its way to it, and what was asked for *)

Packets(c) == Range(toClient[c])
DataOf(c) == {p \in Packets(c) : p.kind = "data"}
StatesOf(c)  == {p \in Packets(c) : p.kind \in {"crime", "faction", "topic"}}
Told(c) == {gate[c].data, gate[c].retained, gate[c].me}
           \cup {[char |-> p.char, records |-> p.records] : p \in DataOf(c)}
Named(c) == {gate[c].crime, gate[c].faction, gate[c].topic}
            \cup {x.char : x \in Told(c)} \cup {p.char : p \in StatesOf(c)}
Quiet(c) == \A p \in Packets(c) : p.kind = "record"

\* Nothing is open at a gate that could go through it, and what went through
\* has all of it.
GateSound(g, l) ==
  /\ g.content => g.lua
  /\ g.lua \/ g.retained # NoData \/ g.ready => l = "active"
  /\ g.ready => Nobody \notin {g.crime, g.faction, g.topic} /\ g.me.char # Nobody
  /\ \A x \in {g.data, g.retained, g.me} : x = NoData \/ x.char # Nobody
GateHolds(g, l) ==
  /\ GateSound(g, l)
  /\ ~(g.content /\ g.lua /\ g.data # NoData)
  /\ g.retained # NoData => Nobody \in {g.crime, g.faction, g.topic}

\* Packages and list come before anything else; nothing is asked for earlier.
Greeted(c) ==
  /\ screen[c] \in {"off", "connecting"} =>
       gate[c] = Shut /\ toServer[c] = <<>> /\ ~selected[c] /\ ~hurried[c]
  /\ screen[c] = "off" => toClient[c] = <<>>
  /\ screen[c] = "connecting" =>
       \/ toClient[c] = <<Plain("packages"), Plain("list")>>
       \/ toClient[c] = <<Plain("list")>> /\ lua[c] # "none"
  /\ screen[c] \notin {"off", "connecting"} =>
       lua[c] # "none" /\ \A p \in Packets(c) : p.kind \notin {"packages", "list"}
  /\ screen[c] = "world" => gate[c].ready

\* One request at a time, each with the gates shut for it.
OneRequest(c) ==
  /\ Len(toServer[c]) <= 1
  /\ toServer[c] # <<>> =>
       /\ Quiet(c)
       /\ Head(toServer[c]).kind = "select" => gate[c] = Shut
       /\ screen[c] = "selecting" => Head(toServer[c]).kind = "select"

\* All the client was told is of the character the server plays.
TellsTheSelected(c) ==
  \A ch \in Named(c) \ {Nobody} : selected[c] /\ slot[c] = ch /\ character[c] = ch

\* A definition is there, or comes before the topics.
Ahead(c, k) ==
  /\ gate[c].topic = Nobody
  /\ \E i \in DOMAIN toClient[c] :
       /\ toClient[c][i] = Record(k)
       /\ \A j \in 1 .. i : toClient[c][j].kind # "topic"
RecordsFirst(c) ==
  \A x \in Told(c) : \A k \in 1 .. x.records : k \in defined[c] \/ Ahead(c, k)

\* Part by part, the answer is there or under way.
Comes(c, k) == \E p \in Packets(c) : p.kind = k
AnswerComes(c) ==
  screen[c] = "selecting" =>
    \/ failed[c] \/ deleted[c] \/ gate[c].ready \/ toServer[c] # <<>>
    \/ Comes(c, "error") \/ Comes(c, "deleted")
    \/ /\ gate[c].content \/ Comes(c, "marker")
       /\ gate[c].crime # Nobody \/ Comes(c, "crime")
       /\ gate[c].faction # Nobody \/ Comes(c, "faction")
       /\ gate[c].topic # Nobody \/ Comes(c, "topic")
       /\ gate[c].data # NoData \/ gate[c].retained # NoData \/ Comes(c, "data")

Patient(c) == OneRequest(c) /\ TellsTheSelected(c) /\ RecordsFirst(c) /\ AnswerComes(c)
Holds(c) == GateHolds(gate[c], lua[c]) /\ Greeted(c) /\ (hurried[c] \/ Patient(c))
IInv == TypeOK /\ \A c \in Clients : Holds(c)

-----------------------------------------------------------------------------
(* The gates *)

\* What passing what is open does: the parts stay, the data moves on.
LEMMA FinalizedIs ==
  ASSUME NEW g \in Gate, NEW l, GateSound(g, l)
  PROVE  LET f == Finalized(g)
         IN  /\ GateHolds(f, l)
             /\ f.content = g.content /\ f.lua = g.lua
             /\ f.crime = g.crime /\ f.faction = g.faction /\ f.topic = g.topic
             /\ {f.data, f.retained, f.me} \subseteq {g.data, g.retained, g.me, NoData}
             /\ g.ready => f.ready
             /\ g.data # NoData \/ g.retained # NoData =>
                  f.data # NoData \/ f.retained # NoData \/ f.ready
<1> DEFINE moves == g.content /\ g.lua /\ g.data # NoData
           h == IF moves THEN [g EXCEPT !.data = NoData, !.retained = g.data] ELSE g
           opens == h.retained # NoData /\ Nobody \notin {h.crime, h.faction, h.topic}
           f == Finalized(g)
<1>1. f = IF opens THEN [h EXCEPT !.retained = NoData, !.ready = TRUE, !.me = h.retained] ELSE h
  BY DEF Finalized
<1>2. /\ h \in Gate /\ GateSound(h, l) /\ ~(h.content /\ h.lua /\ h.data # NoData)
      /\ h.content = g.content /\ h.lua = g.lua /\ h.ready = g.ready
      /\ h.crime = g.crime /\ h.faction = g.faction /\ h.topic = g.topic
      /\ {h.data, h.retained, h.me} \subseteq {g.data, g.retained, g.me, NoData}
      /\ g.data # NoData \/ g.retained # NoData => h.data # NoData \/ h.retained # NoData
  <2>1. CASE moves
    <3>1. /\ h = [g EXCEPT !.data = NoData, !.retained = g.data] /\ g.data \in Chosen
          /\ l = "active"
      BY <2>1, GateFields DEF GateSound
    <3>2. h \in Gate
      BY <3>1, GateUpdates
    <3>3. /\ h.data = NoData /\ h.retained = g.data /\ h.me = g.me
          /\ h.content = g.content /\ h.lua = g.lua /\ h.ready = g.ready
          /\ h.crime = g.crime /\ h.faction = g.faction /\ h.topic = g.topic
      BY <3>1 DEF Gate
    <3> HIDE DEF h
    <3>4. GateSound(h, l)
      BY <3>1, <3>3 DEF GateSound
    <3>5. QED
      BY <2>1, <3>2, <3>3, <3>4
  <2>2. CASE ~moves
    <3>1. h = g
      BY <2>2
    <3>2. QED
      BY <2>2, <3>1
  <2>3. QED
    BY <2>1, <2>2
<1> HIDE DEF h, f
<1>3. CASE opens
  <2>1. /\ f.data = h.data /\ f.retained = NoData /\ f.me = h.retained /\ f.ready = TRUE
        /\ f.content = h.content /\ f.lua = h.lua
        /\ f.crime = h.crime /\ f.faction = h.faction /\ f.topic = h.topic
    BY <1>1, <1>2, <1>3 DEF Gate
  <2>2. l = "active" /\ h.retained.char # Nobody
    BY <1>2, <1>3 DEF GateSound
  <2>3. GateHolds(f, l)
    BY <1>2, <1>3, <2>1, <2>2 DEF GateHolds, GateSound
  <2>4. QED
    BY <1>2, <2>1, <2>3 DEF f
<1>4. CASE ~opens
  <2>1. f = h
    BY <1>1, <1>4
  <2>2. GateHolds(f, l)
    BY <1>2, <1>4, <2>1 DEF GateHolds
  <2>3. QED
    BY <1>2, <2>1, <2>2 DEF f
<1>5. QED
  BY <1>3, <1>4

\* What the i-th packet does to the gates: it opens its part, shuts none, and
\* data goes on towards the world.
Change(c, p) ==
  LET g == gate[c]
      f == gate'[c]
  IN  /\ GateHolds(f, lua'[c])
      /\ {f.data, f.retained, f.me} \subseteq
           {g.data, g.retained, g.me, NoData}
           \cup (IF p.kind = "data" THEN {[char |-> p.char, records |-> p.records]} ELSE {})
      /\ f.crime = g.crime \/ (p.kind = "crime" /\ f.crime = p.char)
      /\ f.faction = g.faction \/ (p.kind = "faction" /\ f.faction = p.char)
      /\ f.topic = g.topic \/ (p.kind = "topic" /\ f.topic = p.char)
      /\ g.content \/ p.kind = "marker" => f.content
      /\ p.kind = "crime" => f.crime # Nobody
      /\ p.kind = "faction" => f.faction # Nobody
      /\ p.kind = "topic" => f.topic # Nobody
      /\ g.ready => f.ready
      /\ g.data # NoData \/ g.retained # NoData \/ p.kind = "data" =>
           f.data # NoData \/ f.retained # NoData \/ f.ready

LEMMA GateChange ==
  ASSUME TypeOK, NEW c \in Clients, GateHolds(gate[c], lua[c]), Greeted(c),
         NEW i \in DOMAIN toClient[c], Deliver(c, i)
  PROVE  Change(c, toClient[c][i])
<1> DEFINE p == toClient[c][i]
           g == gate[c]
           f == gate'[c]
<1>1. /\ p \in ToClient /\ p \in Packets(c)
      /\ g \in Gate /\ gate \in [Clients -> Gate] /\ lua \in [Clients -> {"none", "staged", "active"}]
  BY ElementOfSeq, LenProperties DEF TypeOK, Packets, Range
<1>2. /\ OnPackages(c, p) \/ OnList(c, p) \/ OnRecord(c, p) \/ OnMarker(c, p)
           \/ OnState(c, p) \/ OnData(c, p) \/ OnError(c, p) \/ OnDeleted(c, p)
  BY DEF Deliver
<1> HIDE DEF p
<1>3. ASSUME NEW h \in Gate, GateSound(h, lua'[c]), f = Finalized(h)
      PROVE  /\ GateHolds(f, lua'[c])
             /\ f.content = h.content /\ f.lua = h.lua
             /\ f.crime = h.crime /\ f.faction = h.faction /\ f.topic = h.topic
             /\ {f.data, f.retained, f.me} \subseteq {h.data, h.retained, h.me, NoData}
             /\ h.ready => f.ready
             /\ h.data # NoData \/ h.retained # NoData =>
                  f.data # NoData \/ f.retained # NoData \/ f.ready
  <2>1. QED
    BY <1>3, FinalizedIs
<1>4. CASE OnPackages(c, p)
  <2>1. g = Shut
    <3>1. screen[c] \in {"off", "connecting"}
      BY <1>1, <1>4 DEF OnPackages, Greeted
    <3>2. QED
      BY <3>1 DEF Greeted
  <2>2. f = g /\ lua'[c] = "staged"
    BY <1>1, <1>4, <2>1 DEF OnPackages, Activates, Shut
  <2>3. GateHolds(f, lua'[c])
    BY <2>1, <2>2 DEF GateHolds, GateSound, Shut, NoData
  <2>4. QED
    BY <1>4, <2>1, <2>2, <2>3 DEF Change, OnPackages, Shut, NoData, p
<1>5. CASE OnList(c, p) \/ OnRecord(c, p) \/ OnError(c, p) \/ OnDeleted(c, p)
  <2>1. f = g /\ lua' = lua /\ p.kind \in {"list", "record", "error", "deleted"}
    BY <1>1, <1>5 DEF OnList, OnRecord, OnError, OnDeleted
  <2>2. QED
    BY <2>1 DEF Change, GateHolds, p
<1>6. CASE OnMarker(c, p)
  <2> DEFINE g1 == [g EXCEPT !.content = TRUE]
             h == IF Activates(g1, lua[c]) THEN [g1 EXCEPT !.lua = TRUE] ELSE g1
  <2>1. p.kind = "marker" /\ f = Finalized(h)
    BY <1>1, <1>6 DEF OnMarker
  <2>2. lua[c] # "none"
    BY <1>1, <2>1 DEF Greeted, Packets, Range, Plain
  <2>3. g1 \in Gate /\ g1.content = TRUE /\ g1.lua = g.lua
    BY <1>1 DEF Gate
  <2>4. h = [g1 EXCEPT !.lua = TRUE] /\ lua'[c] = "active"
    <3>1. CASE g.lua
      <4>1. lua'[c] = lua[c] /\ h = g1
        BY <1>1, <1>6, <2>3, <3>1 DEF OnMarker, Activates
      <4>2. g1 = [g1 EXCEPT !.lua = TRUE]
        BY <1>1, <3>1 DEF Gate
      <4>3. QED
        BY <3>1, <4>1, <4>2 DEF GateHolds, GateSound
    <3>2. CASE ~g.lua
      BY <1>1, <1>6, <2>2, <2>3, <3>2 DEF OnMarker, Activates
    <3>3. QED
      BY <3>1, <3>2
  <2>5. /\ h \in Gate /\ h.content = TRUE /\ h.lua = TRUE
        /\ h.data = g.data /\ h.retained = g.retained /\ h.me = g.me /\ h.ready = g.ready
        /\ h.crime = g.crime /\ h.faction = g.faction /\ h.topic = g.topic
    BY <1>1, <2>4 DEF Gate
  <2> HIDE DEF h
  <2>6. GateSound(h, lua'[c])
    BY <2>4, <2>5 DEF GateHolds, GateSound
  <2>7. QED
    BY <1>3, <2>1, <2>5, <2>6 DEF Change, p
<1>7. CASE OnState(c, p)
  <2> DEFINE h == IF Newer(Known(g, p.kind), p.char) THEN Taken(g, p.kind, p.char) ELSE g
  <2>1. p.kind \in {"crime", "faction", "topic"} /\ p.char \in Characters /\ lua' = lua
    BY <1>1, <1>7 DEF OnState, ToClient
  <2>2. f = Finalized(h)
    BY <1>1, <1>7 DEF OnState
  <2>3. /\ h \in Gate /\ h.content = g.content /\ h.lua = g.lua
        /\ h.data = g.data /\ h.retained = g.retained /\ h.me = g.me /\ h.ready = g.ready
        /\ h.crime = g.crime \/ (p.kind = "crime" /\ h.crime = p.char)
        /\ h.faction = g.faction \/ (p.kind = "faction" /\ h.faction = p.char)
        /\ h.topic = g.topic \/ (p.kind = "topic" /\ h.topic = p.char)
        /\ p.kind = "crime" => h.crime # Nobody
        /\ p.kind = "faction" => h.faction # Nobody
        /\ p.kind = "topic" => h.topic # Nobody
    <3>1. p.char # Nobody
      BY <2>1 DEF Nobody
    <3>2. CASE Newer(Known(g, p.kind), p.char)
      <4>1. h = Taken(g, p.kind, p.char)
        BY <3>2
      <4>2. CASE p.kind = "crime"
        <5>1. h = [g EXCEPT !.crime = p.char]
          BY <4>1, <4>2 DEF Taken
        <5>2. QED
          BY <1>1, <2>1, <3>1, <4>2, <5>1 DEF Gate
      <4>3. CASE p.kind = "faction"
        <5>1. h = [g EXCEPT !.faction = p.char]
          BY <4>1, <4>3 DEF Taken
        <5>2. QED
          BY <1>1, <2>1, <3>1, <4>3, <5>1 DEF Gate
      <4>4. CASE p.kind = "topic"
        <5>1. h = [g EXCEPT !.topic = p.char]
          BY <4>1, <4>4 DEF Taken
        <5>2. QED
          BY <1>1, <2>1, <3>1, <4>4, <5>1 DEF Gate
      <4>5. QED
        BY <2>1, <4>2, <4>3, <4>4
    <3>3. CASE ~Newer(Known(g, p.kind), p.char)
      <4>1. h = g /\ Known(g, p.kind) # Nobody
        BY <3>3 DEF Newer
      <4>2. QED
        BY <1>1, <2>1, <4>1 DEF Known
    <3>4. QED
      BY <3>2, <3>3
  <2> HIDE DEF h
  <2>4. GateSound(h, lua'[c])
    BY <2>1, <2>3 DEF GateHolds, GateSound
  <2>5. QED
    BY <1>3, <2>1, <2>2, <2>3, <2>4 DEF Change, p
<1>8. CASE OnData(c, p)
  <2> DEFINE x == [char |-> p.char, records |-> p.records]
             h == [g EXCEPT !.data = x]
  <2>1. p.kind = "data" /\ lua' = lua /\ x \in Chosen /\ x.char \in Characters
    BY <1>1, <1>8 DEF OnData, ToClient, Chosen
  <2>2. f = Finalized(h)
    BY <1>1, <1>8 DEF OnData
  <2>3. x.char # Nobody /\ x # NoData
    BY <2>1 DEF Nobody, NoData
  <2> HIDE DEF x
  <2>4. /\ h \in Gate /\ h.content = g.content /\ h.lua = g.lua
        /\ h.data = x /\ h.retained = g.retained /\ h.me = g.me /\ h.ready = g.ready
        /\ h.crime = g.crime /\ h.faction = g.faction /\ h.topic = g.topic
    BY <1>1, <2>1, GateUpdates DEF Gate
  <2> HIDE DEF h
  <2>5. GateSound(h, lua'[c])
    BY <2>1, <2>3, <2>4 DEF GateHolds, GateSound
  <2>6. {f.data, f.retained, f.me} \subseteq {x, g.retained, g.me, NoData}
    BY <1>3, <2>2, <2>4, <2>5
  <2>7. QED
    BY <1>3, <2>1, <2>2, <2>3, <2>4, <2>5, <2>6 DEF Change, x, p
<1>9. QED
  BY <1>2, <1>4, <1>5, <1>6, <1>7, <1>8 DEF p

-----------------------------------------------------------------------------
(* A packet arrives *)

LEMMA DeliverFrame ==
  ASSUME TypeOK, NEW c \in Clients, NEW i \in DOMAIN toClient[c], Deliver(c, i)
  PROVE  /\ toClient[c] \in Seq(ToClient) /\ toClient[c][i] \in ToClient
         /\ toClient[c][i] \in Packets(c)
         /\ toClient'[c] = RemoveAt(toClient[c], i)
         /\ Packets(c)' \subseteq Packets(c)
         /\ Packets(c) \subseteq Packets(c)' \cup {toClient[c][i]}
         /\ \A d \in Clients \ {c} :
              toClient'[d] = toClient[d] /\ gate'[d] = gate[d] /\ lua'[d] = lua[d]
              /\ screen'[d] = screen[d] /\ defined'[d] = defined[d]
              /\ failed'[d] = failed[d] /\ deleted'[d] = deleted[d]
<1>1. toClient[c] \in Seq(ToClient) /\ toClient[c][i] \in ToClient
  BY ElementOfSeq, LenProperties DEF TypeOK
<1>2. toClient' = [toClient EXCEPT ![c] = RemoveAt(toClient[c], i)]
  BY DEF Deliver, TypeOK
<1>3. toClient'[c] = RemoveAt(toClient[c], i)
  BY <1>2 DEF TypeOK
<1>4. toClient[c][i] \in Packets(c)
  BY DEF Packets, Range
<1>5. /\ Packets(c)' \subseteq Packets(c)
      /\ Packets(c) \subseteq Packets(c)' \cup {toClient[c][i]}
  BY <1>1, <1>3, RemovalRange DEF Packets
<1>6. ASSUME NEW d \in Clients \ {c}
      PROVE  toClient'[d] = toClient[d] /\ gate'[d] = gate[d] /\ lua'[d] = lua[d]
             /\ screen'[d] = screen[d] /\ defined'[d] = defined[d]
             /\ failed'[d] = failed[d] /\ deleted'[d] = deleted[d]
  <2> DEFINE p == toClient[c][i]
  <2>1. /\ OnPackages(c, p) \/ OnList(c, p) \/ OnRecord(c, p) \/ OnMarker(c, p)
             \/ OnState(c, p) \/ OnData(c, p) \/ OnError(c, p) \/ OnDeleted(c, p)
    BY DEF Deliver
  <2> HIDE DEF p
  <2>2. toClient'[d] = toClient[d]
    BY <1>2 DEF TypeOK
  <2>3. /\ gate'[d] = gate[d] /\ lua'[d] = lua[d]
        /\ screen'[d] = screen[d] /\ defined'[d] = defined[d]
        /\ failed'[d] = failed[d] /\ deleted'[d] = deleted[d]
    BY <2>1 DEF OnPackages, OnList, OnRecord, OnMarker, OnState, OnData, OnError, OnDeleted, TypeOK
  <2>4. QED
    BY <2>2, <2>3
<1>7. QED
  BY <1>1, <1>3, <1>4, <1>5, <1>6

\* What each kind of packet sets besides the gates.
LEMMA DeliverEffect ==
  ASSUME TypeOK, NEW c \in Clients, NEW i \in DOMAIN toClient[c], Deliver(c, i)
  PROVE  LET p == toClient[c][i]
         IN  /\ screen'[c] = IF p.kind = "list" THEN "choosing" ELSE screen[c]
             /\ lua[c] # "none" \/ p.kind = "packages" => lua'[c] # "none"
             /\ defined'[c] = IF p.kind = "record" THEN defined[c] \cup {p.id} ELSE defined[c]
             /\ failed[c] \/ p.kind = "error" => failed'[c]
             /\ deleted[c] \/ p.kind = "deleted" => deleted'[c]
             /\ p.kind = "record" => gate'[c] = gate[c]
             /\ p.kind = "packages" /\ gate[c] = Shut => gate'[c] = Shut
<1> DEFINE p == toClient[c][i]
<1>1. /\ OnPackages(c, p) \/ OnList(c, p) \/ OnRecord(c, p) \/ OnMarker(c, p)
           \/ OnState(c, p) \/ OnData(c, p) \/ OnError(c, p) \/ OnDeleted(c, p)
  BY DEF Deliver
<1> HIDE DEF p
<1>2. CASE OnPackages(c, p)
  <2>1. gate[c] = Shut => gate'[c] = Shut
    BY <1>2 DEF OnPackages, TypeOK, Activates, Shut
  <2>2. QED
    BY <1>2, <2>1 DEF OnPackages, TypeOK, p
<1>3. CASE OnList(c, p)
  BY <1>3 DEF OnList, TypeOK, p
<1>4. CASE OnRecord(c, p)
  BY <1>4 DEF OnRecord, TypeOK, p
<1>5. CASE OnMarker(c, p)
  BY <1>5 DEF OnMarker, TypeOK, p
<1>6. CASE OnState(c, p)
  BY <1>6 DEF OnState, TypeOK, p
<1>7. CASE OnData(c, p)
  BY <1>7 DEF OnData, TypeOK, p
<1>8. CASE OnError(c, p)
  BY <1>8 DEF OnError, TypeOK, p
<1>9. CASE OnDeleted(c, p)
  BY <1>9 DEF OnDeleted, TypeOK, p
<1>10. QED
  BY <1>1, <1>2, <1>3, <1>4, <1>5, <1>6, <1>7, <1>8, <1>9

LEMMA DeliverGreeted ==
  ASSUME TypeOK, NEW c \in Clients, GateHolds(gate[c], lua[c]), Greeted(c),
         NEW i \in DOMAIN toClient[c], Deliver(c, i)
  PROVE  Greeted(c)'
<1> DEFINE p == toClient[c][i]
           q == toClient[c]
<1>1. UNCHANGED <<toServer, selected, hurried>> /\ i \in Arriving(q)
  BY DEF Deliver, serverVars
<1>2. screen[c] # "off"
  BY DEF Greeted
<1>3. CASE screen[c] = "connecting"
  <2>1. gate[c] = Shut /\ toServer[c] = <<>> /\ ~selected[c] /\ ~hurried[c]
    BY <1>3 DEF Greeted
  <2>2. CASE q = <<Plain("packages"), Plain("list")>>
    <3>1. i \in {1, 2} /\ q[1].kind = "packages" /\ q[2].kind = "list"
      BY <2>2 DEF Plain
    <3>2. i = 1
      <4>1. \A j \in 1 .. i - 1 : Lane(q[j]) # Lane(q[i])
        BY <1>1 DEF Arriving
      <4>2. Lane(q[1]) = Lane(q[2])
        BY <3>1 DEF Lane
      <4>3. QED
        BY <3>1, <4>1, <4>2
    <3>3. toClient'[c] = <<Plain("list")>>
      <4>1. /\ Len(RemoveAt(q, 1)) = 1 /\ RemoveAt(q, 1)[1] = Plain("list")
            /\ RemoveAt(q, 1) \in Seq(ToClient)
        <5>1. Len(q) = 2 /\ q[2] = Plain("list") /\ 1 \in DOMAIN q /\ q \in Seq(ToClient)
          BY <2>2, DeliverFrame
        <5> HIDE DEF q
        <5>2. /\ RemoveAt(q, 1) \in Seq(ToClient) /\ Len(RemoveAt(q, 1)) = Len(q) - 1
              /\ \A j \in 1 .. Len(q) - 1 :
                   RemoveAt(q, 1)[j] = IF j < 1 THEN q[j] ELSE q[j + 1]
          BY <5>1, RemovalAt
        <5>3. Len(q) - 1 = 1 /\ 1 \in 1 .. 1 /\ ~(1 < 1) /\ 1 + 1 = 2
          BY <5>1
        <5>4. RemoveAt(q, 1)[1] = q[2]
          BY <5>2, <5>3
        <5>5. QED
          BY <5>1, <5>2, <5>3, <5>4
      <4>2. toClient'[c] = RemoveAt(q, 1)
        BY <3>2, DeliverFrame
      <4> HIDE DEF q
      <4>3. RemoveAt(q, 1) = <<Plain("list")>>
        BY <4>1
      <4>4. QED
        BY <4>2, <4>3
    <3>4. p.kind = "packages"
      BY <3>1, <3>2
    <3>5. screen'[c] = "connecting" /\ lua'[c] # "none" /\ gate'[c] = Shut
      BY <1>3, <2>1, <3>4, DeliverEffect
    <3>6. QED
      BY <1>1, <2>1, <3>3, <3>5 DEF Greeted
  <2>3. CASE q = <<Plain("list")>> /\ lua[c] # "none"
    <3>1. i = 1 /\ p.kind = "list"
      BY <2>3 DEF Plain
    <3>2. screen'[c] = "choosing" /\ lua'[c] # "none"
      BY <2>3, <3>1, DeliverEffect
    <3>3. Packets(c)' = {}
      <4>1. Len(RemoveAt(q, 1)) = 0 /\ RemoveAt(q, 1) \in Seq(ToClient)
        BY <2>3, <3>1, RemovalAt, DeliverFrame
      <4>2. toClient'[c] = RemoveAt(q, 1)
        BY <3>1, DeliverFrame
      <4>3. QED
        BY <4>1, <4>2, LenProperties DEF Packets, Range
    <3>4. QED
      BY <3>2, <3>3 DEF Greeted
  <2>4. QED
    BY <1>3, <2>2, <2>3 DEF Greeted
<1>4. CASE screen[c] # "connecting"
  <2>1. lua[c] # "none" /\ \A x \in Packets(c) : x.kind \notin {"packages", "list"}
    BY <1>2, <1>4 DEF Greeted
  <2>2. p.kind # "list"
    BY <2>1, DeliverFrame
  <2>3. screen'[c] = screen[c] /\ lua'[c] # "none"
    BY <2>1, <2>2, DeliverEffect
  <2>4. \A x \in Packets(c)' : x.kind \notin {"packages", "list"}
    BY <2>1, DeliverFrame
  <2>5. screen[c] = "world" => gate'[c].ready
    BY GateChange DEF Greeted, Change
  <2>6. QED
    BY <1>2, <1>4, <2>3, <2>4, <2>5 DEF Greeted
<1>5. QED
  BY <1>3, <1>4

LEMMA DeliverRecordsFirst ==
  ASSUME TypeOK, NEW c \in Clients, GateHolds(gate[c], lua[c]), Greeted(c), RecordsFirst(c),
         NEW i \in DOMAIN toClient[c], Deliver(c, i)
  PROVE  RecordsFirst(c)'
<1> DEFINE p == toClient[c][i]
           q == toClient[c]
           r == RemoveAt(q, i)
<1>1. /\ q \in Seq(ToClient) /\ toClient'[c] = r /\ p \in ToClient /\ p \in Packets(c)
      /\ Packets(c)' \subseteq Packets(c) /\ i \in Arriving(q)
  BY DeliverFrame DEF Deliver
<1>2. Told(c)' \subseteq Told(c) \cup {NoData}
  <2>1. Change(c, p)
    BY GateChange
  <2>2. DataOf(c)' \subseteq DataOf(c)
    BY <1>1 DEF DataOf
  <2>3. p.kind = "data" => p \in DataOf(c)
    BY <1>1 DEF DataOf
  <2> HIDE DEF p
  <2>4. {gate'[c].data, gate'[c].retained, gate'[c].me} \subseteq Told(c) \cup {NoData}
    BY <2>1, <2>3 DEF Change, Told
  <2>5. QED
    BY <2>2, <2>4 DEF Told
<1>3. SUFFICES ASSUME NEW x \in Told(c), NEW k \in 1 .. x.records,
                      k \notin defined'[c]
               PROVE  Ahead(c, k)'
  <2>1. 1 .. NoData.records = {}
    BY DEF NoData
  <2>2. QED
    BY <1>2, <2>1 DEF RecordsFirst
<1>4. k \notin defined[c] /\ p # Record(k)
  <2>1. defined'[c] = IF p.kind = "record" THEN defined[c] \cup {p.id} ELSE defined[c]
    BY DeliverEffect
  <2> HIDE DEF p
  <2>2. p = Record(k) => p.kind = "record" /\ p.id = k
    BY DEF Record
  <2>3. QED
    BY <1>3, <2>1, <2>2
<1>5. gate[c].topic = Nobody
  BY <1>3, <1>4 DEF RecordsFirst, Ahead
<1>6. PICK n \in DOMAIN q : q[n] = Record(k) /\ \A j \in 1 .. n : q[j].kind # "topic"
  BY <1>3, <1>4 DEF RecordsFirst, Ahead
<1>7. n # i
  BY <1>4, <1>6
<1>8. i \in 1 .. Len(q) /\ n \in 1 .. Len(q) /\ Len(q) \in Nat
  BY <1>1, LenProperties
<1>9. p.kind # "topic"
  <2>1. CASE i < n
    BY <2>1, <1>6, <1>8
  <2>2. CASE n < i
    <3>1. Lane(q[n]) # Lane(p)
      BY <2>2, <1>1, <1>8 DEF Arriving
    <3>2. Lane(q[n]) = 0
      BY <1>6 DEF Lane, Record
    <3>3. QED
      BY <3>1, <3>2 DEF Lane
  <2>3. QED
    BY <1>7, <1>8, <2>1, <2>2
<1>10. gate'[c].topic = Nobody
  <2> HIDE DEF p
  <2>1. QED
    BY <1>5, <1>9, GateChange DEF Change, p
<1>11. After(i, n) \in DOMAIN r /\ r[After(i, n)] = Record(k)
  BY <1>1, <1>6, <1>7, RemovalKeeps
<1>12. ASSUME NEW j \in 1 .. After(i, n)
       PROVE  r[j].kind # "topic"
  <2>1. j \in DOMAIN r
    <3>1. After(i, n) \in 1 .. Len(r) /\ Len(r) \in Nat /\ DOMAIN r = 1 .. Len(r)
      BY <1>1, <1>11, RemovalAt, LenProperties
    <3>2. QED
      BY <3>1
  <2>2. r[j] = q[Before(i, j)]
    BY <1>1, <2>1, RemovalFrom
  <2>3. Before(i, j) \in 1 .. n
    BY <1>7, <1>8 DEF Before, After
  <2>4. QED
    BY <1>6, <2>2, <2>3
<1>13. QED
  BY <1>1, <1>10, <1>11, <1>12 DEF Ahead

LEMMA DeliverPatient ==
  ASSUME TypeOK, NEW c \in Clients, GateHolds(gate[c], lua[c]), Greeted(c), Patient(c),
         NEW i \in DOMAIN toClient[c], Deliver(c, i)
  PROVE  Patient(c)'
<1> DEFINE p == toClient[c][i]
<1>1. /\ Packets(c)' \subseteq Packets(c) /\ Packets(c) \subseteq Packets(c)' \cup {p}
      /\ p \in Packets(c) /\ p \in ToClient
      /\ UNCHANGED <<toServer, selected, slot, character>>
  BY DeliverFrame DEF Deliver, serverVars
<1>2. Change(c, p)
  BY GateChange
<1>3. /\ screen'[c] = IF p.kind = "list" THEN "choosing" ELSE screen[c]
      /\ failed[c] \/ p.kind = "error" => failed'[c]
      /\ deleted[c] \/ p.kind = "deleted" => deleted'[c]
      /\ p.kind = "record" => gate'[c] = gate[c]
  BY DeliverEffect
<1> HIDE DEF p
<1>4. OneRequest(c)'
  <2>1. CASE toServer[c] = <<>>
    BY <1>1, <2>1 DEF Patient, OneRequest
  <2>2. CASE toServer[c] # <<>>
    <3>1. Quiet(c) /\ p.kind = "record"
      BY <1>1, <2>2 DEF Patient, OneRequest, Quiet
    <3>2. Quiet(c)' /\ gate'[c] = gate[c] /\ screen'[c] = screen[c]
      BY <1>1, <1>3, <3>1 DEF Quiet
    <3>3. QED
      BY <1>1, <3>2 DEF Patient, OneRequest
  <2>3. QED
    BY <2>1, <2>2
<1>5. TellsTheSelected(c)'
  <2>1. DataOf(c)' \subseteq DataOf(c) /\ StatesOf(c)' \subseteq StatesOf(c)
    BY <1>1 DEF DataOf, StatesOf
  <2>2. /\ p.kind = "data" => p \in DataOf(c)
        /\ p.kind \in {"crime", "faction", "topic"} => p \in StatesOf(c)
    BY <1>1 DEF DataOf, StatesOf
  <2>3. /\ {gate'[c].data, gate'[c].retained, gate'[c].me} \subseteq Told(c) \cup {NoData}
        /\ {gate'[c].crime, gate'[c].faction, gate'[c].topic} \subseteq Named(c)
    BY <1>2, <2>2 DEF Change, Told, Named
  <2>4. Told(c)' \subseteq Told(c) \cup {NoData}
    BY <2>1, <2>3 DEF Told
  <2>5. Named(c)' \subseteq Named(c) \cup {Nobody}
    BY <2>1, <2>3, <2>4 DEF Named, NoData
  <2>6. QED
    BY <1>1, <2>5 DEF Patient, TellsTheSelected
<1>6. RecordsFirst(c)'
  BY DeliverRecordsFirst DEF Patient
<1>7. AnswerComes(c)'
  <2>1. CASE screen'[c] # "selecting"
    BY <2>1 DEF AnswerComes
  <2>2. CASE screen[c] = "selecting" /\ screen'[c] = "selecting"
    <3>1. \A k : Comes(c, k) => Comes(c, k)' \/ p.kind = k
      BY <1>1 DEF Comes
    <3>2. CASE failed[c] \/ deleted[c] \/ gate[c].ready \/ toServer[c] # <<>>
      <4>1. failed'[c] \/ deleted'[c] \/ gate'[c].ready \/ toServer'[c] # <<>>
        BY <1>1, <1>2, <1>3, <3>2 DEF Change
      <4>2. QED
        BY <4>1 DEF AnswerComes
    <3>3. CASE Comes(c, "error")
      BY <1>3, <3>1, <3>3 DEF AnswerComes
    <3>4. CASE Comes(c, "deleted")
      BY <1>3, <3>1, <3>4 DEF AnswerComes
    <3>5. CASE /\ gate[c].content \/ Comes(c, "marker")
               /\ gate[c].crime # Nobody \/ Comes(c, "crime")
               /\ gate[c].faction # Nobody \/ Comes(c, "faction")
               /\ gate[c].topic # Nobody \/ Comes(c, "topic")
               /\ gate[c].data # NoData \/ gate[c].retained # NoData \/ Comes(c, "data")
      <4>1. gate'[c].content \/ Comes(c, "marker")'
        BY <1>2, <3>1, <3>5 DEF Change
      <4>2. gate'[c].crime # Nobody \/ Comes(c, "crime")'
        BY <1>2, <3>1, <3>5 DEF Change
      <4>3. gate'[c].faction # Nobody \/ Comes(c, "faction")'
        BY <1>2, <3>1, <3>5 DEF Change
      <4>4. gate'[c].topic # Nobody \/ Comes(c, "topic")'
        BY <1>2, <3>1, <3>5 DEF Change
      <4>5. \/ gate'[c].data # NoData \/ gate'[c].retained # NoData \/ gate'[c].ready
            \/ Comes(c, "data")'
        BY <1>2, <3>1, <3>5 DEF Change
      <4>6. QED
        BY <4>1, <4>2, <4>3, <4>4, <4>5 DEF AnswerComes
    <3>6. QED
      BY <2>2, <3>2, <3>3, <3>4, <3>5 DEF Patient, AnswerComes
  <2>3. QED
    BY <1>3, <2>1, <2>2
<1>8. QED
  BY <1>4, <1>5, <1>6, <1>7 DEF Patient

-----------------------------------------------------------------------------
(* The other steps *)

\* Whoever a step does not touch.
Untouched(d) ==
  /\ toClient'[d] = toClient[d] /\ toServer'[d] = toServer[d]
  /\ screen'[d] = screen[d] /\ gate'[d] = gate[d] /\ lua'[d] = lua[d]
  /\ defined'[d] = defined[d] /\ failed'[d] = failed[d] /\ deleted'[d] = deleted[d]
  /\ hurried'[d] = hurried[d] /\ selected'[d] = selected[d] /\ slot'[d] = slot[d]
  /\ character'[d] = character[d]

LEMMA Unmoved ==
  ASSUME NEW d \in Clients, Holds(d), Untouched(d)
  PROVE  Holds(d)'
<1> USE DEF Untouched
<1>1. Packets(d)' = Packets(d)
  BY DEF Packets
<1>2. DataOf(d)' = DataOf(d) /\ StatesOf(d)' = StatesOf(d)
  BY <1>1 DEF DataOf, StatesOf
<1>3. Told(d)' = Told(d)
  BY <1>2 DEF Told
<1>4. Named(d)' = Named(d)
  BY <1>2, <1>3 DEF Named
<1>5. OneRequest(d) => OneRequest(d)'
  BY <1>1 DEF OneRequest, Quiet
<1>6. TellsTheSelected(d) => TellsTheSelected(d)'
  BY <1>4 DEF TellsTheSelected
<1>7. RecordsFirst(d) => RecordsFirst(d)'
  BY <1>3 DEF RecordsFirst, Ahead
<1>8. AnswerComes(d) => AnswerComes(d)'
  BY <1>1 DEF AnswerComes, Comes
<1>9. Greeted(d)'
  BY <1>1 DEF Holds, Greeted
<1>10. QED
  BY <1>5, <1>6, <1>7, <1>8, <1>9 DEF Holds, Patient

LEMMA ShutHolds == \A l : GateHolds(Shut, l)
BY DEF GateHolds, GateSound, Shut, NoData

\* With the gates shut and only definitions under way, nothing is told.
LEMMA QuietTells ==
  ASSUME NEW c \in Clients, gate[c] = Shut, Quiet(c)
  PROVE  TellsTheSelected(c) /\ RecordsFirst(c) /\ Named(c) = {Nobody} /\ Told(c) = {NoData}
<1>1. DataOf(c) = {} /\ StatesOf(c) = {}
  BY DEF DataOf, StatesOf, Quiet
<1>2. Told(c) = {NoData}
  BY <1>1 DEF Told, Shut
<1>3. Named(c) = {Nobody}
  BY <1>1, <1>2 DEF Named, Shut, NoData
<1>4. 1 .. NoData.records = {}
  BY DEF NoData
<1>5. QED
  BY <1>2, <1>3, <1>4 DEF TellsTheSelected, RecordsFirst

LEMMA InitHolds == Init => \A c \in Clients : Holds(c)
<1> SUFFICES ASSUME Init, NEW c \in Clients PROVE Holds(c)
  OBVIOUS
<1>1. /\ gate[c] = Shut /\ screen[c] = "off" /\ toClient[c] = <<>> /\ toServer[c] = <<>>
      /\ ~selected[c] /\ ~hurried[c]
  BY DEF Init
<1>2. Quiet(c)
  BY <1>1 DEF Quiet, Packets, Range
<1>3. Greeted(c)
  BY <1>1 DEF Greeted
<1>4. Patient(c)
  BY <1>1, <1>2, QuietTells DEF Patient, OneRequest, AnswerComes
<1>5. QED
  BY <1>1, <1>3, <1>4, ShutHolds DEF Holds

LEMMA ConnectHolds ==
  ASSUME TypeOK, NEW c \in Clients, Holds(c), Connect(c)
  PROVE  Holds(c)'
<1>1. /\ gate[c] = Shut /\ toServer[c] = <<>> /\ ~selected[c] /\ ~hurried[c] /\ toClient[c] = <<>>
  BY DEF Connect, Holds, Greeted
<1>2. /\ gate'[c] = Shut /\ toServer'[c] = <<>> /\ ~selected'[c] /\ ~hurried'[c]
      /\ screen'[c] = "connecting"
  BY <1>1 DEF Connect, TypeOK, serverVars
<1>3. toClient'[c] = <<Plain("packages"), Plain("list")>>
  BY <1>1 DEF Connect, Reply, TypeOK
<1>4. DataOf(c)' = {} /\ StatesOf(c)' = {}
  <2>1. \A p \in Packets(c)' : p.kind \in {"packages", "list"}
    BY <1>3 DEF Packets, Range, Plain
  <2>2. QED
    BY <2>1 DEF DataOf, StatesOf
<1>5. Told(c)' = {NoData} /\ Named(c)' = {Nobody}
  BY <1>2, <1>4 DEF Told, Named, Shut, NoData
<1>6. RecordsFirst(c)'
  <2>1. 1 .. NoData.records = {}
    BY DEF NoData
  <2>2. QED
    BY <1>5, <2>1 DEF RecordsFirst
<1>7. Patient(c)'
  BY <1>2, <1>5, <1>6 DEF Patient, OneRequest, TellsTheSelected, AnswerComes
<1>8. Greeted(c)'
  BY <1>2, <1>3 DEF Greeted
<1>9. QED
  BY <1>2, <1>7, <1>8, ShutHolds DEF Holds

LEMMA LeaveHolds ==
  ASSUME TypeOK, NEW c \in Clients, Leave(c)
  PROVE  Holds(c)'
<1>1. /\ gate'[c] = Shut /\ screen'[c] = "off" /\ toClient'[c] = <<>> /\ toServer'[c] = <<>>
      /\ ~selected'[c] /\ ~hurried'[c]
  BY DEF Leave, TypeOK
<1>2. Packets(c)' = {}
  BY <1>1 DEF Packets, Range
<1>3. Told(c)' = {NoData} /\ Named(c)' = {Nobody}
  BY <1>1, <1>2 DEF Told, Named, DataOf, StatesOf, Shut, NoData
<1>4. RecordsFirst(c)'
  <2>1. 1 .. NoData.records = {}
    BY DEF NoData
  <2>2. QED
    BY <1>3, <2>1 DEF RecordsFirst
<1>5. Patient(c)'
  BY <1>1, <1>3, <1>4 DEF Patient, OneRequest, TellsTheSelected, AnswerComes
<1>6. Greeted(c)'
  BY <1>1 DEF Greeted
<1>7. QED
  BY <1>1, <1>5, <1>6, ShutHolds DEF Holds

LEMMA FrameHolds ==
  ASSUME TypeOK, NEW c \in Clients, Holds(c), Frame(c) \/ TimeOut(c)
  PROVE  Holds(c)'
<1>1. /\ UNCHANGED <<serverVars, gate, lua, defined, hurried, toServer, toClient>>
      /\ screen[c] \in Waiting
      /\ screen'[c] = "choosing" \/ (screen'[c] = "world" /\ gate[c].ready)
  BY DEF Frame, TimeOut, TypeOK
<1>2. Packets(c)' = Packets(c)
  BY <1>1 DEF Packets
<1>3. Told(c)' = Told(c) /\ Named(c)' = Named(c)
  BY <1>1, <1>2 DEF Told, Named, DataOf, StatesOf
<1>4. Greeted(c)'
  BY <1>1, <1>2 DEF Holds, Greeted, Waiting
<1>5. ASSUME Patient(c) PROVE Patient(c)'
  <2>1. OneRequest(c)'
    BY <1>1, <1>2, <1>5 DEF Patient, OneRequest, Quiet
  <2>2. TellsTheSelected(c)'
    BY <1>1, <1>3, <1>5 DEF Patient, TellsTheSelected, serverVars
  <2>3. RecordsFirst(c)'
    BY <1>1, <1>3, <1>5 DEF Patient, RecordsFirst, Ahead
  <2>4. AnswerComes(c)'
    BY <1>1 DEF AnswerComes
  <2>5. QED
    BY <2>1, <2>2, <2>3, <2>4 DEF Patient
<1>6. QED
  BY <1>1, <1>4, <1>5 DEF Holds

LEMMA SelectHolds ==
  ASSUME TypeOK, NEW c \in Clients, Holds(c), NEW ch \in Characters, NEW new \in BOOLEAN,
         SendSelect(c, ch, new)
  PROVE  Holds(c)'
<1> DEFINE m == Select(ch, new)
<1>1. /\ screen[c] = "choosing" /\ screen'[c] = "selecting" /\ gate'[c] = Shut
      /\ UNCHANGED <<serverVars, lua, defined, toClient>>
      /\ toServer'[c] = Append(toServer[c], m)
      /\ hurried'[c] = (hurried[c] \/ Unanswered(c))
  BY DEF SendSelect, Request, TypeOK
<1>2. Packets(c)' = Packets(c)
  BY <1>1 DEF Packets
<1>3. Greeted(c)'
  BY <1>1, <1>2 DEF Holds, Greeted
<1>4. ASSUME ~hurried'[c] PROVE Patient(c)'
  <2>1. toServer[c] = <<>> /\ Quiet(c)
    BY <1>1, <1>4 DEF Unanswered, Quiet, Packets, Range
  <2>2. toServer'[c] = <<m>>
    BY <1>1, <2>1
  <2>3. Len(<<m>>) = 1 /\ Head(<<m>>) = m /\ m.kind = "select" /\ <<m>> # <<>>
    BY DEF Select
  <2>4. Quiet(c)'
    BY <1>2, <2>1 DEF Quiet
  <2>5. TellsTheSelected(c)' /\ RecordsFirst(c)'
    <3>1. Told(c)' = {NoData} /\ Named(c)' = {Nobody}
      BY <1>1, <2>4 DEF Told, Named, DataOf, StatesOf, Quiet, Shut, NoData
    <3>2. 1 .. NoData.records = {}
      BY DEF NoData
    <3>3. QED
      BY <3>1, <3>2 DEF TellsTheSelected, RecordsFirst
  <2> HIDE DEF m
  <2>6. OneRequest(c)'
    BY <1>1, <2>2, <2>3, <2>4 DEF OneRequest
  <2>7. AnswerComes(c)'
    BY <2>2, <2>3 DEF AnswerComes
  <2>8. QED
    BY <2>5, <2>6, <2>7 DEF Patient
<1>5. QED
  BY <1>1, <1>3, <1>4, ShutHolds DEF Holds

LEMMA DeleteHolds ==
  ASSUME TypeOK, NEW c \in Clients, Holds(c), NEW ch \in Characters, SendDelete(c, ch)
  PROVE  Holds(c)'
<1> DEFINE m == Remove_(ch)
<1>1. /\ screen[c] = "choosing" /\ screen'[c] = "deleting"
      /\ UNCHANGED <<serverVars, gate, lua, defined, toClient>>
      /\ toServer'[c] = Append(toServer[c], m)
      /\ hurried'[c] = (hurried[c] \/ Unanswered(c))
  BY DEF SendDelete, Request, TypeOK
<1>2. Packets(c)' = Packets(c)
  BY <1>1 DEF Packets
<1>3. Told(c)' = Told(c) /\ Named(c)' = Named(c)
  BY <1>1, <1>2 DEF Told, Named, DataOf, StatesOf
<1>4. Greeted(c)'
  BY <1>1, <1>2 DEF Holds, Greeted
<1>5. ASSUME ~hurried'[c] PROVE Patient(c)'
  <2>1. toServer[c] = <<>> /\ Quiet(c) /\ Patient(c)
    BY <1>1, <1>5 DEF Unanswered, Quiet, Packets, Range, Holds
  <2>2. toServer'[c] = <<m>>
    BY <1>1, <2>1
  <2>3. Len(<<m>>) = 1 /\ Head(<<m>>) = m /\ m.kind = "delete"
    BY DEF Remove_
  <2>4. Quiet(c)'
    BY <1>2, <2>1 DEF Quiet
  <2>5. TellsTheSelected(c)' /\ RecordsFirst(c)'
    BY <1>1, <1>3, <2>1 DEF Patient, TellsTheSelected, RecordsFirst, Ahead, serverVars
  <2> HIDE DEF m
  <2>6. OneRequest(c)'
    BY <1>1, <2>2, <2>3, <2>4 DEF OneRequest
  <2>7. AnswerComes(c)'
    BY <1>1 DEF AnswerComes
  <2>8. QED
    BY <2>5, <2>6, <2>7 DEF Patient
<1>6. QED
  BY <1>1, <1>4, <1>5 DEF Holds

\* One definition more, at the end.
LEMMA DefineHolds ==
  ASSUME TypeOK, NEW c \in Clients, Holds(c), Define
  PROVE  Holds(c)'
<1> DEFINE q == toClient[c]
           m == Record(records + 1)
<1>1. /\ UNCHANGED <<stored, selected, slot, character, clientVars, toServer>>
      /\ toClient'[c] = IF selected[c] THEN Append(q, m) ELSE q
  BY DEF Define, TypeOK
<1>2. CASE ~selected[c]
  BY <1>1, <1>2, Unmoved DEF Untouched, clientVars
<1>3. CASE selected[c]
  <2>1. q \in Seq(ToClient) /\ m \in ToClient /\ m.kind = "record"
    BY DEF TypeOK, Record, ToClient
  <2>2. /\ Len(Append(q, m)) = Len(q) + 1 /\ Len(q) \in Nat
        /\ \A j \in 1 .. Len(q) : Append(q, m)[j] = q[j]
        /\ Append(q, m)[Len(q) + 1] = m
        /\ DOMAIN q = 1 .. Len(q) /\ DOMAIN Append(q, m) = 1 .. Len(q) + 1
    BY <2>1, AppendProperties, LenProperties
  <2>3. toClient'[c] = Append(q, m)
    BY <1>1, <1>3
  <2> HIDE DEF m, q
  <2>4. Packets(c)' = Packets(c) \cup {m}
    <3>1. Range(Append(q, m)) = Range(q) \cup {m}
      <4>1. 1 .. Len(q) + 1 = (1 .. Len(q)) \cup {Len(q) + 1}
        BY <2>2
      <4>2. QED
        BY <2>2, <4>1 DEF Range
    <3>2. QED
      BY <2>3, <3>1 DEF Packets, q
  <2>5. DataOf(c)' = DataOf(c) /\ StatesOf(c)' = StatesOf(c)
    BY <2>1, <2>4 DEF DataOf, StatesOf
  <2>6. Told(c)' = Told(c) /\ Named(c)' = Named(c)
    BY <1>1, <2>5 DEF Told, Named, clientVars
  <2>7. Greeted(c)'
    BY <1>1, <1>3, <2>1, <2>4 DEF Holds, Greeted, clientVars
  <2>8. ASSUME Patient(c) PROVE Patient(c)'
    <3>1. OneRequest(c)'
      BY <1>1, <2>1, <2>4, <2>8 DEF Patient, OneRequest, Quiet, clientVars
    <3>2. TellsTheSelected(c)'
      BY <1>1, <2>6, <2>8 DEF Patient, TellsTheSelected
    <3>3. ASSUME NEW k, Ahead(c, k) PROVE Ahead(c, k)'
      <4>1. PICK i \in 1 .. Len(q) :
              q[i] = Record(k) /\ \A j \in 1 .. i : q[j].kind # "topic"
        BY <2>2, <3>3 DEF Ahead, q
      <4>2. i \in 1 .. Len(q) + 1 /\ \A j \in 1 .. i : j \in 1 .. Len(q)
        BY <2>2
      <4>3. Append(q, m)[i] = Record(k) /\ \A j \in 1 .. i : Append(q, m)[j].kind # "topic"
        BY <2>2, <4>1, <4>2
      <4>4. gate'[c].topic = Nobody
        BY <1>1, <3>3 DEF Ahead, clientVars
      <4>5. QED
        BY <2>2, <2>3, <4>2, <4>3, <4>4 DEF Ahead
    <3>4. RecordsFirst(c)'
      BY <1>1, <2>6, <2>8, <3>3 DEF Patient, RecordsFirst, clientVars
    <3>5. AnswerComes(c)'
      BY <1>1, <2>4, <2>8 DEF Patient, AnswerComes, Comes, clientVars
    <3>6. QED
      BY <3>1, <3>2, <3>4, <3>5 DEF Patient
  <2>9. QED
    BY <1>1, <2>7, <2>8 DEF Holds, clientVars
<1>4. QED
  BY <1>2, <1>3

-----------------------------------------------------------------------------
(* The server answers *)

LEMMA AnswerRange ==
  ASSUME TypeOK, NEW ch \in Characters
  PROVE  LET A == Range(Answer(ch))
         IN  /\ A \subseteq {Record(k) : k \in 1 .. records}
                  \cup {Plain("marker"), State("crime", ch), State("faction", ch),
                        State("topic", ch), Data(ch, records)}
             /\ {Plain("marker"), State("crime", ch), State("faction", ch),
                 State("topic", ch), Data(ch, records)} \subseteq A
<1> DEFINE A == Answer(ch)
<1>1. records \in Nat /\ Len(A) = records + 5 /\ DOMAIN A = 1 .. records + 5
  BY AnswerType, LenProperties DEF TypeOK
<1>2. /\ \A k \in 1 .. records : A[k] = Record(k)
      /\ A[records + 1] = Plain("marker") /\ A[records + 2] = State("crime", ch)
      /\ A[records + 3] = State("faction", ch) /\ A[records + 4] = State("topic", ch)
      /\ A[records + 5] = Data(ch, records)
  BY AnswerType
<1> HIDE DEF A
<1>3. ASSUME NEW j \in 1 .. records + 5
      PROVE  \/ j \in 1 .. records
             \/ j = records + 1 \/ j = records + 2 \/ j = records + 3
             \/ j = records + 4 \/ j = records + 5
  BY <1>1
<1>4. \A j \in DOMAIN A :
        A[j] \in {Record(k) : k \in 1 .. records}
                  \cup {Plain("marker"), State("crime", ch), State("faction", ch),
                        State("topic", ch), Data(ch, records)}
  <2>1. ASSUME NEW j \in DOMAIN A, j \in 1 .. records
        PROVE  A[j] \in {Record(k) : k \in 1 .. records}
    BY <1>2, <2>1
  <2>2. ASSUME NEW j \in DOMAIN A, j \notin 1 .. records
        PROVE  A[j] \in {Plain("marker"), State("crime", ch), State("faction", ch),
                         State("topic", ch), Data(ch, records)}
    <3>1. \/ j = records + 1 \/ j = records + 2 \/ j = records + 3
          \/ j = records + 4 \/ j = records + 5
      BY <1>1, <1>3, <2>2
    <3>2. QED
      BY <1>2, <3>1
  <2>3. QED
    BY <2>1, <2>2
<1>5. {records + 1, records + 2, records + 3, records + 4, records + 5} \subseteq DOMAIN A
  BY <1>1
<1>6. {A[records + 1], A[records + 2], A[records + 3], A[records + 4], A[records + 5]}
        \subseteq Range(A)
  BY <1>5 DEF Range
<1>7. QED
  BY <1>2, <1>4, <1>6 DEF Range, A

\* Before the topics of an answer, when only definitions were under way.
LEMMA AnswerAhead ==
  ASSUME TypeOK, NEW c \in Clients, NEW ch \in Characters, Quiet(c),
         toClient'[c] = toClient[c] \o Answer(ch), gate'[c].topic = Nobody,
         NEW k \in 1 .. records
  PROVE  Ahead(c, k)'
<1> DEFINE q == toClient[c]
           A == Answer(ch)
           n == Len(q) + k
<1>1. /\ q \in Seq(ToClient) /\ A \in Seq(ToClient) /\ Len(q) \in Nat
      /\ records \in Nat /\ Len(A) = records + 5 /\ DOMAIN q = 1 .. Len(q)
  BY AnswerType, LenProperties DEF TypeOK
<1>2. \A j \in 1 .. records : A[j] = Record(j)
  BY AnswerType
<1>3. \A j \in 1 .. Len(q) : q[j].kind = "record"
  BY <1>1 DEF Quiet, Packets, Range
<1> HIDE DEF q, A
<1>4. /\ Len(q \o A) = Len(q) + Len(A) /\ DOMAIN (q \o A) = 1 .. Len(q) + Len(A)
      /\ \A j \in 1 .. Len(q) + Len(A) :
           (q \o A)[j] = IF j <= Len(q) THEN q[j] ELSE A[j - Len(q)]
  <2>1. /\ q \o A \in Seq(ToClient) /\ Len(q \o A) = Len(q) + Len(A)
        /\ \A j \in 1 .. Len(q) + Len(A) :
             (q \o A)[j] = IF j <= Len(q) THEN q[j] ELSE A[j - Len(q)]
    BY <1>1, ConcatProperties
  <2>2. DOMAIN (q \o A) = 1 .. Len(q \o A)
    BY <2>1, LenProperties
  <2>3. QED
    BY <2>1, <2>2
<1>5. n \in 1 .. Len(q) + Len(A) /\ ~(n <= Len(q)) /\ n - Len(q) = k
  BY <1>1
<1>6. (q \o A)[n] = Record(k)
  BY <1>4, <1>2, <1>5
<1>7. ASSUME NEW j \in 1 .. n PROVE (q \o A)[j].kind # "topic"
  <2>1. j \in 1 .. Len(q) + Len(A)
    BY <1>1
  <2>2. CASE j <= Len(q)
    <3>1. j \in 1 .. Len(q)
      BY <1>1, <2>2
    <3>2. QED
      BY <1>4, <1>3, <2>1, <2>2, <3>1
  <2>3. CASE ~(j <= Len(q))
    <3>1. j - Len(q) \in 1 .. records
      BY <1>1, <2>3
    <3>2. (q \o A)[j] = Record(j - Len(q))
      BY <1>4, <1>2, <2>1, <2>3, <3>1
    <3>3. QED
      BY <3>2 DEF Record
  <2>4. QED
    BY <2>2, <2>3
<1>8. QED
  BY <1>4, <1>5, <1>6, <1>7 DEF Ahead, q, A

LEMMA AheadStays ==
  ASSUME TypeOK, NEW c \in Clients, NEW ms \in Seq(ToClient), NEW k, Ahead(c, k),
         toClient'[c] = toClient[c] \o ms, gate' = gate
  PROVE  Ahead(c, k)'
<1> DEFINE q == toClient[c]
<1>1. /\ q \in Seq(ToClient) /\ Len(q) \in Nat /\ Len(ms) \in Nat /\ DOMAIN q = 1 .. Len(q)
  BY LenProperties DEF TypeOK
<1>2. /\ Len(q \o ms) = Len(q) + Len(ms) /\ DOMAIN (q \o ms) = 1 .. Len(q) + Len(ms)
      /\ \A j \in 1 .. Len(q) + Len(ms) :
           (q \o ms)[j] = IF j <= Len(q) THEN q[j] ELSE ms[j - Len(q)]
  BY <1>1, ConcatProperties, LenProperties
<1>3. PICK i \in 1 .. Len(q) : q[i] = Record(k) /\ \A j \in 1 .. i : q[j].kind # "topic"
  BY <1>1 DEF Ahead
<1> HIDE DEF q
<1>4. \A j \in 1 .. i : j \in 1 .. Len(q) + Len(ms) /\ j <= Len(q)
  BY <1>1, <1>3
<1>5. i \in 1 .. i
  BY <1>1, <1>3
<1>6. \A j \in 1 .. i : (q \o ms)[j] = q[j]
  BY <1>2, <1>4
<1>7. i \in 1 .. Len(q) + Len(ms) /\ (q \o ms)[i] = Record(k)
  BY <1>3, <1>4, <1>5, <1>6
<1>8. \A j \in 1 .. i : (q \o ms)[j].kind # "topic"
  BY <1>3, <1>6
<1>9. QED
  BY <1>2, <1>7, <1>8 DEF Ahead, q

LEMMA ServeHolds ==
  ASSUME TypeOK, NEW c \in Clients, Holds(c), Serve(c)
  PROVE  Holds(c)'
<1> DEFINE m == Head(toServer[c])
<1>1. /\ toServer[c] # <<>> /\ toServer'[c] = Tail(toServer[c]) /\ toServer[c] \in Seq(ToServer)
      /\ m \in ToServer
      /\ UNCHANGED <<records, clientVars>>
  BY HeadTailProperties DEF Serve, TypeOK
<1>2. Admit(c, m) \/ Refuse(c, m) \/ Delete(c, m)
  BY DEF Serve
<1>3. m.char \in Characters /\ m.kind \in {"select", "delete"}
  BY <1>1 DEF ToServer
<1>4. screen[c] \notin {"off", "connecting"}
  BY <1>1 DEF Holds, Greeted
<1>5. ASSUME Patient(c)
      PROVE  /\ toServer'[c] = <<>> /\ Quiet(c)
             /\ m.kind = "select" => gate[c] = Shut
             /\ screen[c] = "selecting" => m.kind = "select"
  <2>1. Len(toServer[c]) = 1 /\ Len(Tail(toServer[c])) = 0 /\ Tail(toServer[c]) \in Seq(ToServer)
    <3>1. /\ Len(toServer[c]) \in Nat /\ Len(toServer[c]) # 0 /\ Len(toServer[c]) <= 1
      BY <1>1, <1>5, EmptySeq, LenProperties DEF Patient, OneRequest
    <3>2. /\ Len(Tail(toServer[c])) = Len(toServer[c]) - 1
          /\ Tail(toServer[c]) \in Seq(ToServer)
      BY <1>1, HeadTailProperties
    <3> DEFINE n == Len(toServer[c])
    <3> HIDE DEF n
    <3>3. n \in Nat /\ n # 0 /\ n <= 1 /\ Len(Tail(toServer[c])) = n - 1
      BY <3>1, <3>2 DEF n
    <3>4. n = 1 /\ n - 1 = 0
      BY <3>3
    <3>5. QED
      BY <3>2, <3>3, <3>4 DEF n
  <2>2. toServer'[c] = <<>>
    BY <1>1, <2>1, EmptySeq
  <2>3. QED
    BY <1>1, <1>5, <2>2 DEF Patient, OneRequest
<1> HIDE DEF m
\* The gates and the screen stay; what is put on the way decides.
<1>6. ASSUME NEW ms \in Seq(ToClient), toClient'[c] = toClient[c] \o ms,
             \A p \in Range(ms) : p.kind \notin {"packages", "list"}
      PROVE  /\ Packets(c)' = Packets(c) \cup Range(ms)
             /\ Greeted(c)' /\ GateHolds(gate[c], lua[c])'
  <2>1. Packets(c)' = Packets(c) \cup Range(ms)
    <3>1. toClient[c] \in Seq(ToClient)
      BY DEF TypeOK
    <3>2. QED
      BY <1>6, <3>1, ConcatRange DEF Packets
  <2>2. Greeted(c)'
    BY <1>1, <1>4, <1>6, <2>1 DEF Holds, Greeted, clientVars
  <2>3. QED
    BY <1>1, <2>1, <2>2 DEF Holds, clientVars
<1>7. CASE Admit(c, m)
  <2> DEFINE A == Answer(m.char)
  <2>1. A \in Seq(ToClient) /\ toClient'[c] = toClient[c] \o A
    BY <1>3, <1>7, AnswerType DEF Admit, Reply, TypeOK
  <2>2. /\ Range(A) \subseteq {Record(k) : k \in 1 .. records}
                  \cup {Plain("marker"), State("crime", m.char), State("faction", m.char),
                        State("topic", m.char), Data(m.char, records)}
        /\ {Plain("marker"), State("crime", m.char), State("faction", m.char),
            State("topic", m.char), Data(m.char, records)} \subseteq Range(A)
    BY <1>3, AnswerRange
  <2>3. /\ m.kind = "select" /\ selected'[c] /\ slot'[c] = m.char /\ character'[c] = m.char
    BY <1>7 DEF Admit, TypeOK
  <2> HIDE DEF A
  <2>4. \A p \in Range(A) : p.kind \in {"record", "marker", "crime", "faction", "topic", "data"}
    BY <2>2 DEF Record, Plain, State, Data
  <2>5. /\ Packets(c)' = Packets(c) \cup Range(A)
        /\ Greeted(c)' /\ GateHolds(gate[c], lua[c])'
    BY <1>6, <2>1, <2>4
  <2>6. ASSUME Patient(c) PROVE Patient(c)'
    <3>1. toServer'[c] = <<>> /\ Quiet(c) /\ gate[c] = Shut /\ gate'[c] = Shut
      BY <1>1, <1>5, <2>3, <2>6 DEF clientVars
    <3>2. OneRequest(c)'
      BY <3>1 DEF OneRequest
    <3>3. DataOf(c)' = {Data(m.char, records)}
      <4>1. \A p \in Packets(c)' : p.kind = "data" => p = Data(m.char, records)
        BY <2>2, <2>5, <3>1 DEF Quiet, Record, Plain, State
      <4>2. Data(m.char, records) \in Packets(c)' /\ Data(m.char, records).kind = "data"
        BY <2>2, <2>5 DEF Data
      <4>3. QED
        BY <4>1, <4>2 DEF DataOf
    <3>4. \A p \in StatesOf(c)' : p.char = m.char
      BY <2>2, <2>5, <3>1 DEF StatesOf, Quiet, Record, Plain, State, Data
    <3>5. Told(c)' = {NoData, [char |-> m.char, records |-> records]}
      BY <3>1, <3>3 DEF Told, Shut, Data
    <3>6. Named(c)' \subseteq {Nobody, m.char}
      BY <3>1, <3>4, <3>5 DEF Named, Shut, NoData
    <3>7. TellsTheSelected(c)'
      BY <2>3, <3>6 DEF TellsTheSelected
    <3>8. RecordsFirst(c)'
      <4>1. 1 .. NoData.records = {}
        BY DEF NoData
      <4>2. gate'[c].topic = Nobody
        BY <3>1 DEF Shut
      <4>3. \A k \in 1 .. records : Ahead(c, k)'
        BY <1>3, <2>1, <3>1, <4>2, AnswerAhead DEF A
      <4>4. QED
        BY <3>5, <4>1, <4>3 DEF RecordsFirst
    <3>9. AnswerComes(c)'
      <4>1. /\ Comes(c, "marker")' /\ Comes(c, "crime")' /\ Comes(c, "faction")'
            /\ Comes(c, "topic")' /\ Comes(c, "data")'
        BY <2>2, <2>5 DEF Comes, Plain, State, Data
      <4>2. QED
        BY <4>1 DEF AnswerComes
    <3>10. QED
      BY <3>2, <3>7, <3>8, <3>9 DEF Patient
  <2>7. QED
    BY <1>1, <2>5, <2>6 DEF Holds, clientVars
<1>8. ASSUME NEW k \in {"error", "deleted"}, Reply(c, <<Plain(k)>>),
             UNCHANGED <<selected, slot>>,
             m.kind = "select" \/ character' = character
      PROVE  Holds(c)'
  <2> DEFINE ms == <<Plain(k)>>
  <2>1. ms \in Seq(ToClient) /\ Range(ms) = {Plain(k)} /\ Plain(k).kind = k
    BY DEF ToClient, Plain, Range
  <2>2. toClient'[c] = toClient[c] \o ms
    BY <1>8 DEF Reply, TypeOK
  <2> HIDE DEF ms
  <2>3. \A p \in Range(ms) : p.kind \notin {"packages", "list"}
    BY <2>1
  <2>4. /\ Packets(c)' = Packets(c) \cup {Plain(k)}
        /\ Greeted(c)' /\ GateHolds(gate[c], lua[c])'
    BY <1>6, <2>1, <2>2, <2>3
  <2>5. ASSUME Patient(c) PROVE Patient(c)'
    <3>1. /\ toServer'[c] = <<>> /\ Quiet(c) /\ gate' = gate
          /\ m.kind = "select" => gate[c] = Shut
      BY <1>1, <1>5, <2>5 DEF clientVars
    <3>2. OneRequest(c)'
      BY <3>1 DEF OneRequest
    <3>3. DataOf(c)' = DataOf(c) /\ StatesOf(c)' = StatesOf(c)
      BY <2>1, <2>4 DEF DataOf, StatesOf
    <3>4. Told(c)' = Told(c) /\ Named(c)' = Named(c)
      BY <3>1, <3>3 DEF Told, Named
    <3>5. TellsTheSelected(c)'
      <4>1. CASE m.kind = "select"
        BY <3>1, <3>4, <4>1, QuietTells DEF TellsTheSelected
      <4>2. CASE character' = character
        BY <1>8, <2>5, <3>4, <4>2 DEF Patient, TellsTheSelected
      <4>3. QED
        BY <1>8, <4>1, <4>2
    <3>6. RecordsFirst(c)'
      <4>1. ASSUME NEW n, Ahead(c, n) PROVE Ahead(c, n)'
        BY <2>1, <2>2, <3>1, <4>1, AheadStays
      <4>2. defined' = defined
        BY <1>1 DEF clientVars
      <4>3. QED
        BY <2>5, <3>4, <4>1, <4>2 DEF Patient, RecordsFirst
    <3>7. AnswerComes(c)'
      BY <2>1, <2>4 DEF AnswerComes, Comes
    <3>8. QED
      BY <3>2, <3>5, <3>6, <3>7 DEF Patient
  <2>6. QED
    BY <1>1, <2>4, <2>5 DEF Holds, clientVars
<1>9. CASE Refuse(c, m)
  BY <1>8, <1>9 DEF Refuse
<1>10. CASE Delete(c, m)
  <2>1. CASE ~selected[c]
    BY <1>8, <1>10, <2>1 DEF Delete
  <2>2. CASE selected[c]
    <3>1. UNCHANGED <<stored, selected, slot, character, toClient>> /\ m.kind = "delete"
      BY <1>10, <2>2 DEF Delete
    <3>2. Packets(c)' = Packets(c)
      BY <3>1 DEF Packets
    <3>3. Told(c)' = Told(c) /\ Named(c)' = Named(c)
      BY <1>1, <3>2 DEF Told, Named, DataOf, StatesOf, clientVars
    <3>4. Greeted(c)'
      BY <1>1, <1>4, <3>2 DEF Holds, Greeted, clientVars
    <3>5. ASSUME Patient(c) PROVE Patient(c)'
      <4>1. toServer'[c] = <<>> /\ screen[c] # "selecting" /\ screen' = screen
        BY <1>1, <1>5, <3>1, <3>5 DEF clientVars
      <4>2. OneRequest(c)' /\ AnswerComes(c)'
        BY <4>1 DEF OneRequest, AnswerComes
      <4>3. TellsTheSelected(c)' /\ RecordsFirst(c)'
        BY <1>1, <3>1, <3>3, <3>5
           DEF Patient, TellsTheSelected, RecordsFirst, Ahead, clientVars
      <4>4. QED
        BY <4>2, <4>3 DEF Patient
    <3>6. QED
      BY <1>1, <3>4, <3>5 DEF Holds, clientVars
  <2>3. QED
    BY <2>1, <2>2
<1>11. QED
  BY <1>2, <1>7, <1>9, <1>10

-----------------------------------------------------------------------------
(* Who asks once *)

LEMMA HoldsStep ==
  ASSUME TypeOK, \A c \in Clients : Holds(c), [Next]_vars
  PROVE  \A c \in Clients : Holds(c)'
<1> SUFFICES ASSUME NEW d \in Clients PROVE Holds(d)'
  OBVIOUS
<1>1. Holds(d)
  OBVIOUS
<1>2. ASSUME Untouched(d) PROVE Holds(d)'
  BY <1>1, <1>2, Unmoved
<1>3. ASSUME NEW c \in Clients, Connect(c) PROVE Holds(d)'
  <2>1. CASE d = c
    BY <1>1, <1>3, <2>1, ConnectHolds
  <2>2. CASE d # c
    BY <1>2, <1>3, <2>2 DEF Connect, Reply, Untouched, TypeOK, serverVars
  <2>3. QED
    BY <2>1, <2>2
<1>4. ASSUME NEW c \in Clients, Leave(c) PROVE Holds(d)'
  <2>1. CASE d = c
    BY <1>4, <2>1, LeaveHolds
  <2>2. CASE d # c
    BY <1>2, <1>4, <2>2 DEF Leave, Untouched, TypeOK
  <2>3. QED
    BY <2>1, <2>2
<1>5. ASSUME NEW c \in Clients, Serve(c) PROVE Holds(d)'
  <2>1. CASE d = c
    BY <1>1, <1>5, <2>1, ServeHolds
  <2>2. CASE d # c
    <3> DEFINE m == Head(toServer[c])
    <3>1. /\ Admit(c, m) \/ Refuse(c, m) \/ Delete(c, m)
          /\ toServer' = [toServer EXCEPT ![c] = Tail(toServer[c])]
          /\ UNCHANGED clientVars
      BY <1>5 DEF Serve, TypeOK
    <3> HIDE DEF m
    <3>2. /\ selected'[d] = selected[d] /\ slot'[d] = slot[d] /\ character'[d] = character[d]
          /\ toClient'[d] = toClient[d]
      BY <2>2, <3>1 DEF Admit, Refuse, Delete, Reply, TypeOK
    <3>3. toServer'[d] = toServer[d]
      BY <2>2, <3>1 DEF TypeOK
    <3>4. QED
      BY <1>2, <3>1, <3>2, <3>3 DEF Untouched, clientVars
  <2>3. QED
    BY <2>1, <2>2
<1>6. ASSUME NEW c \in Clients, Conflict(c) PROVE Holds(d)'
  BY <1>4, <1>6 DEF Conflict
<1>7. ASSUME NEW c \in Clients, NEW i \in DOMAIN toClient[c], Deliver(c, i) PROVE Holds(d)'
  <2>1. CASE d = c
    <3>1. GateHolds(gate[c], lua[c]) /\ Greeted(c)
      BY DEF Holds
    <3>2. GateHolds(gate[c], lua[c])'
      BY <1>7, <3>1, GateChange DEF Change
    <3>3. Greeted(c)'
      BY <1>7, <3>1, DeliverGreeted
    <3>4. Patient(c) => Patient(c)'
      BY <1>7, <3>1, DeliverPatient
    <3>5. hurried' = hurried
      BY <1>7 DEF Deliver
    <3>6. hurried[c] \/ Patient(c)
      BY DEF Holds
    <3>7. QED
      BY <2>1, <3>2, <3>3, <3>4, <3>5, <3>6 DEF Holds
  <2>2. CASE d # c
    <3>1. /\ toClient'[d] = toClient[d] /\ gate'[d] = gate[d] /\ lua'[d] = lua[d]
          /\ screen'[d] = screen[d] /\ defined'[d] = defined[d]
          /\ failed'[d] = failed[d] /\ deleted'[d] = deleted[d]
      BY <1>7, <2>2, DeliverFrame
    <3>2. UNCHANGED <<serverVars, toServer, hurried>>
      BY <1>7 DEF Deliver
    <3>3. QED
      BY <1>2, <3>1, <3>2 DEF Untouched, serverVars
  <2>3. QED
    BY <2>1, <2>2
<1>8. ASSUME NEW c \in Clients, NEW ch \in Characters, NEW new \in BOOLEAN,
             SendSelect(c, ch, new)
      PROVE  Holds(d)'
  <2>1. CASE d = c
    BY <1>1, <1>8, <2>1, SelectHolds
  <2>2. CASE d # c
    BY <1>2, <1>8, <2>2 DEF SendSelect, Request, Untouched, TypeOK, serverVars
  <2>3. QED
    BY <2>1, <2>2
<1>9. ASSUME NEW c \in Clients, NEW ch \in Characters, SendDelete(c, ch) PROVE Holds(d)'
  <2>1. CASE d = c
    BY <1>1, <1>9, <2>1, DeleteHolds
  <2>2. CASE d # c
    BY <1>2, <1>9, <2>2 DEF SendDelete, Request, Untouched, TypeOK, serverVars
  <2>3. QED
    BY <2>1, <2>2
<1>10. ASSUME NEW c \in Clients, Frame(c) \/ TimeOut(c) PROVE Holds(d)'
  <2>1. CASE d = c
    BY <1>1, <1>10, <2>1, FrameHolds
  <2>2. CASE d # c
    BY <1>2, <1>10, <2>2 DEF Frame, TimeOut, Untouched, TypeOK, serverVars
  <2>3. QED
    BY <2>1, <2>2
<1>11. CASE Define
  BY <1>1, <1>11, DefineHolds
<1>12. CASE UNCHANGED vars
  BY <1>2, <1>12 DEF Untouched, vars, serverVars, clientVars
<1>13. QED
  BY <1>3, <1>4, <1>5, <1>6, <1>7, <1>8, <1>9, <1>10, <1>11, <1>12 DEF Next

LEMMA HoldsAlways == Spec => []IInv
<1>1. Init => IInv
  BY TypeInit, InitHolds DEF IInv
<1>2. IInv /\ [Next]_vars => IInv'
  BY TypeStep, HoldsStep DEF IInv
<1>3. QED
  BY <1>1, <1>2, PTL DEF Spec

\* In the world the choice of the player is there, with what belongs to it.
LEMMA InTheWorld ==
  ASSUME IInv, NEW c \in Clients, screen[c] = "world", ~hurried[c]
  PROVE  /\ gate[c].ready /\ lua[c] = "active"
         /\ gate[c].me.char # Nobody /\ Nobody \notin {gate[c].crime, gate[c].faction, gate[c].topic}
         /\ {gate[c].me.char, gate[c].crime, gate[c].faction, gate[c].topic} \subseteq Named(c)
         /\ gate[c].me \in Told(c) /\ Patient(c)
<1>1. /\ GateHolds(gate[c], lua[c]) /\ Greeted(c) /\ Patient(c)
  BY DEF IInv, Holds
<1>2. gate[c].ready
  BY <1>1 DEF Greeted
<1>3. QED
  BY <1>1, <1>2 DEF GateHolds, GateSound, Named, Told

\* A client that waited for each answer enters the world as the character the
\* server plays and saves for it.
THEOREM TheSelectedIsPlayed == Spec => []PlaysTheSelected
<1>1. IInv => PlaysTheSelected
  BY InTheWorld DEF PlaysTheSelected, Patient, TellsTheSelected
<1>2. QED
  BY <1>1, HoldsAlways, PTL

\* ... with every definition there was when the server said so, its packages
\* running, and the three states of that character, though the data comes on a
\* lane of its own.
THEOREM ContentComesFirst == Spec => []ContentBeforeWorld
<1>1. ASSUME IInv, NEW c \in Clients, screen[c] = "world", ~hurried[c]
      PROVE  /\ 1 .. gate[c].me.records \subseteq defined[c]
             /\ lua[c] = "active"
             /\ {gate[c].crime, gate[c].faction, gate[c].topic} = {gate[c].me.char}
  <2>1. /\ lua[c] = "active" /\ Patient(c) /\ gate[c].me \in Told(c)
        /\ gate[c].me.char # Nobody /\ Nobody \notin {gate[c].crime, gate[c].faction, gate[c].topic}
        /\ {gate[c].me.char, gate[c].crime, gate[c].faction, gate[c].topic} \subseteq Named(c)
    BY <1>1, InTheWorld
  <2>2. \A k \in 1 .. gate[c].me.records : k \in defined[c]
    BY <2>1 DEF Patient, RecordsFirst, Ahead
  <2>3. /\ gate[c].crime = gate[c].me.char /\ gate[c].faction = gate[c].me.char
        /\ gate[c].topic = gate[c].me.char
    BY <2>1 DEF Patient, TellsTheSelected
  <2>4. QED
    BY <2>1, <2>2, <2>3
<1>2. IInv => ContentBeforeWorld
  BY <1>1 DEF ContentBeforeWorld
<1>3. QED
  BY <1>2, HoldsAlways, PTL

\* When nothing is under way any more, the dialog has what it polls for.
THEOREM SelectionIsAnswered == Spec => []NobodyWaitsInVain
<1>1. ASSUME IInv, NEW c \in Clients, screen[c] = "selecting", ~hurried[c],
             toServer[c] = <<>>, toClient[c] = <<>>
      PROVE  failed[c] \/ deleted[c] \/ gate[c].ready
  <2>1. AnswerComes(c) /\ GateHolds(gate[c], lua[c])
    BY <1>1 DEF IInv, Holds, Patient
  <2>2. \A k : ~Comes(c, k)
    BY <1>1 DEF Comes, Packets, Range
  <2>3. QED
    BY <1>1, <2>1, <2>2 DEF AnswerComes, GateHolds, GateSound
<1>2. IInv => NobodyWaitsInVain
  BY <1>1 DEF NobodyWaitsInVain
<1>3. QED
  BY <1>2, HoldsAlways, PTL
=============================================================================
