--------------------------- MODULE InMessagesProofs ---------------------------
(***************************************************************************)
(* Incoming messages, for every number of messages, lost connections and   *)
(* retries: what the broker has completed was passed to on_message, a      *)
(* PUBLISH of QoS 2 that is sent once is passed on once, and as long as    *)
(* the connection holds on_message is called in order.                     *)
(***************************************************************************)
EXTENDS InMessages, ListOrderProofs

\* The broker has not come back to a message id it has used before.
NoWrap == MaxMessages <= MidSpace

ToBrokerPackets == MidPackets({"PUBACK", "PUBREC", "PUBCOMP"})
ToClientPackets == PublishPackets \cup MidPackets({"PUBREL"})

Listed(list, k) == \E i \in DOMAIN list : list[i].mid = k

\* The client has the message: passed on, or waiting for PUBREL.
Got(counts, list, k) == counts[k] > 0 \/ Listed(list, k)

\* Typing needs the counter to agree with the list, and the broker to repeat only
\* what it has sent.
Counted ==
  /\ TypeOK
  /\ in_queue_len = Len(in_messages)
  /\ \A k \in Ids : broker[k] = "unsent" <=> k > Len(sent)

\* Every message and packet belongs to the message of the broker its id names.
OfMessage(m, qos) == m.id = m.mid /\ m.mid \in 1 .. Len(qos) /\ qos[m.mid] = 2
OfDown(p, qos) ==
  /\ p.mid \in 1 .. Len(qos)
  /\ p.type = "PUBLISH" => p.id = p.mid /\ p.qos = qos[p.mid]
  /\ p.type = "PUBREL" => qos[p.mid] = 2
OfUp(p, qos) ==
  /\ p.mid \in 1 .. Len(qos)
  /\ qos[p.mid] = IF p.type = "PUBACK" THEN 1 ELSE 2
OfBroker(state, q) ==
  /\ state = "PUBACK" => q = 1
  /\ state \in {"PUBREC", "PUBCOMP"} => q = 2

Names ==
  /\ \A i \in DOMAIN in_messages : OfMessage(in_messages[i], sent)
  /\ \A p \in Packets(toClient) : OfDown(p, sent)
  /\ \A p \in Packets(toBroker) : OfUp(p, sent)
  /\ \A k \in Ids : OfBroker(broker[k], sent[k])
  /\ \A k \in Ids : received[k] > 0 => k \in 1 .. Len(sent)

\* What is acknowledged, the client has.
UpHolds(p, counts, list) ==
  IF p.type = "PUBREC" THEN Got(counts, list, p.mid) ELSE counts[p.mid] > 0
DownHolds(p, counts, list) == p.type = "PUBREL" => Got(counts, list, p.mid)
BrokerHolds(state, q, counts, list, k) ==
  /\ state = "PUBCOMP" => Got(counts, list, k)
  /\ (q > 0 /\ state = "done") => counts[k] > 0

Acknowledged ==
  /\ \A p \in Packets(toBroker) : UpHolds(p, received, in_messages)
  /\ \A p \in Packets(toClient) : DownHolds(p, received, in_messages)
  /\ \A k \in 1 .. Len(sent) : BrokerHolds(broker[k], sent[k], received, in_messages, k)

\* The inductive invariant
InInv == Counted /\ Names /\ Acknowledged /\ (~ conn => losses > 0)

\* A QoS 2 message is in one place: in its PUBLISH, in the list, or passed on.
OnceOn(wire) ==
  \A m, n \in DOMAIN wire :
    (wire[m].type = "PUBLISH" /\ wire[n].type = "PUBLISH" /\ wire[m].mid = wire[n].mid) => m = n
OnceIn(list) == \A i, j \in DOMAIN list : list[i].mid = list[j].mid => i = j
NotYet(p, counts, list) == (p.type = "PUBLISH" /\ p.qos = 2) => ~ Got(counts, list, p.mid)

OnePlace ==
  /\ OnceOn(toClient)
  /\ OnceIn(in_messages)
  /\ \A p \in Packets(toClient) : NotYet(p, received, in_messages)
  /\ \A i \in DOMAIN in_messages : ~ (received[in_messages[i].mid] > 0)
  /\ ReceivedOnce

\* The broker has no reason to send a PUBLISH again.
SentOnce == losses = 0 \/ clean_session

\* The messages sent, those the client has, and of QoS 2 those the client has,
\* those the broker has released and those passed on
Sent == 1 .. Len(sent)
Taken == {k \in Sent : Got(received, in_messages, k)}
TakenTwo == {k \in Taken : sent[k] = 2}
ReleasedTwo == {k \in Sent : sent[k] = 2 /\ broker[k] \in {"PUBCOMP", "done"}}
DoneTwo == {k \in Sent : sent[k] = 2 /\ received[k] > 0}

Stages ==
  /\ Stage(toClient, "PUBLISH", Sent, Taken, sent)
  /\ Stage(toBroker, "PUBREC", TakenTwo, ReleasedTwo, sent)
  /\ Stage(toClient, "PUBREL", ReleasedTwo, DoneTwo, sent)
  /\ \A k \in Ids : broker[k] # "dropped"

-----------------------------------------------------------------------------
(* What TypeOK says element by element.                                    *)
LEMMA InFacts ==
  ASSUME TypeOK
  PROVE  /\ Len(in_messages) \in Nat /\ DOMAIN in_messages = 1 .. Len(in_messages)
         /\ \A i \in DOMAIN in_messages : in_messages[i] \in Waiting
         /\ toBroker \in Seq(ToBrokerPackets) /\ toClient \in Seq(ToClientPackets)
         /\ Len(sent) \in Nat /\ DOMAIN sent = 1 .. Len(sent) /\ 1 .. Len(sent) \subseteq Ids
         /\ \A k \in 1 .. Len(sent) : sent[k] \in 0 .. 2
         /\ \A k \in Ids : k \in 1 .. Len(sent) <=> ~ (k > Len(sent))
<1>1. /\ Len(in_messages) \in Nat /\ DOMAIN in_messages = 1 .. Len(in_messages)
      /\ \A i \in DOMAIN in_messages : in_messages[i] \in Waiting
  BY DEF TypeOK
<1>2. toBroker \in Seq(ToBrokerPackets) /\ toClient \in Seq(ToClientPackets)
  BY DEF TypeOK, ToBrokerPackets, ToClientPackets
<1>3. /\ Len(sent) \in Nat /\ DOMAIN sent = 1 .. Len(sent) /\ Len(sent) <= MaxMessages
      /\ \A k \in 1 .. Len(sent) : sent[k] \in 0 .. 2
  BY DEF TypeOK
<1>4. 1 .. Len(sent) \subseteq Ids /\ \A k \in Ids : k \in 1 .. Len(sent) <=> ~ (k > Len(sent))
  BY <1>3, InMessagesAssumption DEF Ids
<1> QED
  BY <1>1, <1>2, <1>3, <1>4

LEMMA MidInRange ==
  ASSUME NEW k \in Ids
  PROVE  Mid(k) \in Mids
<1>1. k - 1 \in Nat /\ MidSpace \in Nat \ {0}
  BY InMessagesAssumption DEF Ids
<1>2. (k - 1) % MidSpace \in 0 .. (MidSpace - 1)
  BY <1>1
<1> QED
  BY <1>1, <1>2 DEF Mid, Mids

(* The packets the client and the broker exchange.                         *)
LEMMA HeadTypes ==
  ASSUME TypeOK
  PROVE  /\ toClient # <<>> =>
              /\ Tail(toClient) \in Seq(ToClientPackets)
              /\ Head(toClient) \in ToClientPackets
              /\ Head(toClient).mid \in Mids
              /\ Head(toClient).type = "PUBLISH" => Head(toClient) \in PublishPackets
         /\ toBroker # <<>> =>
              /\ Tail(toBroker) \in Seq(ToBrokerPackets)
              /\ Head(toBroker) \in ToBrokerPackets
              /\ Head(toBroker).mid \in Mids
<1>1. \A p \in ToClientPackets : p.mid \in Mids /\ (p.type = "PUBLISH" => p \in PublishPackets)
  BY DEF ToClientPackets, PublishPackets, MidPackets
<1>2. \A p \in ToBrokerPackets : p.mid \in Mids
  BY DEF ToBrokerPackets, MidPackets
<1> QED
  BY <1>1, <1>2, InFacts, TailElements

LEMMA ReplyTypes ==
  ASSUME NEW type \in {"PUBACK", "PUBREC", "PUBCOMP"}, NEW mid \in Mids
  PROVE  MidPacket(type, mid) \in ToBrokerPackets
BY DEF MidPacket, ToBrokerPackets, MidPackets

LEMMA CountsTypes ==
  ASSUME TypeOK, NEW id \in Ids, OnMessage(id)
  PROVE  received' \in [Ids -> 0 .. 2]
BY DEF TypeOK, OnMessage, CountUp

(* A position of the list maps to a packet or a message.                   *)
LEMMA MappedSeq ==
  ASSUME NEW S, NEW n \in Nat, NEW f, f = [i \in 1 .. n |-> f[i]], \A i \in 1 .. n : f[i] \in S
  PROVE  f \in Seq(S) /\ Len(f) = n /\ DOMAIN f = 1 .. n
<1>1. f \in [1 .. n -> S]
  BY Zenon
<1> QED
  BY <1>1

LEMMA MidIndexFound ==
  ASSUME TypeOK, NEW mid, HasMid(mid)
  PROVE  /\ MidIndex(mid) \in DOMAIN in_messages
         /\ in_messages[MidIndex(mid)].mid = mid
<1> DEFINE At == {i \in DOMAIN in_messages : in_messages[i].mid = mid}
<1>1. At # {} /\ At \in SUBSET Nat
  BY InFacts DEF HasMid
<1>2. PICK i \in At : \A j \in At : i <= j
  BY <1>1, LeastElement
<1>3. ASSUME NEW j \in 1 .. (i - 1)
      PROVE  in_messages[j].mid # mid
  <2>1. j \in DOMAIN in_messages /\ ~ (i <= j)
    BY <1>2, InFacts
  <2> QED
    BY <1>2, <2>1
<1> QED
  BY <1>2, <1>3 DEF MidIndex

(* _mosquitto_message_remove: the other messages stay.                     *)
LEMMA Removed ==
  ASSUME TypeOK, NEW at \in DOMAIN in_messages, Remove(at)
  PROVE  /\ in_messages' \in Seq(Waiting) /\ Len(in_messages') = Len(in_messages) - 1
         /\ \A i \in DOMAIN in_messages' : \E j \in DOMAIN in_messages :
              j # at /\ in_messages'[i] = in_messages[j]
         /\ \A j \in DOMAIN in_messages : j # at =>
              \E i \in DOMAIN in_messages' : in_messages'[i] = in_messages[j]
         /\ \A i, j \in DOMAIN in_messages' : i # j =>
              \E k, l \in DOMAIN in_messages :
                k # l /\ in_messages'[i] = in_messages[k] /\ in_messages'[j] = in_messages[l]
<1> DEFINE L == Len(in_messages) - 1
           Old(i) == IF i < at THEN i ELSE i + 1
<1>1. /\ L \in Nat /\ DOMAIN in_messages = 1 .. (L + 1) /\ at \in 1 .. (L + 1)
      /\ in_messages' = [i \in 1 .. L |-> in_messages[Old(i)]]
  BY InFacts DEF Remove
<1>2. /\ \A i \in 1 .. L : /\ Old(i) \in DOMAIN in_messages /\ Old(i) # at
                           /\ in_messages'[i] = in_messages[Old(i)]
      /\ \A i, j \in 1 .. L : i # j => Old(i) # Old(j)
      /\ \A j \in 1 .. (L + 1) : j # at => \E i \in 1 .. L : Old(i) = j
  <2>1. \A i \in 1 .. L : Old(i) \in DOMAIN in_messages /\ Old(i) # at
    BY <1>1
  <2>2. \A i, j \in 1 .. L : i # j => Old(i) # Old(j)
    BY <1>1
  <2>3. ASSUME NEW j \in 1 .. (L + 1), j # at
        PROVE  \E i \in 1 .. L : Old(i) = j
    <3>1. CASE j < at
      BY <1>1, <3>1
    <3>2. CASE ~ (j < at)
      <4>1. j - 1 \in 1 .. L /\ Old(j - 1) = j
        BY <1>1, <2>3, <3>2
      <4> QED
        BY <4>1
    <3> QED
      BY <3>1, <3>2
  <2> QED
    BY <1>1, <2>1, <2>2, <2>3
<1>3. \A i \in 1 .. L : in_messages'[i] \in Waiting
  BY <1>2, InFacts
<1>4. DOMAIN in_messages' = 1 .. L /\ in_messages' = [i \in 1 .. L |-> in_messages'[i]]
  BY <1>1
<1> HIDE DEF L, Old
<1>5. in_messages' \in Seq(Waiting) /\ Len(in_messages') = L
  BY <1>1, <1>3, <1>4, MappedSeq
<1> QED
  BY <1>1, <1>2, <1>4, <1>5 DEF L

(* The passes along the list that only touch the timestamps.               *)
SameList ==
  /\ in_messages' \in Seq(Waiting)
  /\ Len(in_messages') = Len(in_messages) /\ DOMAIN in_messages' = DOMAIN in_messages
  /\ \A i \in DOMAIN in_messages :
       in_messages'[i].id = in_messages[i].id /\ in_messages'[i].mid = in_messages[i].mid

LEMMA TimestampsOnly ==
  ASSUME TypeOK, RetryCheck \/ (\E i \in 1 .. ListCap : Tick(i)) \/ Reset
  PROVE  SameList
<1>1. PICK f : /\ DOMAIN f = DOMAIN in_messages
               /\ \A i \in DOMAIN in_messages :
                    f[i] \in BOOLEAN /\ in_messages'[i] = [in_messages[i] EXCEPT !.due = f[i]]
               /\ in_messages' = [i \in DOMAIN in_messages |-> in_messages'[i]]
  <2>1. CASE RetryCheck
    <3>1. WITNESS [i \in DOMAIN in_messages |-> FALSE]
    <3> QED
      BY <2>1 DEF RetryCheck
  <2>2. ASSUME NEW n \in 1 .. ListCap, Tick(n)
        PROVE  \E f : /\ DOMAIN f = DOMAIN in_messages
                      /\ \A i \in DOMAIN in_messages :
                           f[i] \in BOOLEAN /\ in_messages'[i] = [in_messages[i] EXCEPT !.due = f[i]]
                      /\ in_messages' = [i \in DOMAIN in_messages |-> in_messages'[i]]
    <3> DEFINE g == [i \in DOMAIN in_messages |-> IF i = n THEN TRUE ELSE in_messages[i].due]
    <3>1. \A i \in DOMAIN in_messages : in_messages[i] \in Waiting
      BY InFacts
    <3>2. in_messages' = [in_messages EXCEPT ![n].due = TRUE] /\ n \in DOMAIN in_messages
      BY <2>2 DEF Tick
    <3>3. in_messages' = [i \in DOMAIN in_messages |-> in_messages'[i]]
      BY <3>2
    <3>4. ASSUME NEW i \in DOMAIN in_messages
          PROVE  g[i] \in BOOLEAN /\ in_messages'[i] = [in_messages[i] EXCEPT !.due = g[i]]
      <4>1. in_messages[i] \in Waiting
        BY <3>1
      <4> QED
        BY <3>2, <4>1 DEF Waiting
    <3>5. DOMAIN g = DOMAIN in_messages
      OBVIOUS
    <3> HIDE DEF g
    <3> QED
      BY <3>3, <3>4, <3>5
  <2>3. CASE Reset
    <3>1. WITNESS [i \in DOMAIN in_messages |-> TRUE]
    <3> QED
      BY <2>3 DEF Reset
  <2> QED
    BY <2>1, <2>2, <2>3
<1>2. Len(in_messages) \in Nat /\ DOMAIN in_messages = 1 .. Len(in_messages)
  BY InFacts
<1>3. ASSUME NEW i \in DOMAIN in_messages
      PROVE  /\ in_messages'[i] \in Waiting
             /\ in_messages'[i].id = in_messages[i].id /\ in_messages'[i].mid = in_messages[i].mid
  <2>1. in_messages[i] \in Waiting
    BY InFacts
  <2> QED
    BY <1>1, <2>1 DEF Waiting
<1> QED
  BY <1>1, <1>2, <1>3, MappedSeq DEF SameList

LEMMA RetryPackets ==
  ASSUME TypeOK, RetryCheck
  PROVE  \E ps \in Seq(ToBrokerPackets) :
           /\ toBroker' = toBroker \o ps
           /\ \A p \in Packets(ps) :
                p.type = "PUBREC" /\ \E i \in DOMAIN in_messages : p.mid = in_messages[i].mid
<1> DEFINE late == {i \in DOMAIN in_messages : in_messages[i].due}
           ps == [n \in 1 .. Cardinality(late) |->
                    MidPacket("PUBREC", in_messages[InOrder(late)[n]].mid)]
<1>1. toBroker' = toBroker \o ps
  BY DEF RetryCheck
<1>2. late \in SUBSET (1 .. Len(in_messages)) /\ Len(in_messages) \in Nat
      /\ late \subseteq DOMAIN in_messages
  BY InFacts
<1> HIDE DEF late
<1>3. Cardinality(late) \in Nat /\ \A n \in 1 .. Cardinality(late) : InOrder(late)[n] \in late
  BY <1>2, PositionsFinite, InOrderInSet
<1>4. ASSUME NEW n \in 1 .. Cardinality(late)
      PROVE  /\ ps[n] \in ToBrokerPackets /\ ps[n].type = "PUBREC"
             /\ \E i \in DOMAIN in_messages : ps[n].mid = in_messages[i].mid
  <2>1. PICK i \in DOMAIN in_messages : i = InOrder(late)[n]
    BY <1>2, <1>3
  <2>2. ps[n] = MidPacket("PUBREC", in_messages[i].mid)
    BY <2>1
  <2>3. in_messages[i].mid \in Mids
    BY InFacts DEF Waiting
  <2> HIDE DEF ps
  <2> QED
    BY <2>2, <2>3, ReplyTypes DEF MidPacket
<1>5. ps = [n \in 1 .. Cardinality(late) |-> ps[n]]
  OBVIOUS
<1> HIDE DEF ps
<1>6. ps \in Seq(ToBrokerPackets) /\ DOMAIN ps = 1 .. Cardinality(late)
  BY <1>3, <1>4, <1>5, MappedSeq
<1>7. \A p \in Packets(ps) :
        p.type = "PUBREC" /\ \E i \in DOMAIN in_messages : p.mid = in_messages[i].mid
  BY <1>4, <1>6 DEF Packets
<1> QED
  BY <1>1, <1>6, <1>7

LEMMA ResentPackets ==
  ASSUME Counted, Reconnect, ~ clean_session
  PROVE  /\ toClient' \in Seq(ToClientPackets)
         /\ \A p \in Packets(toClient') : \E k \in Unacknowledged : p = Resent(k)
<1> DEFINE U == Unacknowledged
           ps == [n \in 1 .. Cardinality(U) |-> Resent(InOrder(U)[n])]
<1>1. toClient' = ps
  BY DEF Reconnect
<1>2. U \in SUBSET (1 .. MaxMessages) /\ MaxMessages \in Nat
  BY InMessagesAssumption DEF Unacknowledged, Ids
<1>3. ASSUME NEW k \in U
      PROVE  Resent(k) \in ToClientPackets
  <2>1. k \in Ids /\ broker[k] # "unsent"
    BY DEF Unacknowledged
  <2>2. sent[k] \in 0 .. 2 /\ Mid(k) \in Mids
    BY <2>1, MidInRange, InFacts DEF Counted
  <2> QED
    BY <2>1, <2>2 DEF Resent, MidPacket, PublishPacket, PublishPackets, MidPackets, ToClientPackets
<1> HIDE DEF U
<1>4. Cardinality(U) \in Nat /\ \A n \in 1 .. Cardinality(U) : InOrder(U)[n] \in U
  BY <1>2, PositionsFinite, InOrderInSet
<1>5. \A n \in 1 .. Cardinality(U) : ps[n] \in ToClientPackets /\ \E k \in U : ps[n] = Resent(k)
  BY <1>3, <1>4
<1>6. ps = [n \in 1 .. Cardinality(U) |-> ps[n]]
  OBVIOUS
<1> HIDE DEF ps
<1>7. ps \in Seq(ToClientPackets) /\ DOMAIN ps = 1 .. Cardinality(U)
  BY <1>4, <1>5, <1>6, MappedSeq
<1> QED
  BY <1>1, <1>5, <1>7 DEF Packets, U

LEMMA NextCounted ==
  ASSUME Counted, [Next]_vars
  PROVE  Counted'
<1>1. /\ TypeOK /\ in_queue_len = Len(in_messages) /\ in_messages \in Seq(Waiting)
      /\ \A k \in Ids : broker[k] = "unsent" <=> k > Len(sent)
  BY DEF Counted, TypeOK
<1> DEFINE Rest == /\ UNCHANGED <<clean_session, sent>>
                   /\ conn' \in BOOLEAN /\ losses' \in 0 .. MaxLoss
<1>2. ASSUME NEW mid \in Mids, NEW type \in {"PUBACK", "PUBREC", "PUBCOMP"}, Reply(type, mid)
      PROVE  toBroker' \in Seq(ToBrokerPackets)
  <2>1. MidPacket(type, mid) \in ToBrokerPackets
    BY ReplyTypes
  <2> QED
    BY <1>1, <1>2, <2>1, InFacts DEF Reply
<1>3. ASSUME Rest, in_messages' \in Seq(Waiting), in_queue_len' = Len(in_messages'),
             toBroker' \in Seq(ToBrokerPackets), toClient' \in Seq(ToClientPackets),
             received' \in [Ids -> 0 .. 2],
             broker' \in [Ids -> {"unsent", "PUBACK", "PUBREC", "PUBCOMP", "done", "dropped"}],
             \A k \in Ids : broker'[k] = "unsent" <=> broker[k] = "unsent"
      PROVE  Counted'
  <2>1. in_queue_len' \in Nat
    BY <1>3
  <2>2. TypeOK'
    BY <1>1, <1>3, <2>1 DEF TypeOK, ToBrokerPackets, ToClientPackets
  <2> QED
    BY <1>1, <1>3, <2>2 DEF Counted
<1>4. CASE HandlePublish
  <2> DEFINE p == Head(toClient)
  <2>1. /\ toClient # <<>> /\ p.type = "PUBLISH" /\ toClient' = Tail(toClient)
        /\ UNCHANGED <<clean_session, conn, sent, broker, losses>>
    BY <1>4 DEF HandlePublish, Receive
  <2>2. /\ Tail(toClient) \in Seq(ToClientPackets) /\ p \in PublishPackets
        /\ p.mid \in Mids /\ p.id \in Ids
    BY <1>1, <2>1, HeadTypes DEF PublishPackets
  <2>3. Rest /\ broker' \in [Ids -> {"unsent", "PUBACK", "PUBREC", "PUBCOMP", "done", "dropped"}]
    BY <1>1, <2>1 DEF TypeOK
  <2>4. toBroker \in Seq(ToBrokerPackets) /\ received \in [Ids -> 0 .. 2]
    BY <1>1, InFacts DEF TypeOK
  <2> HIDE DEF Rest
  <2>5. CASE p.qos = 0
    <3>1. OnMessage(p.id) /\ UNCHANGED <<in_messages, in_queue_len, toBroker>>
      BY <1>4, <2>5 DEF HandlePublish
    <3>2. received' \in [Ids -> 0 .. 2]
      BY <1>1, <2>2, <3>1, CountsTypes
    <3> QED
      BY <1>1, <1>3, <2>1, <2>2, <2>3, <2>4, <3>1, <3>2
  <2>6. CASE p.qos = 1
    <3>1. OnMessage(p.id) /\ Reply("PUBACK", p.mid) /\ UNCHANGED <<in_messages, in_queue_len>>
      BY <1>4, <2>6 DEF HandlePublish
    <3>2. received' \in [Ids -> 0 .. 2] /\ toBroker' \in Seq(ToBrokerPackets)
      BY <1>1, <1>2, <2>2, <3>1, CountsTypes
    <3> QED
      BY <1>1, <1>3, <2>1, <2>2, <2>3, <3>1, <3>2
  <2>7. CASE p.qos = 2
    <3>1. Reply("PUBREC", p.mid) /\ Queue(p) /\ UNCHANGED received
      BY <1>4, <2>7 DEF HandlePublish
    <3>2. toBroker' \in Seq(ToBrokerPackets)
      BY <1>2, <2>2, <3>1
    <3>3. PICK m : m = [id |-> p.id, mid |-> p.mid, due |-> FALSE]
      OBVIOUS
    <3>4. in_messages' = Append(in_messages, m) /\ in_queue_len' = in_queue_len + 1 /\ m \in Waiting
      BY <2>2, <3>1, <3>3 DEF Queue, Waiting
    <3>5. in_messages' \in Seq(Waiting) /\ in_queue_len' = Len(in_messages')
      BY <1>1, <3>4
    <3> QED
      BY <1>1, <1>3, <2>1, <2>2, <2>3, <2>4, <3>1, <3>2, <3>5
  <2> QED
    BY <1>4, <2>5, <2>6, <2>7 DEF HandlePublish
<1>5. CASE HandlePubrel
  <2> DEFINE mid == Head(toClient).mid
             at == MidIndex(mid)
  <2>1. /\ toClient # <<>> /\ toClient' = Tail(toClient) /\ Reply("PUBCOMP", mid)
        /\ UNCHANGED <<clean_session, conn, sent, broker, losses>>
    BY <1>5 DEF HandlePubrel, Receive
  <2>2. Tail(toClient) \in Seq(ToClientPackets) /\ mid \in Mids
    BY <1>1, <2>1, HeadTypes
  <2>3. Rest /\ broker' \in [Ids -> {"unsent", "PUBACK", "PUBREC", "PUBCOMP", "done", "dropped"}]
    BY <1>1, <2>1 DEF TypeOK
  <2>4. toBroker' \in Seq(ToBrokerPackets)
    BY <1>2, <2>1, <2>2
  <2> HIDE DEF Rest
  <2>5. CASE HasMid(mid)
    <3>1. OnMessage(in_messages[at].id) /\ Remove(at)
      BY <1>5, <2>5 DEF HandlePubrel
    <3>2. at \in DOMAIN in_messages
      BY <1>1, <2>5, MidIndexFound
    <3> HIDE DEF at
    <3>3. in_messages' \in Seq(Waiting) /\ Len(in_messages') = Len(in_messages) - 1
      BY <1>1, <3>1, <3>2, Removed
    <3>4. in_queue_len' = Len(in_messages')
      BY <1>1, <3>1, <3>3 DEF Remove
    <3>5. in_messages[at].id \in Ids
      BY <1>1, <3>2, InFacts DEF Waiting
    <3>6. received' \in [Ids -> 0 .. 2]
      BY <1>1, <3>1, <3>5, CountsTypes
    <3> QED
      BY <1>3, <2>1, <2>2, <2>3, <2>4, <3>3, <3>4, <3>6
  <2>6. CASE ~ HasMid(mid)
    <3>1. UNCHANGED <<in_messages, in_queue_len, received>>
      BY <1>5, <2>6 DEF HandlePubrel
    <3> QED
      BY <1>1, <1>3, <2>1, <2>2, <2>3, <2>4, <3>1 DEF TypeOK
  <2> QED
    BY <2>5, <2>6
<1>6. CASE RetryCheck \/ (\E i \in 1 .. ListCap : Tick(i)) \/ ReconnectFails \/ ConnLost
  <2>1. in_messages' \in Seq(Waiting) /\ in_queue_len' = Len(in_messages')
    <3>1. CASE ConnLost
      BY <1>1, <3>1 DEF ConnLost
    <3>2. CASE ~ ConnLost
      <4>1. SameList
        BY <1>1, <1>6, <3>2, TimestampsOnly DEF ReconnectFails
      <4>2. in_queue_len' \in {in_queue_len, Len(in_messages)}
        BY <1>6, <3>2 DEF RetryCheck, Tick, ReconnectFails, Reset
      <4> QED
        BY <1>1, <4>1, <4>2 DEF SameList
    <3> QED
      BY <3>1, <3>2
  <2>2. toBroker' \in Seq(ToBrokerPackets)
    <3>1. CASE RetryCheck
      <4>1. \E ps \in Seq(ToBrokerPackets) : toBroker' = toBroker \o ps
        BY <1>1, <3>1, RetryPackets
      <4> QED
        BY <1>1, <4>1, InFacts
    <3>2. CASE ~ RetryCheck
      BY <1>1, <1>6, <3>2, InFacts DEF Tick, ReconnectFails, ConnLost
    <3> QED
      BY <3>1, <3>2
  <2>3. UNCHANGED <<clean_session, toClient, sent, broker, received>>
    BY <1>6 DEF RetryCheck, Tick, ReconnectFails, ConnLost
  <2>4. conn' \in BOOLEAN /\ losses' \in 0 .. MaxLoss
    <3>1. conn \in BOOLEAN /\ losses \in 0 .. MaxLoss /\ MaxLoss \in Nat
      BY <1>1, InMessagesAssumption DEF TypeOK
    <3>2. CASE conn' = FALSE /\ losses < MaxLoss /\ losses' = losses + 1
      <4>1. conn' \in BOOLEAN
        BY <3>2, Zenon
      <4>2. losses' \in 0 .. MaxLoss
        BY <3>1, <3>2
      <4> QED
        BY <4>1, <4>2
    <3>3. CASE UNCHANGED <<conn, losses>>
      BY <3>1, <3>3
    <3>4. CASE UNCHANGED conn /\ losses < MaxLoss /\ losses' = losses + 1
      BY <3>1, <3>4
    <3> QED
      BY <1>6, <3>2, <3>3, <3>4, Zenon DEF RetryCheck, Tick, ReconnectFails, ConnLost
  <2> QED
    BY <1>1, <1>3, <2>1, <2>2, <2>3, <2>4, InFacts DEF TypeOK
<1>7. CASE Reconnect
  <2>1. /\ Reset /\ conn' = TRUE /\ toBroker' = <<>>
        /\ UNCHANGED <<clean_session, sent, losses, received>>
    BY <1>7 DEF Reconnect
  <2>2. in_messages' \in Seq(Waiting) /\ in_queue_len' = Len(in_messages')
    BY <1>1, <2>1, TimestampsOnly DEF Reset, SameList
  <2>3. toClient' \in Seq(ToClientPackets)
    <3>1. CASE clean_session
      BY <1>7, <3>1 DEF Reconnect
    <3>2. CASE ~ clean_session
      BY <1>7, <3>2, ResentPackets
    <3> QED
      BY <3>1, <3>2
  <2>4. /\ broker' \in [Ids -> {"unsent", "PUBACK", "PUBREC", "PUBCOMP", "done", "dropped"}]
        /\ \A k \in Ids : broker'[k] = "unsent" <=> broker[k] = "unsent"
    BY <1>1, <1>7 DEF Reconnect, TypeOK, Unacknowledged
  <2>5. toBroker' \in Seq(ToBrokerPackets)
    BY <2>1
  <2> QED
    BY <1>1, <1>3, <2>1, <2>2, <2>3, <2>4, <2>5 DEF TypeOK
<1>8. ASSUME NEW q \in Qos, BrokerPublish(q)
      PROVE  Counted'
  <2> DEFINE k == Len(sent) + 1
  <2>1. /\ k <= MaxMessages /\ sent' = Append(sent, q)
        /\ broker' = [broker EXCEPT ![k] = AckOf(q)]
        /\ toClient' = Append(toClient, PublishPacket(k, q))
        /\ UNCHANGED <<clean_session, in_messages, in_queue_len, conn, toBroker, losses, received>>
    BY <1>8 DEF BrokerPublish
  <2>2. q \in 0 .. 2 /\ sent \in Seq(0 .. 2) /\ Len(sent) \in Nat /\ MaxMessages \in Nat
    BY <1>1, InMessagesAssumption DEF TypeOK
  <2>3. k \in Ids /\ sent' \in Seq(0 .. 2) /\ Len(sent') = k
    BY <2>1, <2>2 DEF Ids
  <2>4. PICK a : a = AckOf(q)
    OBVIOUS
  <2>5. a \in {"done", "PUBACK", "PUBREC"}
    BY <2>2, <2>4 DEF AckOf
  <2>6. /\ broker' \in [Ids -> {"unsent", "PUBACK", "PUBREC", "PUBCOMP", "done", "dropped"}]
        /\ \A n \in Ids : broker'[n] = IF n = k THEN a ELSE broker[n]
    BY <1>1, <2>1, <2>3, <2>4, <2>5 DEF TypeOK
  <2>7. \A n \in Ids : broker'[n] = "unsent" <=> n > k
    <3>1. \A n \in Ids : n \in Nat /\ (n # k => (n > k <=> n > Len(sent)))
      BY <2>2 DEF Ids
    <3> QED
      BY <1>1, <2>2, <2>5, <2>6, <3>1
  <2>8. toClient' \in Seq(ToClientPackets)
    <3>1. PublishPacket(k, q) \in ToClientPackets
      BY <2>2, <2>3, MidInRange DEF PublishPacket, PublishPackets, ToClientPackets
    <3> QED
      BY <1>1, <2>1, <3>1, InFacts
  <2>9. TypeOK'
    BY <1>1, <2>1, <2>3, <2>6, <2>8 DEF TypeOK, ToClientPackets
  <2> QED
    BY <1>1, <2>1, <2>3, <2>7, <2>9 DEF Counted
<1>9. CASE BrokerHandle
  <2> DEFINE p == Head(toBroker)
  <2>1. /\ toBroker # <<>> /\ toBroker' = Tail(toBroker)
        /\ UNCHANGED <<clean_session, in_messages, in_queue_len, conn, sent, losses, received>>
    BY <1>9 DEF BrokerHandle
  <2>2. Tail(toBroker) \in Seq(ToBrokerPackets) /\ p \in ToBrokerPackets /\ p.mid \in Mids
    BY <1>1, <2>1, HeadTypes
  <2>3. toClient' \in Seq(ToClientPackets)
    <3>1. MidPacket("PUBREL", p.mid) \in ToClientPackets
      BY <2>2 DEF MidPacket, MidPackets, ToClientPackets
    <3>2. toClient' \in {toClient, Append(toClient, MidPacket("PUBREL", p.mid))}
      BY <1>9 DEF BrokerHandle
    <3> QED
      BY <1>1, <3>1, <3>2, InFacts
  <2>4. /\ broker' \in [Ids -> {"unsent", "PUBACK", "PUBREC", "PUBCOMP", "done", "dropped"}]
        /\ \A k \in Ids : broker'[k] = "unsent" <=> broker[k] = "unsent"
    <3>1. \/ broker' = [k \in Ids |-> IF k \in Awaits(p) /\ broker[k] = p.type
                                      THEN "done" ELSE broker[k]]
          \/ broker' = [k \in Ids |-> IF k \in Awaits(p) /\ broker[k] = "PUBREC"
                                      THEN "PUBCOMP" ELSE broker[k]]
      BY <1>9 DEF BrokerHandle
    <3>2. \A k \in Awaits(p) : broker[k] # "unsent"
      BY DEF Awaits, Unacknowledged
    <3> QED
      BY <1>1, <3>1, <3>2 DEF TypeOK
  <2> QED
    BY <1>1, <1>3, <2>1, <2>2, <2>3, <2>4 DEF TypeOK
<1>10. CASE Quiescent \/ UNCHANGED vars
  BY <1>10 DEF Quiescent, vars, Counted, TypeOK
<1> QED
  BY <1>4, <1>5, <1>6, <1>7, <1>8, <1>9, <1>10 DEF Next

LEMMA InitCounted == Init => Counted
<1> SUFFICES ASSUME Init
             PROVE  Counted
  OBVIOUS
<1>1. TypeOK
  BY InMessagesAssumption DEF Init, TypeOK
<1>2. \A k \in Ids : k > 0
  BY DEF Ids
<1> QED
  BY <1>1, <1>2 DEF Init, Counted

\* Every variable stays in its type whatever the broker sends and repeats; the counter
\* of the list never becomes negative, because it agrees with the list.
THEOREM TypeCorrect == Spec => []TypeOK
<1>1. Counted /\ [Next]_vars => Counted'
  BY NextCounted
<1>2. Counted => TypeOK
  BY DEF Counted
<1> QED
  BY <1>1, <1>2, InitCounted, PTL DEF Spec

-----------------------------------------------------------------------------
(* What is acknowledged, the client has.                                   *)

\* What a step may do: messages and packets come in with the properties they must
\* have, the broker moves on for a reason, and the client loses nothing.
Grows(counts, list, countsAfter, listAfter, k) ==
  /\ counts[k] > 0 => countsAfter[k] > 0
  /\ Got(counts, list, k) => Got(countsAfter, listAfter, k)

Effect ==
  /\ \A k \in 1 .. Len(sent) : k \in 1 .. Len(sent') /\ sent'[k] = sent[k]
  /\ \A i \in DOMAIN in_messages' :
       \/ OfMessage(in_messages'[i], sent')
       \/ \E j \in DOMAIN in_messages : in_messages'[i].id = in_messages[j].id
                                        /\ in_messages'[i].mid = in_messages[j].mid
  /\ \A p \in Packets(toClient') :
       p \in Packets(toClient) \/ (OfDown(p, sent') /\ DownHolds(p, received', in_messages'))
  /\ \A p \in Packets(toBroker') :
       p \in Packets(toBroker) \/ (OfUp(p, sent') /\ UpHolds(p, received', in_messages'))
  /\ \A k \in Ids :
       \/ broker'[k] = broker[k] /\ (k \in 1 .. Len(sent') => k \in 1 .. Len(sent))
       \/ /\ OfBroker(broker'[k], sent'[k])
          /\ BrokerHolds(broker'[k], sent'[k], received', in_messages', k)
  /\ \A k \in Ids : received'[k] > 0 => received[k] > 0 \/ k \in 1 .. Len(sent')
  /\ \A k \in Ids : Grows(received, in_messages, received', in_messages', k)

LEMMA EffectKeeps ==
  ASSUME InInv, Effect, Counted', ~ conn' => losses' > 0
  PROVE  InInv'
<1>1. TypeOK /\ Names /\ Acknowledged
  BY DEF InInv, Counted
<1>2. /\ 1 .. Len(sent) \subseteq Ids
      /\ \A k \in Ids : k \in 1 .. Len(sent) \/ broker[k] = "unsent"
  BY <1>1, InFacts DEF InInv, Counted
<1>3. \A k \in 1 .. Len(sent) : k \in 1 .. Len(sent') /\ sent'[k] = sent[k]
  BY DEF Effect
<1>4. ASSUME NEW i \in DOMAIN in_messages'
      PROVE  OfMessage(in_messages'[i], sent')
  <2>1. ASSUME NEW j \in DOMAIN in_messages, in_messages'[i].id = in_messages[j].id,
               in_messages'[i].mid = in_messages[j].mid
        PROVE  OfMessage(in_messages'[i], sent')
    BY <1>1, <1>3, <2>1 DEF Names, OfMessage
  <2> QED
    BY <2>1 DEF Effect
<1>5. ASSUME NEW p \in Packets(toClient')
      PROVE  OfDown(p, sent') /\ DownHolds(p, received', in_messages')
  <2>1. CASE p \in Packets(toClient)
    <3>1. OfDown(p, sent) /\ DownHolds(p, received, in_messages) /\ p.mid \in 1 .. Len(sent)
      BY <1>1, <2>1 DEF Names, Acknowledged, OfDown
    <3>2. OfDown(p, sent')
      BY <1>3, <3>1 DEF OfDown
    <3>3. Grows(received, in_messages, received', in_messages', p.mid)
      BY <1>2, <3>1 DEF Effect
    <3> QED
      BY <3>1, <3>2, <3>3 DEF DownHolds, Grows
  <2> QED
    BY <2>1 DEF Effect
<1>6. ASSUME NEW p \in Packets(toBroker')
      PROVE  OfUp(p, sent') /\ UpHolds(p, received', in_messages')
  <2>1. CASE p \in Packets(toBroker)
    <3>1. OfUp(p, sent) /\ UpHolds(p, received, in_messages) /\ p.mid \in 1 .. Len(sent)
      BY <1>1, <2>1 DEF Names, Acknowledged, OfUp
    <3>2. OfUp(p, sent')
      BY <1>3, <3>1 DEF OfUp
    <3>3. Grows(received, in_messages, received', in_messages', p.mid)
      BY <1>2, <3>1 DEF Effect
    <3> QED
      BY <3>1, <3>2, <3>3 DEF UpHolds, Grows
  <2> QED
    BY <2>1 DEF Effect
<1>7. ASSUME NEW k \in Ids
      PROVE  /\ OfBroker(broker'[k], sent'[k])
             /\ k \in 1 .. Len(sent') =>
                  BrokerHolds(broker'[k], sent'[k], received', in_messages', k)
  <2>1. CASE broker'[k] = broker[k] /\ k \in 1 .. Len(sent)
    <3>1. /\ OfBroker(broker[k], sent[k]) /\ sent'[k] = sent[k]
          /\ BrokerHolds(broker[k], sent[k], received, in_messages, k)
          /\ Grows(received, in_messages, received', in_messages', k)
      BY <1>1, <1>3, <2>1 DEF Names, Acknowledged, Effect
    <3> QED
      BY <2>1, <3>1 DEF BrokerHolds, Grows
  <2>2. CASE broker'[k] = broker[k] /\ broker[k] = "unsent"
    BY <2>2 DEF OfBroker, BrokerHolds
  <2> QED
    BY <1>2, <2>1, <2>2 DEF Effect
<1>8. ASSUME NEW k \in Ids, received'[k] > 0
      PROVE  k \in 1 .. Len(sent')
  BY <1>1, <1>3, <1>8 DEF Names, Effect
<1>9. Names'
  BY <1>4, <1>5, <1>6, <1>7, <1>8 DEF Names
<1>10. Acknowledged'
  <2>1. \A k \in 1 .. Len(sent') : k \in Ids
    <3>1. TypeOK'
      BY DEF Counted
    <3>2. PICK n : n = Len(sent')
      OBVIOUS
    <3>3. n \in Nat /\ n <= MaxMessages
      BY <3>1, <3>2 DEF TypeOK
    <3> QED
      BY <3>2, <3>3, InMessagesAssumption DEF Ids
  <2> QED
    BY <1>5, <1>6, <1>7, <2>1 DEF Acknowledged
<1> QED
  BY <1>9, <1>10 DEF InInv

(* on_message is called for message id.                                    *)
LEMMA Passed ==
  ASSUME TypeOK, NEW id \in Ids, OnMessage(id)
  PROVE  /\ received'[id] > 0
         /\ \A k \in Ids : received[k] > 0 => received'[k] > 0
         /\ \A k \in Ids : k # id => received'[k] = received[k]
<1>1. received \in [Ids -> 0 .. 2]
  BY DEF TypeOK
<1>2. received'[id] = CountUp(received[id]) /\ \A k \in Ids : k # id => received'[k] = received[k]
  BY <1>1 DEF OnMessage
<1> QED
  BY <1>2 DEF CountUp

LEMMA MidIsId ==
  ASSUME NoWrap
  PROVE  \A k \in Ids : Mid(k) = k
<1> SUFFICES ASSUME NEW k \in Ids
             PROVE  Mid(k) = k
  OBVIOUS
<1>1. k \in Nat /\ k - 1 \in 0 .. (MidSpace - 1) /\ MidSpace \in Nat \ {0}
  BY InMessagesAssumption DEF Ids, NoWrap
<1>2. (k - 1) % MidSpace = k - 1
  BY <1>1
<1> QED
  BY <1>1, <1>2 DEF Mid

(* The packets the client handles and the broker reads, by message.        *)
LEMMA DownHead ==
  ASSUME InInv, toClient # <<>>
  PROVE  /\ OfDown(Head(toClient), sent) /\ DownHolds(Head(toClient), received, in_messages)
         /\ Head(toClient).mid \in 1 .. Len(sent) /\ 1 .. Len(sent) \subseteq Ids
         /\ Packets(Tail(toClient)) \subseteq Packets(toClient)
<1>1. TypeOK /\ Names /\ Acknowledged
  BY DEF InInv, Counted
<1>2. Head(toClient) \in Packets(toClient) /\ Packets(Tail(toClient)) \subseteq Packets(toClient)
  BY <1>1, InFacts, PacketsOfTail
<1> QED
  BY <1>1, <1>2, InFacts DEF Names, Acknowledged, OfDown

LEMMA UpHead ==
  ASSUME InInv, toBroker # <<>>
  PROVE  /\ OfUp(Head(toBroker), sent) /\ UpHolds(Head(toBroker), received, in_messages)
         /\ Head(toBroker).mid \in 1 .. Len(sent) /\ 1 .. Len(sent) \subseteq Ids
         /\ Packets(Tail(toBroker)) \subseteq Packets(toBroker)
<1>1. TypeOK /\ Names /\ Acknowledged
  BY DEF InInv, Counted
<1>2. Head(toBroker) \in Packets(toBroker) /\ Packets(Tail(toBroker)) \subseteq Packets(toBroker)
  BY <1>1, InFacts, PacketsOfTail
<1> QED
  BY <1>1, <1>2, InFacts DEF Names, Acknowledged, OfUp

(* One more packet in a channel.                                           *)
LEMMA Appended ==
  ASSUME NEW S, NEW s \in Seq(S), NEW q
  PROVE  \A p \in Packets(Append(s, q)) : p \in Packets(s) \/ p = q
<1>1. ASSUME NEW i \in DOMAIN Append(s, q)
      PROVE  Append(s, q)[i] = q \/ (i \in DOMAIN s /\ Append(s, q)[i] = s[i])
  <2>1. /\ Len(s) \in Nat /\ DOMAIN s = 1 .. Len(s) /\ DOMAIN Append(s, q) = 1 .. Len(s) + 1
        /\ Append(s, q)[Len(s) + 1] = q /\ \A j \in 1 .. Len(s) : Append(s, q)[j] = s[j]
    BY AppendProperties
  <2> QED
    BY <2>1
<1> QED
  BY <1>1 DEF Packets

LEMMA Replied ==
  ASSUME TypeOK, NEW type, NEW mid, Reply(type, mid)
  PROVE  \A p \in Packets(toBroker') :
           p \in Packets(toBroker) \/ (p.type = type /\ p.mid = mid)
<1>1. PICK q : q = MidPacket(type, mid)
  OBVIOUS
<1>2. q.type = type /\ q.mid = mid /\ toBroker' = Append(toBroker, q)
  BY <1>1 DEF MidPacket, Reply
<1> QED
  BY <1>2, InFacts, Appended

LEMMA PublishEffect ==
  ASSUME InInv, HandlePublish
  PROVE  Effect
<1> DEFINE p == Head(toClient)
<1>1. TypeOK /\ Names /\ Acknowledged
  BY DEF InInv, Counted
<1>2. /\ toClient # <<>> /\ p.type = "PUBLISH" /\ toClient' = Tail(toClient)
      /\ UNCHANGED <<clean_session, conn, sent, broker, losses>>
  BY DEF HandlePublish, Receive
<1>3. /\ p.mid \in 1 .. Len(sent) /\ p.id = p.mid /\ p.qos = sent[p.mid] /\ p.mid \in Ids
      /\ Packets(Tail(toClient)) \subseteq Packets(toClient)
  BY <1>2, DownHead DEF OfDown
<1> HIDE DEF p
<1>4. CASE OnMessage(p.id) /\ UNCHANGED <<in_messages, in_queue_len>> /\ p.qos # 2
           /\ (UNCHANGED toBroker \/ (Reply("PUBACK", p.mid) /\ p.qos = 1))
  <2>1. /\ received'[p.mid] > 0 /\ \A k \in Ids : received[k] > 0 => received'[k] > 0
        /\ \A k \in Ids : k # p.mid => received'[k] = received[k]
    BY <1>1, <1>3, <1>4, Passed
  <2>2. \A q \in Packets(toBroker') :
          q \in Packets(toBroker) \/ (q.type = "PUBACK" /\ q.mid = p.mid /\ p.qos = 1)
    BY <1>1, <1>4, Replied
  <2>3. \A q \in Packets(toBroker') :
          q \in Packets(toBroker) \/ (OfUp(q, sent) /\ UpHolds(q, received', in_messages'))
    BY <1>3, <2>1, <2>2 DEF OfUp, UpHolds
  <2>4. \A k \in Ids : Grows(received, in_messages, received', in_messages', k)
    BY <1>4, <2>1 DEF Grows, Got
  <2>5. \A i \in DOMAIN in_messages : OfMessage(in_messages[i], sent)
    BY <1>1 DEF Names
  <2> QED
    BY <1>2, <1>3, <1>4, <2>1, <2>3, <2>4, <2>5 DEF Effect
<1>5. CASE Reply("PUBREC", p.mid) /\ Queue(p) /\ UNCHANGED received /\ p.qos = 2
  <2>1. PICK m : m = [id |-> p.id, mid |-> p.mid, due |-> FALSE]
    OBVIOUS
  <2>2. m.id = p.mid /\ m.mid = p.mid /\ in_messages' = Append(in_messages, m)
    BY <1>3, <1>5, <2>1 DEF Queue
  <2>3. in_messages \in Seq(Waiting)
    BY <1>1 DEF TypeOK
  <2>4. /\ Len(in_messages) \in Nat /\ DOMAIN in_messages = 1 .. Len(in_messages)
        /\ DOMAIN in_messages' = 1 .. Len(in_messages) + 1
        /\ in_messages'[Len(in_messages) + 1] = m
        /\ \A i \in 1 .. Len(in_messages) : in_messages'[i] = in_messages[i]
    BY <2>2, <2>3, AppendProperties
  <2>5. \A i \in DOMAIN in_messages' : OfMessage(in_messages'[i], sent)
    <3>1. OfMessage(m, sent)
      BY <1>3, <1>5, <2>2 DEF OfMessage
    <3> QED
      BY <1>1, <2>4, <3>1 DEF Names
  <2>6. /\ Listed(in_messages', p.mid)
        /\ \A k : Listed(in_messages, k) => Listed(in_messages', k)
    BY <2>2, <2>4 DEF Listed
  <2>7. \A q \in Packets(toBroker') :
          q \in Packets(toBroker) \/ (OfUp(q, sent) /\ UpHolds(q, received', in_messages'))
    <3>1. \A q \in Packets(toBroker') :
            q \in Packets(toBroker) \/ (q.type = "PUBREC" /\ q.mid = p.mid)
      BY <1>1, <1>5, Replied
    <3> QED
      BY <1>3, <1>5, <2>6, <3>1 DEF OfUp, UpHolds, Got
  <2>8. \A k \in Ids : Grows(received, in_messages, received', in_messages', k)
    BY <1>5, <2>6 DEF Grows, Got
  <2> QED
    BY <1>2, <1>3, <1>5, <2>5, <2>7, <2>8 DEF Effect
<1> QED
  BY <1>4, <1>5 DEF HandlePublish, p

LEMMA PubrelEffect ==
  ASSUME InInv, HandlePubrel
  PROVE  Effect
<1> DEFINE mid == Head(toClient).mid
           at == MidIndex(mid)
<1>1. TypeOK /\ Names /\ Acknowledged
  BY DEF InInv, Counted
<1>2. /\ toClient # <<>> /\ Head(toClient).type = "PUBREL" /\ toClient' = Tail(toClient)
      /\ Reply("PUBCOMP", mid) /\ UNCHANGED <<clean_session, conn, sent, broker, losses>>
  BY DEF HandlePubrel, Receive
<1>3. /\ mid \in 1 .. Len(sent) /\ mid \in Ids /\ sent[mid] = 2
      /\ Got(received, in_messages, mid)
      /\ Packets(Tail(toClient)) \subseteq Packets(toClient)
  BY <1>2, DownHead DEF OfDown, DownHolds
<1>4. \A q \in Packets(toBroker') :
        q \in Packets(toBroker) \/ (q.type = "PUBCOMP" /\ q.mid = mid)
  BY <1>1, <1>2, Replied
<1>5. CASE HasMid(mid)
  <2>1. OnMessage(in_messages[at].id) /\ Remove(at)
    BY <1>5 DEF HandlePubrel
  <2>2. at \in DOMAIN in_messages /\ in_messages[at].mid = mid
    BY <1>1, <1>5, MidIndexFound
  <2> HIDE DEF at, mid
  <2>3. in_messages[at].id = mid
    BY <1>1, <2>2 DEF Names, OfMessage
  <2>4. /\ received'[mid] > 0 /\ \A k \in Ids : received[k] > 0 => received'[k] > 0
        /\ \A k \in Ids : k # mid => received'[k] = received[k]
    BY <1>1, <1>3, <2>1, <2>3, Passed
  <2>5. /\ \A i \in DOMAIN in_messages' : \E j \in DOMAIN in_messages :
             j # at /\ in_messages'[i] = in_messages[j]
        /\ \A j \in DOMAIN in_messages : j # at =>
             \E i \in DOMAIN in_messages' : in_messages'[i] = in_messages[j]
    BY <1>1, <2>1, <2>2, Removed
  <2>6. \A k \in Ids : Grows(received, in_messages, received', in_messages', k)
    BY <2>2, <2>4, <2>5 DEF Grows, Got, Listed
  <2>7. \A q \in Packets(toBroker') :
          q \in Packets(toBroker) \/ (OfUp(q, sent) /\ UpHolds(q, received', in_messages'))
    BY <1>3, <1>4, <2>4 DEF OfUp, UpHolds
  <2> QED
    BY <1>2, <1>3, <2>4, <2>5, <2>6, <2>7 DEF Effect
<1>6. CASE ~ HasMid(mid)
  <2>1. UNCHANGED <<in_messages, in_queue_len, received>>
    BY <1>6 DEF HandlePubrel
  <2>2. received[mid] > 0
    BY <1>3, <1>6 DEF Got, Listed, HasMid
  <2> HIDE DEF mid
  <2>3. \A q \in Packets(toBroker') :
          q \in Packets(toBroker) \/ (OfUp(q, sent) /\ UpHolds(q, received', in_messages'))
    BY <1>3, <1>4, <2>1, <2>2 DEF OfUp, UpHolds
  <2> QED
    BY <1>2, <1>3, <2>1, <2>3 DEF Effect, Grows
<1> QED
  BY <1>5, <1>6

LEMMA RetryEffect ==
  ASSUME InInv, RetryCheck \/ (\E i \in 1 .. ListCap : Tick(i)) \/ ReconnectFails \/ ConnLost
  PROVE  Effect
<1>1. TypeOK /\ Names /\ Acknowledged
  BY DEF InInv, Counted
<1>2. UNCHANGED <<clean_session, toClient, sent, broker, received>>
  BY DEF RetryCheck, Tick, ReconnectFails, ConnLost
<1>3. /\ DOMAIN in_messages' = DOMAIN in_messages
      /\ \A i \in DOMAIN in_messages :
           in_messages'[i].id = in_messages[i].id /\ in_messages'[i].mid = in_messages[i].mid
  <2>1. CASE ConnLost
    BY <2>1 DEF ConnLost
  <2>2. CASE ~ ConnLost
    <3>1. SameList
      BY <1>1, <2>2, TimestampsOnly DEF ReconnectFails
    <3> QED
      BY <3>1 DEF SameList
  <2> QED
    BY <2>1, <2>2
<1>4. \A k : Got(received, in_messages, k) <=> Got(received', in_messages', k)
  BY <1>2, <1>3 DEF Got, Listed
<1>5. \A q \in Packets(toBroker') :
        q \in Packets(toBroker) \/ (OfUp(q, sent) /\ UpHolds(q, received', in_messages'))
  <2>1. CASE RetryCheck
    <3>1. PICK ps \in Seq(ToBrokerPackets) :
            /\ toBroker' = toBroker \o ps
            /\ \A p \in Packets(ps) :
                 p.type = "PUBREC" /\ \E i \in DOMAIN in_messages : p.mid = in_messages[i].mid
      BY <1>1, <2>1, RetryPackets
    <3>2. \A q \in Packets(toBroker') : q \in Packets(toBroker) \/ q \in Packets(ps)
      BY <1>1, <3>1, Joined, InFacts
    <3>3. ASSUME NEW q \in Packets(ps)
          PROVE  OfUp(q, sent) /\ UpHolds(q, received', in_messages')
      <4>1. PICK i \in DOMAIN in_messages : q.type = "PUBREC" /\ q.mid = in_messages[i].mid
        BY <3>1
      <4>2. OfMessage(in_messages[i], sent)
        BY <1>1 DEF Names
      <4>3. Got(received, in_messages, q.mid)
        BY <4>1 DEF Got, Listed
      <4> QED
        BY <1>4, <4>1, <4>2, <4>3 DEF OfUp, OfMessage, UpHolds
    <3> QED
      BY <3>2, <3>3
  <2>2. CASE ~ RetryCheck
    BY <2>2 DEF Tick, ReconnectFails, ConnLost
  <2> QED
    BY <2>1, <2>2
<1> QED
  BY <1>2, <1>3, <1>4, <1>5 DEF Effect, Grows

LEMMA ReconnectEffect ==
  ASSUME InInv, NoWrap, Reconnect
  PROVE  Effect
<1>1. TypeOK /\ Names /\ Acknowledged /\ Counted
  BY DEF InInv, Counted
<1>2. Reset /\ toBroker' = <<>> /\ UNCHANGED <<clean_session, sent, losses, received>>
  BY DEF Reconnect
<1>3. /\ DOMAIN in_messages' = DOMAIN in_messages
      /\ \A i \in DOMAIN in_messages :
           in_messages'[i].id = in_messages[i].id /\ in_messages'[i].mid = in_messages[i].mid
  BY <1>1, <1>2, TimestampsOnly DEF SameList
<1>4. \A k : Got(received, in_messages, k) <=> Got(received', in_messages', k)
  BY <1>2, <1>3 DEF Got, Listed
<1>5. ASSUME NEW k \in Ids
      PROVE  \/ broker'[k] = broker[k]
             \/ OfBroker(broker'[k], sent'[k])
                /\ BrokerHolds(broker'[k], sent'[k], received', in_messages', k)
  <2>1. broker'[k] = broker[k] \/ broker'[k] = "dropped"
    BY <1>1 DEF Reconnect
  <2> QED
    BY <2>1 DEF OfBroker, BrokerHolds
<1>6. ASSUME NEW p \in Packets(toClient')
      PROVE  OfDown(p, sent) /\ DownHolds(p, received, in_messages)
  <2>1. ~ clean_session
    BY <1>6 DEF Reconnect, Packets
  <2>2. PICK k \in Unacknowledged : p = Resent(k)
    BY <1>1, <1>6, <2>1, ResentPackets
  <2>3. k \in Ids /\ Mid(k) = k /\ broker[k] \in {"PUBACK", "PUBREC", "PUBCOMP"}
    BY MidIsId DEF Unacknowledged
  <2>4. k \in 1 .. Len(sent)
    BY <1>1, <2>3, InFacts DEF Counted
  <2>5. CASE broker[k] = "PUBCOMP"
    <3>1. p.type = "PUBREL" /\ p.mid = k
      BY <2>2, <2>3, <2>5 DEF Resent, MidPacket
    <3>2. sent[k] = 2 /\ Got(received, in_messages, k)
      BY <1>1, <2>3, <2>4, <2>5 DEF Names, Acknowledged, OfBroker, BrokerHolds
    <3> QED
      BY <2>4, <3>1, <3>2 DEF OfDown, DownHolds
  <2>6. CASE broker[k] # "PUBCOMP"
    <3>1. p.type = "PUBLISH" /\ p.mid = k /\ p.id = k /\ p.qos = sent[k]
      BY <2>2, <2>3, <2>6 DEF Resent, PublishPacket
    <3> QED
      BY <2>4, <3>1 DEF OfDown, DownHolds
  <2> QED
    BY <2>5, <2>6
<1>7. ASSUME NEW p \in Packets(toClient')
      PROVE  OfDown(p, sent') /\ DownHolds(p, received', in_messages')
  BY <1>2, <1>4, <1>6, <1>7 DEF DownHolds
<1>8. Packets(toBroker') = {}
  BY <1>2 DEF Packets
<1> QED
  BY <1>2, <1>3, <1>4, <1>5, <1>7, <1>8 DEF Effect, Grows

LEMMA BrokerPublishEffect ==
  ASSUME InInv, NoWrap, NEW q \in Qos, BrokerPublish(q)
  PROVE  Effect
<1> DEFINE k == Len(sent) + 1
<1>1. TypeOK /\ Names /\ Acknowledged
  BY DEF InInv, Counted
<1>2. /\ k <= MaxMessages /\ sent' = Append(sent, q)
      /\ broker' = [broker EXCEPT ![k] = AckOf(q)]
      /\ toClient' = Append(toClient, PublishPacket(k, q))
      /\ UNCHANGED <<clean_session, in_messages, in_queue_len, conn, toBroker, losses, received>>
  BY DEF BrokerPublish
<1>3. q \in 0 .. 2 /\ sent \in Seq(0 .. 2) /\ Len(sent) \in Nat /\ MaxMessages \in Nat
  BY <1>1, InMessagesAssumption DEF TypeOK
<1>4. /\ k \in Ids /\ Len(sent') = k /\ sent'[k] = q
      /\ \A i \in 1 .. Len(sent) : sent'[i] = sent[i] /\ i # k
      /\ 1 .. Len(sent) \subseteq 1 .. k /\ k \in 1 .. k
      /\ \A i \in 1 .. k : i = k \/ i \in 1 .. Len(sent)
  BY <1>2, <1>3 DEF Ids
<1>5. PICK a : a = AckOf(q)
  OBVIOUS
<1>6. \A n \in Ids : broker'[n] = IF n = k THEN a ELSE broker[n]
  BY <1>1, <1>2, <1>4, <1>5 DEF TypeOK
<1>7. OfBroker(a, q) /\ BrokerHolds(a, q, received, in_messages, k)
  <2>1. q = 0 \/ q = 1 \/ q = 2
    BY <1>3
  <2>2. CASE q = 0
    BY <1>5, <2>2 DEF AckOf, OfBroker, BrokerHolds
  <2>3. CASE q = 1
    BY <1>5, <2>3 DEF AckOf, OfBroker, BrokerHolds
  <2>4. CASE q = 2
    BY <1>5, <2>4 DEF AckOf, OfBroker, BrokerHolds
  <2> QED
    BY <2>1, <2>2, <2>3, <2>4
<1>8. PICK p : p = PublishPacket(k, q)
  OBVIOUS
<1>9. p.type = "PUBLISH" /\ p.id = k /\ p.mid = k /\ p.qos = q
  BY <1>4, <1>8, MidIsId DEF PublishPacket
<1>10. \A r \in Packets(toClient') : r \in Packets(toClient) \/ r = p
  BY <1>1, <1>2, <1>8, InFacts, Appended
<1> HIDE DEF k
<1>11. OfDown(p, sent') /\ DownHolds(p, received', in_messages')
  BY <1>4, <1>9 DEF OfDown, DownHolds
<1>12. \A i \in DOMAIN in_messages' : \E j \in DOMAIN in_messages :
         in_messages'[i].id = in_messages[j].id /\ in_messages'[i].mid = in_messages[j].mid
  BY <1>2
<1>13. \A n \in Ids :
         \/ broker'[n] = broker[n] /\ (n \in 1 .. Len(sent') => n \in 1 .. Len(sent))
         \/ OfBroker(broker'[n], sent'[n])
            /\ BrokerHolds(broker'[n], sent'[n], received', in_messages', n)
  BY <1>2, <1>4, <1>6, <1>7
<1> QED
  BY <1>2, <1>4, <1>10, <1>11, <1>12, <1>13 DEF Effect, Grows

LEMMA BrokerHandleEffect ==
  ASSUME InInv, NoWrap, BrokerHandle
  PROVE  Effect
<1> DEFINE p == Head(toBroker)
<1>1. TypeOK /\ Names /\ Acknowledged
  BY DEF InInv, Counted
<1>2. /\ toBroker # <<>> /\ toBroker' = Tail(toBroker)
      /\ UNCHANGED <<clean_session, in_messages, in_queue_len, conn, sent, losses, received>>
  BY DEF BrokerHandle
<1>3. /\ OfUp(p, sent) /\ UpHolds(p, received, in_messages) /\ p.mid \in 1 .. Len(sent)
      /\ p.mid \in Ids /\ Packets(Tail(toBroker)) \subseteq Packets(toBroker)
  BY <1>2, UpHead
<1>4. \A k \in Awaits(p) : k = p.mid
  BY MidIsId DEF Awaits, Unacknowledged
<1>5. \/ /\ p.type \in {"PUBACK", "PUBCOMP"} /\ UNCHANGED toClient
         /\ broker' = [k \in Ids |-> IF k \in Awaits(p) /\ broker[k] = p.type
                                     THEN "done" ELSE broker[k]]
      \/ /\ p.type = "PUBREC"
         /\ broker' = [k \in Ids |-> IF k \in Awaits(p) /\ broker[k] = "PUBREC"
                                     THEN "PUBCOMP" ELSE broker[k]]
         /\ UNCHANGED toClient \/ toClient' = Append(toClient, MidPacket("PUBREL", p.mid))
  BY DEF BrokerHandle
<1> HIDE DEF p
<1>6. CASE /\ p.type \in {"PUBACK", "PUBCOMP"} /\ UNCHANGED toClient
           /\ broker' = [k \in Ids |-> IF k \in Awaits(p) /\ broker[k] = p.type
                                       THEN "done" ELSE broker[k]]
  <2>1. received[p.mid] > 0
    BY <1>3, <1>6 DEF UpHolds
  <2>2. ASSUME NEW k \in Ids
        PROVE  \/ broker'[k] = broker[k]
               \/ OfBroker(broker'[k], sent[k])
                  /\ BrokerHolds(broker'[k], sent[k], received, in_messages, k)
    BY <1>4, <1>6, <2>1 DEF OfBroker, BrokerHolds
  <2> QED
    BY <1>2, <1>3, <1>6, <2>2 DEF Effect, Grows
<1>7. CASE /\ p.type = "PUBREC"
           /\ broker' = [k \in Ids |-> IF k \in Awaits(p) /\ broker[k] = "PUBREC"
                                       THEN "PUBCOMP" ELSE broker[k]]
           /\ UNCHANGED toClient \/ toClient' = Append(toClient, MidPacket("PUBREL", p.mid))
  <2>1. Got(received, in_messages, p.mid) /\ sent[p.mid] = 2
    BY <1>3, <1>7 DEF UpHolds, OfUp
  <2>2. ASSUME NEW k \in Ids
        PROVE  \/ broker'[k] = broker[k]
               \/ OfBroker(broker'[k], sent[k])
                  /\ BrokerHolds(broker'[k], sent[k], received, in_messages, k)
    BY <1>4, <1>7, <2>1 DEF OfBroker, BrokerHolds
  <2>3. PICK r : r = MidPacket("PUBREL", p.mid)
    OBVIOUS
  <2>4. \A s \in Packets(toClient') : s \in Packets(toClient) \/ s = r
    BY <1>1, <1>7, <2>3, InFacts, Appended
  <2>5. OfDown(r, sent) /\ DownHolds(r, received, in_messages)
    <3>1. r.type = "PUBREL" /\ r.mid = p.mid
      BY <2>3 DEF MidPacket
    <3> QED
      BY <1>3, <2>1, <3>1 DEF OfDown, DownHolds
  <2> QED
    BY <1>2, <1>3, <1>7, <2>2, <2>4, <2>5 DEF Effect, Grows
<1> QED
  BY <1>5, <1>6, <1>7

LEMMA NextInInv ==
  ASSUME NoWrap, InInv, [Next]_vars
  PROVE  InInv'
<1>1. Counted'
  BY NextCounted DEF InInv
<1>2. TypeOK /\ losses \in 0 .. MaxLoss /\ MaxLoss \in Nat /\ (~ conn => losses > 0)
  BY InMessagesAssumption DEF InInv, Counted, TypeOK
<1>3. CASE UNCHANGED vars \/ Quiescent
  BY <1>3 DEF Quiescent, vars, InInv, Counted, TypeOK, Names, Acknowledged
<1>4. CASE ~ (UNCHANGED vars \/ Quiescent)
  <2>1. Effect
    BY <1>4, PublishEffect, PubrelEffect, RetryEffect, ReconnectEffect, BrokerPublishEffect,
       BrokerHandleEffect DEF Next
  <2>2. ~ conn' => losses' > 0
    <3>1. CASE ConnLost \/ ReconnectFails
      <4>1. losses' = losses + 1
        BY <3>1 DEF ConnLost, ReconnectFails
      <4> QED
        BY <1>2, <4>1
    <3>2. CASE Reconnect
      BY <3>2 DEF Reconnect
    <3>3. CASE UNCHANGED <<conn, losses>>
      BY <1>2, <3>3
    <3> QED
      BY <1>4, <3>1, <3>2, <3>3
      DEF Next, HandlePublish, HandlePubrel, RetryCheck, Tick, BrokerPublish, BrokerHandle
  <2> QED
    BY <1>1, <2>1, <2>2, EffectKeeps
<1> QED
  BY <1>3, <1>4

LEMMA InitInInv == Init => InInv
<1> SUFFICES ASSUME Init
             PROVE  InInv
  OBVIOUS
<1>1. Packets(toClient) = {} /\ Packets(toBroker) = {} /\ DOMAIN in_messages = {}
  BY DEF Init, Packets
<1>2. \A k \in Ids : broker[k] = "unsent" /\ received[k] = 0
  BY DEF Init
<1>3. Names
  BY <1>1, <1>2 DEF Names, OfBroker
<1>4. Acknowledged
  <2>1. 1 .. Len(sent) = {}
    BY DEF Init
  <2> QED
    BY <1>1, <2>1 DEF Acknowledged
<1> QED
  BY <1>3, <1>4, InitCounted DEF InInv, Init

LEMMA InInvHolds ==
  ASSUME NoWrap
  PROVE  Spec => []InInv
<1>1. InInv /\ [Next]_vars => InInv'
  BY NextInInv
<1> QED
  BY <1>1, InitInInv, PTL DEF Spec

\* handle_pubrel sends PUBCOMP whether or not it has found the message, and still the
\* broker never completes a message of QoS 1 or 2 that on_message has not got: for any
\* number of messages, lost connections and repetitions, as long as the broker does not
\* come back to a message id.  (When it does, a message kept from an earlier session
\* can be passed on in place of the new one with its id.)
THEOREM CompletedWasReceivedCorrect ==
  ASSUME NoWrap
  PROVE  Spec => []CompletedWasReceived
<1>1. InInv => CompletedWasReceived
  BY DEF InInv, Acknowledged, BrokerHolds, CompletedWasReceived
<1> QED
  BY <1>1, InInvHolds, PTL

-----------------------------------------------------------------------------
(* A PUBLISH of QoS 2 that is sent once is passed on once.                 *)

LEMMA OnceOnTail ==
  ASSUME NEW S, NEW s \in Seq(S), s # <<>>, OnceOn(s)
  PROVE  /\ OnceOn(Tail(s))
         /\ \A p \in Packets(Tail(s)) :
              (p.type = "PUBLISH" /\ Head(s).type = "PUBLISH") => p.mid # Head(s).mid
<1>1. /\ Len(s) \in Nat /\ Len(s) > 0 /\ DOMAIN s = 1 .. Len(s) /\ Head(s) = s[1] /\ 1 \in DOMAIN s
      /\ DOMAIN Tail(s) = 1 .. (Len(s) - 1)
  BY EmptySeq, LenProperties
<1>2. \A n \in DOMAIN Tail(s) :
        n \in Nat /\ n + 1 \in DOMAIN s /\ n + 1 # 1 /\ Tail(s)[n] = s[n + 1]
  BY <1>1
<1>3. ASSUME NEW m \in DOMAIN Tail(s), NEW n \in DOMAIN Tail(s), Tail(s)[m].type = "PUBLISH",
             Tail(s)[n].type = "PUBLISH", Tail(s)[m].mid = Tail(s)[n].mid
      PROVE  m = n
  <2>1. m + 1 = n + 1
    BY <1>2, <1>3 DEF OnceOn
  <2> QED
    BY <1>2, <2>1
<1>4. ASSUME NEW p \in Packets(Tail(s)), p.type = "PUBLISH", Head(s).type = "PUBLISH"
      PROVE  p.mid # Head(s).mid
  <2>1. PICK n \in DOMAIN Tail(s) : p = Tail(s)[n]
    BY DEF Packets
  <2> QED
    BY <1>1, <1>2, <1>4, <2>1 DEF OnceOn
<1> QED
  BY <1>3, <1>4 DEF OnceOn

LEMMA OnceOnAppend ==
  ASSUME NEW S, NEW s \in Seq(S), NEW q \in S, OnceOn(s),
         q.type = "PUBLISH" => \A p \in Packets(s) : p.mid # q.mid
  PROVE  OnceOn(Append(s, q))
<1> DEFINE u == Append(s, q)
<1>1. /\ Len(s) \in Nat /\ DOMAIN s = 1 .. Len(s) /\ DOMAIN u = 1 .. (Len(s) + 1)
      /\ u[Len(s) + 1] = q /\ \A n \in 1 .. Len(s) : u[n] = s[n]
  BY AppendProperties
<1>2. \A n \in DOMAIN u : (n \in DOMAIN s /\ u[n] = s[n]) \/ (n = Len(s) + 1 /\ u[n] = q)
  BY <1>1
<1>3. \A n \in DOMAIN s : s[n] \in Packets(s)
  BY PacketsOf
<1> HIDE DEF u
<1>4. OnceOn(u)
  BY <1>2, <1>3 DEF OnceOn
<1> QED
  BY <1>4 DEF u

LEMMA PublishOnePlace ==
  ASSUME InInv, OnePlace, HandlePublish
  PROVE  OnePlace'
<1> DEFINE p == Head(toClient)
<1>1. TypeOK /\ Names
  BY DEF InInv, Counted
<1>2. /\ toClient # <<>> /\ p.type = "PUBLISH" /\ toClient' = Tail(toClient)
      /\ UNCHANGED <<clean_session, conn, sent, broker, losses>>
  BY DEF HandlePublish, Receive
<1>3. /\ p.mid \in 1 .. Len(sent) /\ p.id = p.mid /\ p.qos = sent[p.mid] /\ p.mid \in Ids
      /\ Packets(Tail(toClient)) \subseteq Packets(toClient) /\ 1 .. Len(sent) \subseteq Ids
  BY <1>2, DownHead DEF OfDown
<1>4. toClient \in Seq(ToClientPackets) /\ p \in Packets(toClient)
  BY <1>1, <1>2, InFacts, PacketsOfTail
<1>5. /\ OnceOn(Tail(toClient))
      /\ \A q \in Packets(Tail(toClient)) : q.type = "PUBLISH" => q.mid # p.mid
  BY <1>2, <1>4, OnceOnTail DEF OnePlace
<1> HIDE DEF p
<1>6. CASE OnMessage(p.id) /\ UNCHANGED <<in_messages, in_queue_len>> /\ p.qos # 2
  <2>1. \A k \in Ids : k # p.mid => received'[k] = received[k]
    BY <1>1, <1>3, <1>6, Passed
  <2>2. ASSUME NEW q \in Packets(Tail(toClient))
        PROVE  NotYet(q, received', in_messages')
    <3>1. q \in Packets(toClient) /\ OfDown(q, sent) /\ NotYet(q, received, in_messages)
      BY <1>1, <1>3 DEF Names, OnePlace
    <3>2. q.type = "PUBLISH" => received'[q.mid] = received[q.mid]
      BY <1>3, <1>5, <2>1, <3>1 DEF OfDown
    <3> QED
      BY <1>6, <3>1, <3>2 DEF NotYet, Got
  <2>3. ASSUME NEW i \in DOMAIN in_messages
        PROVE  ~ (received'[in_messages[i].mid] > 0)
    <3>1. OfMessage(in_messages[i], sent) /\ ~ (received[in_messages[i].mid] > 0)
      BY <1>1 DEF Names, OnePlace
    <3> QED
      BY <1>3, <1>6, <2>1, <3>1 DEF OfMessage
  <2>4. ReceivedOnce'
    BY <1>2, <1>3, <1>6, <2>1 DEF OnePlace, ReceivedOnce
  <2> QED
    BY <1>2, <1>5, <1>6, <2>2, <2>3, <2>4 DEF OnePlace
<1>7. CASE Queue(p) /\ UNCHANGED received /\ p.qos = 2
  <2>1. PICK m : m = [id |-> p.id, mid |-> p.mid, due |-> FALSE]
    OBVIOUS
  <2>2. m.mid = p.mid /\ in_messages' = Append(in_messages, m) /\ in_messages \in Seq(Waiting)
    BY <1>1, <1>7, <2>1 DEF Queue, TypeOK
  <2>3. /\ Len(in_messages) \in Nat /\ DOMAIN in_messages = 1 .. Len(in_messages)
        /\ DOMAIN in_messages' = 1 .. Len(in_messages) + 1
        /\ in_messages'[Len(in_messages) + 1] = m
        /\ \A i \in 1 .. Len(in_messages) : in_messages'[i] = in_messages[i]
    BY <2>2, AppendProperties
  <2>4. \A i \in DOMAIN in_messages' :
          \/ i \in DOMAIN in_messages /\ in_messages'[i] = in_messages[i]
          \/ i = Len(in_messages) + 1 /\ in_messages'[i].mid = p.mid
    BY <2>2, <2>3
  <2>5. ~ Got(received, in_messages, p.mid)
    BY <1>2, <1>4, <1>7 DEF OnePlace, NotYet
  <2>6. OnceIn(in_messages')
    <3>1. \A i \in DOMAIN in_messages : in_messages[i].mid # p.mid
      BY <2>5 DEF Got, Listed
    <3> QED
      BY <2>4, <3>1 DEF OnePlace, OnceIn
  <2>7. \A i \in DOMAIN in_messages' : ~ (received[in_messages'[i].mid] > 0)
    BY <2>4, <2>5 DEF OnePlace, Got
  <2>8. ASSUME NEW q \in Packets(Tail(toClient))
        PROVE  NotYet(q, received, in_messages')
    <3>1. NotYet(q, received, in_messages)
      BY <1>3 DEF OnePlace
    <3>2. q.type = "PUBLISH" => (Listed(in_messages', q.mid) => Listed(in_messages, q.mid))
      BY <1>5, <2>4 DEF Listed
    <3> QED
      BY <3>1, <3>2 DEF NotYet, Got
  <2> QED
    BY <1>2, <1>5, <1>7, <2>6, <2>7, <2>8 DEF OnePlace, ReceivedOnce
<1> QED
  BY <1>6, <1>7 DEF HandlePublish, p

LEMMA PubrelOnePlace ==
  ASSUME InInv, OnePlace, HandlePubrel
  PROVE  OnePlace'
<1> DEFINE mid == Head(toClient).mid
           at == MidIndex(mid)
<1>1. TypeOK /\ Names
  BY DEF InInv, Counted
<1>2. toClient # <<>> /\ toClient' = Tail(toClient) /\ UNCHANGED sent
  BY DEF HandlePubrel, Receive
<1>3. /\ mid \in Ids /\ Packets(Tail(toClient)) \subseteq Packets(toClient)
      /\ 1 .. Len(sent) \subseteq Ids
  BY <1>2, DownHead
<1>4. OnceOn(toClient')
  BY <1>1, <1>2, InFacts, OnceOnTail DEF OnePlace
<1>5. CASE HasMid(mid)
  <2>1. OnMessage(in_messages[at].id) /\ Remove(at)
    BY <1>5 DEF HandlePubrel
  <2>2. at \in DOMAIN in_messages /\ in_messages[at].mid = mid
    BY <1>1, <1>5, MidIndexFound
  <2> HIDE DEF at, mid
  <2>3. in_messages[at].id = mid
    BY <1>1, <2>2 DEF Names, OfMessage
  <2>4. \A k \in Ids : k # mid => received'[k] = received[k]
    BY <1>1, <1>3, <2>1, <2>3, Passed
  <2>5. received'[mid] <= 1
    <3>1. received[mid] \in 0 .. 2 /\ ~ (received[mid] > 0)
      BY <1>1, <1>3, <2>2 DEF TypeOK, OnePlace
    <3>2. received'[mid] = CountUp(received[mid])
      BY <1>1, <1>3, <2>1, <2>3 DEF OnMessage, TypeOK
    <3> QED
      BY <3>1, <3>2 DEF CountUp
  <2>6. /\ \A i \in DOMAIN in_messages' : \E j \in DOMAIN in_messages :
             j # at /\ in_messages'[i] = in_messages[j]
        /\ \A i, j \in DOMAIN in_messages' : i # j =>
             \E k, l \in DOMAIN in_messages :
               k # l /\ in_messages'[i] = in_messages[k] /\ in_messages'[j] = in_messages[l]
    BY <1>1, <2>1, <2>2, Removed
  <2>7. OnceIn(in_messages')
    BY <2>6 DEF OnePlace, OnceIn
  <2>8. ASSUME NEW i \in DOMAIN in_messages'
        PROVE  ~ (received'[in_messages'[i].mid] > 0)
    <3>1. PICK j \in DOMAIN in_messages : j # at /\ in_messages'[i] = in_messages[j]
      BY <2>6
    <3>2. in_messages[j].mid # mid
      BY <2>2, <3>1 DEF OnePlace, OnceIn
    <3>3. in_messages[j].mid \in Ids /\ ~ (received[in_messages[j].mid] > 0)
      BY <1>1, <1>3 DEF Names, OfMessage, OnePlace
    <3> QED
      BY <2>4, <3>1, <3>2, <3>3
  <2>9. ASSUME NEW q \in Packets(Tail(toClient))
        PROVE  NotYet(q, received', in_messages')
    <3>1. NotYet(q, received, in_messages) /\ q.mid \in Ids
      BY <1>1, <1>3 DEF OnePlace, Names, OfDown
    <3>2. Listed(in_messages', q.mid) => Listed(in_messages, q.mid)
      BY <2>6 DEF Listed
    <3>3. q.mid = mid => Listed(in_messages, q.mid)
      BY <2>2 DEF Listed
    <3> QED
      BY <2>4, <3>1, <3>2, <3>3 DEF NotYet, Got
  <2>10. ReceivedOnce'
    BY <1>2, <1>3, <2>4, <2>5 DEF OnePlace, ReceivedOnce
  <2> QED
    BY <1>2, <1>4, <2>7, <2>8, <2>9, <2>10 DEF OnePlace
<1>6. CASE ~ HasMid(mid)
  <2>1. UNCHANGED <<in_messages, in_queue_len, received>>
    BY <1>6 DEF HandlePubrel
  <2> QED
    BY <1>2, <1>3, <1>4, <2>1 DEF OnePlace, ReceivedOnce
<1> QED
  BY <1>5, <1>6

LEMMA RetryOnePlace ==
  ASSUME InInv, OnePlace, RetryCheck \/ (\E i \in 1 .. ListCap : Tick(i)) \/ ReconnectFails \/ ConnLost
  PROVE  OnePlace'
<1>1. TypeOK
  BY DEF InInv, Counted
<1>2. UNCHANGED <<toClient, sent, received>>
  BY DEF RetryCheck, Tick, ReconnectFails, ConnLost
<1>3. /\ DOMAIN in_messages' = DOMAIN in_messages
      /\ \A i \in DOMAIN in_messages : in_messages'[i].mid = in_messages[i].mid
  <2>1. CASE ConnLost
    BY <2>1 DEF ConnLost
  <2>2. CASE ~ ConnLost
    BY <1>1, <2>2, TimestampsOnly DEF ReconnectFails, SameList
  <2> QED
    BY <2>1, <2>2
<1>4. \A p : NotYet(p, received, in_messages) => NotYet(p, received', in_messages')
  BY <1>2, <1>3 DEF NotYet, Got, Listed
<1> QED
  BY <1>2, <1>3, <1>4 DEF OnePlace, OnceIn, ReceivedOnce

LEMMA ReconnectOnePlace ==
  ASSUME InInv, OnePlace, SentOnce, Reconnect
  PROVE  OnePlace'
<1>1. TypeOK /\ losses \in 0 .. MaxLoss /\ MaxLoss \in Nat
  BY InMessagesAssumption DEF InInv, Counted, TypeOK
<1>2. clean_session
  BY <1>1 DEF InInv, SentOnce, Reconnect
<1>3. toClient' = <<>> /\ UNCHANGED <<sent, received>> /\ Reset
  BY <1>2 DEF Reconnect
<1>4. SameList
  BY <1>1, <1>3, TimestampsOnly
<1>5. DOMAIN toClient' = {} /\ Packets(toClient') = {}
  BY <1>3 DEF Packets
<1> QED
  BY <1>3, <1>4, <1>5 DEF SameList, OnePlace, OnceOn, OnceIn, ReceivedOnce

LEMMA BrokerOnePlace ==
  ASSUME NoWrap, InInv, Counted', OnePlace, BrokerHandle \/ \E q \in Qos : BrokerPublish(q)
  PROVE  OnePlace'
<1>1. TypeOK /\ Names /\ toClient \in Seq(ToClientPackets) /\ 1 .. Len(sent) \subseteq Ids
  BY InFacts DEF InInv, Counted
<1>2. CASE BrokerHandle
  <2>1. /\ UNCHANGED <<in_messages, sent, received>> /\ toBroker # <<>>
        /\ \/ UNCHANGED toClient
           \/ toClient' = Append(toClient, MidPacket("PUBREL", Head(toBroker).mid))
    BY <1>2 DEF BrokerHandle
  <2>2. PICK r : r = MidPacket("PUBREL", Head(toBroker).mid)
    OBVIOUS
  <2>3. r.type = "PUBREL" /\ r \in ToClientPackets
    BY <1>1, <2>1, <2>2, HeadTypes DEF MidPacket, MidPackets, ToClientPackets
  <2>4. OnceOn(toClient')
    BY <1>1, <2>1, <2>2, <2>3, OnceOnAppend DEF OnePlace
  <2>5. \A q \in Packets(toClient') : q \in Packets(toClient) \/ q = r
    BY <1>1, <2>1, <2>2, Appended
  <2>6. NotYet(r, received, in_messages)
    BY <2>3 DEF NotYet
  <2> QED
    BY <2>1, <2>4, <2>5, <2>6 DEF OnePlace, ReceivedOnce
<1>3. ASSUME NEW q \in Qos, BrokerPublish(q)
      PROVE  OnePlace'
  <2> DEFINE k == Len(sent) + 1
  <2>1. /\ k <= MaxMessages /\ sent' = Append(sent, q)
        /\ toClient' = Append(toClient, PublishPacket(k, q)) /\ UNCHANGED <<in_messages, received>>
    BY <1>3 DEF BrokerPublish
  <2>2. q \in 0 .. 2 /\ sent \in Seq(0 .. 2) /\ Len(sent) \in Nat /\ MaxMessages \in Nat
    BY <1>1, InMessagesAssumption DEF TypeOK
  <2>3. /\ k \in Ids /\ Len(sent') = k /\ ~ (k \in 1 .. Len(sent))
        /\ \A i \in 1 .. Len(sent) : sent'[i] = sent[i]
        /\ \A i \in 1 .. k : i = k \/ i \in 1 .. Len(sent)
    BY <2>1, <2>2 DEF Ids
  <2>4. PICK r : r = PublishPacket(k, q)
    OBVIOUS
  <2>5. r.mid = k /\ r \in ToClientPackets
    BY <2>2, <2>3, <2>4, MidIsId, MidInRange DEF PublishPacket, PublishPackets, ToClientPackets
  <2> HIDE DEF k
  <2>6. \A p \in Packets(toClient) : p.mid # r.mid
    BY <1>1, <2>3, <2>5 DEF Names, OfDown
  <2>7. OnceOn(toClient')
    BY <1>1, <2>1, <2>4, <2>5, <2>6, OnceOnAppend DEF OnePlace
  <2>8. \A p \in Packets(toClient') : p \in Packets(toClient) \/ p = r
    BY <1>1, <2>1, <2>4, Appended
  <2>9. ~ Got(received, in_messages, k) /\ ~ (received[k] > 0)
    BY <1>1, <2>3 DEF Names, OfMessage, Got, Listed
  <2>10. NotYet(r, received, in_messages)
    BY <2>5, <2>9 DEF NotYet
  <2>11. ReceivedOnce'
    <3>1. received \in [Ids -> 0 .. 2]
      BY <1>1 DEF TypeOK
    <3>2. received[k] <= 1
      BY <2>3, <2>9, <3>1
    <3> QED
      BY <2>1, <2>3, <3>2 DEF OnePlace, ReceivedOnce
  <2> QED
    BY <2>1, <2>7, <2>8, <2>10, <2>11 DEF OnePlace
<1> QED
  BY <1>2, <1>3

LEMMA NextSentOnce ==
  ASSUME TypeOK, [Next]_vars, SentOnce'
  PROVE  SentOnce
<1>1. UNCHANGED clean_session
  BY DEF Next, vars, HandlePublish, HandlePubrel, RetryCheck, Tick, ConnLost, Reconnect,
     ReconnectFails, BrokerPublish, BrokerHandle, Quiescent
<1>2. losses' = losses \/ losses' = losses + 1
  BY DEF Next, vars, HandlePublish, HandlePubrel, RetryCheck, Tick, ConnLost, Reconnect,
     ReconnectFails, BrokerPublish, BrokerHandle, Quiescent
<1>3. losses \in 0 .. MaxLoss /\ MaxLoss \in Nat
  BY InMessagesAssumption DEF TypeOK
<1> QED
  BY <1>1, <1>2, <1>3 DEF SentOnce

\* handle_publish queues a QoS 2 message whatever is in the list already, so that it is
\* the broker's restraint that keeps it from being passed on twice: as long as the
\* connection holds, and with a clean session through any number of lost ones,
\* on_message gets it once, however often PUBREC and PUBREL are repeated.
THEOREM ReceivedOnceIfSentOnceCorrect ==
  ASSUME NoWrap
  PROVE  Spec => []ReceivedOnceIfSentOnce
<1> DEFINE Inv == InInv /\ (SentOnce => OnePlace)
<1>1. Init => Inv
  <2> SUFFICES ASSUME Init
               PROVE  OnePlace
    BY InitInInv
  <2>1. DOMAIN toClient = {} /\ Packets(toClient) = {} /\ DOMAIN in_messages = {}
        /\ 1 .. Len(sent) = {}
    BY DEF Init, Packets
  <2> QED
    BY <2>1 DEF OnePlace, OnceOn, OnceIn, ReceivedOnce
<1>2. ASSUME Inv, [Next]_vars
      PROVE  Inv'
  <2>1. TypeOK /\ InInv /\ InInv' /\ Counted'
    <3>1. InInv /\ InInv'
      BY <1>2, NextInInv
    <3> QED
      BY <3>1 DEF InInv, Counted
  <2>2. SUFFICES ASSUME SentOnce'
                 PROVE  OnePlace'
    BY <2>1
  <2>3. SentOnce /\ OnePlace
    BY <1>2, <2>1, <2>2, NextSentOnce
  <2>4. CASE UNCHANGED vars \/ Quiescent
    BY <2>3, <2>4 DEF Quiescent, vars, OnePlace, ReceivedOnce
  <2>5. CASE ~ (UNCHANGED vars \/ Quiescent)
    BY <1>2, <2>1, <2>3, <2>5, PublishOnePlace, PubrelOnePlace, RetryOnePlace, ReconnectOnePlace,
       BrokerOnePlace DEF Next
  <2> QED
    BY <2>4, <2>5
<1>3. Inv => ReceivedOnceIfSentOnce
  BY DEF SentOnce, OnePlace, ReceivedOnceIfSentOnce
<1> QED
  BY <1>1, <1>2, <1>3, PTL DEF Spec

-----------------------------------------------------------------------------
(* While the connection holds, on_message is called in order.              *)

LEMMA PublishStages ==
  ASSUME InInv, Stages, HandlePublish
  PROVE  Stages'
<1> DEFINE p == Head(toClient)
<1>1. TypeOK /\ Names
  BY DEF InInv, Counted
<1>2. /\ toClient # <<>> /\ p.type = "PUBLISH" /\ toClient' = Tail(toClient)
      /\ UNCHANGED <<sent, broker>>
  BY DEF HandlePublish, Receive
<1>3. /\ p.mid \in 1 .. Len(sent) /\ p.id = p.mid /\ p.qos = sent[p.mid] /\ p.mid \in Ids
      /\ 1 .. Len(sent) \subseteq Ids
  BY <1>2, DownHead DEF OfDown
<1>4. toClient \in Seq(ToClientPackets) /\ toBroker \in Seq(ToBrokerPackets) /\ p.mid \in Mids
  BY <1>1, <1>2, InFacts, HeadTypes
<1>5. Earlier(sent, p.mid) \subseteq Taken
  BY <1>2, <1>4, HeadFollows DEF Stages, Stage
<1> HIDE DEF p
<1>6. /\ \A k : Got(received', in_messages', k) /\ k \in Ids =>
                  k = p.mid \/ Got(received, in_messages, k)
      /\ \A k \in Ids : Got(received, in_messages, k) => Got(received', in_messages', k)
      /\ Got(received', in_messages', p.mid)
      /\ \A k \in Ids : sent[k] = 2 => (received'[k] > 0 <=> received[k] > 0)
      /\ \/ p.qos # 2 /\ UNCHANGED toBroker
         \/ p.qos # 2 /\ Reply("PUBACK", p.mid)
         \/ p.qos = 2 /\ Reply("PUBREC", p.mid)
  <2>1. CASE /\ OnMessage(p.id) /\ UNCHANGED in_messages /\ p.qos # 2
             /\ UNCHANGED toBroker \/ Reply("PUBACK", p.mid)
    <3>1. /\ received'[p.mid] > 0 /\ \A k \in Ids : received[k] > 0 => received'[k] > 0
          /\ \A k \in Ids : k # p.mid => received'[k] = received[k]
      BY <1>1, <1>3, <2>1, Passed
    <3> QED
      BY <1>3, <2>1, <3>1 DEF Got
  <2>2. CASE Reply("PUBREC", p.mid) /\ Queue(p) /\ UNCHANGED received /\ p.qos = 2
    <3>1. PICK m : m = [id |-> p.id, mid |-> p.mid, due |-> FALSE]
      OBVIOUS
    <3>2. m.mid = p.mid /\ in_messages' = Append(in_messages, m) /\ in_messages \in Seq(Waiting)
      BY <1>1, <2>2, <3>1 DEF Queue, TypeOK
    <3>3. /\ Len(in_messages) \in Nat /\ DOMAIN in_messages = 1 .. Len(in_messages)
          /\ DOMAIN in_messages' = 1 .. Len(in_messages) + 1
          /\ in_messages'[Len(in_messages) + 1] = m
          /\ \A i \in 1 .. Len(in_messages) : in_messages'[i] = in_messages[i]
      BY <3>2, AppendProperties
    <3>4. \A k : Listed(in_messages', k) <=> Listed(in_messages, k) \/ k = p.mid
      BY <3>2, <3>3 DEF Listed
    <3> QED
      BY <2>2, <3>4 DEF Got
  <2> QED
    BY <2>1, <2>2 DEF HandlePublish, p
<1>7. /\ Sent' = Sent /\ ReleasedTwo' = ReleasedTwo /\ DoneTwo' = DoneTwo
      /\ Taken' = Taken \cup {p.mid}
      /\ TakenTwo' = IF p.qos = 2 THEN TakenTwo \cup {p.mid} ELSE TakenTwo
  BY <1>2, <1>3, <1>6 DEF Sent, Taken, TakenTwo, ReleasedTwo, DoneTwo
<1>8. Stage(toClient', "PUBLISH", Sent', Taken', sent')
  <2>1. PICK done : done = Taken \cup {p.mid}
    OBVIOUS
  <2>2. Stage(Tail(toClient), "PUBLISH", Sent, done, sent)
    BY <1>2, <1>4, <2>1, StageRead DEF Stages, p
  <2> QED
    BY <1>2, <1>7, <2>1, <2>2
<1>9. Stage(toClient', "PUBREL", ReleasedTwo', DoneTwo', sent')
  <2>1. Stage(Tail(toClient), "PUBREL", ReleasedTwo, DoneTwo, sent)
    BY <1>2, <1>4, StageRead DEF Stages, p
  <2> QED
    BY <1>2, <1>7, <2>1
<1>10. Stage(toBroker', "PUBREC", TakenTwo', ReleasedTwo', sent')
  <2>1. CASE p.qos # 2 /\ UNCHANGED toBroker
    BY <1>2, <1>7, <2>1 DEF Stages
  <2>2. ASSUME NEW type \in {"PUBACK", "PUBREC"}, Reply(type, p.mid),
               p.qos = 2 <=> type = "PUBREC"
        PROVE  Stage(toBroker', "PUBREC", TakenTwo', ReleasedTwo', sent')
    <3>1. PICK q : q = MidPacket(type, p.mid)
      OBVIOUS
    <3>2. q.type = type /\ q.mid = p.mid /\ toBroker' = Append(toBroker, q)
      BY <2>2, <3>1 DEF MidPacket, Reply
    <3>3. q \in ToBrokerPackets
      BY <1>4, <3>1, ReplyTypes
    <3>4. <<q>> \in Seq(ToBrokerPackets) /\ Packets(<<q>>) = {q}
      BY <3>3, OneElement
    <3>5. toBroker' = toBroker \o <<q>>
      BY <1>4, <3>2, <3>3
    <3>6. type = "PUBREC" => Earlier(sent, p.mid) \subseteq TakenTwo
      BY <1>3, <1>5, <2>2 DEF Earlier, TakenTwo
    <3>7. PICK in : in = IF p.qos = 2 THEN TakenTwo \cup {p.mid} ELSE TakenTwo
      OBVIOUS
    <3>8. Stage(toBroker \o <<q>>, "PUBREC", in, ReleasedTwo, sent)
      <4>1. \A k \in in : k \in TakenTwo \/ \E r \in Packets(<<q>>) : r.type = "PUBREC" /\ r.mid = k
        BY <2>2, <3>2, <3>4, <3>7
      <4>2. \A r \in Packets(<<q>>) : r.type = "PUBREC" => Earlier(sent, r.mid) \subseteq TakenTwo
        BY <3>2, <3>4, <3>6
      <4> QED
        BY <1>4, <3>4, <4>1, <4>2, StageWrite DEF Stages
    <3> QED
      BY <1>2, <1>7, <3>5, <3>7, <3>8
  <2> QED
    BY <1>6, <2>1, <2>2
<1> QED
  BY <1>2, <1>8, <1>9, <1>10 DEF Stages

LEMMA PubrelStages ==
  ASSUME InInv, Stages, HandlePubrel
  PROVE  Stages'
<1> DEFINE mid == Head(toClient).mid
           at == MidIndex(mid)
<1>1. TypeOK /\ Names
  BY DEF InInv, Counted
<1>2. /\ toClient # <<>> /\ Head(toClient).type = "PUBREL" /\ toClient' = Tail(toClient)
      /\ Reply("PUBCOMP", mid) /\ UNCHANGED <<sent, broker>>
  BY DEF HandlePubrel, Receive
<1>3. /\ mid \in 1 .. Len(sent) /\ mid \in Ids /\ sent[mid] = 2
      /\ Got(received, in_messages, mid) /\ 1 .. Len(sent) \subseteq Ids
  BY <1>2, DownHead DEF OfDown, DownHolds
<1>4. toClient \in Seq(ToClientPackets) /\ toBroker \in Seq(ToBrokerPackets) /\ mid \in Mids
  BY <1>1, <1>2, InFacts, HeadTypes
<1>5. /\ \A k \in Ids : Got(received', in_messages', k) <=> Got(received, in_messages, k)
      /\ \A k \in Ids : received'[k] > 0 <=> received[k] > 0 \/ k = mid
  <2>1. CASE HasMid(mid)
    <3>1. OnMessage(in_messages[at].id) /\ Remove(at)
      BY <2>1 DEF HandlePubrel
    <3>2. at \in DOMAIN in_messages /\ in_messages[at].mid = mid
      BY <1>1, <2>1, MidIndexFound
    <3> HIDE DEF at, mid
    <3>3. in_messages[at].id = mid
      BY <1>1, <3>2 DEF Names, OfMessage
    <3>4. /\ received'[mid] > 0 /\ \A k \in Ids : received[k] > 0 => received'[k] > 0
          /\ \A k \in Ids : k # mid => received'[k] = received[k]
      BY <1>1, <1>3, <3>1, <3>3, Passed
    <3>5. /\ \A i \in DOMAIN in_messages' : \E j \in DOMAIN in_messages :
               j # at /\ in_messages'[i] = in_messages[j]
          /\ \A j \in DOMAIN in_messages : j # at =>
               \E i \in DOMAIN in_messages' : in_messages'[i] = in_messages[j]
      BY <1>1, <3>1, <3>2, Removed
    <3>6. \A k : /\ Listed(in_messages', k) => Listed(in_messages, k)
                 /\ Listed(in_messages, k) /\ k # mid => Listed(in_messages', k)
      BY <3>2, <3>5 DEF Listed
    <3> QED
      BY <1>3, <3>4, <3>6 DEF Got
  <2>2. CASE ~ HasMid(mid)
    <3>1. UNCHANGED <<in_messages, in_queue_len, received>>
      BY <2>2 DEF HandlePubrel
    <3>2. received[mid] > 0
      BY <1>3, <2>2 DEF Got, Listed, HasMid
    <3> QED
      BY <3>1, <3>2
  <2> QED
    BY <2>1, <2>2
<1> HIDE DEF mid
<1>6. /\ Sent' = Sent /\ Taken' = Taken /\ TakenTwo' = TakenTwo /\ ReleasedTwo' = ReleasedTwo
      /\ DoneTwo' = DoneTwo \cup {mid}
  BY <1>2, <1>3, <1>5 DEF Sent, Taken, TakenTwo, ReleasedTwo, DoneTwo
<1>7. Stage(toClient', "PUBLISH", Sent', Taken', sent')
  <2>1. Stage(Tail(toClient), "PUBLISH", Sent, Taken, sent)
    BY <1>2, <1>4, StageRead DEF Stages
  <2> QED
    BY <1>2, <1>6, <2>1
<1>8. Stage(toClient', "PUBREL", ReleasedTwo', DoneTwo', sent')
  <2>1. PICK done : done = DoneTwo \cup {mid}
    OBVIOUS
  <2>2. Stage(Tail(toClient), "PUBREL", ReleasedTwo, done, sent)
    BY <1>2, <1>4, <2>1, StageRead DEF Stages, mid
  <2> QED
    BY <1>2, <1>6, <2>1, <2>2
<1>9. Stage(toBroker', "PUBREC", TakenTwo', ReleasedTwo', sent')
  <2>1. PICK q : q = MidPacket("PUBCOMP", mid)
    OBVIOUS
  <2>2. q.type = "PUBCOMP" /\ toBroker' = Append(toBroker, q) /\ q \in ToBrokerPackets
    BY <1>2, <1>4, <2>1, ReplyTypes DEF MidPacket, Reply
  <2>3. <<q>> \in Seq(ToBrokerPackets) /\ Packets(<<q>>) = {q} /\ toBroker' = toBroker \o <<q>>
    BY <1>4, <2>2, OneElement
  <2>4. Stage(toBroker \o <<q>>, "PUBREC", TakenTwo, ReleasedTwo, sent)
    BY <1>4, <2>2, <2>3, StageWrite DEF Stages
  <2> QED
    BY <1>2, <1>6, <2>3, <2>4
<1> QED
  BY <1>2, <1>7, <1>8, <1>9 DEF Stages

LEMMA RetryStages ==
  ASSUME InInv, Stages, RetryCheck \/ (\E i \in 1 .. ListCap : Tick(i))
  PROVE  Stages'
<1>1. TypeOK /\ Names
  BY DEF InInv, Counted
<1>2. UNCHANGED <<toClient, sent, broker, received>>
  BY DEF RetryCheck, Tick
<1>3. /\ DOMAIN in_messages' = DOMAIN in_messages
      /\ \A i \in DOMAIN in_messages : in_messages'[i].mid = in_messages[i].mid
  BY <1>1, TimestampsOnly DEF SameList
<1>4. \A k : Got(received', in_messages', k) <=> Got(received, in_messages, k)
  BY <1>2, <1>3 DEF Got, Listed
<1>5. /\ Sent' = Sent /\ Taken' = Taken /\ TakenTwo' = TakenTwo /\ ReleasedTwo' = ReleasedTwo
      /\ DoneTwo' = DoneTwo
  BY <1>2, <1>4 DEF Sent, Taken, TakenTwo, ReleasedTwo, DoneTwo
<1>6. Stage(toBroker', "PUBREC", TakenTwo, ReleasedTwo, sent)
  <2>1. CASE RetryCheck
    <3>1. PICK ps \in Seq(ToBrokerPackets) :
            /\ toBroker' = toBroker \o ps
            /\ \A p \in Packets(ps) :
                 p.type = "PUBREC" /\ \E i \in DOMAIN in_messages : p.mid = in_messages[i].mid
      BY <1>1, <2>1, RetryPackets
    <3>2. ASSUME NEW p \in Packets(ps)
          PROVE  Earlier(sent, p.mid) \subseteq TakenTwo
      <4>1. PICK i \in DOMAIN in_messages : p.mid = in_messages[i].mid
        BY <3>1
      <4>2. p.mid \in Taken /\ sent[p.mid] = 2
        BY <1>1, <4>1 DEF Names, OfMessage, Taken, Got, Listed, Sent
      <4>3. Earlier(sent, p.mid) \subseteq Taken
        BY <4>2 DEF Stages, Stage
      <4> QED
        BY <4>2, <4>3 DEF Earlier, TakenTwo
    <3>3. Stage(toBroker \o ps, "PUBREC", TakenTwo, ReleasedTwo, sent)
      BY <1>1, <3>2, InFacts, StageWrite DEF Stages
    <3> QED
      BY <3>1, <3>3
  <2>2. CASE ~ RetryCheck
    BY <2>2 DEF Tick, Stages
  <2> QED
    BY <2>1, <2>2
<1> QED
  BY <1>2, <1>5, <1>6 DEF Stages

LEMMA BrokerPublishStages ==
  ASSUME NoWrap, InInv, Stages, NEW q \in Qos, BrokerPublish(q)
  PROVE  Stages'
<1> DEFINE k == Len(sent) + 1
<1>1. TypeOK /\ Names
  BY DEF InInv, Counted
<1>2. /\ k <= MaxMessages /\ sent' = Append(sent, q)
      /\ broker' = [broker EXCEPT ![k] = AckOf(q)]
      /\ toClient' = Append(toClient, PublishPacket(k, q))
      /\ UNCHANGED <<in_messages, toBroker, received>>
  BY DEF BrokerPublish
<1>3. q \in 0 .. 2 /\ sent \in Seq(0 .. 2) /\ Len(sent) \in Nat /\ MaxMessages \in Nat
  BY <1>1, InMessagesAssumption DEF TypeOK
<1>4. PICK qos \in Seq(0 .. 2) : qos = Append(sent, q)
  <2>1. Append(sent, q) \in Seq(0 .. 2)
    BY <1>3
  <2> QED
    BY <2>1, Zenon
<1>5. /\ k \in Ids /\ Len(qos) = k /\ qos[k] = q /\ k \notin 1 .. Len(sent) /\ k \in 1 .. k
      /\ \A i \in 1 .. Len(sent) : qos[i] = sent[i] /\ i \in 1 .. k /\ i # k
      /\ \A i \in 1 .. k : i = k \/ i \in 1 .. Len(sent)
      /\ \A i \in 1 .. (k - 1) : i \in 1 .. Len(sent)
  BY <1>2, <1>3, <1>4 DEF Ids
<1>6. PICK a : a = AckOf(q)
  OBVIOUS
<1>7. a \in {"done", "PUBACK", "PUBREC"} /\ (q = 2 => a = "PUBREC")
  BY <1>3, <1>6 DEF AckOf
<1>8. \A n \in Ids : broker'[n] = IF n = k THEN a ELSE broker[n]
  BY <1>1, <1>2, <1>5, <1>6 DEF TypeOK
<1>9. ~ Got(received, in_messages, k)
  BY <1>1, <1>5 DEF Names, OfMessage, Got, Listed
<1>10. 1 .. Len(sent) \subseteq Ids
  BY <1>1, InFacts
<1>11. PICK p : p = PublishPacket(k, q)
  OBVIOUS
<1>12. p.type = "PUBLISH" /\ p.mid = k /\ p \in ToClientPackets
  BY <1>3, <1>5, <1>11, MidIsId, MidInRange DEF PublishPacket, PublishPackets, ToClientPackets
<1>13. toClient \in Seq(ToClientPackets) /\ toClient' = Append(toClient, p)
  BY <1>1, <1>2, <1>11, InFacts
<1>14. <<p>> \in Seq(ToClientPackets) /\ Packets(<<p>>) = {p} /\ toClient' = toClient \o <<p>>
  BY <1>12, <1>13, OneElement
<1>15. /\ \A r \in Packets(toClient) : r.mid \in 1 .. Len(sent)
       /\ \A r \in Packets(toBroker) : r.mid \in 1 .. Len(sent)
  BY <1>1 DEF Names, OfDown, OfUp
<1> HIDE DEF k
<1>16. sent' = qos
  BY <1>2, <1>4
<1>17. Sent' = Sent \cup {k} /\ Taken' = Taken
  <2>1. Sent' = Sent \cup {k}
    BY <1>5, <1>16 DEF Sent
  <2> QED
    BY <1>2, <1>9, <2>1 DEF Taken
<1>18. TakenTwo' = TakenTwo /\ DoneTwo' = DoneTwo
  BY <1>2, <1>5, <1>9, <1>16 DEF Sent, Taken, TakenTwo, DoneTwo, Got
<1>19. ReleasedTwo' = ReleasedTwo
  BY <1>5, <1>7, <1>8, <1>10, <1>16 DEF Sent, ReleasedTwo
<1>20. /\ Stage(toClient, "PUBLISH", Sent, Taken, qos)
       /\ Stage(toBroker, "PUBREC", TakenTwo, ReleasedTwo, qos)
       /\ Stage(toClient, "PUBREL", ReleasedTwo, DoneTwo, qos)
  <2>1. /\ \A i \in Taken : i \in 1 .. Len(sent)
        /\ \A i \in ReleasedTwo : i \in 1 .. Len(sent)
        /\ \A i \in DoneTwo : i \in 1 .. Len(sent)
    BY DEF Taken, ReleasedTwo, DoneTwo, Sent
  <2>2. Stage(toClient, "PUBLISH", Sent, Taken, qos)
    BY <1>3, <1>4, <1>15, <2>1, StageAccept DEF Stages
  <2>3. Stage(toBroker, "PUBREC", TakenTwo, ReleasedTwo, qos)
    BY <1>3, <1>4, <1>15, <2>1, StageAccept DEF Stages
  <2>4. Stage(toClient, "PUBREL", ReleasedTwo, DoneTwo, qos)
    BY <1>3, <1>4, <1>15, <2>1, StageAccept DEF Stages
  <2> QED
    BY <2>2, <2>3, <2>4
<1>21. Stage(toClient', "PUBLISH", Sent', Taken', sent')
  <2>1. PICK in : in = Sent \cup {k}
    OBVIOUS
  <2>2. \A r \in Packets(<<p>>) : r.type = "PUBLISH" => Earlier(qos, r.mid) \subseteq Sent
    BY <1>5, <1>12, <1>14 DEF Earlier, Sent
  <2>3. \A i \in in : i \in Sent \/ \E r \in Packets(<<p>>) : r.type = "PUBLISH" /\ r.mid = i
    BY <1>12, <1>14, <2>1
  <2>4. Stage(toClient \o <<p>>, "PUBLISH", in, Taken, qos)
    BY <1>13, <1>14, <1>20, <2>2, <2>3, StageWrite
  <2> QED
    BY <1>14, <1>16, <1>17, <2>1, <2>4
<1>22. Stage(toClient', "PUBREL", ReleasedTwo', DoneTwo', sent')
  <2>1. Stage(toClient \o <<p>>, "PUBREL", ReleasedTwo, DoneTwo, qos)
    BY <1>12, <1>13, <1>14, <1>20, StageWrite
  <2> QED
    BY <1>14, <1>16, <1>18, <1>19, <2>1
<1>23. Stage(toBroker', "PUBREC", TakenTwo', ReleasedTwo', sent')
  BY <1>2, <1>16, <1>18, <1>19, <1>20
<1>24. \A n \in Ids : broker'[n] # "dropped"
  BY <1>7, <1>8 DEF Stages
<1> QED
  BY <1>21, <1>22, <1>23, <1>24 DEF Stages

LEMMA BrokerHandleStages ==
  ASSUME NoWrap, InInv, Stages, conn, BrokerHandle
  PROVE  Stages'
<1> DEFINE p == Head(toBroker)
<1>1. TypeOK /\ Names /\ Counted
  BY DEF InInv, Counted
<1>2. /\ toBroker # <<>> /\ toBroker' = Tail(toBroker)
      /\ UNCHANGED <<in_messages, sent, received>>
  BY DEF BrokerHandle
<1>3. OfUp(p, sent) /\ p.mid \in 1 .. Len(sent) /\ p.mid \in Ids /\ 1 .. Len(sent) \subseteq Ids
  BY <1>2, UpHead
<1>4. \A k \in Ids : k \in Awaits(p) <=> k = p.mid /\ broker[k] \in {"PUBACK", "PUBREC", "PUBCOMP"}
  BY MidIsId DEF Awaits, Unacknowledged
<1>5. /\ toClient \in Seq(ToClientPackets) /\ toBroker \in Seq(ToBrokerPackets) /\ p.mid \in Mids
      /\ p \in ToBrokerPackets
  BY <1>1, <1>2, InFacts, HeadTypes
<1>6. \/ /\ p.type \in {"PUBACK", "PUBCOMP"} /\ UNCHANGED toClient
         /\ broker' = [k \in Ids |-> IF k \in Awaits(p) /\ broker[k] = p.type
                                     THEN "done" ELSE broker[k]]
      \/ /\ p.type = "PUBREC"
         /\ broker' = [k \in Ids |-> IF k \in Awaits(p) /\ broker[k] = "PUBREC"
                                     THEN "PUBCOMP" ELSE broker[k]]
         /\ \/ toClient' = Append(toClient, MidPacket("PUBREL", p.mid))
            \/ Awaits(p) = {} /\ UNCHANGED toClient
  BY DEF BrokerHandle
<1>7. Sent' = Sent /\ Taken' = Taken /\ TakenTwo' = TakenTwo /\ DoneTwo' = DoneTwo
  BY <1>2 DEF Sent, Taken, TakenTwo, DoneTwo
<1>8. \A k \in Ids : broker[k] # "dropped" /\ (k \in 1 .. Len(sent) => broker[k] # "unsent")
  BY <1>1, InFacts DEF Stages, Counted
<1>9. p.type = "PUBREC" => Earlier(sent, p.mid) \subseteq ReleasedTwo
  BY <1>2, <1>5, HeadFollows DEF Stages, Stage
<1>10. CASE /\ p.type \in {"PUBACK", "PUBCOMP"} /\ UNCHANGED toClient
            /\ broker' = [k \in Ids |-> IF k \in Awaits(p) /\ broker[k] = p.type
                                        THEN "done" ELSE broker[k]]
  <2> HIDE DEF p
  <2>1. \A k \in Ids : broker[k] = "PUBACK" => sent[k] = 1
    BY <1>1 DEF Names, OfBroker
  <2>2. ReleasedTwo' = ReleasedTwo
    <3>1. \A k \in Ids : sent[k] = 2 =>
            (broker'[k] \in {"PUBCOMP", "done"} <=> broker[k] \in {"PUBCOMP", "done"})
      BY <1>10, <2>1
    <3> QED
      BY <1>2, <1>3, <3>1 DEF ReleasedTwo, Sent
  <2>3. Stage(Tail(toBroker), "PUBREC", TakenTwo, ReleasedTwo, sent)
    BY <1>2, <1>5, <1>10, StageRead DEF Stages, p
  <2>4. \A k \in Ids : broker'[k] # "dropped"
    BY <1>8, <1>10
  <2> QED
    BY <1>2, <1>7, <1>10, <2>2, <2>3, <2>4 DEF Stages
<1>11. CASE /\ p.type = "PUBREC"
            /\ broker' = [k \in Ids |-> IF k \in Awaits(p) /\ broker[k] = "PUBREC"
                                        THEN "PUBCOMP" ELSE broker[k]]
            /\ \/ toClient' = Append(toClient, MidPacket("PUBREL", p.mid))
               \/ Awaits(p) = {} /\ UNCHANGED toClient
  <2> HIDE DEF p
  <2>1. sent[p.mid] = 2
    BY <1>3, <1>11 DEF OfUp
  <2>2. ReleasedTwo' = ReleasedTwo \cup {p.mid}
    <3>1. broker[p.mid] \in {"PUBREC", "PUBCOMP", "done"}
      BY <1>1, <1>3, <1>8, <2>1 DEF TypeOK, Names, OfBroker
    <3>2. broker'[p.mid] \in {"PUBCOMP", "done"}
      BY <1>3, <1>4, <1>11, <3>1
    <3>3. \A k \in Ids : k # p.mid => broker'[k] = broker[k]
      BY <1>4, <1>11
    <3>4. \A k \in Ids : broker[k] \in {"PUBCOMP", "done"} => broker'[k] \in {"PUBCOMP", "done"}
      BY <1>11
    <3> QED
      BY <1>2, <1>3, <2>1, <3>2, <3>3, <3>4 DEF ReleasedTwo, Sent
  <2>3. Awaits(p) = {} => p.mid \in ReleasedTwo
    <3>1. broker[p.mid] \in {"PUBREC", "PUBCOMP", "done"}
      BY <1>1, <1>3, <1>8, <2>1 DEF TypeOK, Names, OfBroker
    <3> QED
      BY <1>3, <1>4, <2>1, <3>1 DEF ReleasedTwo, Sent
  <2>4. PICK rel : rel = ReleasedTwo \cup {p.mid}
    OBVIOUS
  <2>5. Stage(Tail(toBroker), "PUBREC", TakenTwo, rel, sent)
    <3>1. /\ ReleasedTwo \subseteq rel /\ p.mid \in rel
          /\ \A k \in rel : k \in ReleasedTwo \/ (p.type = "PUBREC" /\ p.mid = k)
      BY <1>11, <2>4
    <3> QED
      BY <1>2, <1>5, <3>1, StageRead DEF Stages, p
  <2>6. Stage(toClient', "PUBLISH", Sent, Taken, sent) /\ Stage(toClient', "PUBREL", rel, DoneTwo, sent)
    <3>1. CASE Awaits(p) = {} /\ UNCHANGED toClient
      <4>1. rel = ReleasedTwo
        BY <2>3, <2>4, <3>1
      <4> QED
        BY <3>1, <4>1 DEF Stages
    <3>2. CASE toClient' = Append(toClient, MidPacket("PUBREL", p.mid))
      <4>1. PICK q : q = MidPacket("PUBREL", p.mid)
        OBVIOUS
      <4>2. q.type = "PUBREL" /\ q.mid = p.mid /\ q \in ToClientPackets
        BY <1>5, <4>1 DEF MidPacket, MidPackets, ToClientPackets
      <4>3. <<q>> \in Seq(ToClientPackets) /\ Packets(<<q>>) = {q} /\ toClient' = toClient \o <<q>>
        BY <1>5, <3>2, <4>1, <4>2, OneElement
      <4>4. Stage(toClient \o <<q>>, "PUBLISH", Sent, Taken, sent)
        BY <1>5, <4>2, <4>3, StageWrite DEF Stages
      <4>5. \A r \in Packets(<<q>>) : r.type = "PUBREL" => Earlier(sent, r.mid) \subseteq ReleasedTwo
        BY <1>9, <1>11, <4>2, <4>3
      <4>6. \A k \in rel : k \in ReleasedTwo \/ \E r \in Packets(<<q>>) : r.type = "PUBREL" /\ r.mid = k
        BY <2>4, <4>2, <4>3
      <4>7. Stage(toClient \o <<q>>, "PUBREL", rel, DoneTwo, sent)
        BY <1>5, <4>3, <4>5, <4>6, StageWrite DEF Stages
      <4> QED
        BY <4>3, <4>4, <4>7
    <3> QED
      BY <1>11, <3>1, <3>2
  <2>7. \A k \in Ids : broker'[k] # "dropped"
    BY <1>8, <1>11
  <2> QED
    BY <1>2, <1>7, <2>2, <2>4, <2>5, <2>6, <2>7 DEF Stages
<1> QED
  BY <1>6, <1>10, <1>11

\* As long as the connection holds, messages of one QoS reach on_message in the order
\* the broker has sent them: every stage of the QoS 2 exchange keeps the order of the
\* one before it, although the retry of PUBREC makes the packets of one message
\* overlap with those of later ones.
THEOREM ReceivedInOrderCorrect ==
  ASSUME NoWrap
  PROVE  Spec => []ReceivedInOrder
<1> DEFINE Inv == InInv /\ (losses = 0 => Stages)
<1>1. Init => Inv
  <2> SUFFICES ASSUME Init
               PROVE  Stages
    BY InitInInv
  <2>1. /\ DOMAIN toClient = {} /\ DOMAIN toBroker = {}
        /\ Sent = {} /\ Taken = {} /\ TakenTwo = {} /\ ReleasedTwo = {} /\ DoneTwo = {}
    BY DEF Init, Sent, Taken, TakenTwo, ReleasedTwo, DoneTwo
  <2> QED
    BY <2>1 DEF Init, Stages, Stage, Follows
<1>2. ASSUME Inv, [Next]_vars
      PROVE  Inv'
  <2>1. TypeOK /\ InInv /\ InInv'
    <3>1. InInv /\ InInv'
      BY <1>2, NextInInv
    <3> QED
      BY <3>1 DEF InInv, Counted
  <2>2. SUFFICES ASSUME losses' = 0
                 PROVE  Stages'
    BY <2>1
  <2>3. losses \in 0 .. MaxLoss /\ MaxLoss \in Nat
    BY <2>1, InMessagesAssumption DEF TypeOK
  <2>4. ~ ConnLost /\ ~ ReconnectFails
    BY <2>2, <2>3 DEF ConnLost, ReconnectFails
  <2>5. losses = 0
    BY <1>2, <2>2, <2>4 DEF Next, vars, HandlePublish, HandlePubrel, RetryCheck, Tick, Reconnect,
       BrokerPublish, BrokerHandle, Quiescent
  <2>6. Stages /\ conn
    BY <1>2, <2>1, <2>5 DEF InInv
  <2>7. CASE UNCHANGED vars \/ Quiescent
    BY <2>6, <2>7
    DEF Quiescent, vars, Stages, Sent, Taken, TakenTwo, ReleasedTwo, DoneTwo
  <2>8. CASE ~ (UNCHANGED vars \/ Quiescent)
    <3>1. ~ Reconnect
      BY <2>6 DEF Reconnect
    <3> QED
      BY <1>2, <2>1, <2>4, <2>6, <2>8, <3>1, PublishStages, PubrelStages, RetryStages,
         BrokerPublishStages, BrokerHandleStages DEF Next
  <2> QED
    BY <2>7, <2>8
<1>3. Inv => ReceivedInOrder
  <2> SUFFICES ASSUME InInv, Stages, NEW j \in 1 .. Len(sent), NEW i \in 1 .. (j - 1),
                      sent[i] = sent[j], received[j] > 0
               PROVE  received[i] > 0
    BY DEF ReceivedInOrder
  <2>1. TypeOK /\ Names
    BY DEF InInv, Counted
  <2>2. Len(sent) \in Nat /\ i \in Sent /\ j \in Sent /\ i \in Earlier(sent, j)
    BY <2>1, InFacts DEF Sent, Earlier
  <2>3. CASE sent[j] = 2
    BY <2>2, <2>3 DEF Stages, Stage, DoneTwo
  <2>4. CASE sent[j] # 2
    <3>1. j \in Taken
      BY <2>2 DEF Taken, Got
    <3>2. i \in Taken
      BY <2>2, <3>1 DEF Stages, Stage
    <3>3. ~ Listed(in_messages, i)
      BY <2>1, <2>4 DEF Listed, Names, OfMessage
    <3> QED
      BY <3>2, <3>3 DEF Taken, Got
  <2> QED
    BY <2>3, <2>4
<1> QED
  BY <1>1, <1>2, <1>3, PTL DEF Spec
=============================================================================
