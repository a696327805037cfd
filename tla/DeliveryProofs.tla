---------------------------- MODULE DeliveryProofs ----------------------------
(***************************************************************************)
(* What the broker takes over and what on_publish reports, for every       *)
(* window, number of messages and number of lost connections: QoS 2 is     *)
(* exactly once, a PUBREC always finds its message, a repeated PUBLISH is  *)
(* marked, and OutMessages implements PublishService.  As in               *)
(* OutMessagesProofs the message ids have not wrapped.                     *)
(***************************************************************************)
EXTENDS OutMessagesProofs

Listed(list, k) == \E i \in DOMAIN list : list[i].mid = k

\* A message that is still in the list has been released by PUBREL.
Released(list, k) ==
  \A i \in DOMAIN list : list[i].mid = k => list[i].state = "wait_for_pubcomp"

Holds(broker, k) == \E h \in broker : h.mid = k

NoPacket(wire, k) == \A p \in Packets(wire) : p.mid # k

\* Every message, packet and copy belongs to the publish() its id names.
Names ==
  /\ \A i \in DOMAIN out_messages :
       /\ out_messages[i].qos = accepted[out_messages[i].mid]
       /\ out_messages[i].qos = 1 => out_messages[i].state # "wait_for_pubcomp"
  /\ \A p \in Packets(toBroker) :
       IF p.type = "PUBLISH"
       THEN p.id = p.mid /\ p.qos = accepted[p.mid] /\ (p.qos = 0 => ~ p.dup)
       ELSE accepted[p.mid] = 2
  /\ \A p \in Packets(toClient) : accepted[p.mid] = IF p.type = "PUBACK" THEN 1 ELSE 2
  /\ \A h \in held : h.id = h.mid /\ h.mid <= Len(accepted) /\ accepted[h.mid] = 2

\* Nothing has happened to a message before its first PUBLISH is sent.
Untouched ==
  /\ \A k \in Ids : k > Len(accepted) => delivered[k] = 0 /\ reported[k] = 0
  /\ \A i \in DOMAIN out_messages :
       LET k == out_messages[i].mid
       IN  /\ reported[k] = 0
           /\ out_messages[i].state = "invalid" => delivered[k] = 0 /\ ~ Holds(held, k)
  /\ \A p \in pending :
       /\ Listed(out_messages, p.mid)
       /\ delivered[p.mid] = 0 /\ ~ Holds(held, p.mid)
       /\ NoPacket(toBroker, p.mid) /\ NoPacket(toClient, p.mid)

\* The QoS 2 exchange: no PUBLISH after PUBREL, and one delivery.
Exchange ==
  /\ \A p \in Packets(toBroker) :
       IF p.type = "PUBLISH"
       THEN p.qos = 2 => Listed(out_messages, p.mid) /\ delivered[p.mid] = 0
       ELSE Released(out_messages, p.mid)
  /\ \A p \in Packets(toClient) :
       /\ p.type = "PUBREC" => Listed(out_messages, p.mid)
       /\ p.type = "PUBCOMP" =>
            /\ Released(out_messages, p.mid)
            /\ \A q \in Packets(toBroker) : q.type = "PUBLISH" => q.mid # p.mid
  /\ \A h \in held : delivered[h.mid] = 0
  /\ \A k \in 1 .. Len(accepted) :
       (accepted[k] = 2 /\ delivered[k] > 0) =>
         delivered[k] = 1 /\ Released(out_messages, k)

Marking ==
  \A p \in Packets(toBroker) :
    (p.type = "PUBLISH" /\ ~ p.dup) => delivered[p.mid] = 0 /\ ~ Holds(held, p.mid)

\* The order of the packets of one message in a channel
BrokerOrder(wire) ==
  \A i, j \in DOMAIN wire :
    (i < j /\ wire[j].type = "PUBLISH" /\ wire[i].mid = wire[j].mid) =>
      wire[i].type = "PUBLISH" /\ wire[j].dup

ClientOrder(wire) ==
  \A i, j \in DOMAIN wire :
    (i < j /\ wire[i].type = "PUBCOMP" /\ wire[j].type = "PUBREC") =>
      wire[i].mid # wire[j].mid

\* The inductive invariant, for either kind of session
DeliveryInv ==
  /\ WindowInv
  /\ Names /\ Untouched /\ Exchange /\ Marking
  /\ BrokerOrder(toBroker) /\ ClientOrder(toClient)
  /\ conn \notin {"ended", "crashed"}

\* The broker has the message, for good or until PUBREL.
Kept(counts, broker, k) == counts[k] > 0 \/ Holds(broker, k)

\* ... and what a broker that keeps the session adds: what is acknowledged is kept.
SessionInv ==
  /\ \A p \in Packets(toBroker) : p.type = "PUBREL" => Kept(delivered, held, p.mid)
  /\ \A p \in Packets(toClient) :
       /\ p.type = "PUBREC" => Kept(delivered, held, p.mid)
       /\ p.type \in {"PUBACK", "PUBCOMP"} => delivered[p.mid] > 0
  /\ \A i \in DOMAIN out_messages :
       out_messages[i].state = "wait_for_pubcomp" =>
         Kept(delivered, held, out_messages[i].mid)
  /\ ReportedAfterDelivery

-----------------------------------------------------------------------------
(* Packets and their order.                                                *)

LEMMA OrderOfTail ==
  ASSUME NEW S, NEW s \in Seq(S), s # <<>>
  PROVE  /\ BrokerOrder(s) => BrokerOrder(Tail(s))
         /\ ClientOrder(s) => ClientOrder(Tail(s))
<1>1. Len(s) \in Nat /\ Len(s) > 0 /\ DOMAIN s = 1 .. Len(s)
  BY EmptySeq, LenProperties
<1>2. \A i \in DOMAIN Tail(s) : i \in Nat /\ Tail(s)[i] = s[i + 1] /\ i + 1 \in DOMAIN s
  BY <1>1
<1>3. ASSUME NEW i \in DOMAIN Tail(s), NEW j \in DOMAIN Tail(s), i < j
      PROVE  i + 1 < j + 1
  BY <1>2, <1>3
<1>4. ASSUME BrokerOrder(s)
      PROVE  BrokerOrder(Tail(s))
  BY <1>2, <1>3, <1>4 DEF BrokerOrder
<1>5. ASSUME ClientOrder(s)
      PROVE  ClientOrder(Tail(s))
  BY <1>2, <1>3, <1>5 DEF ClientOrder
<1> QED
  BY <1>4, <1>5

(* What Send does to the packets of the channel and to their order.        *)
LEMMA SendPackets ==
  ASSUME TypeOK, BrokerOrder(toBroker), NEW ps \in Seq(ToBrokerPackets), Send(ps),
         BrokerOrder(ps),
         \A p \in Packets(toBroker), q \in Packets(ps) :
           (q.type = "PUBLISH" /\ p.mid = q.mid) => p.type = "PUBLISH" /\ q.dup
  PROVE  /\ Packets(toBroker') \subseteq Packets(toBroker) \cup Packets(ps)
         /\ BrokerOrder(toBroker')
<1>1. CASE conn = "up"
  <2>1. toBroker' = toBroker \o ps /\ toBroker \in Seq(ToBrokerPackets)
    BY <1>1 DEF Send, TypeOK
  <2>2. BrokerOrder(toBroker \o ps)
    <3> DEFINE u == toBroker \o ps
    <3>1. ASSUME NEW i \in DOMAIN u, NEW j \in DOMAIN u,
                 i < j, u[j].type = "PUBLISH", u[i].mid = u[j].mid
          PROVE  u[i].type = "PUBLISH" /\ u[j].dup
      <4>1. \/ i \in DOMAIN toBroker /\ j \in DOMAIN toBroker
               /\ u[i] = toBroker[i] /\ u[j] = toBroker[j]
            \/ u[i] \in Packets(toBroker) /\ u[j] \in Packets(ps)
            \/ \E k, l \in DOMAIN ps : k < l /\ u[i] = ps[k] /\ u[j] = ps[l]
        BY <2>1, <3>1, Joined
      <4> HIDE DEF u
      <4> QED
        BY <3>1, <4>1 DEF BrokerOrder
    <3> HIDE DEF u
    <3>2. BrokerOrder(u)
      BY <3>1 DEF BrokerOrder
    <3> QED
      BY <3>2 DEF u
  <2>3. Packets(toBroker \o ps) \subseteq Packets(toBroker) \cup Packets(ps)
    BY <2>1, Joined
  <2> QED
    BY <2>1, <2>2, <2>3
<1>2. CASE conn # "up"
  BY <1>2 DEF Send
<1> QED
  BY <1>1, <1>2

LEMMA OnePacket ==
  ASSUME NEW S, NEW q \in S
  PROVE  <<q>> \in Seq(S) /\ Packets(<<q>>) = {q} /\ BrokerOrder(<<q>>)
<1>1. <<q>> \in Seq(S) /\ DOMAIN <<q>> = {1} /\ <<q>>[1] = q
  OBVIOUS
<1> QED
  BY <1>1 DEF Packets, BrokerOrder

(* What the broker's answer does to the channel to the client.             *)
LEMMA AnswerPackets ==
  ASSUME TypeOK, ClientOrder(toClient), NEW q \in ToClientPackets,
         toClient' = Append(toClient, q),
         q.type = "PUBREC" =>
           \A p \in Packets(toClient) : p.type = "PUBCOMP" => p.mid # q.mid
  PROVE  /\ Packets(toClient') \subseteq Packets(toClient) \cup {q}
         /\ ClientOrder(toClient')
<1> DEFINE L == Len(toClient)
<1>1. /\ L \in Nat /\ DOMAIN toClient = 1 .. L /\ DOMAIN toClient' = 1 .. (L + 1)
      /\ toClient'[L + 1] = q
      /\ \A i \in 1 .. L : toClient'[i] = toClient[i]
  BY DEF TypeOK
<1> HIDE DEF L
<1>2. \A i \in DOMAIN toClient' : i = L + 1 \/ i \in DOMAIN toClient
  BY <1>1
<1>3. Packets(toClient') \subseteq Packets(toClient) \cup {q}
  BY <1>1, <1>2 DEF Packets
<1>4. ASSUME NEW i \in DOMAIN toClient', NEW j \in DOMAIN toClient', i < j,
             toClient'[i].type = "PUBCOMP", toClient'[j].type = "PUBREC"
      PROVE  toClient'[i].mid # toClient'[j].mid
  <2>1. i \in DOMAIN toClient /\ toClient'[i] = toClient[i]
    BY <1>1, <1>4
  <2>2. CASE j = L + 1
    BY <1>1, <1>4, <2>1, <2>2, PacketsOf
  <2>3. CASE j \in DOMAIN toClient
    BY <1>1, <1>4, <2>1, <2>3 DEF ClientOrder
  <2> QED
    BY <1>2, <2>2, <2>3
<1> QED
  BY <1>3, <1>4 DEF ClientOrder

-----------------------------------------------------------------------------
(* The types of what a packet, a message and a copy name.                  *)
LEMMA NamedIds ==
  ASSUME WindowInv
  PROVE  /\ Len(accepted) \in Nat /\ Len(accepted) <= MaxPublishes
         /\ DOMAIN accepted = 1 .. Len(accepted)
         /\ 1 .. Len(accepted) \subseteq Ids
         /\ \A i \in DOMAIN out_messages :
              /\ out_messages[i] \in Messages
              /\ out_messages[i].mid \in 1 .. Len(accepted)
              /\ out_messages[i].id = out_messages[i].mid
         /\ \A p \in Packets(toBroker) :
              /\ p \in ToBrokerPackets /\ p.mid \in 1 .. Len(accepted)
              /\ KnownMid(p.mid)
         /\ \A p \in Packets(toClient) :
              /\ p \in ToClientPackets /\ p.mid \in 1 .. Len(accepted)
              /\ KnownMid(p.mid)
         /\ \A p \in pending :
              /\ p.mid \in 1 .. Len(accepted) /\ p.id = p.mid
              /\ KnownMid(p.mid)
<1>1. TypeOK /\ MidsOrdered /\ WireKnown /\ MaxPublishes \in Nat
  BY ConstantsAssumption DEF WindowInv
<1>2. /\ Len(accepted) \in Nat /\ Len(accepted) <= MaxPublishes
      /\ DOMAIN accepted = 1 .. Len(accepted) /\ last_mid = Len(accepted)
  BY <1>1 DEF TypeOK, MidsOrdered
<1>3. 1 .. Len(accepted) \subseteq Ids
  BY <1>1, <1>2 DEF Ids
<1>4. ASSUME NEW mid \in Mids, mid <= last_mid
      PROVE  mid \in 1 .. Len(accepted)
  BY <1>2, <1>4, ConstantsAssumption DEF Mids
<1>5. \A p \in ToBrokerPackets \cup ToClientPackets : p.mid \in Mids
  BY DEF ToBrokerPackets, ToClientPackets, PublishPackets, MidPackets
<1>6. \A i \in DOMAIN out_messages :
        /\ out_messages[i] \in Messages
        /\ out_messages[i].mid \in 1 .. Len(accepted)
        /\ out_messages[i].id = out_messages[i].mid
  BY <1>1, <1>4, ListFacts DEF MidsOrdered
<1>7. /\ \A p \in Packets(toBroker) : p \in ToBrokerPackets /\ KnownMid(p.mid)
      /\ \A p \in Packets(toClient) : p \in ToClientPackets /\ KnownMid(p.mid)
  BY <1>1, ListFacts DEF WireKnown, Packets
<1>8. \A p \in pending : p.mid \in Mids /\ p.id = p.mid /\ KnownMid(p.mid)
  BY <1>1 DEF TypeOK, WireKnown
<1> QED
  BY <1>2, <1>3, <1>4, <1>5, <1>6, <1>7, <1>8 DEF KnownMid, KnownIn

(* The list has no two messages with one id.                               *)
LEMMA MidsDiffer ==
  ASSUME WindowInv, NEW i \in DOMAIN out_messages, NEW j \in DOMAIN out_messages,
         out_messages[i].mid = out_messages[j].mid
  PROVE  i = j
<1>1. DOMAIN out_messages = 1 .. Len(out_messages) /\ Len(out_messages) \in Nat
      /\ out_messages[i].mid \in Nat
  BY ListFacts DEF WindowInv
<1>2. ~ (i < j) /\ ~ (j < i)
  BY <1>1 DEF WindowInv, MidsOrdered
<1> QED
  BY <1>1, <1>2

(* A step that neither accepts, delivers nor reports, and keeps the list   *)
(* but for progress of its messages: what it sends has to fit.             *)
LEMMA DeliveryFrame ==
  ASSUME DeliveryInv, WindowInv', conn' \notin {"ended", "crashed"},
         UNCHANGED <<accepted, delivered, reported>>,
         DOMAIN out_messages' = DOMAIN out_messages,
         \A i \in DOMAIN out_messages :
           /\ out_messages'[i].mid = out_messages[i].mid
           /\ out_messages'[i].qos = out_messages[i].qos
           /\ out_messages'[i].state = "invalid" => out_messages[i].state = "invalid"
           /\ out_messages[i].state = "wait_for_pubcomp" =>
                out_messages'[i].state = "wait_for_pubcomp"
           /\ out_messages[i].qos = 1 => out_messages'[i].state # "wait_for_pubcomp",
         held' \subseteq held, pending' \subseteq pending,
         BrokerOrder(toBroker'), ClientOrder(toClient'),
         Packets(toClient') \subseteq Packets(toClient),
         NEW new, Packets(toBroker') \subseteq Packets(toBroker) \cup new,
         \A p \in new :
           /\ \A r \in pending' : r.mid # p.mid
           /\ IF p.type = "PUBLISH"
              THEN /\ p.id = p.mid /\ p.qos = accepted[p.mid] /\ (p.qos = 0 => ~ p.dup)
                   /\ p.qos = 2 => Listed(out_messages, p.mid) /\ delivered[p.mid] = 0
                   /\ ~ p.dup => delivered[p.mid] = 0 /\ ~ Holds(held, p.mid)
                   /\ \A q \in Packets(toClient) : q.type = "PUBCOMP" => q.mid # p.mid
              ELSE accepted[p.mid] = 2 /\ Released(out_messages', p.mid)
  PROVE  DeliveryInv'
<1>1. /\ \A k : Listed(out_messages, k) => Listed(out_messages', k)
      /\ \A k : Released(out_messages, k) => Released(out_messages', k)
      /\ \A k : Holds(held', k) => Holds(held, k)
  BY DEF Listed, Released, Holds
<1>2. Names'
  <2>1. \A i \in DOMAIN out_messages' :
          /\ out_messages'[i].qos = accepted'[out_messages'[i].mid]
          /\ out_messages'[i].qos = 1 => out_messages'[i].state # "wait_for_pubcomp"
    BY DEF DeliveryInv, Names
  <2>2. ASSUME NEW p \in Packets(toBroker')
        PROVE  IF p.type = "PUBLISH"
               THEN p.id = p.mid /\ p.qos = accepted[p.mid] /\ (p.qos = 0 => ~ p.dup)
               ELSE accepted[p.mid] = 2
    BY DEF DeliveryInv, Names
  <2>3. /\ \A p \in Packets(toClient') : accepted[p.mid] = IF p.type = "PUBACK" THEN 1 ELSE 2
        /\ \A h \in held' : h.id = h.mid /\ h.mid <= Len(accepted) /\ accepted[h.mid] = 2
    BY DEF DeliveryInv, Names
  <2> QED
    BY <2>1, <2>2, <2>3 DEF Names
<1>3. Untouched'
  <2>1. \A i \in DOMAIN out_messages' :
          /\ reported[out_messages'[i].mid] = 0
          /\ out_messages'[i].state = "invalid" =>
               delivered[out_messages'[i].mid] = 0 /\ ~ Holds(held', out_messages'[i].mid)
    BY <1>1 DEF DeliveryInv, Untouched
  <2>2. ASSUME NEW p \in pending'
        PROVE  /\ Listed(out_messages', p.mid)
               /\ delivered[p.mid] = 0 /\ ~ Holds(held', p.mid)
               /\ NoPacket(toBroker', p.mid) /\ NoPacket(toClient', p.mid)
    BY <1>1 DEF DeliveryInv, Untouched, NoPacket
  <2> QED
    BY <2>1, <2>2 DEF DeliveryInv, Untouched
<1>4. Exchange'
  <2>1. ASSUME NEW p \in Packets(toBroker')
        PROVE  IF p.type = "PUBLISH"
               THEN p.qos = 2 => Listed(out_messages', p.mid) /\ delivered[p.mid] = 0
               ELSE Released(out_messages', p.mid)
    BY <1>1 DEF DeliveryInv, Exchange
  <2>2. ASSUME NEW p \in Packets(toClient')
        PROVE  /\ p.type = "PUBREC" => Listed(out_messages', p.mid)
               /\ p.type = "PUBCOMP" =>
                    /\ Released(out_messages', p.mid)
                    /\ \A q \in Packets(toBroker') : q.type = "PUBLISH" => q.mid # p.mid
    BY <1>1 DEF DeliveryInv, Exchange
  <2>3. /\ \A h \in held' : delivered[h.mid] = 0
        /\ \A k \in 1 .. Len(accepted) :
             (accepted[k] = 2 /\ delivered[k] > 0) =>
               delivered[k] = 1 /\ Released(out_messages', k)
    BY <1>1 DEF DeliveryInv, Exchange
  <2> QED
    BY <2>1, <2>2, <2>3 DEF Exchange
<1>5. Marking'
  BY <1>1 DEF DeliveryInv, Marking
<1> QED
  BY <1>2, <1>3, <1>4, <1>5 DEF DeliveryInv

(* ... among them the steps that send nothing.                             *)
LEMMA QuietDelivery ==
  ASSUME DeliveryInv, WindowInv', conn' \notin {"ended", "crashed"},
         UNCHANGED <<accepted, delivered, reported>>,
         DOMAIN out_messages' = DOMAIN out_messages,
         \A i \in DOMAIN out_messages :
           /\ out_messages'[i].mid = out_messages[i].mid
           /\ out_messages'[i].qos = out_messages[i].qos
           /\ out_messages'[i].state = "invalid" => out_messages[i].state = "invalid"
           /\ out_messages[i].state = "wait_for_pubcomp" =>
                out_messages'[i].state = "wait_for_pubcomp"
           /\ out_messages[i].qos = 1 => out_messages'[i].state # "wait_for_pubcomp",
         held' \subseteq held, pending' \subseteq pending,
         BrokerOrder(toBroker'), ClientOrder(toClient'),
         Packets(toClient') \subseteq Packets(toClient),
         Packets(toBroker') \subseteq Packets(toBroker)
  PROVE  DeliveryInv'
<1>1. PICK none : none = {}
  OBVIOUS
<1>2. Packets(toBroker') \subseteq Packets(toBroker) \cup none /\ \A p \in none : FALSE
  BY <1>1
<1> QED
  BY <1>2, DeliveryFrame

(* Steps of the connection and of time, and acknowledgements of messages   *)
(* that are gone.                                                          *)
LEMMA ConnDelivery ==
  ASSUME DeliveryInv, WindowInv',
         ConnLost \/ SocketConnect \/ SocketConnectFails \/ HandlePubackcompUnknown
  PROVE  DeliveryInv'
<1>1. /\ conn' \notin {"ended", "crashed"}
      /\ UNCHANGED <<out_messages, accepted, delivered, reported, pending>>
      /\ held' \subseteq held
  BY DEF ConnLost, SocketConnect, SocketConnectFails, HandlePubackcompUnknown, client, history
<1>2. /\ toBroker' \in {toBroker, <<>>}
      /\ toClient' \in {toClient, <<>>} \/ (toClient # <<>> /\ toClient' = Tail(toClient))
  BY DEF ConnLost, SocketConnect, SocketConnectFails, HandlePubackcompUnknown
<1>3. Packets(<<>>) = {} /\ BrokerOrder(<<>>) /\ ClientOrder(<<>>)
  BY DEF Packets, BrokerOrder, ClientOrder
<1>4. /\ Packets(toBroker') \subseteq Packets(toBroker) /\ BrokerOrder(toBroker')
      /\ Packets(toClient') \subseteq Packets(toClient) /\ ClientOrder(toClient')
  <2>1. toClient \in Seq(ToClientPackets) /\ BrokerOrder(toBroker) /\ ClientOrder(toClient)
    BY DEF DeliveryInv, WindowInv, TypeOK
  <2> QED
    BY <1>2, <1>3, <2>1, PacketsOfTail, OrderOfTail
<1>5. \A i \in DOMAIN out_messages :
        out_messages[i].qos = 1 => out_messages[i].state # "wait_for_pubcomp"
  BY DEF DeliveryInv, Names
<1> QED
  BY <1>1, <1>4, <1>5, QuietDelivery

LEMMA TickDelivery ==
  ASSUME DeliveryInv, WindowInv', NEW n, Tick(n)
  PROVE  DeliveryInv'
<1>1. /\ UNCHANGED <<accepted, delivered, reported, conn, held, pending, toBroker, toClient>>
      /\ n \in DOMAIN out_messages
      /\ out_messages' = [out_messages EXCEPT ![n].due = TRUE]
  BY DEF Tick, history
<1>2. DOMAIN out_messages' = DOMAIN out_messages
  BY <1>1
<1>3. ASSUME NEW i \in DOMAIN out_messages
      PROVE  /\ out_messages'[i].mid = out_messages[i].mid
             /\ out_messages'[i].qos = out_messages[i].qos
             /\ out_messages'[i].state = out_messages[i].state
  <2>1. out_messages[i] \in Messages
    BY NamedIds DEF DeliveryInv
  <2> QED
    BY <1>1, <2>1 DEF Messages
<1>4. Packets(toBroker') \subseteq Packets(toBroker)
  BY <1>1
<1> QED
  BY <1>1, <1>2, <1>3, <1>4, QuietDelivery DEF DeliveryInv, Names

LEMMA ReconnectResetDelivery ==
  ASSUME DeliveryInv, WindowInv', ReconnectReset
  PROVE  DeliveryInv'
<1>1. /\ UNCHANGED <<accepted, delivered, reported, held, pending, toBroker, toClient>>
      /\ conn' = "resetting"
      /\ out_messages' = [i \in DOMAIN out_messages |-> Reset(i)]
  BY DEF ReconnectReset, history
<1>2. DOMAIN out_messages' = DOMAIN out_messages
  BY <1>1
<1>3. ASSUME NEW i \in DOMAIN out_messages
      PROVE  /\ out_messages'[i].mid = out_messages[i].mid
             /\ out_messages'[i].qos = out_messages[i].qos
             /\ out_messages'[i].state = "invalid" => out_messages[i].state = "invalid"
             /\ out_messages[i].state = "wait_for_pubcomp" =>
                  out_messages'[i].state = "wait_for_pubcomp"
             /\ out_messages[i].qos = 1 => out_messages'[i].state # "wait_for_pubcomp"
  <2>1. out_messages[i] \in Messages
    BY NamedIds DEF DeliveryInv
  <2>2. out_messages[i].state = "invalid" <=> ~ WindowOpen(i - 1)
    BY DEF DeliveryInv, WindowInv, InflightWindow
  <2>3. out_messages[i].qos = 1 => out_messages[i].state # "wait_for_pubcomp"
    BY DEF DeliveryInv, Names
  <2> QED
    BY <1>1, <2>1, <2>2, <2>3 DEF Reset, Messages
<1>4. Packets(toBroker') \subseteq Packets(toBroker)
  BY <1>1
<1>5. BrokerOrder(toBroker') /\ ClientOrder(toClient')
  BY <1>1 DEF DeliveryInv
<1> QED
  BY <1>1, <1>2, <1>3, <1>4, <1>5, QuietDelivery

LEMMA SendPublishDelivery ==
  ASSUME DeliveryInv, WindowInv', SendPublish
  PROVE  DeliveryInv'
<1>1. PICK i \in DOMAIN out_messages, r \in pending :
        /\ out_messages[i].id = r.id
        /\ Send(<<PublishPacket(out_messages[i])>>)
  BY DEF SendPublish
<1>2. /\ UNCHANGED <<out_messages, accepted, delivered, reported, conn, held, toClient>>
      /\ pending' = {}
  BY DEF SendPublish, client, history
<1> DEFINE q == PublishPacket(out_messages[i])
<1>3. /\ out_messages[i] \in Messages /\ out_messages[i].mid = r.mid
      /\ out_messages[i].id = r.mid
      /\ out_messages[i].qos = accepted[r.mid]
  BY <1>1, NamedIds DEF DeliveryInv, Names
<1>4. /\ q \in ToBrokerPackets /\ q.type = "PUBLISH" /\ q.mid = r.mid /\ q.id = q.mid
      /\ q.qos = accepted[q.mid] /\ q.qos # 0
  BY <1>3 DEF PublishPacket, PublishPackets, ToBrokerPackets, Messages
<1>5. /\ Listed(out_messages, q.mid) /\ delivered[q.mid] = 0 /\ ~ Holds(held, q.mid)
      /\ NoPacket(toBroker, q.mid) /\ NoPacket(toClient, q.mid)
  BY <1>4 DEF DeliveryInv, Untouched
<1> HIDE DEF q
<1>6. Send(<<q>>)
  BY <1>1 DEF q
<1>7. <<q>> \in Seq(ToBrokerPackets) /\ Packets(<<q>>) = {q} /\ BrokerOrder(<<q>>)
  BY <1>4, OnePacket
<1>8. TypeOK /\ BrokerOrder(toBroker) /\ ClientOrder(toClient)
  BY DEF DeliveryInv, WindowInv
<1>9. Packets(toBroker') \subseteq Packets(toBroker) \cup {q} /\ BrokerOrder(toBroker')
  BY <1>5, <1>6, <1>7, <1>8, SendPackets DEF NoPacket
<1>10. \A j \in DOMAIN out_messages :
         out_messages[j].qos = 1 => out_messages[j].state # "wait_for_pubcomp"
  BY DEF DeliveryInv, Names
<1>11. conn' \notin {"ended", "crashed"}
  BY <1>2 DEF DeliveryInv
<1>12. \A p \in {q} :
         /\ \A t \in pending' : t.mid # p.mid
         /\ IF p.type = "PUBLISH"
            THEN /\ p.id = p.mid /\ p.qos = accepted[p.mid] /\ (p.qos = 0 => ~ p.dup)
                 /\ p.qos = 2 => Listed(out_messages, p.mid) /\ delivered[p.mid] = 0
                 /\ ~ p.dup => delivered[p.mid] = 0 /\ ~ Holds(held, p.mid)
                 /\ \A t \in Packets(toClient) : t.type = "PUBCOMP" => t.mid # p.mid
            ELSE accepted[p.mid] = 2 /\ Released(out_messages', p.mid)
  BY <1>2, <1>4, <1>5 DEF NoPacket
<1> QED
  BY <1>2, <1>8, <1>9, <1>10, <1>11, <1>12, DeliveryFrame

LEMMA HandlePubrecDelivery ==
  ASSUME DeliveryInv, WindowInv', HandlePubrec
  PROVE  DeliveryInv'
<1> DEFINE mid == Head(toClient).mid
           k == MidIndex(mid)
           q == MidPacket("PUBREL", mid)
<1>1. /\ toClient # <<>> /\ Head(toClient).type = "PUBREC"
      /\ HasMid(mid)
      /\ toClient' = Tail(toClient)
      /\ Send(<<q>>)
      /\ out_messages' = [out_messages EXCEPT ![k].state = "wait_for_pubcomp", ![k].due = FALSE]
      /\ UNCHANGED <<pending, conn, held, accepted, delivered, reported>>
  BY DEF HandlePubrec, history
<1>2. /\ TypeOK /\ BrokerOrder(toBroker) /\ ClientOrder(toClient) /\ MidsOrdered
      /\ toClient \in Seq(ToClientPackets)
  BY DEF DeliveryInv, WindowInv, TypeOK
<1>3. /\ Head(toClient) \in Packets(toClient)
      /\ Packets(toClient') \subseteq Packets(toClient)
      /\ ClientOrder(toClient')
  BY <1>1, <1>2, PacketsOfTail, OrderOfTail
<1>4. accepted[mid] = 2 /\ Head(toClient) \in ToClientPackets
  BY <1>1, <1>3, NamedIds DEF DeliveryInv, Names
<1>5. k \in DOMAIN out_messages /\ out_messages[k].mid = mid
  BY <1>1, <1>2, MidIndexFound
<1>6. q \in ToBrokerPackets /\ q.type = "PUBREL" /\ q.mid = mid
  BY <1>4 DEF MidPacket, MidPackets, ToBrokerPackets, ToClientPackets
<1>7. \A r \in pending : r.mid # mid
  BY <1>3 DEF DeliveryInv, Untouched, NoPacket
<1> HIDE DEF q, k, mid
<1>8. DOMAIN out_messages' = DOMAIN out_messages
  BY <1>1
<1>9. ASSUME NEW i \in DOMAIN out_messages
      PROVE  /\ out_messages'[i].mid = out_messages[i].mid
             /\ out_messages'[i].qos = out_messages[i].qos
             /\ out_messages'[i].state =
                  IF i = k THEN "wait_for_pubcomp" ELSE out_messages[i].state
  <2>1. out_messages[i] \in Messages
    BY NamedIds DEF DeliveryInv
  <2> QED
    BY <1>1, <1>5, <2>1 DEF Messages
<1>10. \A i \in DOMAIN out_messages : out_messages[i].mid = mid => i = k
  BY <1>5, MidsDiffer DEF DeliveryInv
<1>11. \A i \in DOMAIN out_messages :
         /\ out_messages[i].qos = 1 => out_messages[i].state # "wait_for_pubcomp"
         /\ out_messages[i].qos = accepted[out_messages[i].mid]
  BY DEF DeliveryInv, Names
<1>12. Released(out_messages', mid)
  BY <1>8, <1>9, <1>10 DEF Released
<1>13. <<q>> \in Seq(ToBrokerPackets) /\ Packets(<<q>>) = {q} /\ BrokerOrder(<<q>>)
  BY <1>6, OnePacket
<1>14. Packets(toBroker') \subseteq Packets(toBroker) \cup {q} /\ BrokerOrder(toBroker')
  BY <1>1, <1>2, <1>6, <1>13, SendPackets
<1>15. \A p \in {q} :
         /\ \A t \in pending' : t.mid # p.mid
         /\ p.type # "PUBLISH" /\ accepted[p.mid] = 2 /\ Released(out_messages', p.mid)
  BY <1>1, <1>4, <1>6, <1>7, <1>12 DEF mid
<1>16. conn' \notin {"ended", "crashed"} /\ held' \subseteq held /\ pending' \subseteq pending
       /\ UNCHANGED <<accepted, delivered, reported>>
  BY <1>1 DEF DeliveryInv
<1>17. \A i \in DOMAIN out_messages :
         /\ out_messages'[i].mid = out_messages[i].mid
         /\ out_messages'[i].qos = out_messages[i].qos
         /\ out_messages'[i].state = "invalid" => out_messages[i].state = "invalid"
         /\ out_messages[i].state = "wait_for_pubcomp" =>
              out_messages'[i].state = "wait_for_pubcomp"
         /\ out_messages[i].qos = 1 => out_messages'[i].state # "wait_for_pubcomp"
  <2>1. out_messages[k].qos = 2
    BY <1>4, <1>5, <1>11 DEF mid
  <2> QED
    BY <1>9, <1>11, <2>1
<1> QED
  <2>1. PICK new : new = {q}
    OBVIOUS
  <2>2. /\ Packets(toBroker') \subseteq Packets(toBroker) \cup new
        /\ \A p \in new :
             /\ \A t \in pending' : t.mid # p.mid
             /\ p.type # "PUBLISH" /\ accepted[p.mid] = 2 /\ Released(out_messages', p.mid)
    BY <1>14, <1>15, <2>1
  <2> QED
    BY <1>3, <1>8, <1>14, <1>16, <1>17, <2>2, DeliveryFrame

(* What the retry pass sends: one packet for each message that is due.     *)
LEMMA RetryPackets ==
  ASSUME WindowInv, RetryCheck
  PROVE  \E ps \in Seq(ToBrokerPackets) :
           /\ Send(ps)
           /\ \A p \in Packets(ps) : \E i \in DOMAIN out_messages :
                /\ out_messages[i].state # "invalid"
                /\ p = RetryPacket(out_messages[i])
                /\ p.mid = out_messages[i].mid
                /\ IF out_messages[i].state = "wait_for_pubcomp" THEN p.type = "PUBREL"
                   ELSE /\ p.type = "PUBLISH" /\ p.dup /\ p.id = out_messages[i].id
                        /\ p.qos = out_messages[i].qos
<1> DEFINE late == {i \in DOMAIN out_messages :
                      out_messages[i].due /\ out_messages[i].state # "invalid"}
           ps == [n \in 1 .. Cardinality(late) |->
                    RetryPacket(out_messages[InOrder(late)[n]])]
<1>1. Send(ps)
  BY DEF RetryCheck
<1>2. ASSUME NEW m \in Messages
      PROVE  /\ RetryPacket(m) \in ToBrokerPackets
             /\ RetryPacket(m).mid = m.mid
             /\ IF m.state = "wait_for_pubcomp" THEN RetryPacket(m).type = "PUBREL"
                ELSE /\ RetryPacket(m).type = "PUBLISH" /\ RetryPacket(m).dup
                     /\ RetryPacket(m).id = m.id /\ RetryPacket(m).qos = m.qos
  <2>1. CASE m.state = "wait_for_pubcomp"
    BY <2>1 DEF RetryPacket, MidPacket, MidPackets, ToBrokerPackets, Messages
  <2>2. CASE m.state # "wait_for_pubcomp"
    <3>1. /\ Retry(m) \in Messages /\ Retry(m).mid = m.mid /\ Retry(m).id = m.id
          /\ Retry(m).qos = m.qos /\ Retry(m).dup = TRUE
      BY DEF Retry, Messages
    <3>2. RetryPacket(m) = PublishPacket(Retry(m))
      BY <2>2 DEF RetryPacket
    <3>3. PublishPacket(Retry(m)) \in PublishPackets
      BY <3>1 DEF PublishPacket, PublishPackets, Messages
    <3> QED
      BY <2>2, <3>1, <3>2, <3>3 DEF PublishPacket, ToBrokerPackets
  <2> QED
    BY <2>1, <2>2
<1>3. Len(out_messages) \in Nat /\ late \in SUBSET (1 .. Len(out_messages))
      /\ late \subseteq DOMAIN out_messages
  BY ListFacts DEF WindowInv
<1>4. \A i \in late : out_messages[i] \in Messages /\ out_messages[i].state # "invalid"
  BY ListFacts DEF WindowInv
<1> HIDE DEF late
<1>5. Cardinality(late) \in Nat
  BY <1>3, PositionsFinite
<1>6. ASSUME NEW n \in 1 .. Cardinality(late)
      PROVE  \E i \in late : ps[n] = RetryPacket(out_messages[i])
  BY <1>3, InOrderInSet
<1>7. ps \in [1 .. Cardinality(late) -> ToBrokerPackets]
  <2>1. \A n \in 1 .. Cardinality(late) : ps[n] \in ToBrokerPackets
    <3> HIDE DEF ps
    <3> QED
      BY <1>2, <1>4, <1>6
  <2>2. ps = [n \in 1 .. Cardinality(late) |-> ps[n]]
    OBVIOUS
  <2> HIDE DEF ps
  <2> QED
    BY <2>1, <2>2
<1> HIDE DEF ps
<1>8. ps \in Seq(ToBrokerPackets) /\ DOMAIN ps = 1 .. Cardinality(late)
  BY <1>5, <1>7
<1>9. \A p \in Packets(ps) : \E i \in late : p = RetryPacket(out_messages[i])
  BY <1>6, <1>8 DEF Packets
<1> QED
  BY <1>1, <1>2, <1>3, <1>4, <1>8, <1>9

LEMMA RetryCheckDelivery ==
  ASSUME ~ LateSend, DeliveryInv, WindowInv', RetryCheck
  PROVE  DeliveryInv'
<1>1. /\ UNCHANGED <<pending, conn, toClient, held, accepted, delivered, reported>>
      /\ pending = {}
  BY DEF RetryCheck, history
<1>2. PICK ps \in Seq(ToBrokerPackets) :
           /\ Send(ps)
           /\ \A p \in Packets(ps) : \E i \in DOMAIN out_messages :
                /\ out_messages[i].state # "invalid"
                /\ p = RetryPacket(out_messages[i])
                /\ p.mid = out_messages[i].mid
                /\ IF out_messages[i].state = "wait_for_pubcomp" THEN p.type = "PUBREL"
                   ELSE /\ p.type = "PUBLISH" /\ p.dup /\ p.id = out_messages[i].id
                        /\ p.qos = out_messages[i].qos
  BY RetryPackets DEF DeliveryInv
<1>3. TypeOK /\ BrokerOrder(toBroker) /\ ClientOrder(toClient)
  BY DEF DeliveryInv, WindowInv
<1>4. ASSUME NEW p \in Packets(ps), p.type = "PUBLISH"
      PROVE  /\ p.dup /\ p.id = p.mid /\ p.qos = accepted[p.mid] /\ p.qos # 0
             /\ p.mid \in 1 .. Len(accepted)
             /\ Listed(out_messages, p.mid) /\ ~ Released(out_messages, p.mid)
  <2>1. PICK i \in DOMAIN out_messages :
          /\ p.mid = out_messages[i].mid /\ p.dup /\ p.id = out_messages[i].id
          /\ p.qos = out_messages[i].qos /\ out_messages[i].state # "wait_for_pubcomp"
    BY <1>2, <1>4
  <2>2. /\ out_messages[i] \in Messages /\ out_messages[i].id = out_messages[i].mid
        /\ out_messages[i].mid \in 1 .. Len(accepted)
    BY NamedIds DEF DeliveryInv
  <2>3. out_messages[i].qos = accepted[out_messages[i].mid] /\ out_messages[i].qos # 0
    BY <2>2 DEF DeliveryInv, Names, Messages
  <2> QED
    BY <2>1, <2>2, <2>3 DEF Listed, Released
<1>5. ASSUME NEW p \in Packets(ps), p.type # "PUBLISH"
      PROVE  accepted[p.mid] = 2 /\ Released(out_messages, p.mid)
  <2>1. PICK i \in DOMAIN out_messages :
          p.mid = out_messages[i].mid /\ out_messages[i].state = "wait_for_pubcomp"
    BY <1>2, <1>5
  <2>2. \A j \in DOMAIN out_messages : out_messages[j].mid = p.mid => j = i
    BY <2>1, MidsDiffer DEF DeliveryInv
  <2>3. out_messages[i] \in Messages
    BY NamedIds DEF DeliveryInv
  <2>4. out_messages[i].qos # 1 /\ out_messages[i].qos = accepted[p.mid]
    BY <2>1 DEF DeliveryInv, Names
  <2> QED
    BY <2>1, <2>2, <2>3, <2>4 DEF Released, Messages
<1>6. BrokerOrder(ps)
  <2>1. \A i \in DOMAIN ps : ps[i] \in Packets(ps)
    BY PacketsOf
  <2> QED
    BY <1>4, <1>5, <2>1 DEF BrokerOrder
<1>7. ASSUME NEW p \in Packets(toBroker), NEW q \in Packets(ps),
             q.type = "PUBLISH", p.mid = q.mid
      PROVE  p.type = "PUBLISH" /\ q.dup
  BY <1>4, <1>7 DEF DeliveryInv, Exchange
<1>8. Packets(toBroker') \subseteq Packets(toBroker) \cup Packets(ps) /\ BrokerOrder(toBroker')
  BY <1>2, <1>3, <1>6, <1>7, SendPackets
<1>9. DOMAIN out_messages' = DOMAIN out_messages
  BY DEF RetryCheck
<1>10. ASSUME NEW i \in DOMAIN out_messages
       PROVE  /\ out_messages'[i].mid = out_messages[i].mid
              /\ out_messages'[i].qos = out_messages[i].qos
              /\ out_messages'[i].state = out_messages[i].state
  <2>1. out_messages[i] \in Messages
    BY NamedIds DEF DeliveryInv
  <2>2. out_messages'[i] \in {out_messages[i], Retry(out_messages[i])}
    BY DEF RetryCheck
  <2> QED
    BY <2>1, <2>2 DEF Retry, Messages
<1>11. \A k : Released(out_messages, k) => Released(out_messages', k)
  BY <1>9, <1>10 DEF Released
<1>12. ASSUME NEW p \in Packets(ps)
       PROVE  /\ \A r \in pending' : r.mid # p.mid
              /\ IF p.type = "PUBLISH"
                 THEN /\ p.id = p.mid /\ p.qos = accepted[p.mid] /\ (p.qos = 0 => ~ p.dup)
                      /\ p.qos = 2 => Listed(out_messages, p.mid) /\ delivered[p.mid] = 0
                      /\ ~ p.dup => delivered[p.mid] = 0 /\ ~ Holds(held, p.mid)
                      /\ \A q \in Packets(toClient) : q.type = "PUBCOMP" => q.mid # p.mid
                 ELSE accepted[p.mid] = 2 /\ Released(out_messages', p.mid)
  <2>1. CASE p.type = "PUBLISH"
    <3>1. delivered[p.mid] \in 0 .. 2
      BY <1>3, <1>4, <2>1, NamedIds DEF TypeOK, DeliveryInv
    <3>2. p.qos = 2 => delivered[p.mid] = 0
      BY <1>4, <2>1, <3>1 DEF DeliveryInv, Exchange
    <3>3. \A q \in Packets(toClient) : q.type = "PUBCOMP" => q.mid # p.mid
      BY <1>4, <2>1 DEF DeliveryInv, Exchange
    <3> QED
      BY <1>1, <1>4, <2>1, <3>2, <3>3
  <2>2. CASE p.type # "PUBLISH"
    BY <1>1, <1>5, <1>11, <2>2
  <2> QED
    BY <2>1, <2>2
<1>13. conn' \notin {"ended", "crashed"}
  BY <1>1 DEF DeliveryInv
<1>14. \A i \in DOMAIN out_messages :
         out_messages[i].qos = 1 => out_messages[i].state # "wait_for_pubcomp"
  BY DEF DeliveryInv, Names
<1> QED
  BY <1>1, <1>3, <1>8, <1>9, <1>10, <1>12, <1>13, <1>14, DeliveryFrame

-----------------------------------------------------------------------------
(* publish(): nothing is known of the next id yet.                         *)
LEMMA NextIsUntouched ==
  ASSUME NoWrap, DeliveryInv, Len(accepted) < MaxPublishes
  PROVE  LET n == Len(accepted) + 1
         IN  /\ n \in Ids
             /\ delivered[n] = 0 /\ reported[n] = 0 /\ ~ Holds(held, n)
             /\ NoPacket(toBroker, n) /\ NoPacket(toClient, n)
             /\ \A r \in pending : r.mid # n
             /\ \A i \in DOMAIN out_messages : out_messages[i].mid # n
<1> DEFINE n == Len(accepted) + 1
<1>1. WindowInv
  BY DEF DeliveryInv
<1>2. n \in Ids /\ Len(accepted) \in Nat /\ n > Len(accepted)
  BY <1>1, NextMid, NamedIds
<1>3. \A k \in 1 .. Len(accepted) : k # n
  BY <1>2
<1>4. delivered[n] = 0 /\ reported[n] = 0
  BY <1>2 DEF DeliveryInv, Untouched
<1>5. ~ Holds(held, n)
  BY <1>2 DEF DeliveryInv, Names, Holds
<1> HIDE DEF n
<1>6. /\ NoPacket(toBroker, n) /\ NoPacket(toClient, n)
      /\ \A r \in pending : r.mid # n
      /\ \A i \in DOMAIN out_messages : out_messages[i].mid # n
  BY <1>1, <1>3, NamedIds DEF NoPacket
<1> QED
  BY <1>2, <1>4, <1>5, <1>6 DEF n

LEMMA AcceptDelivery ==
  ASSUME NoWrap, DeliveryInv, WindowInv', Len(accepted) < MaxPublishes,
         NEW q \in 0 .. 2, accepted' = Append(accepted, q),
         UNCHANGED <<conn, toClient, held, delivered, reported>>,
         NEW n, n = Len(accepted) + 1,
         DOMAIN out_messages \subseteq DOMAIN out_messages',
         \A i \in DOMAIN out_messages : out_messages'[i] = out_messages[i],
         \A i \in DOMAIN out_messages' \ DOMAIN out_messages :
           /\ out_messages'[i].mid = n /\ out_messages'[i].qos = q
           /\ out_messages'[i].state # "wait_for_pubcomp",
         \A r \in pending' \ pending : r.mid = n /\ Listed(out_messages', n),
         BrokerOrder(toBroker'),
         \A p \in Packets(toBroker') \ Packets(toBroker) :
           /\ p.type = "PUBLISH" /\ p.mid = n /\ p.id = n
           /\ p.qos = 0 /\ ~ p.dup /\ q = 0,
         pending' = pending \/ toBroker' = toBroker
  PROVE  DeliveryInv'
<1>1. /\ n \in Ids
      /\ delivered[n] = 0 /\ reported[n] = 0 /\ ~ Holds(held, n)
      /\ NoPacket(toBroker, n) /\ NoPacket(toClient, n)
      /\ \A r \in pending : r.mid # n
      /\ \A i \in DOMAIN out_messages : out_messages[i].mid # n
  BY NextIsUntouched
<1>2. /\ Len(accepted) \in Nat /\ Len(accepted') = n /\ accepted'[n] = q
      /\ \A k \in 1 .. Len(accepted) : accepted'[k] = accepted[k]
      /\ \A k \in 1 .. n : k = n \/ k \in 1 .. Len(accepted)
  <2>1. accepted \in Seq(0 .. 2) /\ Len(accepted) \in Nat
    BY DEF DeliveryInv, WindowInv, TypeOK
  <2>2. /\ Len(accepted') = n
        /\ \A k \in 1 .. Len(accepted) : accepted'[k] = accepted[k]
    BY <2>1
  <2>3. accepted'[n] = q
    BY <2>1
  <2> QED
    BY <2>1, <2>2, <2>3
<1>3. /\ \A i \in DOMAIN out_messages : out_messages[i].mid \in 1 .. Len(accepted)
      /\ \A p \in Packets(toBroker) : p.mid \in 1 .. Len(accepted)
      /\ \A p \in Packets(toClient) : p.mid \in 1 .. Len(accepted)
  BY NamedIds DEF DeliveryInv
<1>4. \A h \in held : h.mid \in 1 .. Len(accepted)
  <2>1. \A h \in held : h.mid \in Mids
    BY DEF DeliveryInv, WindowInv, TypeOK
  <2> QED
    BY <1>2, <2>1, ConstantsAssumption DEF DeliveryInv, Names, Mids
<1>5. /\ \A k : Listed(out_messages, k) => Listed(out_messages', k)
      /\ \A k : k # n /\ Released(out_messages, k) => Released(out_messages', k)
  BY DEF Listed, Released
<1>6. Names'
  <2>1. \A i \in DOMAIN out_messages' :
          /\ out_messages'[i].qos = accepted'[out_messages'[i].mid]
          /\ out_messages'[i].qos = 1 => out_messages'[i].state # "wait_for_pubcomp"
    BY <1>2, <1>3 DEF DeliveryInv, Names
  <2>2. ASSUME NEW p \in Packets(toBroker')
        PROVE  IF p.type = "PUBLISH"
               THEN p.id = p.mid /\ p.qos = accepted'[p.mid] /\ (p.qos = 0 => ~ p.dup)
               ELSE accepted'[p.mid] = 2
    BY <1>2, <1>3 DEF DeliveryInv, Names
  <2>3. \A p \in Packets(toClient') : accepted'[p.mid] = IF p.type = "PUBACK" THEN 1 ELSE 2
    BY <1>2, <1>3 DEF DeliveryInv, Names
  <2>4. \A h \in held' : h.id = h.mid /\ h.mid <= Len(accepted') /\ accepted'[h.mid] = 2
    BY <1>2, <1>4 DEF DeliveryInv, Names
  <2> QED
    BY <2>1, <2>2, <2>3, <2>4 DEF Names
<1>7. Untouched'
  <2>1. \A k \in Ids : k > Len(accepted') => delivered[k] = 0 /\ reported[k] = 0
    BY <1>2 DEF DeliveryInv, Untouched, Ids
  <2>2. \A i \in DOMAIN out_messages' :
          /\ reported[out_messages'[i].mid] = 0
          /\ out_messages'[i].state = "invalid" =>
               delivered[out_messages'[i].mid] = 0 /\ ~ Holds(held, out_messages'[i].mid)
    BY <1>1 DEF DeliveryInv, Untouched
  <2>3. ASSUME NEW r \in pending'
        PROVE  /\ Listed(out_messages', r.mid)
               /\ delivered[r.mid] = 0 /\ ~ Holds(held, r.mid)
               /\ NoPacket(toBroker', r.mid) /\ NoPacket(toClient, r.mid)
    <3>1. CASE r \in pending
      BY <1>1, <1>5, <3>1 DEF DeliveryInv, Untouched, NoPacket
    <3>2. CASE r \notin pending
      BY <1>1, <3>2 DEF NoPacket
    <3> QED
      BY <3>1, <3>2
  <2> QED
    BY <2>1, <2>2, <2>3 DEF Untouched
<1>8. Exchange'
  <2>1. ASSUME NEW p \in Packets(toBroker')
        PROVE  IF p.type = "PUBLISH"
               THEN p.qos = 2 => Listed(out_messages', p.mid) /\ delivered[p.mid] = 0
               ELSE Released(out_messages', p.mid)
    BY <1>1, <1>5 DEF DeliveryInv, Exchange, NoPacket
  <2>2. ASSUME NEW p \in Packets(toClient)
        PROVE  /\ p.type = "PUBREC" => Listed(out_messages', p.mid)
               /\ p.type = "PUBCOMP" =>
                    /\ Released(out_messages', p.mid)
                    /\ \A t \in Packets(toBroker') : t.type = "PUBLISH" => t.mid # p.mid
    BY <1>1, <1>5 DEF DeliveryInv, Exchange, NoPacket
  <2>3. \A k \in 1 .. Len(accepted') :
          (accepted'[k] = 2 /\ delivered[k] > 0) =>
            delivered[k] = 1 /\ Released(out_messages', k)
    BY <1>1, <1>2, <1>5 DEF DeliveryInv, Exchange
  <2> QED
    BY <2>1, <2>2, <2>3 DEF DeliveryInv, Exchange
<1>9. Marking'
  BY <1>1 DEF DeliveryInv, Marking
<1> QED
  BY <1>6, <1>7, <1>8, <1>9 DEF DeliveryInv

LEMMA PublishQos0Delivery ==
  ASSUME NoWrap, DeliveryInv, WindowInv', PublishQos0
  PROVE  DeliveryInv'
<1> DEFINE n == Len(accepted) + 1
           q == PublishPacket([mid |-> last_mid', id |-> Len(accepted'),
                               qos |-> 0, dup |-> FALSE])
<1>1. /\ Len(accepted) < MaxPublishes
      /\ last_mid' = MidGenerate(last_mid)
      /\ accepted' = Append(accepted, 0)
      /\ Send(<<q>>)
      /\ UNCHANGED <<out_messages, pending, conn, toClient, held, delivered, reported>>
  BY DEF PublishQos0
<1>2. last_mid' = n /\ Len(accepted') = n /\ n \in Mids /\ n \in Ids
  <2>1. accepted \in Seq(0 .. 2)
    BY DEF DeliveryInv, WindowInv, TypeOK
  <2> QED
    BY <1>1, <2>1, NextMid DEF DeliveryInv
<1>3. /\ q \in ToBrokerPackets /\ q.type = "PUBLISH" /\ q.mid = n /\ q.id = n
      /\ q.qos = 0 /\ q.dup = FALSE
  BY <1>2 DEF PublishPacket, PublishPackets, ToBrokerPackets
<1>4. NoPacket(toBroker, n)
  BY <1>1, NextIsUntouched
<1> HIDE DEF q
<1>5. <<q>> \in Seq(ToBrokerPackets) /\ Packets(<<q>>) = {q} /\ BrokerOrder(<<q>>)
  BY <1>3, OnePacket
<1>6. TypeOK /\ BrokerOrder(toBroker)
  BY DEF DeliveryInv, WindowInv
<1>7. Packets(toBroker') \subseteq Packets(toBroker) \cup {q} /\ BrokerOrder(toBroker')
  BY <1>1, <1>3, <1>4, <1>5, <1>6, SendPackets DEF NoPacket
<1>8. PICK z \in 0 .. 2 : z = 0
  OBVIOUS
<1>9. PICK k : k = Len(accepted) + 1
  OBVIOUS
<1>10. \A p \in Packets(toBroker') \ Packets(toBroker) :
         p.type = "PUBLISH" /\ p.mid = k /\ p.id = k /\ p.qos = 0 /\ ~ p.dup /\ z = 0
  BY <1>3, <1>7, <1>8, <1>9
<1>11. accepted' = Append(accepted, z)
  BY <1>1, <1>8
<1> QED
  BY <1>1, <1>7, <1>9, <1>10, <1>11, AcceptDelivery

LEMMA PublishQueueDelivery ==
  ASSUME NoWrap, DeliveryInv, WindowInv', NEW q \in {1, 2}, PublishQueue(q)
  PROVE  DeliveryInv'
<1> DEFINE L == Len(out_messages)
           m == [id |-> Len(accepted) + 1, mid |-> MidGenerate(last_mid), qos |-> q,
                 state |-> IF WindowOpen(inflight_messages) THEN WaitState(q) ELSE "invalid",
                 due |-> FALSE, dup |-> FALSE]
<1>1. /\ Len(accepted) < MaxPublishes
      /\ accepted' = Append(accepted, q)
      /\ out_messages' = Append(out_messages, m)
      /\ pending' \in {pending, {[mid |-> m.mid, id |-> m.id, qos |-> q]}}
      /\ UNCHANGED <<conn, toBroker, toClient, held, delivered, reported>>
  BY DEF PublishQueue
<1>2. PICK n : n = Len(accepted) + 1
  OBVIOUS
<1>3. m.mid = n /\ m.qos = q /\ m.state # "wait_for_pubcomp"
  BY <1>1, <1>2, NextMid DEF DeliveryInv, WaitState
<1>4. \A r \in pending' \ pending : r.mid = n
  BY <1>1, <1>3
<1> HIDE DEF m
<1>5. out_messages \in Seq(Messages) /\ Len(out_messages) \in Nat
      /\ DOMAIN out_messages = 1 .. Len(out_messages)
  BY DEF DeliveryInv, WindowInv, TypeOK
<1>6. /\ DOMAIN out_messages' = 1 .. (L + 1)
      /\ \A i \in DOMAIN out_messages : out_messages'[i] = out_messages[i]
      /\ out_messages'[L + 1] = m
  BY <1>1, <1>5
<1>7. /\ DOMAIN out_messages \subseteq DOMAIN out_messages'
      /\ \A i \in DOMAIN out_messages' \ DOMAIN out_messages : i = L + 1
      /\ L + 1 \in DOMAIN out_messages'
  BY <1>5, <1>6
<1>8. Listed(out_messages', n)
  BY <1>3, <1>6, <1>7 DEF Listed
<1>9. \A i \in DOMAIN out_messages' \ DOMAIN out_messages :
        /\ out_messages'[i].mid = n /\ out_messages'[i].qos = q
        /\ out_messages'[i].state # "wait_for_pubcomp"
  BY <1>3, <1>6, <1>7
<1>10. BrokerOrder(toBroker') /\ q \in 0 .. 2 /\ Packets(toBroker') \ Packets(toBroker) = {}
  BY <1>1 DEF DeliveryInv
<1> QED
  BY <1>1, <1>2, <1>4, <1>6, <1>7, <1>8, <1>9, <1>10, AcceptDelivery

-----------------------------------------------------------------------------
(* The broker reads a packet of message k: only k is delivered or held.    *)
LEMMA BrokerReads ==
  ASSUME DeliveryInv, toBroker # <<>>
  PROVE  LET k == Head(toBroker).mid
         IN  /\ Head(toBroker) \in Packets(toBroker) /\ Head(toBroker) \in ToBrokerPackets
             /\ Packets(Tail(toBroker)) \subseteq Packets(toBroker)
             /\ BrokerOrder(Tail(toBroker))
             /\ k \in 1 .. Len(accepted) /\ k \in Ids
             /\ \A q \in Packets(Tail(toBroker)) : (q.type = "PUBLISH" /\ q.mid = k) =>
                  Head(toBroker).type = "PUBLISH" /\ q.dup
             /\ \A r \in pending : r.mid # k
             /\ \A i \in DOMAIN out_messages :
                  out_messages[i].mid = k => out_messages[i].state # "invalid"
<1>1. toBroker \in Seq(ToBrokerPackets) /\ BrokerOrder(toBroker)
  BY DEF DeliveryInv, WindowInv, TypeOK
<1>2. /\ Head(toBroker) \in Packets(toBroker)
      /\ Packets(Tail(toBroker)) \subseteq Packets(toBroker)
      /\ BrokerOrder(Tail(toBroker))
  BY <1>1, PacketsOfTail, OrderOfTail
<1>3. /\ Head(toBroker) \in ToBrokerPackets
      /\ Head(toBroker).mid \in 1 .. Len(accepted) /\ Head(toBroker).mid \in Ids
      /\ KnownMid(Head(toBroker).mid)
  BY <1>2, NamedIds DEF DeliveryInv
<1>4. ASSUME NEW q \in Packets(Tail(toBroker)), q.type = "PUBLISH", q.mid = Head(toBroker).mid
      PROVE  Head(toBroker).type = "PUBLISH" /\ q.dup
  <2>1. PICK j \in DOMAIN toBroker :
          1 < j /\ 1 \in DOMAIN toBroker /\ toBroker[j] = q /\ toBroker[1] = Head(toBroker)
    BY <1>1, TailIsLater
  <2> QED
    BY <1>1, <1>4, <2>1 DEF BrokerOrder
<1>5. \A r \in pending : r.mid # Head(toBroker).mid
  BY <1>2 DEF DeliveryInv, Untouched, NoPacket
<1> QED
  BY <1>2, <1>3, <1>4, <1>5 DEF KnownMid, KnownIn

AnswerFits(a, k) ==
  /\ a.mid = k
  /\ a.type = "PUBACK" => accepted[k] = 1
  /\ a.type # "PUBACK" => accepted[k] = 2
  /\ a.type = "PUBREC" => Listed(out_messages, k)
  /\ a.type = "PUBCOMP" =>
       /\ Released(out_messages, k)
       /\ \A q \in Packets(toBroker') : q.type = "PUBLISH" => q.mid # k

DeliveredFits(k) ==
  /\ \A n \in Ids : n # k => delivered'[n] = delivered[n]
  /\ \A h \in held' : h \in held \/ h.mid = k
  /\ \A h \in held' : h.mid = k => h.id = k /\ accepted[k] = 2 /\ delivered'[k] = 0
  /\ \A q \in Packets(toBroker') :
       (q.type = "PUBLISH" /\ q.mid = k /\ q.qos = 2) => delivered'[k] = 0
  /\ (accepted[k] = 2 /\ delivered'[k] > 0) =>
       delivered'[k] = 1 /\ Released(out_messages, k)

LEMMA BrokerFrame ==
  ASSUME DeliveryInv, WindowInv', toBroker # <<>>, toBroker' = Tail(toBroker),
         UNCHANGED <<out_messages, accepted, reported, pending, conn>>,
         NEW k, k = Head(toBroker).mid,
         ClientOrder(toClient'),
         NEW answer, Packets(toClient') \subseteq Packets(toClient) \cup answer,
         \A a \in answer : AnswerFits(a, k),
         DeliveredFits(k)
  PROVE  DeliveryInv'
<1> USE DEF AnswerFits, DeliveredFits
<1>1. /\ Packets(toBroker') \subseteq Packets(toBroker)
      /\ BrokerOrder(toBroker')
      /\ k \in 1 .. Len(accepted) /\ k \in Ids
      /\ \A q \in Packets(toBroker') : (q.type = "PUBLISH" /\ q.mid = k) => q.dup
      /\ \A r \in pending : r.mid # k
      /\ \A i \in DOMAIN out_messages :
           out_messages[i].mid = k => out_messages[i].state # "invalid"
  BY BrokerReads
<1>2. /\ 1 .. Len(accepted) \subseteq Ids /\ Len(accepted) \in Nat
      /\ \A i \in DOMAIN out_messages : out_messages[i].mid \in Ids
      /\ \A p \in Packets(toBroker) : p.mid \in Ids
      /\ \A r \in pending : r.mid \in Ids
  BY NamedIds DEF DeliveryInv
<1>3. \A n : n # k /\ Holds(held', n) => Holds(held, n)
  BY DEF Holds
<1>4. Names'
  <2>1. \A p \in Packets(toClient') : accepted[p.mid] = IF p.type = "PUBACK" THEN 1 ELSE 2
    BY DEF DeliveryInv, Names
  <2>2. \A h \in held' : h.id = h.mid /\ h.mid <= Len(accepted) /\ accepted[h.mid] = 2
    BY <1>1, <1>2 DEF DeliveryInv, Names
  <2>3. ASSUME NEW p \in Packets(toBroker')
        PROVE  IF p.type = "PUBLISH"
               THEN p.id = p.mid /\ p.qos = accepted[p.mid] /\ (p.qos = 0 => ~ p.dup)
               ELSE accepted[p.mid] = 2
    BY <1>1 DEF DeliveryInv, Names
  <2> QED
    BY <2>1, <2>2, <2>3 DEF DeliveryInv, Names
<1>5. Untouched'
  <2>1. \A n \in Ids : n > Len(accepted) => delivered'[n] = 0 /\ reported[n] = 0
    BY <1>1, <1>2 DEF DeliveryInv, Untouched, Ids
  <2>2. \A i \in DOMAIN out_messages :
          /\ reported[out_messages[i].mid] = 0
          /\ out_messages[i].state = "invalid" =>
               delivered'[out_messages[i].mid] = 0 /\ ~ Holds(held', out_messages[i].mid)
    BY <1>1, <1>2, <1>3 DEF DeliveryInv, Untouched
  <2>3. ASSUME NEW r \in pending
        PROVE  /\ Listed(out_messages, r.mid)
               /\ delivered'[r.mid] = 0 /\ ~ Holds(held', r.mid)
               /\ NoPacket(toBroker', r.mid) /\ NoPacket(toClient', r.mid)
    BY <1>1, <1>2, <1>3 DEF DeliveryInv, Untouched, NoPacket
  <2> QED
    BY <2>1, <2>2, <2>3 DEF Untouched
<1>6. Exchange'
  <2>1. ASSUME NEW p \in Packets(toBroker')
        PROVE  IF p.type = "PUBLISH"
               THEN p.qos = 2 => Listed(out_messages, p.mid) /\ delivered'[p.mid] = 0
               ELSE Released(out_messages, p.mid)
    BY <1>1, <1>2 DEF DeliveryInv, Exchange
  <2>2. ASSUME NEW p \in Packets(toClient')
        PROVE  /\ p.type = "PUBREC" => Listed(out_messages, p.mid)
               /\ p.type = "PUBCOMP" =>
                    /\ Released(out_messages, p.mid)
                    /\ \A q \in Packets(toBroker') : q.type = "PUBLISH" => q.mid # p.mid
    BY <1>1 DEF DeliveryInv, Exchange
  <2>3. \A h \in held' : delivered'[h.mid] = 0
    <3>1. \A h \in held : h.mid \in Ids
      <4>1. \A h \in held : h.mid \in Mids /\ h.mid <= Len(accepted)
        BY DEF DeliveryInv, Names, WindowInv, TypeOK
      <4>2. \A n \in Mids : n <= Len(accepted) => n \in 1 .. Len(accepted)
        BY <1>2, ConstantsAssumption DEF Mids
      <4> QED
        BY <1>2, <4>1, <4>2
    <3> QED
      BY <3>1 DEF DeliveryInv, Exchange
  <2>4. \A n \in 1 .. Len(accepted) :
          (accepted[n] = 2 /\ delivered'[n] > 0) =>
            delivered'[n] = 1 /\ Released(out_messages, n)
    BY <1>1, <1>2 DEF DeliveryInv, Exchange
  <2> QED
    BY <2>1, <2>2, <2>3, <2>4 DEF Exchange
<1>7. Marking'
  <2>1. ASSUME NEW p \in Packets(toBroker'), p.type = "PUBLISH", ~ p.dup
        PROVE  delivered'[p.mid] = 0 /\ ~ Holds(held', p.mid)
    BY <1>1, <1>2, <1>3, <2>1 DEF DeliveryInv, Marking
  <2> QED
    BY <2>1 DEF Marking
<1> QED
  BY <1>1, <1>4, <1>5, <1>6, <1>7 DEF DeliveryInv

LEMMA BrokerPublishDelivery ==
  ASSUME DeliveryInv, WindowInv', BrokerPublish
  PROVE  DeliveryInv'
<1> DEFINE p == Head(toBroker)
<1>1. /\ toBroker # <<>> /\ p.type = "PUBLISH" /\ toBroker' = Tail(toBroker)
      /\ UNCHANGED <<out_messages, accepted, reported, pending, conn>>
  BY DEF BrokerPublish, client
<1>2. PICK k : k = p.mid
  OBVIOUS
<1>3. /\ p \in Packets(toBroker) /\ p \in ToBrokerPackets
      /\ Packets(toBroker') \subseteq Packets(toBroker)
      /\ k \in 1 .. Len(accepted) /\ k \in Ids
  BY <1>1, <1>2, BrokerReads
<1>4. /\ p.id = k /\ p.qos = accepted[k]
      /\ p.qos = 2 => Listed(out_messages, k) /\ delivered[k] = 0
      /\ \A q \in Packets(toClient) : q.type = "PUBCOMP" => q.mid # k
      /\ \A q \in Packets(toBroker') : q.type = "PUBLISH" => q.qos = accepted[q.mid]
  BY <1>1, <1>2, <1>3 DEF DeliveryInv, Names, Exchange
<1>5. k \in Mids /\ delivered \in [Ids -> 0 .. 2] /\ TypeOK /\ ClientOrder(toClient)
  BY <1>2, <1>3 DEF DeliveryInv, WindowInv, TypeOK, ToBrokerPackets, PublishPackets, MidPackets
<1>6. \A h \in held : h.mid = k => accepted[k] = 2 /\ h.id = k /\ delivered[k] = 0
  BY DEF DeliveryInv, Names, Exchange
<1>7. CASE p.qos = 0
  <2>1. Deliver(k) /\ UNCHANGED <<toClient, held>> /\ accepted[k] = 0
    BY <1>4, <1>7 DEF BrokerPublish
  <2>2. \A n \in Ids : n # k => delivered'[n] = delivered[n]
    BY <1>5, <2>1 DEF Deliver
  <2>3. PICK none : none = {}
    OBVIOUS
  <2>4. /\ Packets(toClient') \subseteq Packets(toClient) \cup none
        /\ \A a \in none : AnswerFits(a, k)
    BY <2>1, <2>3
  <2>5. \A q \in Packets(toBroker') : (q.type = "PUBLISH" /\ q.mid = k) => q.qos # 2
    BY <1>4, <2>1
  <2>6. DeliveredFits(k)
    BY <1>6, <2>1, <2>2, <2>5 DEF DeliveredFits
  <2>7. ClientOrder(toClient')
    BY <1>5, <2>1
  <2> QED
    BY <1>1, <1>2, <2>4, <2>6, <2>7, BrokerFrame
<1>8. CASE p.qos = 1
  <2> DEFINE a == MidPacket("PUBACK", k)
  <2>1. Deliver(k) /\ toClient' = Append(toClient, a) /\ UNCHANGED held /\ accepted[k] = 1
    BY <1>2, <1>4, <1>8 DEF BrokerPublish
  <2>2. \A n \in Ids : n # k => delivered'[n] = delivered[n]
    BY <1>5, <2>1 DEF Deliver
  <2>3. a \in ToClientPackets /\ a.type = "PUBACK" /\ a.mid = k
    BY <1>5 DEF MidPacket, MidPackets, ToClientPackets
  <2> HIDE DEF a, p
  <2>4. Packets(toClient') \subseteq Packets(toClient) \cup {a} /\ ClientOrder(toClient')
    BY <1>5, <2>1, <2>3, AnswerPackets
  <2>5. PICK answer : answer = {a}
    OBVIOUS
  <2>6. /\ Packets(toClient') \subseteq Packets(toClient) \cup answer
        /\ \A t \in answer : AnswerFits(t, k)
    BY <2>1, <2>3, <2>4, <2>5 DEF AnswerFits
  <2>7. \A q \in Packets(toBroker') : (q.type = "PUBLISH" /\ q.mid = k) => q.qos # 2
    BY <1>4, <2>1
  <2>8. DeliveredFits(k)
    BY <1>6, <2>1, <2>2, <2>7 DEF DeliveredFits
  <2> QED
    BY <1>1, <1>2, <2>4, <2>6, <2>8, BrokerFrame DEF p
<1>9. CASE p.qos = 2
  <2> DEFINE a == MidPacket("PUBREC", k)
  <2>1. /\ toClient' = Append(toClient, a) /\ UNCHANGED delivered /\ accepted[k] = 2
        /\ held' \in {held, held \cup {[mid |-> k, id |-> k]}}
    BY <1>2, <1>4, <1>9 DEF BrokerPublish
  <2>2. a \in ToClientPackets /\ a.type = "PUBREC" /\ a.mid = k
    BY <1>5 DEF MidPacket, MidPackets, ToClientPackets
  <2>3. \A h \in held' : (h \in held \/ h.mid = k) /\ (h.mid = k => h.id = k)
    BY <1>6, <2>1
  <2> HIDE DEF a
  <2>4. Packets(toClient') \subseteq Packets(toClient) \cup {a} /\ ClientOrder(toClient')
    BY <1>4, <1>5, <2>1, <2>2, AnswerPackets
  <2>5. PICK answer : answer = {a}
    OBVIOUS
  <2>6. /\ Packets(toClient') \subseteq Packets(toClient) \cup answer
        /\ \A t \in answer : AnswerFits(t, k)
    BY <1>4, <1>9, <2>1, <2>2, <2>4, <2>5 DEF AnswerFits
  <2>7. delivered'[k] = 0
    BY <1>4, <1>9, <2>1
  <2>8. DeliveredFits(k)
    BY <2>1, <2>3, <2>7 DEF DeliveredFits
  <2> QED
    BY <1>1, <1>2, <2>4, <2>6, <2>8, BrokerFrame
<1> QED
  BY <1>7, <1>8, <1>9 DEF BrokerPublish

LEMMA BrokerPubrelDelivery ==
  ASSUME DeliveryInv, WindowInv', BrokerPubrel
  PROVE  DeliveryInv'
<1> DEFINE p == Head(toBroker)
<1>1. /\ toBroker # <<>> /\ p.type = "PUBREL" /\ toBroker' = Tail(toBroker)
      /\ UNCHANGED <<out_messages, accepted, reported, pending, conn>>
  BY DEF BrokerPubrel, client
<1>2. PICK k : k = p.mid
  OBVIOUS
<1>3. /\ p \in Packets(toBroker) /\ p \in ToBrokerPackets
      /\ k \in 1 .. Len(accepted) /\ k \in Ids
      /\ \A q \in Packets(toBroker') : q.type = "PUBLISH" => q.mid # k
  BY <1>1, <1>2, BrokerReads
<1>4. accepted[k] = 2 /\ Released(out_messages, k)
  BY <1>1, <1>2, <1>3 DEF DeliveryInv, Names, Exchange
<1>5. k \in Mids /\ delivered \in [Ids -> 0 .. 2] /\ TypeOK /\ ClientOrder(toClient)
  BY <1>2, <1>3 DEF DeliveryInv, WindowInv, TypeOK, ToBrokerPackets, PublishPackets, MidPackets
<1> DEFINE a == MidPacket("PUBCOMP", k)
<1>6. toClient' = Append(toClient, a)
  BY <1>2 DEF BrokerPubrel
<1>7. a \in ToClientPackets /\ a.type = "PUBCOMP" /\ a.mid = k
  BY <1>5 DEF MidPacket, MidPackets, ToClientPackets
<1> HIDE DEF a
<1>8. Packets(toClient') \subseteq Packets(toClient) \cup {a} /\ ClientOrder(toClient')
  BY <1>5, <1>6, <1>7, AnswerPackets
<1>9. PICK answer : answer = {a}
  OBVIOUS
<1>10. /\ Packets(toClient') \subseteq Packets(toClient) \cup answer
       /\ \A t \in answer : AnswerFits(t, k)
  BY <1>3, <1>4, <1>7, <1>8, <1>9 DEF AnswerFits
<1>11. /\ \A n \in Ids : n # k => delivered'[n] = delivered[n]
       /\ \A h \in held' : h \in held /\ h.mid # k
       /\ delivered'[k] > 0 => delivered'[k] = 1
  <2>1. \A h \in held : h.id = h.mid /\ delivered[h.mid] = 0
    BY DEF DeliveryInv, Names, Exchange
  <2>2. held \in SUBSET [mid : Mids, id : Ids]
    BY <1>5 DEF TypeOK
  <2>3. CASE \E h \in held : h.mid = k /\ Deliver(h.id) /\ held' = held \ {h}
    <3>1. PICK h \in held : h.mid = k /\ Deliver(h.id) /\ held' = held \ {h}
      BY <2>3
    <3>2. Deliver(k) /\ delivered[k] = 0 /\ h = [mid |-> k, id |-> k]
      BY <2>1, <2>2, <3>1
    <3>3. \A g \in held : g.mid = k => g = h
      BY <2>1, <2>2, <3>2
    <3> QED
      BY <1>3, <1>5, <3>1, <3>2, <3>3 DEF Deliver, CountUp
  <2>4. CASE (\A h \in held : h.mid # k) /\ UNCHANGED <<held, delivered>>
    BY <1>3, <1>4, <2>4 DEF DeliveryInv, Exchange
  <2> QED
    BY <1>2, <2>3, <2>4 DEF BrokerPubrel
<1>12. DeliveredFits(k)
  BY <1>3, <1>4, <1>11 DEF DeliveredFits
<1> QED
  BY <1>1, <1>2, <1>8, <1>10, <1>12, BrokerFrame

-----------------------------------------------------------------------------
(* _mosquitto_message_remove: the other messages stay in the list, those   *)
(* that are promoted are sent, once each.                                  *)
LEMMA RemoveAndPromote ==
  ASSUME WindowInv, HandlePubackcomp
  PROVE  LET at == MidIndex(Head(toClient).mid) IN
         /\ at \in DOMAIN out_messages
         /\ out_messages[at].mid = Head(toClient).mid
         /\ \A i \in DOMAIN out_messages' : \E k \in DOMAIN out_messages :
              /\ k # at
              /\ out_messages'[i].mid = out_messages[k].mid
              /\ out_messages'[i].qos = out_messages[k].qos
              /\ \/ out_messages'[i].state = out_messages[k].state
                 \/ /\ out_messages[k].state = "invalid"
                    /\ out_messages'[i].state \notin {"invalid", "wait_for_pubcomp"}
         /\ \A k \in DOMAIN out_messages : k # at =>
              \E i \in DOMAIN out_messages' : out_messages'[i].mid = out_messages[k].mid
         /\ \E ps \in Seq(ToBrokerPackets) :
              /\ Send(ps)
              /\ BrokerOrder(ps)
              /\ \A p \in Packets(ps) : \E k \in DOMAIN out_messages :
                   /\ k # at /\ out_messages[k].state = "invalid"
                   /\ p.type = "PUBLISH" /\ p.mid = out_messages[k].mid
                   /\ p.id = out_messages[k].id /\ p.qos = out_messages[k].qos
                   /\ \E i \in DOMAIN out_messages' :
                        k <= i + 1 /\ out_messages'[i].state # "invalid"
              /\ \A i \in DOMAIN out_messages' : out_messages'[i].state # "invalid" =>
                   \/ \E p \in Packets(ps) : p.mid = out_messages'[i].mid
                   \/ \E k \in DOMAIN out_messages :
                        /\ out_messages[k].state # "invalid"
                        /\ out_messages[k].mid = out_messages'[i].mid
<1> DEFINE L == Len(out_messages) - 1
           at == MidIndex(Head(toClient).mid)
           rest == [i \in 1 .. (Len(out_messages) - 1) |->
                      out_messages[IF i < at THEN i ELSE i + 1]]
           up == Promoted(rest, inflight_messages - 1)
           next == [i \in DOMAIN rest |->
                      IF i \in up THEN Start(rest[i]) ELSE rest[i]]
           ps == [n \in 1 .. Cardinality(up) |-> PublishPacket(next[InOrder(up)[n]])]
           Old(i) == IF i < at THEN i ELSE i + 1
<1>1. HasMid(Head(toClient).mid) /\ out_messages' = next /\ Send(ps)
  BY DEF HandlePubackcomp
<1>2. at \in DOMAIN out_messages /\ out_messages[at].mid = Head(toClient).mid
  BY <1>1, MidIndexFound DEF WindowInv
<1> HIDE DEF at
<1>3. /\ L \in Nat /\ DOMAIN out_messages = 1 .. (L + 1) /\ at \in 1 .. (L + 1)
      /\ DOMAIN rest = 1 .. L /\ DOMAIN out_messages' = 1 .. L
  <2>1. Len(out_messages) \in Nat /\ DOMAIN out_messages = 1 .. Len(out_messages)
    BY ListFacts DEF WindowInv
  <2>2. DOMAIN rest = 1 .. L /\ DOMAIN next = DOMAIN rest
    OBVIOUS
  <2> HIDE DEF rest, next
  <2> QED
    BY <1>1, <1>2, <2>1, <2>2
<1>4. ASSUME NEW i \in 1 .. L
      PROVE  /\ Old(i) \in DOMAIN out_messages /\ Old(i) # at
             /\ rest[i] = out_messages[Old(i)] /\ rest[i] \in Messages
  <2>1. Old(i) \in DOMAIN out_messages /\ Old(i) # at /\ rest[i] = out_messages[Old(i)]
    BY <1>3
  <2> QED
    BY <2>1, ListFacts DEF WindowInv
<1>5. up \in SUBSET (1 .. L) /\ \A i \in up : rest[i].state = "invalid"
  BY <1>3 DEF Promoted, Queued
<1> HIDE DEF up, rest
<1>6. ASSUME NEW m \in Messages
      PROVE  /\ Start(m) \in Messages /\ Start(m).mid = m.mid /\ Start(m).id = m.id
             /\ Start(m).qos = m.qos
             /\ Start(m).state \notin {"invalid", "wait_for_pubcomp"}
  BY DEF Start, WaitState, Messages, MsgStates
<1>7. ASSUME NEW i \in 1 .. L
      PROVE  /\ next[i] \in Messages /\ next[i].mid = rest[i].mid
             /\ next[i].id = rest[i].id /\ next[i].qos = rest[i].qos
             /\ i \in up => next[i].state \notin {"invalid", "wait_for_pubcomp"}
             /\ i \notin up => next[i].state = rest[i].state
  <2>1. next[i] = IF i \in up THEN Start(rest[i]) ELSE rest[i]
    BY <1>3
  <2>2. rest[i] \in Messages
    BY <1>4
  <2> HIDE DEF next
  <2> QED
    BY <1>6, <2>1, <2>2
<1> HIDE DEF next, L
<1>8. ASSUME NEW i \in DOMAIN out_messages'
      PROVE  \E k \in DOMAIN out_messages :
               /\ k # at
               /\ out_messages'[i].mid = out_messages[k].mid
               /\ out_messages'[i].qos = out_messages[k].qos
               /\ \/ out_messages'[i].state = out_messages[k].state
                  \/ /\ out_messages[k].state = "invalid"
                     /\ out_messages'[i].state \notin {"invalid", "wait_for_pubcomp"}
  <2>1. i \in 1 .. L /\ out_messages'[i] = next[i]
    BY <1>1, <1>3
  <2>2. CASE i \in up
    BY <1>4, <1>5, <1>7, <2>1, <2>2
  <2>3. CASE i \notin up
    BY <1>4, <1>7, <2>1, <2>3
  <2> QED
    BY <2>2, <2>3
<1>9. ASSUME NEW k \in DOMAIN out_messages, k # at
      PROVE  \E i \in DOMAIN out_messages' : out_messages'[i].mid = out_messages[k].mid
  <2> DEFINE i == IF k < at THEN k ELSE k - 1
  <2>1. i \in 1 .. L /\ Old(i) = k
    BY <1>3, <1>9
  <2> HIDE DEF i
  <2> QED
    BY <1>1, <1>3, <1>4, <1>7, <2>1
<1>10. /\ Cardinality(up) \in Nat
       /\ \A n \in 1 .. Cardinality(up) : InOrder(up)[n] \in up
       /\ \A n, k \in 1 .. Cardinality(up) : InOrder(up)[n] = InOrder(up)[k] => n = k
  BY <1>3, <1>5, PositionsFinite, InOrderInSet, InOrderDiffers
<1>11. ASSUME NEW n \in 1 .. Cardinality(up)
       PROVE  /\ ps[n] \in ToBrokerPackets /\ ps[n].type = "PUBLISH"
              /\ InOrder(up)[n] \in 1 .. L
              /\ LET k == Old(InOrder(up)[n])
                 IN  /\ k \in DOMAIN out_messages /\ k # at /\ out_messages[k].state = "invalid"
                     /\ ps[n].mid = out_messages[k].mid
                     /\ ps[n].id = out_messages[k].id /\ ps[n].qos = out_messages[k].qos
                     /\ \E i \in DOMAIN out_messages' :
                          k <= i + 1 /\ out_messages'[i].state # "invalid"
  <2>1. PICK i \in up : i = InOrder(up)[n]
    BY <1>10
  <2>2. ps[n] = PublishPacket(next[i])
    BY <2>1
  <2>3. i \in 1 .. L /\ rest[i].state = "invalid"
    BY <1>5
  <2>4. /\ next[i] \in Messages /\ next[i].mid = rest[i].mid
        /\ next[i].id = rest[i].id /\ next[i].qos = rest[i].qos
    BY <1>7, <2>3
  <2>5. /\ ps[n] \in PublishPackets /\ ps[n].type = "PUBLISH" /\ ps[n].mid = rest[i].mid
        /\ ps[n].id = rest[i].id /\ ps[n].qos = rest[i].qos
    BY <2>2, <2>4 DEF PublishPacket, PublishPackets, Messages
  <2>6. Old(i) \in DOMAIN out_messages /\ Old(i) # at /\ rest[i] = out_messages[Old(i)]
    BY <1>4, <2>3
  <2>7. /\ i \in DOMAIN out_messages' /\ Old(i) <= i + 1
        /\ out_messages'[i].state # "invalid"
    BY <1>1, <1>3, <1>7, <2>1, <2>3
  <2> HIDE DEF ps, Old
  <2> QED
    BY <2>1, <2>3, <2>5, <2>6, <2>7 DEF ToBrokerPackets
<1>12. ps \in Seq(ToBrokerPackets) /\ DOMAIN ps = 1 .. Cardinality(up)
  <2>1. ps \in [1 .. Cardinality(up) -> ToBrokerPackets]
    <3>1. ps = [n \in 1 .. Cardinality(up) |-> ps[n]]
      OBVIOUS
    <3> HIDE DEF ps
    <3> QED
      BY <1>11, <3>1
  <2> HIDE DEF ps
  <2> QED
    BY <1>10, <2>1
<1>13. BrokerOrder(ps)
  <2>1. ASSUME NEW i \in DOMAIN ps, NEW j \in DOMAIN ps, i < j
        PROVE  ps[i].mid # ps[j].mid
    <3> DEFINE x == Old(InOrder(up)[i])
               y == Old(InOrder(up)[j])
    <3>1. InOrder(up)[i] # InOrder(up)[j]
      BY <1>10, <1>12, <2>1
    <3>2. InOrder(up)[i] \in 1 .. L /\ InOrder(up)[j] \in 1 .. L
      BY <1>11, <1>12
    <3>3. x # y
      BY <1>3, <3>1, <3>2
    <3>4. /\ x \in DOMAIN out_messages /\ ps[i].mid = out_messages[x].mid
          /\ y \in DOMAIN out_messages /\ ps[j].mid = out_messages[y].mid
      BY <1>11, <1>12
    <3> HIDE DEF x, y, ps
    <3> QED
      BY <3>3, <3>4, MidsDiffer
  <2> HIDE DEF ps
  <2> QED
    BY <2>1 DEF BrokerOrder
<1> HIDE DEF ps
<1>14. \A p \in Packets(ps) : \E k \in DOMAIN out_messages :
         /\ k # at /\ out_messages[k].state = "invalid"
         /\ p.type = "PUBLISH" /\ p.mid = out_messages[k].mid
         /\ p.id = out_messages[k].id /\ p.qos = out_messages[k].qos
         /\ \E i \in DOMAIN out_messages' :
              k <= i + 1 /\ out_messages'[i].state # "invalid"
  BY <1>11, <1>12 DEF Packets
<1>15. ASSUME NEW i \in DOMAIN out_messages', out_messages'[i].state # "invalid"
       PROVE  \/ \E p \in Packets(ps) : p.mid = out_messages'[i].mid
              \/ \E k \in DOMAIN out_messages :
                   out_messages[k].state # "invalid" /\ out_messages[k].mid = out_messages'[i].mid
  <2>1. i \in 1 .. L /\ out_messages'[i] = next[i]
    BY <1>1, <1>3
  <2>2. CASE i \in up
    <3>1. PICK n \in 1 .. Cardinality(up) : InOrder(up)[n] = i
      BY <1>3, <1>5, <2>2, InOrderOnto
    <3>2. ps[n] \in Packets(ps) /\ ps[n].mid = out_messages[Old(i)].mid
      BY <1>11, <1>12, <3>1, PacketsOf
    <3>3. out_messages'[i].mid = out_messages[Old(i)].mid
      BY <1>4, <1>7, <2>1
    <3> QED
      BY <3>2, <3>3
  <2>3. CASE i \notin up
    BY <1>4, <1>7, <1>15, <2>1, <2>3
  <2> QED
    BY <2>2, <2>3
<1> QED
  BY <1>1, <1>2, <1>8, <1>9, <1>12, <1>13, <1>14, <1>15 DEF at

LEMMA HandlePubackcompDelivery ==
  ASSUME DeliveryInv, WindowInv', HandlePubackcomp
  PROVE  DeliveryInv'
<1> DEFINE ack == Head(toClient)
<1>1. PICK k : k = ack.mid
  OBVIOUS
<1>2. PICK at : at = MidIndex(Head(toClient).mid)
  OBVIOUS
<1>3. /\ toClient # <<>> /\ ack.type \in {"PUBACK", "PUBCOMP"} /\ toClient' = Tail(toClient)
      /\ UNCHANGED <<pending, conn, held, accepted, delivered>>
      /\ reported' = [reported EXCEPT ![out_messages[at].id] = CountUp(@)]
  BY <1>2 DEF HandlePubackcomp
<1>4. /\ WindowInv /\ TypeOK /\ toClient \in Seq(ToClientPackets)
      /\ BrokerOrder(toBroker) /\ ClientOrder(toClient)
  BY DEF DeliveryInv, WindowInv, TypeOK
<1>5. /\ at \in DOMAIN out_messages /\ out_messages[at].mid = k
      /\ \A i \in DOMAIN out_messages' : \E j \in DOMAIN out_messages :
           /\ j # at
           /\ out_messages'[i].mid = out_messages[j].mid
           /\ out_messages'[i].qos = out_messages[j].qos
           /\ \/ out_messages'[i].state = out_messages[j].state
              \/ /\ out_messages[j].state = "invalid"
                 /\ out_messages'[i].state \notin {"invalid", "wait_for_pubcomp"}
      /\ \A j \in DOMAIN out_messages : j # at =>
           \E i \in DOMAIN out_messages' : out_messages'[i].mid = out_messages[j].mid
      /\ \E ps \in Seq(ToBrokerPackets) :
           /\ Send(ps)
           /\ BrokerOrder(ps)
           /\ \A p \in Packets(ps) : \E j \in DOMAIN out_messages :
                /\ j # at /\ out_messages[j].state = "invalid"
                /\ p.type = "PUBLISH" /\ p.mid = out_messages[j].mid
                /\ p.id = out_messages[j].id /\ p.qos = out_messages[j].qos
  BY <1>1, <1>2, <1>4, RemoveAndPromote
<1>6. /\ ack \in Packets(toClient)
      /\ Packets(toClient') \subseteq Packets(toClient) /\ ClientOrder(toClient')
  BY <1>3, <1>4, PacketsOfTail, OrderOfTail
<1>7. \A q \in Packets(toClient') : q.type = "PUBREC" => q.mid # k
  <2>1. ASSUME NEW q \in Packets(toClient'), q.type = "PUBREC", q.mid = k
        PROVE  FALSE
    <3>1. CASE ack.type = "PUBACK"
      BY <1>1, <1>6, <2>1, <3>1 DEF DeliveryInv, Names
    <3>2. CASE ack.type = "PUBCOMP"
      <4>1. PICK j \in DOMAIN toClient :
              1 < j /\ 1 \in DOMAIN toClient /\ toClient[j] = q /\ toClient[1] = ack
        BY <1>3, <1>4, TailIsLater
      <4> QED
        BY <1>1, <1>4, <2>1, <3>2, <4>1 DEF ClientOrder
    <3> QED
      BY <1>3, <3>1, <3>2
  <2> QED
    BY <2>1
<1>8. \A q \in Packets(toBroker) : (q.type = "PUBLISH" /\ q.qos = 2) => q.mid # k
  BY <1>1, <1>3, <1>6 DEF DeliveryInv, Names, Exchange
<1>9. \A r \in pending : r.mid # k
  BY <1>1, <1>6 DEF DeliveryInv, Untouched, NoPacket
<1> HIDE DEF ack
<1>10. PICK ps \in Seq(ToBrokerPackets) :
         /\ Send(ps)
         /\ BrokerOrder(ps)
         /\ \A p \in Packets(ps) : \E j \in DOMAIN out_messages :
              /\ j # at /\ out_messages[j].state = "invalid"
              /\ p.type = "PUBLISH" /\ p.mid = out_messages[j].mid
              /\ p.id = out_messages[j].id /\ p.qos = out_messages[j].qos
  BY <1>5
<1>11. \A j \in DOMAIN out_messages : j # at <=> out_messages[j].mid # k
  BY <1>4, <1>5, MidsDiffer
<1>12. /\ \A n : n # k /\ Listed(out_messages, n) => Listed(out_messages', n)
       /\ \A n : Released(out_messages, n) => Released(out_messages', n)
  <2>1. \A n : n # k /\ Listed(out_messages, n) => Listed(out_messages', n)
    BY <1>5, <1>11 DEF Listed
  <2>2. \A n : Released(out_messages, n) => Released(out_messages', n)
    BY <1>5 DEF Released
  <2> QED
    BY <2>1, <2>2
<1>13. ASSUME NEW p \in Packets(ps)
       PROVE  /\ p.type = "PUBLISH" /\ p.mid # k /\ p.id = p.mid /\ p.qos # 0
              /\ p.qos = accepted[p.mid]
              /\ Listed(out_messages, p.mid)
              /\ delivered[p.mid] = 0 /\ ~ Holds(held, p.mid)
              /\ NoPacket(toBroker, p.mid) /\ NoPacket(toClient, p.mid)
              /\ \A r \in pending : r.mid # p.mid
  <2>1. PICK j \in DOMAIN out_messages :
          /\ j # at /\ out_messages[j].state = "invalid"
          /\ p.type = "PUBLISH" /\ p.mid = out_messages[j].mid
          /\ p.id = out_messages[j].id /\ p.qos = out_messages[j].qos
    BY <1>10
  <2>2. out_messages[j] \in Messages /\ out_messages[j].id = out_messages[j].mid
    BY <1>4, NamedIds
  <2>3. p.qos # 0 /\ p.id = p.mid /\ p.mid # k
    BY <1>11, <2>1, <2>2 DEF Messages
  <2>4. p.qos = accepted[p.mid] /\ delivered[p.mid] = 0 /\ ~ Holds(held, p.mid)
    BY <2>1 DEF DeliveryInv, Names, Untouched
  <2>5. /\ NoPacket(toBroker, p.mid) /\ NoPacket(toClient, p.mid)
        /\ \A r \in pending : r.mid # p.mid
    BY <1>4, <2>1, NamedIds DEF NoPacket, KnownMid, KnownIn
  <2> QED
    BY <2>1, <2>3, <2>4, <2>5 DEF Listed
<1>14. Packets(toBroker') \subseteq Packets(toBroker) \cup Packets(ps) /\ BrokerOrder(toBroker')
  BY <1>4, <1>10, <1>13, SendPackets DEF NoPacket
<1>15. \A n \in Ids : n # k => reported'[n] = reported[n]
  <2>1. out_messages[at].id = k /\ reported \in [Ids -> 0 .. 2]
    BY <1>4, <1>5, NamedIds DEF TypeOK
  <2> QED
    BY <1>3, <2>1
<1>16. Names'
  <2>1. \A i \in DOMAIN out_messages' :
          /\ out_messages'[i].qos = accepted[out_messages'[i].mid]
          /\ out_messages'[i].qos = 1 => out_messages'[i].state # "wait_for_pubcomp"
    BY <1>5 DEF DeliveryInv, Names
  <2>2. ASSUME NEW p \in Packets(toBroker')
        PROVE  IF p.type = "PUBLISH"
               THEN p.id = p.mid /\ p.qos = accepted[p.mid] /\ (p.qos = 0 => ~ p.dup)
               ELSE accepted[p.mid] = 2
    BY <1>13, <1>14 DEF DeliveryInv, Names
  <2>3. \A p \in Packets(toClient') : accepted[p.mid] = IF p.type = "PUBACK" THEN 1 ELSE 2
    BY <1>6 DEF DeliveryInv, Names
  <2> QED
    BY <1>3, <2>1, <2>2, <2>3 DEF DeliveryInv, Names
<1>17. Untouched'
  <2>1. \A n \in Ids : n > Len(accepted) => delivered[n] = 0 /\ reported'[n] = 0
    <3>1. k \in 1 .. Len(accepted) /\ Len(accepted) \in Nat
      BY <1>4, <1>5, NamedIds
    <3> QED
      BY <1>15, <3>1 DEF DeliveryInv, Untouched, Ids
  <2>2. ASSUME NEW i \in DOMAIN out_messages'
        PROVE  /\ reported'[out_messages'[i].mid] = 0
               /\ out_messages'[i].state = "invalid" =>
                    delivered[out_messages'[i].mid] = 0 /\ ~ Holds(held, out_messages'[i].mid)
    <3>1. PICK j \in DOMAIN out_messages :
            /\ j # at /\ out_messages'[i].mid = out_messages[j].mid
            /\ out_messages'[i].state = "invalid" => out_messages[j].state = "invalid"
      BY <1>5
    <3>2. out_messages[j].mid \in Ids /\ out_messages[j].mid # k
      BY <1>4, <1>11, <3>1, NamedIds
    <3> QED
      BY <1>15, <3>1, <3>2 DEF DeliveryInv, Untouched
  <2>3. ASSUME NEW r \in pending
        PROVE  /\ Listed(out_messages', r.mid)
               /\ delivered[r.mid] = 0 /\ ~ Holds(held, r.mid)
               /\ NoPacket(toBroker', r.mid) /\ NoPacket(toClient', r.mid)
    BY <1>6, <1>9, <1>12, <1>13, <1>14 DEF DeliveryInv, Untouched, NoPacket
  <2> QED
    BY <1>3, <2>1, <2>2, <2>3 DEF Untouched
<1>18. Exchange'
  <2>1. ASSUME NEW p \in Packets(toBroker')
        PROVE  IF p.type = "PUBLISH"
               THEN p.qos = 2 => Listed(out_messages', p.mid) /\ delivered[p.mid] = 0
               ELSE Released(out_messages', p.mid)
    BY <1>8, <1>12, <1>13, <1>14 DEF DeliveryInv, Exchange
  <2>2. ASSUME NEW p \in Packets(toClient')
        PROVE  /\ p.type = "PUBREC" => Listed(out_messages', p.mid)
               /\ p.type = "PUBCOMP" =>
                    /\ Released(out_messages', p.mid)
                    /\ \A q \in Packets(toBroker') : q.type = "PUBLISH" => q.mid # p.mid
    BY <1>6, <1>7, <1>12, <1>13, <1>14 DEF DeliveryInv, Exchange, NoPacket
  <2>3. /\ \A h \in held : delivered[h.mid] = 0
        /\ \A n \in 1 .. Len(accepted) :
             (accepted[n] = 2 /\ delivered[n] > 0) =>
               delivered[n] = 1 /\ Released(out_messages', n)
    BY <1>12 DEF DeliveryInv, Exchange
  <2> QED
    BY <1>3, <2>1, <2>2, <2>3 DEF Exchange
<1>19. Marking'
  BY <1>3, <1>13, <1>14 DEF DeliveryInv, Marking
<1> QED
  BY <1>3, <1>6, <1>14, <1>16, <1>17, <1>18, <1>19 DEF DeliveryInv

-----------------------------------------------------------------------------
LEMMA InitDelivery == Init => DeliveryInv
<1> SUFFICES ASSUME Init
             PROVE  DeliveryInv
  OBVIOUS
<1>1. WindowInv
  BY InitWindow
<1>2. Packets(toBroker) = {} /\ Packets(toClient) = {} /\ DOMAIN out_messages = {}
      /\ BrokerOrder(toBroker) /\ ClientOrder(toClient)
  BY DEF Init, Packets, BrokerOrder, ClientOrder
<1>3. Names /\ Untouched /\ Exchange /\ Marking
  BY <1>2 DEF Init, Names, Untouched, Exchange, Marking
<1> QED
  BY <1>1, <1>2, <1>3 DEF Init, DeliveryInv

(* The errors cannot occur: a PUBREC finds its message, and publish() too. *)
LEMMA AckFindsMessage ==
  ASSUME DeliveryInv
  PROVE  ~ HandlePubrecUnknown /\ ~ SendPublishFreed /\ SendsLiveMessage
<1>1. SendsLiveMessage
  <2>1. ASSUME NEW p \in pending
        PROVE  \E i \in DOMAIN out_messages : out_messages[i].id = p.id
    <3>1. Listed(out_messages, p.mid) /\ p.id = p.mid
      BY NamedIds DEF DeliveryInv, Untouched
    <3> QED
      BY <3>1, NamedIds DEF DeliveryInv, Listed
  <2> QED
    BY <2>1 DEF SendsLiveMessage
<1>2. ASSUME HandlePubrecUnknown
      PROVE  FALSE
  <2>1. /\ toClient # <<>> /\ Head(toClient).type = "PUBREC" /\ ~ HasMid(Head(toClient).mid)
        /\ toClient \in Seq(ToClientPackets)
    BY <1>2 DEF HandlePubrecUnknown, DeliveryInv, WindowInv, TypeOK
  <2>2. Head(toClient) \in Packets(toClient)
    BY <2>1, PacketsOfTail
  <2>3. Listed(out_messages, Head(toClient).mid)
    BY <2>1, <2>2 DEF DeliveryInv, Exchange
  <2> QED
    BY <2>1, <2>3 DEF Listed, HasMid
<1> QED
  BY <1>1, <1>2 DEF SendPublishFreed, SendsLiveMessage

LEMMA NextDelivery ==
  ASSUME NoWrap, ~ LateSend, DeliveryInv, [Next]_vars
  PROVE  DeliveryInv'
<1>1. WindowInv'
  BY NextWindow DEF DeliveryInv
<1>2. CASE Quiescent \/ UNCHANGED vars
  <2>1. UNCHANGED vars
    BY <1>2 DEF Quiescent
  <2>2. UNCHANGED <<out_messages, accepted, delivered, reported, conn, held, pending,
                    toBroker, toClient>>
    BY <2>1 DEF vars, client, history
  <2>3. /\ conn \notin {"ended", "crashed"} /\ BrokerOrder(toBroker) /\ ClientOrder(toClient)
        /\ \A i \in DOMAIN out_messages :
             out_messages[i].qos = 1 => out_messages[i].state # "wait_for_pubcomp"
    BY DEF DeliveryInv, Names
  <2> QED
    BY <1>1, <2>2, <2>3, QuietDelivery
<1> QED
  BY <1>1, <1>2, AckFindsMessage, PublishQos0Delivery, PublishQueueDelivery, SendPublishDelivery,
     HandlePubackcompDelivery, HandlePubrecDelivery, RetryCheckDelivery, ConnDelivery,
     ReconnectResetDelivery, TickDelivery, BrokerPublishDelivery, BrokerPubrelDelivery
  DEF Next

LEMMA DeliveryInvariant ==
  ASSUME NoWrap, ~ LateSend
  PROVE  Spec => []DeliveryInv
<1>1. DeliveryInv /\ [Next]_vars => DeliveryInv'
  BY NextDelivery
<1> QED
  BY <1>1, InitDelivery, PTL DEF Spec

\* With a broker that keeps to the protocol _mosquitto_handle_pubrec always finds the
\* message, so it never returns the error that ends the network thread.
THEOREM PubrecNeverFatalCorrect ==
  ASSUME NoWrap, ~ LateSend
  PROVE  Spec => []PubrecNeverFatal
<1>1. DeliveryInv => PubrecNeverFatal
  BY DEF DeliveryInv, PubrecNeverFatal
<1> QED
  BY <1>1, DeliveryInvariant, PTL

\* mosquitto_publish sends through a pointer to a message that is still in the list,
\* unless a retry pass runs between its two halves.
THEOREM SendsLiveMessageCorrect ==
  ASSUME NoWrap, ~ LateSend
  PROVE  Spec => []SendsLiveMessage
<1>1. DeliveryInv => SendsLiveMessage
  BY AckFindsMessage
<1> QED
  BY <1>1, DeliveryInvariant, PTL

\* _mosquitto_message_retry_check marks every PUBLISH that the broker may know already,
\* whatever was lost, and the promoted messages are really sent for the first time.
THEOREM ResentIsMarkedCorrect ==
  ASSUME NoWrap, ~ LateSend
  PROVE  Spec => []ResentIsMarked
<1>1. DeliveryInv => ResentIsMarked
  <2>1. SUFFICES ASSUME DeliveryInv, NEW i \in DOMAIN toBroker,
                        toBroker[i].type = "PUBLISH", ~ toBroker[i].dup
                 PROVE  /\ delivered[toBroker[i].id] = 0
                        /\ \A h \in held : h.id # toBroker[i].id
    BY DEF ResentIsMarked
  <2>2. toBroker[i] \in Packets(toBroker)
    BY PacketsOf
  <2>3. /\ toBroker[i].id = toBroker[i].mid /\ delivered[toBroker[i].mid] = 0
        /\ ~ Holds(held, toBroker[i].mid) /\ \A h \in held : h.id = h.mid
    BY <2>1, <2>2 DEF DeliveryInv, Names, Marking
  <2> QED
    BY <2>3 DEF Holds
<1> QED
  BY <1>1, DeliveryInvariant, PTL

\* QoS 2 is exactly once, with retries, lost connections and repeated acknowledgements,
\* also if the broker forgets the session.
THEOREM ExactlyOnceCorrect ==
  ASSUME NoWrap, ~ LateSend
  PROVE  Spec => []ExactlyOnce
<1>1. DeliveryInv => ExactlyOnce
  <2>1. SUFFICES ASSUME DeliveryInv, NEW k \in 1 .. Len(accepted), accepted[k] = 2
                 PROVE  delivered[k] <= 1
    BY DEF ExactlyOnce
  <2>2. delivered[k] \in 0 .. 2
    BY <2>1, NamedIds DEF DeliveryInv, WindowInv, TypeOK
  <2> QED
    BY <2>1, <2>2 DEF DeliveryInv, Exchange
<1> QED
  BY <1>1, DeliveryInvariant, PTL

-----------------------------------------------------------------------------
(* The broker keeps the session: what it has, it has for good.             *)
LEMMA SessionFrame ==
  ASSUME DeliveryInv, SessionInv, ReportedAfterDelivery',
         \A k \in Ids : delivered[k] > 0 => delivered'[k] > 0,
         \A k \in Ids : Kept(delivered, held, k) => Kept(delivered', held', k),
         \A p \in Packets(toBroker') \ Packets(toBroker) :
           p.type = "PUBREL" => Kept(delivered', held', p.mid),
         \A p \in Packets(toClient') \ Packets(toClient) :
           /\ p.type = "PUBREC" => Kept(delivered', held', p.mid)
           /\ p.type \in {"PUBACK", "PUBCOMP"} => delivered'[p.mid] > 0,
         \A i \in DOMAIN out_messages' : out_messages'[i].state = "wait_for_pubcomp" =>
           \/ Kept(delivered', held', out_messages'[i].mid)
           \/ \E j \in DOMAIN out_messages :
                /\ out_messages[j].state = "wait_for_pubcomp"
                /\ out_messages[j].mid = out_messages'[i].mid
  PROVE  SessionInv'
<1>1. /\ \A i \in DOMAIN out_messages : out_messages[i].mid \in Ids
      /\ \A p \in Packets(toBroker) : p.mid \in Ids
      /\ \A p \in Packets(toClient) : p.mid \in Ids
  BY NamedIds DEF DeliveryInv
<1>2. \A p \in Packets(toBroker') : p.type = "PUBREL" => Kept(delivered', held', p.mid)
  BY <1>1 DEF SessionInv
<1>3. \A p \in Packets(toClient') :
        /\ p.type = "PUBREC" => Kept(delivered', held', p.mid)
        /\ p.type \in {"PUBACK", "PUBCOMP"} => delivered'[p.mid] > 0
  BY <1>1 DEF SessionInv
<1>4. \A i \in DOMAIN out_messages' : out_messages'[i].state = "wait_for_pubcomp" =>
        Kept(delivered', held', out_messages'[i].mid)
  BY <1>1 DEF SessionInv
<1> QED
  BY <1>2, <1>3, <1>4 DEF SessionInv

(* ... among them the steps in which neither the broker nor on_publish     *)
(* takes part.                                                             *)
LEMMA SessionQuiet ==
  ASSUME DeliveryInv, SessionInv, UNCHANGED <<held, delivered, reported>>,
         \A p \in Packets(toBroker') \ Packets(toBroker) :
           p.type = "PUBREL" => Kept(delivered, held, p.mid),
         Packets(toClient') \subseteq Packets(toClient),
         \A i \in DOMAIN out_messages' : out_messages'[i].state = "wait_for_pubcomp" =>
           \/ Kept(delivered, held, out_messages'[i].mid)
           \/ \E j \in DOMAIN out_messages :
                /\ out_messages[j].state = "wait_for_pubcomp"
                /\ out_messages[j].mid = out_messages'[i].mid
  PROVE  SessionInv'
<1>1. ReportedAfterDelivery'
  BY DEF SessionInv, ReportedAfterDelivery
<1> QED
  BY <1>1, SessionFrame

LEMMA SentPackets ==
  ASSUME TypeOK, NEW ps \in Seq(ToBrokerPackets), Send(ps)
  PROVE  Packets(toBroker') \subseteq Packets(toBroker) \cup Packets(ps)
BY SendKnown DEF Packets

LEMMA PublishSession ==
  ASSUME DeliveryInv, SessionInv, DeliveryInv',
         PublishQos0 \/ (\E q \in {1, 2} : PublishQueue(q)) \/ SendPublish
  PROVE  SessionInv'
<1>1. UNCHANGED <<held, delivered, reported, toClient>>
  BY DEF PublishQos0, PublishQueue, SendPublish, history
<1>2. ASSUME NEW m, Send(<<PublishPacket(m)>>), PublishPacket(m) \in ToBrokerPackets
      PROVE  \A p \in Packets(toBroker') \ Packets(toBroker) : p.type # "PUBREL"
  <2> DEFINE q == PublishPacket(m)
  <2>1. q.type = "PUBLISH"
    BY DEF PublishPacket
  <2> HIDE DEF q
  <2>2. <<q>> \in Seq(ToBrokerPackets) /\ Packets(<<q>>) = {q}
    BY <1>2, OnePacket DEF q
  <2>3. Packets(toBroker') \subseteq Packets(toBroker) \cup {q}
    BY <1>2, <2>2, SentPackets DEF q, DeliveryInv, WindowInv
  <2> QED
    BY <2>1, <2>3
<1>3. CASE PublishQos0
  <2>1. UNCHANGED out_messages
    BY <1>3 DEF PublishQos0
  <2>2. \A p \in Packets(toBroker') \ Packets(toBroker) : p.type # "PUBREL"
    <3> DEFINE m == [mid |-> last_mid', id |-> Len(accepted'), qos |-> 0, dup |-> FALSE]
    <3>1. last_mid' \in Mids /\ Len(accepted') \in Ids
      <4>1. Len(accepted) < MaxPublishes /\ last_mid' = MidGenerate(last_mid)
            /\ accepted' = Append(accepted, 0) /\ accepted \in Seq(0 .. 2)
        BY <1>3 DEF PublishQos0, DeliveryInv, WindowInv, TypeOK
      <4>2. Len(accepted') = Len(accepted) + 1 /\ Len(accepted) \in Nat
        BY <4>1
      <4>3. last_mid \in Nat /\ MidSpace \in Nat \ {0} /\ MaxPublishes \in Nat
        BY ConstantsAssumption DEF DeliveryInv, WindowInv, TypeOK
      <4>4. last_mid % MidSpace \in 0 .. (MidSpace - 1)
        BY <4>3
      <4> QED
        BY <4>1, <4>2, <4>3, <4>4 DEF MidGenerate, Mids, Ids
    <3>2. PublishPacket(m) \in ToBrokerPackets
      BY <3>1 DEF PublishPacket, PublishPackets, ToBrokerPackets
    <3>3. Send(<<PublishPacket(m)>>)
      BY <1>3 DEF PublishQos0
    <3> HIDE DEF m
    <3> QED
      BY <1>2, <3>2, <3>3
  <2> QED
    BY <1>1, <2>1, <2>2, SessionQuiet
<1>4. CASE \E q \in {1, 2} : PublishQueue(q)
  <2>1. PICK q \in {1, 2} : PublishQueue(q)
    BY <1>4
  <2>2. PICK m : out_messages' = Append(out_messages, m) /\ m.state # "wait_for_pubcomp"
    BY <2>1 DEF PublishQueue, WaitState
  <2>3. out_messages \in Seq(Messages) /\ UNCHANGED toBroker
    BY <2>1 DEF PublishQueue, DeliveryInv, WindowInv, TypeOK
  <2>4. \A i \in DOMAIN out_messages' :
          \/ out_messages'[i] = m
          \/ i \in DOMAIN out_messages /\ out_messages'[i] = out_messages[i]
    BY <2>2, <2>3
  <2> QED
    BY <1>1, <2>2, <2>3, <2>4, SessionQuiet
<1>5. CASE SendPublish
  <2>1. PICK i \in DOMAIN out_messages : Send(<<PublishPacket(out_messages[i])>>)
    BY <1>5 DEF SendPublish
  <2>2. PublishPacket(out_messages[i]) \in ToBrokerPackets
    BY NamedIds DEF DeliveryInv, PublishPacket, PublishPackets, ToBrokerPackets, Messages
  <2>3. \A p \in Packets(toBroker') \ Packets(toBroker) : p.type # "PUBREL"
    BY <1>2, <2>1, <2>2
  <2>4. UNCHANGED out_messages
    BY <1>5 DEF SendPublish, client
  <2> QED
    BY <1>1, <2>3, <2>4, SessionQuiet
<1> QED
  BY <1>3, <1>4, <1>5

LEMMA ConnSession ==
  ASSUME CleanSession => conn # "resetting", DeliveryInv, SessionInv,
         \/ ConnLost \/ SocketConnect \/ SocketConnectFails \/ HandlePubackcompUnknown
         \/ ReconnectReset \/ (\E i \in 1 .. MaxPublishes : Tick(i))
         \/ Quiescent \/ UNCHANGED vars
  PROVE  SessionInv'
<1>1. /\ UNCHANGED <<held, delivered, reported>>
      /\ toBroker' \in {toBroker, <<>>}
      /\ toClient' \in {toClient, <<>>} \/ (toClient # <<>> /\ toClient' = Tail(toClient))
  BY DEF ConnLost, SocketConnect, SocketConnectFails, HandlePubackcompUnknown, ReconnectReset,
         Tick, Quiescent, vars, client, history
<1>2. Packets(<<>>) = {}
  BY DEF Packets
<1>3. Packets(toBroker') \subseteq Packets(toBroker) /\ Packets(toClient') \subseteq Packets(toClient)
  BY <1>1, <1>2, PacketsOfTail DEF DeliveryInv, WindowInv, TypeOK
<1>4. CASE UNCHANGED out_messages
  BY <1>1, <1>3, <1>4, SessionQuiet
<1>5. ASSUME NEW n, Tick(n)
      PROVE  SessionInv'
  <2>1. n \in DOMAIN out_messages /\ out_messages' = [out_messages EXCEPT ![n].due = TRUE]
    BY <1>5 DEF Tick
  <2>2. ASSUME NEW i \in DOMAIN out_messages
        PROVE  /\ out_messages'[i].state = out_messages[i].state
               /\ out_messages'[i].mid = out_messages[i].mid
    <3>1. out_messages[i] \in Messages
      BY NamedIds DEF DeliveryInv
    <3> QED
      BY <2>1, <3>1 DEF Messages
  <2>3. DOMAIN out_messages' = DOMAIN out_messages
    BY <2>1
  <2> QED
    BY <1>1, <1>3, <2>2, <2>3, SessionQuiet
<1>6. CASE ReconnectReset
  <2>1. out_messages' = [i \in DOMAIN out_messages |-> Reset(i)]
    BY <1>6 DEF ReconnectReset
  <2>2. ASSUME NEW i \in DOMAIN out_messages
        PROVE  /\ out_messages'[i].state = "wait_for_pubcomp" =>
                    out_messages[i].state = "wait_for_pubcomp"
               /\ out_messages'[i].mid = out_messages[i].mid
    <3>1. out_messages[i] \in Messages
      BY NamedIds DEF DeliveryInv
    <3> QED
      BY <2>1, <3>1 DEF Reset, Messages
  <2>3. DOMAIN out_messages' = DOMAIN out_messages
    BY <2>1
  <2> QED
    BY <1>1, <1>3, <2>2, <2>3, SessionQuiet
<1> QED
  BY <1>4, <1>5, <1>6 DEF ConnLost, SocketConnect, SocketConnectFails, HandlePubackcompUnknown,
                          Quiescent, vars, client

LEMMA HandlePubrecSession ==
  ASSUME DeliveryInv, SessionInv, HandlePubrec
  PROVE  SessionInv'
<1> DEFINE mid == Head(toClient).mid
           k == MidIndex(mid)
           q == MidPacket("PUBREL", mid)
<1>1. /\ toClient # <<>> /\ Head(toClient).type = "PUBREC" /\ HasMid(mid)
      /\ toClient' = Tail(toClient)
      /\ Send(<<q>>)
      /\ out_messages' = [out_messages EXCEPT ![k].state = "wait_for_pubcomp", ![k].due = FALSE]
      /\ UNCHANGED <<held, delivered, reported>>
  BY DEF HandlePubrec, history
<1>2. TypeOK /\ MidsOrdered /\ toClient \in Seq(ToClientPackets)
  BY DEF DeliveryInv, WindowInv, TypeOK
<1>3. Head(toClient) \in Packets(toClient) /\ Packets(toClient') \subseteq Packets(toClient)
  BY <1>1, <1>2, PacketsOfTail
<1>4. Kept(delivered, held, mid)
  BY <1>1, <1>3 DEF SessionInv
<1>5. Head(toClient) \in ToClientPackets
  BY <1>3, NamedIds DEF DeliveryInv
<1>6. q \in ToBrokerPackets /\ q.mid = mid
  BY <1>5 DEF MidPacket, MidPackets, ToBrokerPackets, ToClientPackets
<1>7. k \in DOMAIN out_messages /\ out_messages[k].mid = mid
  BY <1>1, <1>2, MidIndexFound
<1> HIDE DEF q, k, mid
<1>8. <<q>> \in Seq(ToBrokerPackets) /\ Packets(<<q>>) = {q}
  BY <1>6, OnePacket
<1>9. Packets(toBroker') \subseteq Packets(toBroker) \cup {q}
  BY <1>1, <1>2, <1>8, SentPackets
<1>10. ASSUME NEW i \in DOMAIN out_messages
       PROVE  /\ out_messages'[i].mid = out_messages[i].mid
              /\ i # k => out_messages'[i].state = out_messages[i].state
  <2>1. out_messages[i] \in Messages
    BY NamedIds DEF DeliveryInv
  <2> QED
    BY <1>1, <1>7, <2>1 DEF Messages
<1>11. DOMAIN out_messages' = DOMAIN out_messages
  BY <1>1
<1> QED
  BY <1>1, <1>3, <1>4, <1>6, <1>7, <1>9, <1>10, <1>11, SessionQuiet

LEMMA RetryCheckSession ==
  ASSUME DeliveryInv, SessionInv, RetryCheck
  PROVE  SessionInv'
<1>1. UNCHANGED <<held, delivered, reported, toClient>>
  BY DEF RetryCheck, history
<1>2. PICK ps \in Seq(ToBrokerPackets) :
         /\ Send(ps)
         /\ \A p \in Packets(ps) : \E i \in DOMAIN out_messages :
              /\ p.mid = out_messages[i].mid
              /\ IF out_messages[i].state = "wait_for_pubcomp" THEN p.type = "PUBREL"
                 ELSE p.type = "PUBLISH"
  BY RetryPackets DEF DeliveryInv
<1>3. \A p \in Packets(ps) : p.type = "PUBREL" => Kept(delivered, held, p.mid)
  BY <1>2 DEF SessionInv
<1>4. Packets(toBroker') \subseteq Packets(toBroker) \cup Packets(ps)
  BY <1>2, SentPackets DEF DeliveryInv, WindowInv
<1>5. DOMAIN out_messages' = DOMAIN out_messages
  BY DEF RetryCheck
<1>6. ASSUME NEW i \in DOMAIN out_messages
      PROVE  /\ out_messages'[i].mid = out_messages[i].mid
             /\ out_messages'[i].state = out_messages[i].state
  <2>1. out_messages[i] \in Messages
    BY NamedIds DEF DeliveryInv
  <2>2. out_messages'[i] \in {out_messages[i], Retry(out_messages[i])}
    BY DEF RetryCheck
  <2> QED
    BY <2>1, <2>2 DEF Retry, Messages
<1> QED
  BY <1>1, <1>3, <1>4, <1>5, <1>6, SessionQuiet

(* The acknowledgement is for a message the broker has and no one reported. *)
LEMMA AckReports ==
  ASSUME DeliveryInv, SessionInv, HandlePubackcomp
  PROVE  \E k \in Ids :
           /\ k <= Len(accepted) /\ accepted[k] # 0
           /\ delivered[k] > 0 /\ reported[k] = 0
           /\ reported' = [reported EXCEPT ![k] = 1]
<1>1. PICK at : at = MidIndex(Head(toClient).mid)
  OBVIOUS
<1>2. /\ toClient # <<>> /\ Head(toClient).type \in {"PUBACK", "PUBCOMP"}
      /\ reported' = [reported EXCEPT ![out_messages[at].id] = CountUp(@)]
      /\ toClient \in Seq(ToClientPackets)
  BY <1>1 DEF HandlePubackcomp, DeliveryInv, WindowInv, TypeOK
<1>3. Head(toClient) \in Packets(toClient)
  BY <1>2, PacketsOfTail
<1>4. at \in DOMAIN out_messages /\ out_messages[at].mid = Head(toClient).mid
  BY <1>1, RemoveAndPromote DEF DeliveryInv
<1>5. PICK k : k = out_messages[at].mid
  OBVIOUS
<1>6. /\ out_messages[at] \in Messages /\ out_messages[at].id = k
      /\ k \in Ids /\ k \in 1 .. Len(accepted) /\ Len(accepted) \in Nat
  BY <1>4, <1>5, NamedIds DEF DeliveryInv
<1>7. delivered[k] > 0 /\ reported[k] = 0
  BY <1>2, <1>3, <1>4, <1>5 DEF SessionInv, DeliveryInv, Untouched
<1>8. accepted[k] # 0
  BY <1>2, <1>3, <1>4, <1>5 DEF DeliveryInv, Names
<1>9. reported' = [reported EXCEPT ![k] = 1]
  BY <1>2, <1>6, <1>7 DEF CountUp
<1>10. k <= Len(accepted)
  BY <1>6
<1> QED
  BY <1>6, <1>7, <1>8, <1>9, <1>10

LEMMA HandlePubackcompSession ==
  ASSUME DeliveryInv, SessionInv, HandlePubackcomp
  PROVE  SessionInv'
<1>1. UNCHANGED <<held, delivered>> /\ toClient # <<>> /\ toClient' = Tail(toClient)
  BY DEF HandlePubackcomp
<1>2. Packets(toClient') \subseteq Packets(toClient)
  BY <1>1, PacketsOfTail DEF DeliveryInv, WindowInv, TypeOK
<1>3. PICK ps \in Seq(ToBrokerPackets) :
        Send(ps) /\ \A p \in Packets(ps) : p.type = "PUBLISH"
  BY RemoveAndPromote DEF DeliveryInv
<1>4. Packets(toBroker') \subseteq Packets(toBroker) \cup Packets(ps)
  BY <1>3, SentPackets DEF DeliveryInv, WindowInv
<1>5. \A i \in DOMAIN out_messages' : out_messages'[i].state = "wait_for_pubcomp" =>
        \E j \in DOMAIN out_messages :
          /\ out_messages[j].state = "wait_for_pubcomp"
          /\ out_messages[j].mid = out_messages'[i].mid
  BY RemoveAndPromote DEF DeliveryInv
<1>6. ReportedAfterDelivery'
  <2>1. PICK k \in Ids : delivered[k] > 0 /\ reported' = [reported EXCEPT ![k] = 1]
    BY AckReports
  <2>2. reported \in [Ids -> 0 .. 2]
    BY DEF DeliveryInv, WindowInv, TypeOK
  <2>3. ASSUME NEW n \in Ids, reported'[n] > 0
        PROVE  delivered[n] > 0 /\ reported'[n] = 1
    BY <2>1, <2>2, <2>3 DEF SessionInv, ReportedAfterDelivery
  <2> QED
    BY <1>1, <2>3 DEF ReportedAfterDelivery
<1>7. \A p \in Packets(toBroker') \ Packets(toBroker) : p.type # "PUBREL"
  BY <1>3, <1>4
<1> QED
  BY <1>1, <1>2, <1>5, <1>6, <1>7, SessionFrame

(* A packet the broker reads is a first hand-over, or a PUBLISH of QoS 1   *)
(* once more, or changes nothing outside the broker.                       *)
Serves(k) ==
  /\ k \in Ids /\ k <= Len(accepted)
  /\ accepted[k] # 1 => delivered[k] = 0
  /\ Deliver(k)

LEMMA BrokerPublishServes ==
  ASSUME DeliveryInv, BrokerPublish
  PROVE  LET k == Head(toBroker).mid
         IN  /\ k \in Ids
             /\ IF Head(toBroker).qos = 2
                THEN /\ UNCHANGED delivered
                     /\ held \subseteq held' /\ Holds(held', k)
                     /\ toClient' = Append(toClient, MidPacket("PUBREC", k))
                ELSE /\ Serves(k) /\ UNCHANGED held
                     /\ toClient' \in {toClient, Append(toClient, MidPacket("PUBACK", k))}
<1> DEFINE p == Head(toBroker)
<1>1. toBroker # <<>> /\ p.type = "PUBLISH"
  BY DEF BrokerPublish
<1>2. PICK k : k = p.mid
  OBVIOUS
<1>3. p \in Packets(toBroker) /\ k \in 1 .. Len(accepted) /\ k \in Ids
  BY <1>1, <1>2, BrokerReads
<1>4. /\ p.id = k /\ p.qos = accepted[k] /\ (p.qos = 0 => ~ p.dup)
      /\ ~ p.dup => delivered[k] = 0
  BY <1>1, <1>2, <1>3 DEF DeliveryInv, Names, Marking
<1>5. Len(accepted) \in Nat
  BY NamedIds DEF DeliveryInv
<1>6. k <= Len(accepted)
  BY <1>3, <1>5
<1>7. CASE p.qos = 2
  <2>1. /\ held' = IF \E h \in held : h.mid = k THEN held
                   ELSE held \cup {[mid |-> k, id |-> k]}
        /\ toClient' = Append(toClient, MidPacket("PUBREC", k))
        /\ UNCHANGED delivered
    BY <1>2, <1>4, <1>7 DEF BrokerPublish
  <2>2. held \subseteq held' /\ Holds(held', k)
    <3>1. CASE \E h \in held : h.mid = k
      BY <2>1, <3>1 DEF Holds
    <3>2. CASE ~ (\E h \in held : h.mid = k)
      <4>1. PICK h : h = [mid |-> k, id |-> k]
        OBVIOUS
      <4>2. held' = held \cup {h} /\ h.mid = k
        BY <2>1, <3>2, <4>1
      <4> QED
        BY <4>2 DEF Holds
    <3> QED
      BY <3>1, <3>2
  <2> QED
    BY <1>2, <1>3, <1>7, <2>1, <2>2
<1>8. CASE p.qos # 2
  <2>1. /\ p.qos \in {0, 1} /\ Deliver(k) /\ UNCHANGED held
        /\ toClient' \in {toClient, Append(toClient, MidPacket("PUBACK", k))}
    BY <1>2, <1>4, <1>8 DEF BrokerPublish
  <2>2. accepted[k] # 1 => delivered[k] = 0
    BY <1>4, <2>1
  <2> QED
    BY <1>2, <1>3, <1>6, <1>8, <2>1, <2>2 DEF Serves
<1> QED
  BY <1>7, <1>8

LEMMA BrokerPubrelServes ==
  ASSUME DeliveryInv, BrokerPubrel
  PROVE  LET k == Head(toBroker).mid
         IN  /\ k \in Ids
             /\ toClient' = Append(toClient, MidPacket("PUBCOMP", k))
             /\ IF Holds(held, k)
                THEN Serves(k) /\ \A h \in held : h.mid # k => h \in held'
                ELSE UNCHANGED <<held, delivered>>
<1>1. toBroker # <<>>
  BY DEF BrokerPubrel
<1>2. PICK k : k = Head(toBroker).mid
  OBVIOUS
<1>3. k \in 1 .. Len(accepted) /\ k \in Ids /\ Len(accepted) \in Nat
  BY <1>1, <1>2, BrokerReads, NamedIds DEF DeliveryInv
<1>4. \A h \in held : h.id = h.mid /\ delivered[h.mid] = 0
  BY DEF DeliveryInv, Names, Exchange
<1>5. CASE Holds(held, k)
  <2>1. PICK h \in held : h.mid = k /\ Deliver(h.id) /\ held' = held \ {h}
    BY <1>2, <1>5 DEF BrokerPubrel, Holds
  <2>2. k <= Len(accepted) /\ Deliver(k) /\ delivered[k] = 0
    BY <1>3, <1>4, <2>1
  <2> QED
    BY <1>2, <1>3, <1>5, <2>1, <2>2 DEF BrokerPubrel, Serves
<1>6. CASE ~ Holds(held, k)
  BY <1>2, <1>3, <1>6 DEF BrokerPubrel, Holds
<1> QED
  BY <1>5, <1>6

LEMMA CountsUp ==
  ASSUME DeliveryInv, NEW k \in Ids, Deliver(k)
  PROVE  /\ delivered'[k] > 0
         /\ \A n \in Ids : n # k => delivered'[n] = delivered[n]
         /\ \A n \in Ids : delivered[n] > 0 => delivered'[n] > 0
<1>1. delivered \in [Ids -> 0 .. 2]
  BY DEF DeliveryInv, WindowInv, TypeOK
<1>2. delivered'[k] \in {1, 2} /\ \A n \in Ids : n # k => delivered'[n] = delivered[n]
  BY <1>1 DEF Deliver, CountUp
<1>3. delivered'[k] > 0
  BY <1>2
<1> QED
  BY <1>2, <1>3

LEMMA BrokerSession ==
  ASSUME DeliveryInv, SessionInv, BrokerPublish \/ BrokerPubrel
  PROVE  SessionInv'
<1>1. /\ toBroker # <<>> /\ toBroker' = Tail(toBroker) /\ UNCHANGED <<out_messages, reported>>
      /\ toBroker \in Seq(ToBrokerPackets) /\ toClient \in Seq(ToClientPackets)
  BY DEF BrokerPublish, BrokerPubrel, client, DeliveryInv, WindowInv, TypeOK
<1>2. PICK k : k = Head(toBroker).mid
  OBVIOUS
<1>3. /\ Packets(toBroker') \subseteq Packets(toBroker)
      /\ Head(toBroker) \in Packets(toBroker) /\ k \in Mids
  <2>1. Head(toBroker) \in ToBrokerPackets
    BY <1>1, BrokerReads
  <2> QED
    BY <1>1, <1>2, <2>1, BrokerReads DEF ToBrokerPackets, PublishPackets, MidPackets
<1>4. ASSUME \A n \in Ids : delivered[n] > 0 => delivered'[n] > 0
      PROVE  ReportedAfterDelivery'
  BY <1>1, <1>4 DEF SessionInv, ReportedAfterDelivery
<1>5. ASSUME NEW type \in {"PUBACK", "PUBREC", "PUBCOMP"},
             toClient' \in {toClient, Append(toClient, MidPacket(type, k))}
      PROVE  \A p \in Packets(toClient') \ Packets(toClient) : p.type = type /\ p.mid = k
  <2>1. PICK a : a = MidPacket(type, k)
    OBVIOUS
  <2>2. a.type = type /\ a.mid = k /\ toClient' \in {toClient, Append(toClient, a)}
    BY <1>5, <2>1 DEF MidPacket
  <2>3. \A i \in DOMAIN toClient' :
          toClient'[i] = a \/ (i \in DOMAIN toClient /\ toClient'[i] = toClient[i])
    BY <1>1, <2>2
  <2> QED
    BY <2>2, <2>3 DEF Packets
<1>6. CASE BrokerPublish
  <2>1. k \in Ids
    BY <1>2, <1>6, BrokerPublishServes
  <2>2. CASE Head(toBroker).qos = 2
    <3>1. /\ UNCHANGED delivered /\ held \subseteq held' /\ Holds(held', k)
          /\ toClient' = Append(toClient, MidPacket("PUBREC", k))
      BY <1>2, <1>6, <2>2, BrokerPublishServes
    <3>2. \A p \in Packets(toClient') \ Packets(toClient) : p.type = "PUBREC" /\ p.mid = k
      BY <1>5, <3>1
    <3>3. \A n \in Ids : Kept(delivered, held, n) => Kept(delivered', held', n)
      BY <3>1 DEF Kept, Holds
    <3>4. Kept(delivered', held', k)
      BY <3>1 DEF Kept
    <3> QED
      BY <1>1, <1>3, <1>4, <3>1, <3>2, <3>3, <3>4, SessionFrame
  <2>3. CASE Head(toBroker).qos # 2
    <3>1. /\ Deliver(k) /\ UNCHANGED held
          /\ toClient' \in {toClient, Append(toClient, MidPacket("PUBACK", k))}
      BY <1>2, <1>6, <2>3, BrokerPublishServes DEF Serves
    <3>2. \A p \in Packets(toClient') \ Packets(toClient) : p.type = "PUBACK" /\ p.mid = k
      BY <1>5, <3>1
    <3>3. delivered'[k] > 0 /\ \A n \in Ids : delivered[n] > 0 => delivered'[n] > 0
      BY <2>1, <3>1, CountsUp
    <3>4. \A n \in Ids : Kept(delivered, held, n) => Kept(delivered', held', n)
      BY <3>1, <3>3 DEF Kept
    <3> QED
      BY <1>1, <1>3, <1>4, <3>2, <3>3, <3>4, SessionFrame
  <2> QED
    BY <2>2, <2>3
<1>7. CASE BrokerPubrel
  <2>1. k \in Ids /\ toClient' = Append(toClient, MidPacket("PUBCOMP", k))
    BY <1>2, <1>7, BrokerPubrelServes
  <2>2. \A p \in Packets(toClient') \ Packets(toClient) : p.type = "PUBCOMP" /\ p.mid = k
    BY <1>5, <2>1
  <2>3. Head(toBroker).type = "PUBREL"
    BY <1>7 DEF BrokerPubrel
  <2>4. Kept(delivered, held, k)
    BY <1>2, <1>3, <2>3 DEF SessionInv
  <2>5. /\ delivered'[k] > 0 /\ \A n \in Ids : delivered[n] > 0 => delivered'[n] > 0
        /\ \A h \in held : h.mid # k => h \in held'
    <3>1. CASE Holds(held, k)
      <4>1. Deliver(k) /\ \A h \in held : h.mid # k => h \in held'
        BY <1>2, <1>7, <3>1, BrokerPubrelServes DEF Serves
      <4> QED
        BY <2>1, <4>1, CountsUp
    <3>2. CASE ~ Holds(held, k)
      <4>1. UNCHANGED <<held, delivered>> /\ delivered[k] > 0
        BY <1>2, <1>7, <2>4, <3>2, BrokerPubrelServes DEF Kept
      <4> QED
        BY <4>1
    <3> QED
      BY <3>1, <3>2
  <2>6. \A n \in Ids : Kept(delivered, held, n) => Kept(delivered', held', n)
    BY <2>5 DEF Kept, Holds
  <2> QED
    BY <1>1, <1>3, <1>4, <2>2, <2>5, <2>6, SessionFrame
<1> QED
  BY <1>6, <1>7

LEMMA InitSession == Init => SessionInv
<1> SUFFICES ASSUME Init
             PROVE  SessionInv
  OBVIOUS
<1>1. Packets(toBroker) = {} /\ Packets(toClient) = {} /\ DOMAIN out_messages = {}
  BY DEF Init, Packets
<1>2. ReportedAfterDelivery
  BY DEF Init, ReportedAfterDelivery
<1> QED
  BY <1>1, <1>2 DEF SessionInv

LEMMA NextSession ==
  ASSUME NoWrap, ~ LateSend, CleanSession => conn # "resetting",
         DeliveryInv, SessionInv, [Next]_vars
  PROVE  SessionInv'
<1>1. DeliveryInv'
  BY NextDelivery
<1> QED
  BY <1>1, AckFindsMessage, PublishSession, HandlePubackcompSession, HandlePubrecSession,
     RetryCheckSession, ConnSession, BrokerSession
  DEF Next

LEMMA SessionInvariant ==
  ASSUME NoWrap, ~ LateSend, ~ CleanSession
  PROVE  Spec => [](DeliveryInv /\ SessionInv)
<1>1. DeliveryInv /\ SessionInv /\ [Next]_vars => DeliveryInv' /\ SessionInv'
  BY NextDelivery, NextSession
<1> QED
  BY <1>1, InitDelivery, InitSession, PTL DEF Spec

\* _mosquitto_handle_pubackcomp calls on_publish for a message only when the broker has
\* taken that very message over, and once, whatever is lost or repeated on the way.
THEOREM ReportedAfterDeliveryCorrect ==
  ASSUME NoWrap, ~ LateSend, ~ CleanSession
  PROVE  Spec => []ReportedAfterDelivery
<1>1. SessionInv => ReportedAfterDelivery
  BY DEF SessionInv
<1> QED
  BY <1>1, SessionInvariant, PTL

-----------------------------------------------------------------------------
(* The refinement: publish() is Accept, the broker's reading HandOver, the *)
(* final acknowledgement Report, and everything else is invisible.         *)
LEMMA InitService == Init => Service!Init
BY DEF Init, Service!Init, Ids, Service!Ids

LEMMA NextService ==
  ASSUME NoWrap, ~ LateSend, ~ CleanSession, DeliveryInv, SessionInv, [Next]_vars
  PROVE  [Service!Next]_(Service!vars)
<1>1. Service!Ids = Ids
  BY DEF Ids, Service!Ids
<1>2. CASE PublishQos0 \/ \E q \in {1, 2} : PublishQueue(q)
  <2>1. Service!Accept
    BY <1>2 DEF PublishQos0, PublishQueue, Service!Accept
  <2> QED
    BY <2>1 DEF Service!Next
<1>3. ASSUME NEW k, Serves(k), UNCHANGED <<accepted, reported>>
      PROVE  Service!Next
  <2>1. Service!HandOver(k)
    BY <1>3 DEF Serves, Deliver, CountUp, Service!HandOver
  <2> QED
    BY <1>1, <1>3, <2>1 DEF Serves, Service!Next
<1>4. CASE BrokerPublish
  <2>1. UNCHANGED <<accepted, reported>>
    BY <1>4 DEF BrokerPublish
  <2>2. CASE Head(toBroker).qos = 2
    BY <1>4, <2>1, <2>2, BrokerPublishServes DEF Service!vars
  <2>3. CASE Head(toBroker).qos # 2
    BY <1>3, <1>4, <2>1, <2>3, BrokerPublishServes
  <2> QED
    BY <2>2, <2>3
<1>5. CASE BrokerPubrel
  <2>1. UNCHANGED <<accepted, reported>>
    BY <1>5 DEF BrokerPubrel
  <2>2. CASE Holds(held, Head(toBroker).mid)
    BY <1>3, <1>5, <2>1, <2>2, BrokerPubrelServes
  <2>3. CASE ~ Holds(held, Head(toBroker).mid)
    BY <1>5, <2>1, <2>3, BrokerPubrelServes DEF Service!vars
  <2> QED
    BY <2>2, <2>3
<1>6. CASE HandlePubackcomp
  <2>1. PICK k \in Ids :
          /\ k <= Len(accepted) /\ accepted[k] # 0
          /\ delivered[k] > 0 /\ reported[k] = 0
          /\ reported' = [reported EXCEPT ![k] = 1]
    BY <1>6, AckReports
  <2>2. UNCHANGED <<accepted, delivered>>
    BY <1>6 DEF HandlePubackcomp
  <2>3. Service!Report(k)
    BY <2>1, <2>2 DEF Service!Report
  <2> QED
    BY <1>1, <2>3 DEF Service!Next
<1>7. CASE \/ SendPublish \/ HandlePubackcompUnknown \/ HandlePubrec \/ RetryCheck
           \/ ConnLost \/ ReconnectReset \/ SocketConnect \/ SocketConnectFails
           \/ (\E i \in 1 .. MaxPublishes : Tick(i)) \/ Quiescent \/ UNCHANGED vars
  <2>1. UNCHANGED history
    BY <1>7 DEF SendPublish, HandlePubackcompUnknown, HandlePubrec, RetryCheck, ConnLost,
                ReconnectReset, SocketConnect, SocketConnectFails, Tick, Quiescent, vars
  <2> QED
    BY <2>1 DEF history, Service!vars
<1> QED
  BY <1>2, <1>4, <1>5, <1>6, <1>7, AckFindsMessage DEF Next

\* OutMessages implements PublishService: what the application sees of publish(), the
\* broker and on_publish is a behaviour of the abstract service.
THEOREM ServiceCorrect ==
  ASSUME NoWrap, ~ LateSend, ~ CleanSession
  PROVE  Spec => ImplementsService
<1>1. DeliveryInv /\ SessionInv /\ [Next]_vars => [Service!Next]_(Service!vars)
  BY NextService
<1> QED
  BY <1>1, InitService, SessionInvariant, PTL DEF Spec, ImplementsService, Service!Spec
=============================================================================
