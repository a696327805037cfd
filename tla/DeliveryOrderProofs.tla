------------------------- MODULE DeliveryOrderProofs -------------------------
(***************************************************************************)
(* As long as the connection holds, messages of one QoS are handed over in *)
(* the order of the publish() calls, whatever the window, the retries and  *)
(* the interleaving of the threads.                                        *)
(*                                                                         *)
(* A message passes up to three stages: PUBLISH, PUBREC and PUBREL, each a *)
(* packet in one of the channels.  The argument is the same for each: the  *)
(* messages enter in order, a packet never overtakes the first packet of   *)
(* an older message, and so they leave in order.                           *)
(***************************************************************************)
EXTENDS DeliveryProofs

\* The messages that were sent, that the broker has, and of QoS 2 the messages the
\* broker has, those released by the client and those handed over
Sent ==
  {k \in 1 .. Len(accepted) :
     /\ \A i \in DOMAIN out_messages :
          out_messages[i].mid = k => out_messages[i].state # "invalid"
     /\ \A p \in pending : p.mid # k}
Taken == {k \in 1 .. Len(accepted) : Kept(delivered, held, k)}
TakenTwo == {k \in Taken : accepted[k] = 2}
ReleasedTwo ==
  {k \in 1 .. Len(accepted) : accepted[k] = 2 /\ Released(out_messages, k)}
DoneTwo == {k \in 1 .. Len(accepted) : accepted[k] = 2 /\ delivered[k] > 0}

Stages ==
  /\ Stage(toBroker, "PUBLISH", Sent, Taken, accepted)
  /\ Stage(toClient, "PUBREC", TakenTwo, ReleasedTwo, accepted)
  /\ Stage(toBroker, "PUBREL", ReleasedTwo, DoneTwo, accepted)

\* The inductive invariant, while no connection has been lost
OrderInv ==
  /\ conn = "up"
  /\ \A p \in pending : p.mid = Len(accepted)
  /\ SessionInv
  /\ Stages

-----------------------------------------------------------------------------
(* Each action of OutMessages moves messages through the stages in order.  *)
LEMMA OrderFacts ==
  ASSUME DeliveryInv, OrderInv
  PROVE  /\ toBroker \in Seq(ToBrokerPackets) /\ toClient \in Seq(ToClientPackets)
         /\ accepted \in Seq(0 .. 2)
         /\ Stage(toBroker, "PUBLISH", Sent, Taken, accepted)
         /\ Stage(toClient, "PUBREC", TakenTwo, ReleasedTwo, accepted)
         /\ Stage(toBroker, "PUBREL", ReleasedTwo, DoneTwo, accepted)
         /\ \A ps : Send(ps) => toBroker' = toBroker \o ps
BY DEF DeliveryInv, WindowInv, TypeOK, OrderInv, Stages, Send

SameStates ==
  /\ DOMAIN out_messages' = DOMAIN out_messages
  /\ \A i \in DOMAIN out_messages :
       /\ out_messages'[i].mid = out_messages[i].mid
       /\ out_messages'[i].state = out_messages[i].state

SameBroker == UNCHANGED <<accepted, delivered, held>>

LEMMA SameSets ==
  /\ SameBroker => Taken' = Taken /\ TakenTwo' = TakenTwo /\ DoneTwo' = DoneTwo
  /\ (SameStates /\ UNCHANGED accepted) => ReleasedTwo' = ReleasedTwo
  /\ (SameStates /\ UNCHANGED <<accepted, pending>>) => Sent' = Sent
<1>1. SameBroker => Taken' = Taken /\ TakenTwo' = TakenTwo /\ DoneTwo' = DoneTwo
  BY DEF SameBroker, Taken, TakenTwo, DoneTwo
<1>2. ASSUME SameStates, UNCHANGED accepted
      PROVE  ReleasedTwo' = ReleasedTwo
  <2>1. \A k : Released(out_messages', k) <=> Released(out_messages, k)
    BY <1>2 DEF SameStates, Released
  <2> QED
    BY <1>2, <2>1 DEF ReleasedTwo
<1>3. ASSUME SameStates, UNCHANGED <<accepted, pending>>
      PROVE  Sent' = Sent
  BY <1>3 DEF SameStates, Sent
<1> QED
  BY <1>1, <1>2, <1>3

LEMMA QuietStages ==
  ASSUME OrderInv, SameStates, SameBroker, UNCHANGED <<toBroker, toClient, pending>>
  PROVE  Stages'
<1>1. UNCHANGED <<Sent, Taken, TakenTwo, ReleasedTwo, DoneTwo, accepted>>
  BY SameSets DEF SameBroker
<1> QED
  BY <1>1 DEF OrderInv, Stages

LEMMA TickStages ==
  ASSUME DeliveryInv, OrderInv, NEW n, Tick(n)
  PROVE  Stages'
<1>1. /\ out_messages' = [out_messages EXCEPT ![n].due = TRUE]
      /\ SameBroker /\ UNCHANGED <<toBroker, toClient, pending>>
  BY DEF Tick, history, SameBroker
<1>2. \A i \in DOMAIN out_messages : out_messages[i] \in Messages
  BY NamedIds DEF DeliveryInv
<1>3. SameStates
  BY <1>1, <1>2 DEF SameStates, Messages
<1> QED
  BY <1>1, <1>3, QuietStages

LEMMA UnknownStages ==
  ASSUME DeliveryInv, OrderInv, HandlePubackcompUnknown
  PROVE  Stages'
<1>1. /\ toClient # <<>> /\ Head(toClient).type # "PUBREC" /\ toClient' = Tail(toClient)
      /\ SameStates /\ SameBroker /\ UNCHANGED <<toBroker, pending>>
  BY DEF HandlePubackcompUnknown, client, history, SameStates, SameBroker
<1>2. UNCHANGED <<Sent, Taken, TakenTwo, ReleasedTwo, DoneTwo, accepted>>
  BY <1>1, SameSets DEF SameBroker
<1>3. Stage(toClient', "PUBREC", TakenTwo, ReleasedTwo, accepted)
  BY <1>1, OrderFacts, StageRead
<1> QED
  BY <1>1, <1>2, <1>3, OrderFacts DEF Stages

(* The messages before one that was started have been started too.         *)
LEMMA OlderSent ==
  ASSUME WindowInv, NEW i \in DOMAIN out_messages, out_messages[i].state # "invalid",
         \A p \in pending : p.mid = out_messages[i].mid
  PROVE  Earlier(accepted, out_messages[i].mid) \subseteq Sent
<1>1. SUFFICES ASSUME NEW k \in Earlier(accepted, out_messages[i].mid)
               PROVE  k \in Sent
  OBVIOUS
<1>2. /\ out_messages[i].mid \in 1 .. Len(accepted) /\ Len(accepted) \in Nat
      /\ Len(out_messages) \in Nat /\ DOMAIN out_messages = 1 .. Len(out_messages)
  BY NamedIds, ListFacts DEF WindowInv
<1>3. k \in 1 .. Len(accepted) /\ k < out_messages[i].mid
  BY <1>1, <1>2 DEF Earlier
<1>4. ASSUME NEW m \in DOMAIN out_messages, out_messages[m].mid = k
      PROVE  out_messages[m].state # "invalid"
  <2>1. ~ (i < m) /\ i # m
    BY <1>2, <1>3, <1>4 DEF WindowInv, MidsOrdered
  <2>2. m < i
    BY <1>2, <2>1
  <2>3. WindowOpen(i - 1) /\ (out_messages[m].state = "invalid" <=> ~ WindowOpen(m - 1))
    BY DEF WindowInv, InflightWindow
  <2>4. WindowOpen(m - 1)
    BY <1>2, <2>2, <2>3, ConstantsAssumption DEF WindowOpen
  <2> QED
    BY <2>3, <2>4
<1>5. \A p \in pending : p.mid # k
  BY <1>2, <1>3
<1> QED
  BY <1>3, <1>4, <1>5 DEF Sent

LEMMA SendPublishStages ==
  ASSUME DeliveryInv, OrderInv, SendPublish
  PROVE  Stages'
<1>1. PICK r \in pending, i \in DOMAIN out_messages :
        out_messages[i].id = r.id /\ Send(<<PublishPacket(out_messages[i])>>)
  BY DEF SendPublish
<1>2. /\ SameStates /\ SameBroker /\ UNCHANGED toClient /\ pending' = {}
  BY DEF SendPublish, client, history, SameStates, SameBroker
<1>3. /\ out_messages[i] \in Messages /\ out_messages[i].id = out_messages[i].mid
      /\ r.id = r.mid /\ KnownMid(r.mid)
  BY NamedIds DEF DeliveryInv
<1>4. out_messages[i].state # "invalid" /\ \A p \in pending : p.mid = out_messages[i].mid
  BY <1>1, <1>3 DEF KnownMid, KnownIn, OrderInv
<1>5. Earlier(accepted, out_messages[i].mid) \subseteq Sent
  BY <1>4, OlderSent DEF DeliveryInv
<1>6. PICK q : q = PublishPacket(out_messages[i])
  OBVIOUS
<1>7. q \in ToBrokerPackets /\ q.type = "PUBLISH" /\ q.mid = out_messages[i].mid
  BY <1>3, <1>6 DEF PublishPacket, PublishPackets, ToBrokerPackets, Messages
<1>8. /\ <<q>> \in Seq(ToBrokerPackets) /\ Packets(<<q>>) = {q}
      /\ toBroker' = toBroker \o <<q>>
  BY <1>1, <1>6, <1>7, OnePacket, OrderFacts
<1>9. UNCHANGED <<Taken, TakenTwo, ReleasedTwo, DoneTwo, accepted>>
  BY <1>2, SameSets DEF SameBroker
<1>10. \A k \in Sent' : k \in Sent \/ q.mid = k
  BY <1>2, <1>4, <1>7, <1>9 DEF Sent, SameStates
<1>11. Stage(toBroker \o <<q>>, "PUBLISH", Sent', Taken, accepted)
  <2>1. \A p \in Packets(<<q>>) : p.type = "PUBLISH" => Earlier(accepted, p.mid) \subseteq Sent
    BY <1>5, <1>7, <1>8
  <2>2. \A k \in Sent' : k \in Sent \/ \E p \in Packets(<<q>>) : p.type = "PUBLISH" /\ p.mid = k
    BY <1>7, <1>8, <1>10
  <2> QED
    BY <1>8, <2>1, <2>2, OrderFacts, StageWrite
<1>12. Stage(toBroker \o <<q>>, "PUBREL", ReleasedTwo, DoneTwo, accepted)
  BY <1>7, <1>8, OrderFacts, StageWrite
<1> QED
  BY <1>2, <1>8, <1>9, <1>11, <1>12, OrderFacts DEF Stages

LEMMA RetryCheckStages ==
  ASSUME ~ LateSend, DeliveryInv, OrderInv, RetryCheck
  PROVE  Stages'
<1>1. SameBroker /\ UNCHANGED <<toClient, pending>> /\ pending = {}
  BY DEF RetryCheck, history, SameBroker
<1>2. PICK ps \in Seq(ToBrokerPackets) :
         /\ Send(ps)
         /\ \A p \in Packets(ps) : \E i \in DOMAIN out_messages :
              /\ p.mid = out_messages[i].mid
              /\ out_messages[i].state # "invalid"
              /\ IF out_messages[i].state = "wait_for_pubcomp" THEN p.type = "PUBREL"
                 ELSE p.type = "PUBLISH"
  BY RetryPackets DEF DeliveryInv
<1>3. SameStates
  <2>1. ASSUME NEW i \in DOMAIN out_messages
        PROVE  /\ out_messages'[i].mid = out_messages[i].mid
               /\ out_messages'[i].state = out_messages[i].state
    <3>1. out_messages[i] \in Messages
      BY NamedIds DEF DeliveryInv
    <3>2. out_messages'[i] \in {out_messages[i], Retry(out_messages[i])}
      BY DEF RetryCheck
    <3> QED
      BY <3>1, <3>2 DEF Retry, Messages
  <2>2. DOMAIN out_messages' = DOMAIN out_messages
    BY DEF RetryCheck
  <2> QED
    BY <2>1, <2>2 DEF SameStates
<1>4. UNCHANGED <<Sent, Taken, TakenTwo, ReleasedTwo, DoneTwo, accepted>>
  BY <1>1, <1>3, SameSets DEF SameBroker
<1>5. \A p \in Packets(ps) : p.type = "PUBLISH" => Earlier(accepted, p.mid) \subseteq Sent
  BY <1>1, <1>2, OlderSent DEF DeliveryInv
<1>6. ASSUME NEW p \in Packets(ps), p.type = "PUBREL"
      PROVE  Earlier(accepted, p.mid) \subseteq ReleasedTwo
  <2>1. PICK i \in DOMAIN out_messages :
          p.mid = out_messages[i].mid /\ out_messages[i].state = "wait_for_pubcomp"
    BY <1>2, <1>6
  <2>2. /\ out_messages[i] \in Messages /\ p.mid \in 1 .. Len(accepted)
        /\ out_messages[i].qos = accepted[p.mid] /\ out_messages[i].qos # 1
    BY <2>1, NamedIds DEF DeliveryInv, Names
  <2>3. accepted[p.mid] = 2
    BY <2>2 DEF Messages
  <2>4. Released(out_messages, p.mid)
    BY <2>1, MidsDiffer DEF DeliveryInv, Released
  <2>5. p.mid \in ReleasedTwo
    BY <2>2, <2>3, <2>4 DEF ReleasedTwo
  <2> QED
    BY <2>5, OrderFacts DEF Stage
<1>7. /\ Stage(toBroker \o ps, "PUBLISH", Sent, Taken, accepted)
      /\ Stage(toBroker \o ps, "PUBREL", ReleasedTwo, DoneTwo, accepted)
  BY <1>5, <1>6, OrderFacts, StageWrite
<1> QED
  BY <1>1, <1>2, <1>4, <1>7, OrderFacts DEF Stages

LEMMA HandlePubrecStages ==
  ASSUME DeliveryInv, OrderInv, HandlePubrec
  PROVE  Stages'
<1> DEFINE mid == Head(toClient).mid
           at == MidIndex(mid)
<1>1. PICK k, q : k = mid /\ q = MidPacket("PUBREL", mid)
  OBVIOUS
<1>2. /\ toClient # <<>> /\ Head(toClient).type = "PUBREC" /\ HasMid(mid)
      /\ toClient' = Tail(toClient)
      /\ Send(<<q>>)
      /\ out_messages' = [out_messages EXCEPT ![at].state = "wait_for_pubcomp", ![at].due = FALSE]
      /\ SameBroker /\ UNCHANGED pending
  BY <1>1 DEF HandlePubrec, history, SameBroker
<1>3. /\ Head(toClient) \in Packets(toClient) /\ Head(toClient) \in ToClientPackets
      /\ k \in 1 .. Len(accepted) /\ KnownMid(k)
  BY <1>1, <1>2, PacketsOfTail, NamedIds, OrderFacts DEF DeliveryInv
<1>4. accepted[k] = 2
  BY <1>1, <1>2, <1>3 DEF DeliveryInv, Names
<1>5. at \in DOMAIN out_messages /\ out_messages[at].mid = k
  BY <1>1, <1>2, MidIndexFound DEF DeliveryInv, WindowInv
<1>6. /\ DOMAIN out_messages' = DOMAIN out_messages
      /\ \A i \in DOMAIN out_messages :
           /\ out_messages'[i].mid = out_messages[i].mid
           /\ out_messages'[i].state = IF out_messages[i].mid = k THEN "wait_for_pubcomp"
                                       ELSE out_messages[i].state
  <2>1. ASSUME NEW i \in DOMAIN out_messages
        PROVE  /\ out_messages'[i].mid = out_messages[i].mid
               /\ out_messages'[i].state = IF i = at THEN "wait_for_pubcomp"
                                           ELSE out_messages[i].state
    <3>1. out_messages[i] \in Messages
      BY NamedIds DEF DeliveryInv
    <3> HIDE DEF at
    <3> QED
      BY <1>2, <1>5, <3>1 DEF Messages
  <2>2. \A i \in DOMAIN out_messages : i = at <=> out_messages[i].mid = k
    BY <1>5, MidsDiffer DEF DeliveryInv
  <2> HIDE DEF at
  <2> QED
    BY <1>2, <2>1, <2>2
<1> HIDE DEF at, mid
<1>7. q \in ToBrokerPackets /\ q.type = "PUBREL" /\ q.mid = k
  BY <1>1, <1>3 DEF MidPacket, MidPackets, ToBrokerPackets, ToClientPackets, mid
<1>8. /\ <<q>> \in Seq(ToBrokerPackets) /\ Packets(<<q>>) = {q}
      /\ toBroker' = toBroker \o <<q>>
  BY <1>2, <1>7, OnePacket, OrderFacts
<1>9. UNCHANGED <<Taken, TakenTwo, DoneTwo, accepted>>
  BY <1>2, SameSets DEF SameBroker
<1>10. Sent' = Sent
  <2>1. \A i \in DOMAIN out_messages :
          out_messages'[i].state = "invalid" <=> out_messages[i].state = "invalid"
    BY <1>3, <1>6 DEF KnownMid, KnownIn
  <2> QED
    BY <1>2, <1>6, <1>9, <2>1 DEF Sent
<1>11. ReleasedTwo \subseteq ReleasedTwo' /\ \A n \in ReleasedTwo' : n \in ReleasedTwo \/ n = k
  <2>1. \A n : Released(out_messages, n) => Released(out_messages', n)
    BY <1>6 DEF Released
  <2>2. \A n : Released(out_messages', n) => n = k \/ Released(out_messages, n)
    BY <1>6 DEF Released
  <2> QED
    BY <1>9, <2>1, <2>2 DEF ReleasedTwo
<1>12. k \in ReleasedTwo'
  BY <1>3, <1>4, <1>6, <1>9 DEF ReleasedTwo, Released
<1>13. Stage(toClient', "PUBREC", TakenTwo, ReleasedTwo', accepted)
  BY <1>1, <1>2, <1>11, <1>12, OrderFacts, StageRead DEF mid
<1>14. Earlier(accepted, k) \subseteq ReleasedTwo
  BY <1>1, <1>2, OrderFacts, HeadFollows DEF Stage, mid
<1>15. Stage(toBroker \o <<q>>, "PUBREL", ReleasedTwo', DoneTwo, accepted)
  <2>1. \A p \in Packets(<<q>>) : p.type = "PUBREL" => Earlier(accepted, p.mid) \subseteq ReleasedTwo
    BY <1>7, <1>8, <1>14
  <2>2. \A n \in ReleasedTwo' :
          n \in ReleasedTwo \/ \E p \in Packets(<<q>>) : p.type = "PUBREL" /\ p.mid = n
    BY <1>7, <1>8, <1>11
  <2> QED
    BY <1>8, <2>1, <2>2, OrderFacts, StageWrite
<1>16. Stage(toBroker \o <<q>>, "PUBLISH", Sent, Taken, accepted)
  BY <1>7, <1>8, OrderFacts, StageWrite
<1> QED
  BY <1>8, <1>9, <1>10, <1>13, <1>15, <1>16 DEF Stages

(* A free slot goes to the oldest waiting message.                         *)
LEMMA PromotedOldest ==
  ASSUME WindowInv, WindowInv', NEW k \in DOMAIN out_messages,
         NEW i \in DOMAIN out_messages', k <= i + 1, out_messages'[i].state # "invalid",
         NEW m \in DOMAIN out_messages, out_messages[m].mid < out_messages[k].mid
  PROVE  out_messages[m].state # "invalid"
<1>1. /\ Len(out_messages) \in Nat /\ DOMAIN out_messages = 1 .. Len(out_messages)
      /\ \A n \in DOMAIN out_messages : out_messages[n].mid \in Nat
  BY ListFacts DEF WindowInv
<1>2. i \in Nat \ {0}
  <2>1. out_messages' \in Seq(Messages)
    BY DEF WindowInv, TypeOK
  <2> QED
    BY <2>1
<1>3. ~ (k < m) /\ k # m
  BY <1>1 DEF WindowInv, MidsOrdered
<1>4. m < k /\ m \in Nat /\ k \in Nat
  BY <1>1, <1>3
<1>5. WindowOpen(i - 1) /\ (out_messages[m].state = "invalid" <=> ~ WindowOpen(m - 1))
  BY DEF WindowInv, InflightWindow
<1>6. WindowOpen(m - 1)
  BY <1>2, <1>4, <1>5, ConstantsAssumption DEF WindowOpen
<1> QED
  BY <1>5, <1>6

LEMMA HandlePubackcompStages ==
  ASSUME DeliveryInv, DeliveryInv', OrderInv, HandlePubackcomp
  PROVE  Stages'
<1>1. PICK k, at : k = Head(toClient).mid /\ at = MidIndex(Head(toClient).mid)
  OBVIOUS
<1>2. /\ toClient # <<>> /\ Head(toClient).type \in {"PUBACK", "PUBCOMP"}
      /\ toClient' = Tail(toClient) /\ SameBroker /\ UNCHANGED pending
  BY DEF HandlePubackcomp, SameBroker
<1>3. /\ Head(toClient) \in Packets(toClient) /\ k \in 1 .. Len(accepted) /\ KnownMid(k)
  BY <1>1, <1>2, PacketsOfTail, NamedIds, OrderFacts DEF DeliveryInv
<1>4. UNCHANGED <<Taken, TakenTwo, DoneTwo, accepted>>
  BY <1>2, SameSets DEF SameBroker
<1>5. /\ at \in DOMAIN out_messages /\ out_messages[at].mid = k
      /\ \A i \in DOMAIN out_messages' : \E j \in DOMAIN out_messages :
           /\ j # at
           /\ out_messages'[i].mid = out_messages[j].mid
           /\ \/ out_messages'[i].state = out_messages[j].state
              \/ /\ out_messages[j].state = "invalid"
                 /\ out_messages'[i].state \notin {"invalid", "wait_for_pubcomp"}
      /\ \A j \in DOMAIN out_messages : j # at =>
           \E i \in DOMAIN out_messages' : out_messages'[i].mid = out_messages[j].mid
      /\ \E ps \in Seq(ToBrokerPackets) :
           /\ Send(ps)
           /\ \A p \in Packets(ps) : \E j \in DOMAIN out_messages :
                /\ j # at /\ out_messages[j].state = "invalid"
                /\ p.type = "PUBLISH" /\ p.mid = out_messages[j].mid
                /\ \E i \in DOMAIN out_messages' :
                     j <= i + 1 /\ out_messages'[i].state # "invalid"
           /\ \A i \in DOMAIN out_messages' : out_messages'[i].state # "invalid" =>
                \/ \E p \in Packets(ps) : p.mid = out_messages'[i].mid
                \/ \E j \in DOMAIN out_messages :
                     /\ out_messages[j].state # "invalid"
                     /\ out_messages[j].mid = out_messages'[i].mid
  BY <1>1, RemoveAndPromote DEF DeliveryInv
<1>6. PICK ps \in Seq(ToBrokerPackets) :
        /\ Send(ps)
        /\ \A p \in Packets(ps) : \E j \in DOMAIN out_messages :
             /\ j # at /\ out_messages[j].state = "invalid"
             /\ p.type = "PUBLISH" /\ p.mid = out_messages[j].mid
             /\ \E i \in DOMAIN out_messages' :
                  j <= i + 1 /\ out_messages'[i].state # "invalid"
        /\ \A i \in DOMAIN out_messages' : out_messages'[i].state # "invalid" =>
             \/ \E p \in Packets(ps) : p.mid = out_messages'[i].mid
             \/ \E j \in DOMAIN out_messages :
                  /\ out_messages[j].state # "invalid"
                  /\ out_messages[j].mid = out_messages'[i].mid
  BY <1>5
<1>7. \A j \in DOMAIN out_messages : j # at <=> out_messages[j].mid # k
  BY <1>5, MidsDiffer DEF DeliveryInv
<1>8. ReleasedTwo' = ReleasedTwo
  <2>1. \A n : Released(out_messages, n) => Released(out_messages', n)
    BY <1>5 DEF Released
  <2>2. ASSUME NEW n, n # k, Released(out_messages', n)
        PROVE  Released(out_messages, n)
    <3>1. ASSUME NEW j \in DOMAIN out_messages, out_messages[j].mid = n
          PROVE  out_messages[j].state = "wait_for_pubcomp"
      <4>1. PICK i \in DOMAIN out_messages' : out_messages'[i].mid = n
        BY <1>5, <1>7, <2>2, <3>1
      <4>2. PICK l \in DOMAIN out_messages :
              /\ out_messages'[i].mid = out_messages[l].mid
              /\ \/ out_messages'[i].state = out_messages[l].state
                 \/ out_messages'[i].state # "wait_for_pubcomp"
        BY <1>5
      <4>3. l = j /\ out_messages'[i].state = "wait_for_pubcomp"
        BY <2>2, <3>1, <4>1, <4>2, MidsDiffer DEF DeliveryInv, Released
      <4> QED
        BY <4>2, <4>3
    <3> QED
      BY <3>1 DEF Released
  <2>3. accepted[k] = 2 => Released(out_messages, k)
    BY <1>1, <1>2, <1>3 DEF DeliveryInv, Names, Exchange
  <2> QED
    BY <1>4, <2>1, <2>2, <2>3 DEF ReleasedTwo
<1>9. ASSUME NEW n \in Sent'
      PROVE  n \in Sent \/ \E p \in Packets(ps) : p.type = "PUBLISH" /\ p.mid = n
  <2>1. SUFFICES ASSUME ~ \E p \in Packets(ps) : p.type = "PUBLISH" /\ p.mid = n
                 PROVE  n \in Sent
    OBVIOUS
  <2>2. ASSUME NEW j \in DOMAIN out_messages, out_messages[j].mid = n
        PROVE  out_messages[j].state # "invalid"
    <3>1. CASE n = k
      BY <1>3, <2>2, <3>1 DEF KnownMid, KnownIn
    <3>2. CASE n # k
      <4>1. PICK i \in DOMAIN out_messages' : out_messages'[i].mid = n
        BY <1>5, <1>7, <2>2, <3>2
      <4>2. out_messages'[i].state # "invalid"
        BY <1>9, <4>1 DEF Sent
      <4>3. PICK l \in DOMAIN out_messages :
              out_messages[l].state # "invalid" /\ out_messages[l].mid = n
        BY <1>6, <2>1, <4>1, <4>2
      <4> QED
        BY <2>2, <4>3, MidsDiffer DEF DeliveryInv
    <3> QED
      BY <3>1, <3>2
  <2> QED
    BY <1>2, <1>4, <1>9, <2>2 DEF Sent
<1>10. ASSUME NEW p \in Packets(ps)
       PROVE  p.type = "PUBLISH" /\ Earlier(accepted, p.mid) \subseteq Sent
  <2>1. PICK j \in DOMAIN out_messages :
          /\ out_messages[j].state = "invalid"
          /\ p.type = "PUBLISH" /\ p.mid = out_messages[j].mid
          /\ \E i \in DOMAIN out_messages' :
               j <= i + 1 /\ out_messages'[i].state # "invalid"
    BY <1>6
  <2>2. p.mid \in 1 .. Len(accepted) /\ Len(accepted) \in Nat
    BY <2>1, NamedIds DEF DeliveryInv
  <2>3. ASSUME NEW n \in Earlier(accepted, p.mid)
        PROVE  n \in Sent
    <3>1. n \in 1 .. Len(accepted) /\ n < p.mid
      BY <2>2 DEF Earlier
    <3>2. ASSUME NEW m \in DOMAIN out_messages, out_messages[m].mid = n
          PROVE  out_messages[m].state # "invalid"
      BY <2>1, <3>1, <3>2, PromotedOldest DEF DeliveryInv
    <3>3. ASSUME NEW r \in pending, r.mid = n
          PROVE  FALSE
      <4>1. n = Len(accepted)
        BY <3>3 DEF OrderInv
      <4> QED
        BY <2>2, <3>1, <4>1
    <3> QED
      BY <3>1, <3>2, <3>3 DEF Sent
  <2> QED
    BY <2>1, <2>3
<1>11. toBroker' = toBroker \o ps
  BY <1>6, OrderFacts
<1>12. /\ Stage(toBroker \o ps, "PUBLISH", Sent', Taken, accepted)
       /\ Stage(toBroker \o ps, "PUBREL", ReleasedTwo, DoneTwo, accepted)
  BY <1>9, <1>10, OrderFacts, StageWrite
<1>13. Stage(toClient', "PUBREC", TakenTwo, ReleasedTwo, accepted)
  BY <1>2, OrderFacts, StageRead
<1> QED
  BY <1>4, <1>8, <1>11, <1>12, <1>13 DEF Stages

(* publish(): the new message is the youngest, and nothing is known of it. *)
LEMMA AcceptStages ==
  ASSUME DeliveryInv, OrderInv, NEW q \in 0 .. 2, accepted' = Append(accepted, q),
         Len(accepted) < MaxPublishes, UNCHANGED <<delivered, held>>
  PROVE  /\ Len(accepted') = Len(accepted) + 1
         /\ accepted'[Len(accepted) + 1] = q
         /\ \A n \in 1 .. Len(accepted) : accepted'[n] = accepted[n]
         /\ UNCHANGED <<Taken, TakenTwo, DoneTwo>>
         /\ Stage(toBroker, "PUBLISH", Sent, Taken, accepted')
         /\ Stage(toClient, "PUBREC", TakenTwo, ReleasedTwo, accepted')
         /\ Stage(toBroker, "PUBREL", ReleasedTwo, DoneTwo, accepted')
<1> DEFINE k == Len(accepted) + 1
<1>1. /\ Len(accepted) \in Nat /\ Len(accepted') = k /\ accepted'[k] = q
      /\ \A n \in 1 .. Len(accepted) : accepted'[n] = accepted[n]
  BY OrderFacts
<1>2. k \in Ids /\ k > Len(accepted)
  BY <1>1, ConstantsAssumption DEF Ids
<1>3. ~ Kept(delivered, held, k)
  <2>1. delivered[k] = 0
    BY <1>2 DEF DeliveryInv, Untouched
  <2>2. \A h \in held : h.mid # k
    BY <1>1, <1>2 DEF DeliveryInv, Names
  <2> QED
    BY <2>1, <2>2 DEF Kept, Holds
<1>4. \A n : n \in 1 .. Len(accepted') <=> n \in 1 .. Len(accepted) \/ n = k
  BY <1>1
<1> HIDE DEF k
<1>5. Taken' = Taken
  BY <1>3, <1>4 DEF Taken
<1>6. TakenTwo' = TakenTwo
  BY <1>1, <1>5 DEF TakenTwo, Taken
<1>7. DoneTwo' = DoneTwo
  BY <1>1, <1>3, <1>4 DEF DoneTwo, Kept
<1>8. /\ \A p \in Packets(toBroker) : p.mid \in 1 .. Len(accepted)
      /\ \A p \in Packets(toClient) : p.mid \in 1 .. Len(accepted)
  BY NamedIds DEF DeliveryInv
<1>9. Stage(toBroker, "PUBLISH", Sent, Taken, Append(accepted, q))
  <2>1. \A n \in Taken : n \in 1 .. Len(accepted)
    BY DEF Taken
  <2> QED
    BY <1>8, <2>1, OrderFacts, StageAccept
<1>10. Stage(toClient, "PUBREC", TakenTwo, ReleasedTwo, Append(accepted, q))
  <2>1. \A n \in ReleasedTwo : n \in 1 .. Len(accepted)
    BY DEF ReleasedTwo
  <2> QED
    BY <1>8, <2>1, OrderFacts, StageAccept
<1>11. Stage(toBroker, "PUBREL", ReleasedTwo, DoneTwo, Append(accepted, q))
  <2>1. \A n \in DoneTwo : n \in 1 .. Len(accepted)
    BY DEF DoneTwo
  <2> QED
    BY <1>8, <2>1, OrderFacts, StageAccept
<1> QED
  BY <1>1, <1>5, <1>6, <1>7, <1>9, <1>10, <1>11 DEF k

LEMMA PublishQos0Stages ==
  ASSUME NoWrap, DeliveryInv, OrderInv, PublishQos0
  PROVE  Stages'
<1> DEFINE k == Len(accepted) + 1
<1>1. /\ Len(accepted) < MaxPublishes /\ pending = {} /\ last_mid' = MidGenerate(last_mid)
      /\ accepted' = Append(accepted, 0)
      /\ UNCHANGED <<out_messages, pending, toClient, held, delivered>>
  BY DEF PublishQos0
<1>2. PICK q : q = PublishPacket([mid |-> last_mid', id |-> Len(accepted'), qos |-> 0,
                                  dup |-> FALSE])
  OBVIOUS
<1>3. Send(<<q>>)
  BY <1>2 DEF PublishQos0
<1>4. /\ Len(accepted') = k /\ accepted'[k] = 0 /\ Len(accepted) \in Nat
      /\ \A n \in 1 .. Len(accepted) : accepted'[n] = accepted[n]
      /\ UNCHANGED <<Taken, TakenTwo, DoneTwo>>
      /\ Stage(toBroker, "PUBLISH", Sent, Taken, accepted')
      /\ Stage(toClient, "PUBREC", TakenTwo, ReleasedTwo, accepted')
      /\ Stage(toBroker, "PUBREL", ReleasedTwo, DoneTwo, accepted')
  BY <1>1, AcceptStages, NamedIds DEF DeliveryInv
<1>5. last_mid' = k /\ k \in Mids /\ k \in Ids
  BY <1>1, NextMid DEF DeliveryInv
<1>6. q \in ToBrokerPackets /\ q.type = "PUBLISH" /\ q.mid = k
  BY <1>2, <1>4, <1>5 DEF PublishPacket, PublishPackets, ToBrokerPackets
<1>7. /\ <<q>> \in Seq(ToBrokerPackets) /\ Packets(<<q>>) = {q}
      /\ toBroker' = toBroker \o <<q>>
  BY <1>3, <1>6, OnePacket, OrderFacts
<1>8. /\ \A n : n \in 1 .. Len(accepted') <=> n \in 1 .. Len(accepted) \/ n = k
      /\ \A n \in 1 .. (k - 1) : n \in 1 .. Len(accepted)
  BY <1>4
<1> HIDE DEF k
<1>9. ReleasedTwo' = ReleasedTwo
  BY <1>1, <1>4, <1>8 DEF ReleasedTwo
<1>10. \A n \in Sent' : n \in Sent \/ q.mid = n
  BY <1>1, <1>6, <1>8 DEF Sent
<1>11. Earlier(accepted', k) \subseteq Sent
  <2>1. ASSUME NEW n \in Earlier(accepted', k)
        PROVE  n \in Sent
    <3>1. n \in 1 .. Len(accepted) /\ accepted[n] = 0
      BY <1>4, <1>8 DEF Earlier
    <3>2. \A i \in DOMAIN out_messages : out_messages[i].mid # n
      <4>1. \A i \in DOMAIN out_messages :
              out_messages[i] \in Messages /\ out_messages[i].qos = accepted[out_messages[i].mid]
        BY NamedIds DEF DeliveryInv, Names
      <4> QED
        BY <3>1, <4>1 DEF Messages
    <3> QED
      BY <1>1, <3>1, <3>2 DEF Sent
  <2> QED
    BY <2>1
<1>12. Stage(toBroker \o <<q>>, "PUBLISH", Sent', Taken, accepted')
  <2>1. \A p \in Packets(<<q>>) : p.type = "PUBLISH" => Earlier(accepted', p.mid) \subseteq Sent
    BY <1>6, <1>7, <1>11
  <2>2. \A n \in Sent' : n \in Sent \/ \E p \in Packets(<<q>>) : p.type = "PUBLISH" /\ p.mid = n
    BY <1>6, <1>7, <1>10
  <2> QED
    BY <1>4, <1>7, <2>1, <2>2, OrderFacts, StageWrite
<1>13. Stage(toBroker \o <<q>>, "PUBREL", ReleasedTwo, DoneTwo, accepted')
  BY <1>4, <1>6, <1>7, OrderFacts, StageWrite
<1> QED
  BY <1>1, <1>4, <1>7, <1>9, <1>12, <1>13 DEF Stages

LEMMA PublishQueueStages ==
  ASSUME NoWrap, DeliveryInv, OrderInv, NEW q \in {1, 2}, PublishQueue(q)
  PROVE  Stages' /\ \A p \in pending' : p.mid = Len(accepted')
<1> DEFINE k == Len(accepted) + 1
<1>1. /\ Len(accepted) < MaxPublishes /\ pending = {}
      /\ accepted' = Append(accepted, q)
      /\ UNCHANGED <<toBroker, toClient, held, delivered>>
  BY DEF PublishQueue
<1>2. /\ Len(accepted') = k /\ accepted'[k] = q /\ Len(accepted) \in Nat
      /\ \A n \in 1 .. Len(accepted) : accepted'[n] = accepted[n]
      /\ UNCHANGED <<Taken, TakenTwo, DoneTwo>>
      /\ Stage(toBroker, "PUBLISH", Sent, Taken, accepted')
      /\ Stage(toClient, "PUBREC", TakenTwo, ReleasedTwo, accepted')
      /\ Stage(toBroker, "PUBREL", ReleasedTwo, DoneTwo, accepted')
  BY <1>1, AcceptStages, NamedIds DEF DeliveryInv
<1>3. MidGenerate(last_mid) = k
  BY <1>1, NextMid DEF DeliveryInv
<1>4. PICK m :
        /\ out_messages' = Append(out_messages, m) /\ m.mid = k
        /\ m.state # "wait_for_pubcomp"
        /\ \/ m.state = "invalid" /\ pending' = {}
           \/ \E p \in pending' : p.mid = k
        /\ \A p \in pending' : p.mid = k
  <2>1. CASE WindowOpen(inflight_messages)
    <3>1. PICK m, r :
            /\ m = [id |-> Len(accepted) + 1, mid |-> MidGenerate(last_mid), qos |-> q,
                    state |-> WaitState(q), due |-> FALSE, dup |-> FALSE]
            /\ r = [mid |-> MidGenerate(last_mid), id |-> Len(accepted) + 1, qos |-> q]
      OBVIOUS
    <3>2. out_messages' = Append(out_messages, m) /\ pending' = {r}
      BY <2>1, <3>1 DEF PublishQueue
    <3>3. m.mid = k /\ r.mid = k /\ m.state # "wait_for_pubcomp"
      BY <1>3, <3>1 DEF WaitState
    <3> QED
      BY <3>2, <3>3
  <2>2. CASE ~ WindowOpen(inflight_messages)
    BY <1>1, <1>3, <2>2 DEF PublishQueue
  <2> QED
    BY <2>1, <2>2
<1>5. /\ out_messages \in Seq(Messages)
      /\ \A i \in DOMAIN out_messages : out_messages[i].mid \in 1 .. Len(accepted)
  BY NamedIds DEF DeliveryInv, WindowInv, TypeOK
<1>6. /\ \A i \in DOMAIN out_messages' :
           out_messages'[i] = m \/ (i \in DOMAIN out_messages /\ out_messages'[i] = out_messages[i])
      /\ \A i \in DOMAIN out_messages :
           i \in DOMAIN out_messages' /\ out_messages'[i] = out_messages[i]
      /\ \E i \in DOMAIN out_messages' : out_messages'[i] = m
  BY <1>4, <1>5
<1>7. /\ \A n : n \in 1 .. Len(accepted') <=> n \in 1 .. Len(accepted) \/ n = k
      /\ k \notin 1 .. Len(accepted)
  BY <1>2
<1> HIDE DEF k
<1>8. k \notin Sent'
  BY <1>4, <1>6 DEF Sent
<1>9. Sent' \subseteq Sent
  BY <1>1, <1>6, <1>7, <1>8 DEF Sent
<1>10. ~ Released(out_messages', k)
  BY <1>4, <1>6 DEF Released
<1>11. \A n \in 1 .. Len(accepted) : Released(out_messages', n) <=> Released(out_messages, n)
  BY <1>4, <1>6, <1>7 DEF Released
<1>12. ReleasedTwo' = ReleasedTwo
  BY <1>2, <1>7, <1>10, <1>11 DEF ReleasedTwo
<1>13. Stage(toBroker, "PUBLISH", Sent', Taken, accepted')
  BY <1>2, <1>9, StageSame
<1> QED
  BY <1>1, <1>2, <1>4, <1>12, <1>13 DEF Stages

LEMMA BrokerPublishStages ==
  ASSUME DeliveryInv, OrderInv, BrokerPublish
  PROVE  Stages'
<1>1. PICK k : k = Head(toBroker).mid
  OBVIOUS
<1>2. /\ toBroker # <<>> /\ Head(toBroker).type = "PUBLISH" /\ toBroker' = Tail(toBroker)
      /\ SameStates /\ UNCHANGED <<accepted, pending>>
  BY DEF BrokerPublish, client, SameStates
<1>3. /\ Head(toBroker) \in Packets(toBroker) /\ Head(toBroker) \in ToBrokerPackets
      /\ k \in 1 .. Len(accepted) /\ k \in Ids /\ k \in Mids
  BY <1>1, <1>2, BrokerReads DEF ToBrokerPackets, PublishPackets, MidPackets
<1>4. Head(toBroker).qos = accepted[k]
  BY <1>1, <1>2, <1>3 DEF DeliveryInv, Names
<1>5. ReleasedTwo' = ReleasedTwo /\ Sent' = Sent
  BY <1>2, SameSets
<1>6. 1 .. Len(accepted) \subseteq Ids
  BY NamedIds DEF DeliveryInv
<1>7. Earlier(accepted, k) \subseteq Taken
  BY <1>1, <1>2, OrderFacts, HeadFollows DEF Stage
<1>8. CASE accepted[k] = 2
  <2>1. /\ UNCHANGED delivered /\ held \subseteq held' /\ Holds(held', k)
        /\ toClient' = Append(toClient, MidPacket("PUBREC", k))
    BY <1>1, <1>4, <1>8, BrokerPublishServes
  <2>2. \A h \in held' : h \in held \/ h.mid = k
    BY <1>1, <1>2, <1>4, <1>8 DEF BrokerPublish
  <2>3. \A n : Kept(delivered', held', n) <=> Kept(delivered, held, n) \/ n = k
    BY <2>1, <2>2 DEF Kept, Holds
  <2>4. \A n : n \in Taken' <=> n \in Taken \/ n = k
    BY <1>2, <1>3, <2>3 DEF Taken
  <2>5. \A n : n \in TakenTwo' <=> n \in TakenTwo \/ n = k
    BY <1>2, <1>8, <2>4 DEF TakenTwo
  <2>6. DoneTwo' = DoneTwo
    BY <1>2, <2>1 DEF DoneTwo
  <2>7. PICK a : a = MidPacket("PUBREC", k)
    OBVIOUS
  <2>8. a \in ToClientPackets /\ a.type = "PUBREC" /\ a.mid = k
    BY <1>3, <2>7 DEF MidPacket, MidPackets, ToClientPackets
  <2>9. /\ <<a>> \in Seq(ToClientPackets) /\ Packets(<<a>>) = {a}
        /\ toClient' = toClient \o <<a>>
    BY <2>1, <2>7, <2>8, OnePacket, OrderFacts
  <2>10. Earlier(accepted, k) \subseteq TakenTwo
    BY <1>7, <1>8 DEF TakenTwo, Earlier
  <2>11. Stage(toClient \o <<a>>, "PUBREC", TakenTwo', ReleasedTwo, accepted)
    <3>1. \A p \in Packets(<<a>>) : p.type = "PUBREC" => Earlier(accepted, p.mid) \subseteq TakenTwo
      BY <2>8, <2>9, <2>10
    <3>2. \A n \in TakenTwo' :
            n \in TakenTwo \/ \E p \in Packets(<<a>>) : p.type = "PUBREC" /\ p.mid = n
      BY <2>5, <2>8, <2>9
    <3> QED
      BY <2>9, <3>1, <3>2, OrderFacts, StageWrite
  <2>12. Stage(toBroker', "PUBLISH", Sent, Taken', accepted)
    BY <1>1, <1>2, <2>4, OrderFacts, StageRead
  <2>13. Stage(toBroker', "PUBREL", ReleasedTwo, DoneTwo, accepted)
    BY <1>2, OrderFacts, StageRead
  <2> QED
    BY <1>2, <1>5, <2>6, <2>9, <2>11, <2>12, <2>13 DEF Stages
<1>9. CASE accepted[k] # 2
  <2>1. /\ Deliver(k) /\ UNCHANGED held
        /\ toClient' \in {toClient, Append(toClient, MidPacket("PUBACK", k))}
    BY <1>1, <1>4, <1>9, BrokerPublishServes DEF Serves
  <2>2. delivered'[k] > 0 /\ \A n \in Ids : n # k => delivered'[n] = delivered[n]
    BY <1>3, <2>1, CountsUp
  <2>3. \A n \in Ids : Kept(delivered', held', n) <=> Kept(delivered, held, n) \/ n = k
    BY <2>1, <2>2 DEF Kept
  <2>4. \A n : n \in Taken' <=> n \in Taken \/ n = k
    BY <1>2, <1>3, <1>6, <2>3 DEF Taken
  <2>5. TakenTwo' = TakenTwo
    BY <1>2, <1>9, <2>4 DEF TakenTwo
  <2>6. DoneTwo' = DoneTwo
    BY <1>2, <1>6, <1>9, <2>2 DEF DoneTwo
  <2>7. PICK a : a = MidPacket("PUBACK", k)
    OBVIOUS
  <2>8. a \in ToClientPackets /\ a.type = "PUBACK"
    BY <1>3, <2>7 DEF MidPacket, MidPackets, ToClientPackets
  <2>9. /\ <<a>> \in Seq(ToClientPackets) /\ Packets(<<a>>) = {a}
        /\ toClient' \in {toClient, toClient \o <<a>>}
    BY <2>1, <2>7, <2>8, OnePacket, OrderFacts
  <2>10. Stage(toClient \o <<a>>, "PUBREC", TakenTwo, ReleasedTwo, accepted)
    BY <2>8, <2>9, OrderFacts, StageWrite
  <2>11. Stage(toClient', "PUBREC", TakenTwo, ReleasedTwo, accepted)
    BY <2>9, <2>10, OrderFacts
  <2>12. Stage(toBroker', "PUBLISH", Sent, Taken', accepted)
    BY <1>1, <1>2, <2>4, OrderFacts, StageRead
  <2>13. Stage(toBroker', "PUBREL", ReleasedTwo, DoneTwo, accepted)
    BY <1>2, OrderFacts, StageRead
  <2> QED
    BY <1>2, <1>5, <2>5, <2>6, <2>11, <2>12, <2>13 DEF Stages
<1> QED
  BY <1>8, <1>9

LEMMA BrokerPubrelStages ==
  ASSUME DeliveryInv, OrderInv, BrokerPubrel
  PROVE  Stages'
<1>1. PICK k : k = Head(toBroker).mid
  OBVIOUS
<1>2. /\ toBroker # <<>> /\ Head(toBroker).type = "PUBREL" /\ toBroker' = Tail(toBroker)
      /\ SameStates /\ UNCHANGED <<accepted, pending>>
  BY DEF BrokerPubrel, client, SameStates
<1>3. /\ Head(toBroker) \in Packets(toBroker) /\ Head(toBroker) \in ToBrokerPackets
      /\ k \in 1 .. Len(accepted) /\ k \in Ids /\ k \in Mids
  BY <1>1, <1>2, BrokerReads DEF ToBrokerPackets, PublishPackets, MidPackets
<1>4. accepted[k] = 2
  BY <1>1, <1>2, <1>3 DEF DeliveryInv, Names
<1>5. ReleasedTwo' = ReleasedTwo /\ Sent' = Sent
  BY <1>2, SameSets
<1>6. Kept(delivered, held, k)
  BY <1>1, <1>2, <1>3 DEF OrderInv, SessionInv
<1>7. 1 .. Len(accepted) \subseteq Ids
  BY NamedIds DEF DeliveryInv
<1>8. /\ delivered'[k] > 0 /\ \A n \in Ids : n # k => delivered'[n] = delivered[n]
      /\ \A n : n # k => (Holds(held', n) <=> Holds(held, n))
  <2>1. CASE Holds(held, k)
    <3>1. Deliver(k)
      BY <1>1, <2>1, BrokerPubrelServes DEF Serves
    <3>2. \E h \in held : h.mid = k /\ held' = held \ {h}
      BY <1>1, <2>1 DEF BrokerPubrel, Holds
    <3>3. \A n : n # k => (Holds(held', n) <=> Holds(held, n))
      BY <3>2 DEF Holds
    <3> QED
      BY <1>3, <3>1, <3>3, CountsUp
  <2>2. CASE ~ Holds(held, k)
    <3>1. UNCHANGED <<held, delivered>> /\ delivered[k] > 0
      BY <1>1, <1>6, <2>2, BrokerPubrelServes DEF Kept
    <3> QED
      BY <3>1
  <2> QED
    BY <2>1, <2>2
<1>9. Taken' = Taken
  <2>1. \A n \in Ids : Kept(delivered', held', n) <=> Kept(delivered, held, n)
    BY <1>6, <1>8 DEF Kept
  <2> QED
    BY <1>2, <1>7, <2>1 DEF Taken
<1>10. TakenTwo' = TakenTwo
  BY <1>2, <1>9 DEF TakenTwo
<1>11. \A n : n \in DoneTwo' <=> n \in DoneTwo \/ n = k
  BY <1>2, <1>3, <1>4, <1>7, <1>8 DEF DoneTwo
<1>12. Stage(toBroker', "PUBREL", ReleasedTwo, DoneTwo', accepted)
  BY <1>1, <1>2, <1>11, OrderFacts, StageRead
<1>13. Stage(toBroker', "PUBLISH", Sent, Taken, accepted)
  BY <1>2, OrderFacts, StageRead
<1>14. PICK a : a = MidPacket("PUBCOMP", k)
  OBVIOUS
<1>15. a \in ToClientPackets /\ a.type = "PUBCOMP"
  BY <1>3, <1>14 DEF MidPacket, MidPackets, ToClientPackets
<1>16. /\ <<a>> \in Seq(ToClientPackets) /\ Packets(<<a>>) = {a}
       /\ toClient' = toClient \o <<a>>
  <2>1. toClient' = Append(toClient, a)
    BY <1>1, <1>14, BrokerPubrelServes
  <2> QED
    BY <1>15, <2>1, OnePacket, OrderFacts
<1>17. Stage(toClient \o <<a>>, "PUBREC", TakenTwo, ReleasedTwo, accepted)
  BY <1>15, <1>16, OrderFacts, StageWrite
<1> QED
  BY <1>2, <1>5, <1>9, <1>10, <1>12, <1>13, <1>16, <1>17 DEF Stages

-----------------------------------------------------------------------------
LEMMA InitOrder == Init => OrderInv
<1> SUFFICES ASSUME Init
             PROVE  OrderInv
  OBVIOUS
<1>1. Sent = {} /\ Taken = {} /\ TakenTwo = {} /\ ReleasedTwo = {} /\ DoneTwo = {}
  BY DEF Init, Sent, Taken, TakenTwo, ReleasedTwo, DoneTwo
<1>2. Stages
  BY <1>1 DEF Init, Stages, Stage, Follows
<1> QED
  BY <1>2, InitSession DEF Init, OrderInv

LEMMA NextOrder ==
  ASSUME NoWrap, ~ LateSend, DeliveryInv, losses = 0 => OrderInv, [Next]_vars
  PROVE  losses' = 0 => OrderInv'
<1>1. SUFFICES ASSUME losses' = 0
               PROVE  OrderInv'
  OBVIOUS
<1>2. DeliveryInv'
  BY NextDelivery
<1>3. ~ ConnLost /\ ~ SocketConnectFails
  BY <1>1 DEF ConnLost, SocketConnectFails, DeliveryInv, WindowInv, TypeOK
<1>4. losses = 0
  BY <1>1, <1>3, AckFindsMessage
  DEF Next, vars, PublishQos0, PublishQueue, SendPublish, HandlePubackcomp,
      HandlePubackcompUnknown, HandlePubrec, RetryCheck, ReconnectReset, SocketConnect,
      Tick, BrokerPublish, BrokerPubrel, Quiescent
<1>5. OrderInv /\ conn = "up"
  BY <1>4 DEF OrderInv
<1>6. SessionInv'
  BY <1>5, NextSession DEF OrderInv
<1>7. ~ ReconnectReset /\ ~ SocketConnect
  BY <1>5 DEF ReconnectReset, SocketConnect
<1>8. conn' = "up"
  BY <1>3, <1>5, <1>7, AckFindsMessage
  DEF Next, vars, PublishQos0, PublishQueue, SendPublish, HandlePubackcomp,
      HandlePubackcompUnknown, HandlePubrec, RetryCheck, Tick, BrokerPublish, BrokerPubrel,
      Quiescent
<1>9. \A p \in pending' : p.mid = Len(accepted')
  <2>1. CASE \E q \in {1, 2} : PublishQueue(q)
    BY <1>5, <2>1, PublishQueueStages
  <2>2. CASE ~ \E q \in {1, 2} : PublishQueue(q)
    <3>1. pending' = {} \/ UNCHANGED <<pending, accepted>>
      BY <1>3, <1>7, <2>2, AckFindsMessage
      DEF Next, vars, history, PublishQos0, SendPublish, HandlePubackcomp,
          HandlePubackcompUnknown, HandlePubrec, RetryCheck, Tick, BrokerPublish,
          BrokerPubrel, Quiescent
    <3> QED
      BY <1>5, <3>1 DEF OrderInv
  <2> QED
    BY <2>1, <2>2
<1>10. Stages'
  <2>1. CASE Quiescent \/ UNCHANGED vars
    <3>1. SameStates /\ SameBroker /\ UNCHANGED <<toBroker, toClient, pending>>
      BY <2>1 DEF Quiescent, vars, client, history, SameStates, SameBroker
    <3> QED
      BY <1>5, <3>1, QuietStages
  <2> QED
    BY <1>2, <1>3, <1>5, <1>7, <2>1, AckFindsMessage, PublishQos0Stages, PublishQueueStages,
       SendPublishStages, HandlePubackcompStages, UnknownStages, HandlePubrecStages,
       RetryCheckStages, TickStages, BrokerPublishStages, BrokerPubrelStages
    DEF Next
<1> QED
  BY <1>6, <1>8, <1>9, <1>10 DEF OrderInv

\* As long as the connection holds, the broker hands messages of one QoS over in the
\* order of the publish() calls: neither the window, whose free slots go to the oldest
\* waiting message, nor the retries nor the QoS 2 exchange let one overtake another.
THEOREM DeliveredInOrderCorrect ==
  ASSUME NoWrap, ~ LateSend
  PROVE  Spec => []DeliveredInOrder
<1> DEFINE Inv == DeliveryInv /\ (losses = 0 => OrderInv)
<1>1. Init => Inv
  BY InitDelivery, InitOrder
<1>2. Inv /\ [Next]_vars => Inv'
  BY NextDelivery, NextOrder
<1>3. Inv => DeliveredInOrder
  <2>1. SUFFICES ASSUME DeliveryInv, OrderInv, NEW j \in 1 .. Len(accepted),
                        NEW i \in 1 .. (j - 1), accepted[i] = accepted[j], delivered[j] > 0
                 PROVE  delivered[i] > 0
    BY DEF DeliveredInOrder
  <2>2. i \in Earlier(accepted, j)
    BY <2>1 DEF Earlier
  <2>3. CASE accepted[j] = 2
    <3>1. j \in DoneTwo
      BY <2>1, <2>3 DEF DoneTwo
    <3>2. i \in DoneTwo
      BY <2>1, <2>2, <3>1, OrderFacts DEF Stage
    <3> QED
      BY <3>2 DEF DoneTwo
  <2>4. CASE accepted[j] # 2
    <3>1. j \in Taken
      BY <2>1 DEF Taken, Kept
    <3>2. i \in Taken
      BY <2>1, <2>2, <3>1, OrderFacts DEF Stage
    <3>3. ~ Holds(held, i)
      BY <2>1, <2>4 DEF DeliveryInv, Names, Holds
    <3> QED
      BY <3>2, <3>3 DEF Taken, Kept
  <2> QED
    BY <2>3, <2>4
<1> HIDE DEF Inv
<1> QED
  BY <1>1, <1>2, <1>3, PTL DEF Spec
=============================================================================
