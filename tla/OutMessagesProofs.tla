-------------------------- MODULE OutMessagesProofs --------------------------
(***************************************************************************)
(* The window of in-flight messages is kept by every step of OutMessages,  *)
(* for every window size, number of messages and number of lost            *)
(* connections, as long as the 16-bit message ids have not wrapped.        *)
(***************************************************************************)
EXTENDS OutMessages, ListOrderProofs, SequenceTheorems

\* The ids given out so far are all different
NoWrap == MaxPublishes <= MidSpace

\* No packet names a message that is still waiting for the window.
KnownIn(mid, last, list) ==
  /\ mid <= last
  /\ \A i \in DOMAIN list : list[i].mid = mid => list[i].state # "invalid"

KnownMid(mid) == KnownIn(mid, last_mid, out_messages)

\* The list is ordered by message id, and ids number the publish() calls.
MidsOrdered ==
  /\ last_mid = Len(accepted)
  /\ \A i \in DOMAIN out_messages :
       /\ out_messages[i].mid <= last_mid
       /\ out_messages[i].id = out_messages[i].mid
  /\ \A i, j \in DOMAIN out_messages :
       i < j => out_messages[i].mid < out_messages[j].mid

WireKnown ==
  /\ \A i \in DOMAIN toBroker : KnownMid(toBroker[i].mid)
  /\ \A i \in DOMAIN toClient : KnownMid(toClient[i].mid)
  /\ \A p \in pending : KnownMid(p.mid) /\ p.id = p.mid

\* The inductive invariant
WindowInv == TypeOK /\ InflightWindow /\ MidsOrdered /\ WireKnown

-----------------------------------------------------------------------------
(* The number of positions inside the window of a list of length L.        *)
LEMMA WindowSize ==
  ASSUME NEW L \in Nat
  PROVE  Cardinality({i \in 1 .. L : WindowOpen(i - 1)}) =
           IF MaxInflight = 0 \/ L <= MaxInflight THEN L ELSE MaxInflight
<1>1. MaxInflight \in Nat
  BY ConstantsAssumption
<1>2. CASE MaxInflight = 0 \/ L <= MaxInflight
  <2>1. {i \in 1 .. L : WindowOpen(i - 1)} = 1 .. L
    BY <1>1, <1>2 DEF WindowOpen
  <2>2. Cardinality(1 .. L) = L
    BY FS_Interval
  <2> QED
    BY <1>2, <2>1, <2>2
<1>3. CASE ~ (MaxInflight = 0 \/ L <= MaxInflight)
  <2>1. {i \in 1 .. L : WindowOpen(i - 1)} = 1 .. MaxInflight
    BY <1>1, <1>3 DEF WindowOpen
  <2>2. Cardinality(1 .. MaxInflight) = MaxInflight
    BY <1>1, <1>3, FS_Interval
  <2> QED
    BY <1>3, <2>1, <2>2
<1> QED
  BY <1>2, <1>3

(* What TypeOK says of the list and of the channels, element by element.   *)
LEMMA ListFacts ==
  ASSUME TypeOK
  PROVE  /\ Len(out_messages) \in Nat
         /\ DOMAIN out_messages = 1 .. Len(out_messages)
         /\ \A i \in DOMAIN out_messages :
              /\ out_messages[i] \in Messages
              /\ out_messages[i].mid \in Mids
              /\ out_messages[i].mid \in Nat
         /\ \A i \in DOMAIN toBroker : toBroker[i] \in ToBrokerPackets
         /\ \A i \in DOMAIN toClient : toClient[i] \in ToClientPackets
<1>1. /\ Len(out_messages) \in Nat
      /\ DOMAIN out_messages = 1 .. Len(out_messages)
      /\ \A i \in DOMAIN out_messages : out_messages[i] \in Messages
      /\ \A i \in DOMAIN toBroker : toBroker[i] \in ToBrokerPackets
      /\ \A i \in DOMAIN toClient : toClient[i] \in ToClientPackets
  BY DEF TypeOK
<1>2. \A m \in Messages : m.mid \in Mids /\ m.mid \in Nat
  BY ConstantsAssumption DEF Messages, Mids
<1> QED
  BY <1>1, <1>2

(* The first message with a given id is in the list.                       *)
LEMMA MidIndexFound ==
  ASSUME TypeOK, MidsOrdered, NEW mid, HasMid(mid)
  PROVE  /\ MidIndex(mid) \in DOMAIN out_messages
         /\ out_messages[MidIndex(mid)].mid = mid
<1>1. PICK i \in DOMAIN out_messages : out_messages[i].mid = mid
  BY DEF HasMid
<1>2. ASSUME NEW j \in 1 .. (i - 1)
      PROVE  out_messages[j].mid # mid
  <2>1. j \in DOMAIN out_messages /\ j < i
    BY <1>1, ListFacts
  <2> QED
    BY <1>1, <2>1, ListFacts DEF MidsOrdered, Messages, Mids
<1> QED
  BY <1>1, <1>2 DEF MidIndex

LEMMA InitWindow == Init => WindowInv
<1> SUFFICES ASSUME Init
             PROVE  WindowInv
  OBVIOUS
<1> USE ConstantsAssumption
<1>1. TypeOK
  BY DEF Init, TypeOK, Ids
<1>2. InflightWindow
  <2>1. {i \in DOMAIN out_messages : WindowOpen(i - 1)} = {}
    BY DEF Init
  <2> QED
    BY <2>1, FS_EmptySet DEF Init, InflightWindow
<1>3. MidsOrdered /\ WireKnown
  BY DEF Init, MidsOrdered, WireKnown
<1> QED
  BY <1>1, <1>2, <1>3 DEF WindowInv
-----------------------------------------------------------------------------
(* One lemma per group of actions.                                         *)

(* Steps that change messages in place: the mids stay, and whether a       *)
(* message waits for the window stays, so known mids stay known.           *)
LEMMA InPlaceWindow ==
  ASSUME WindowInv, TypeOK',
         UNCHANGED <<inflight_messages, out_queue_len, last_mid, accepted>>,
         Len(out_messages') = Len(out_messages),
         \A i \in DOMAIN out_messages :
           /\ out_messages'[i].mid = out_messages[i].mid
           /\ out_messages'[i].id = out_messages[i].id
           /\ out_messages'[i].state = "invalid" <=> out_messages[i].state = "invalid",
         \A i \in DOMAIN toBroker' : KnownMid(toBroker'[i].mid),
         \A i \in DOMAIN toClient' : KnownMid(toClient'[i].mid),
         pending' \in {pending, {}}
  PROVE  WindowInv'
<1>1. DOMAIN out_messages' = DOMAIN out_messages
  BY DEF WindowInv, TypeOK
<1>2. InflightWindow'
  BY <1>1 DEF WindowInv, InflightWindow, WindowOpen
<1>3. MidsOrdered'
  BY <1>1 DEF WindowInv, MidsOrdered
<1>4. \A mid : KnownMid(mid) => KnownMid(mid)'
  BY <1>1 DEF KnownMid, KnownIn
<1>5. WireKnown'
  BY <1>4 DEF WindowInv, WireKnown
<1> QED
  BY <1>2, <1>3, <1>5 DEF WindowInv

(* ... among them the steps that do not touch the list at all.             *)
LEMMA FrameWindow ==
  ASSUME WindowInv, TypeOK', UNCHANGED <<client, accepted>>,
         \A i \in DOMAIN toBroker' : KnownMid(toBroker'[i].mid),
         \A i \in DOMAIN toClient' : KnownMid(toClient'[i].mid),
         pending' \in {pending, {}}
  PROVE  WindowInv'
BY InPlaceWindow DEF client

(* Sending appends to the channel, or drops the packets.                   *)
LEMMA SendKnown ==
  ASSUME TypeOK, NEW ps \in Seq(ToBrokerPackets), Send(ps)
  PROVE  /\ toBroker' \in Seq(ToBrokerPackets)
         /\ \A i \in DOMAIN toBroker' :
              \/ \E j \in DOMAIN toBroker : toBroker'[i] = toBroker[j]
              \/ \E j \in DOMAIN ps : toBroker'[i] = ps[j]
<1>1. CASE conn = "up"
  <2>1. toBroker' = toBroker \o ps /\ toBroker \in Seq(ToBrokerPackets)
    BY <1>1 DEF Send, TypeOK
  <2>2. toBroker' \in Seq(ToBrokerPackets)
    BY <2>1
  <2>3. ASSUME NEW i \in DOMAIN toBroker'
        PROVE  \/ \E j \in DOMAIN toBroker : toBroker'[i] = toBroker[j]
               \/ \E j \in DOMAIN ps : toBroker'[i] = ps[j]
    <3>1. i \in 1 .. (Len(toBroker) + Len(ps))
      BY <2>1
    <3>2. CASE i <= Len(toBroker)
      BY <2>1, <3>1, <3>2
    <3>3. CASE i > Len(toBroker)
      <4>1. toBroker'[i] = ps[i - Len(toBroker)] /\ i - Len(toBroker) \in DOMAIN ps
        BY <2>1, <3>1, <3>3
      <4> QED
        BY <4>1
    <3> QED
      BY <3>1, <3>2, <3>3
  <2> QED
    BY <2>2, <2>3
<1>2. CASE conn # "up"
  BY <1>2 DEF Send, TypeOK
<1> QED
  BY <1>1, <1>2

LEMMA SendKeepsKnown ==
  ASSUME WindowInv, NEW ps \in Seq(ToBrokerPackets), Send(ps),
         \A j \in DOMAIN ps : KnownMid(ps[j].mid)
  PROVE  /\ toBroker' \in Seq(ToBrokerPackets)
         /\ \A i \in DOMAIN toBroker' : KnownMid(toBroker'[i].mid)
<1>1. /\ toBroker' \in Seq(ToBrokerPackets)
      /\ \A i \in DOMAIN toBroker' :
           \/ \E j \in DOMAIN toBroker : toBroker'[i] = toBroker[j]
           \/ \E j \in DOMAIN ps : toBroker'[i] = ps[j]
  BY SendKnown DEF WindowInv
<1>2. \A j \in DOMAIN toBroker : KnownMid(toBroker[j].mid)
  BY DEF WindowInv, WireKnown
<1> QED
  BY <1>1, <1>2

LEMMA ConnWindow ==
  ASSUME WindowInv, ConnLost \/ SocketConnect \/ SocketConnectFails
  PROVE  WindowInv'
<1>1. TypeOK'
  <2>1. CASE ConnLost \/ SocketConnectFails
    BY <2>1, ConstantsAssumption
    DEF WindowInv, TypeOK, ConnLost, SocketConnectFails, client, history
  <2>2. CASE SocketConnect
    <3>1. held' \in {{}, held}
      BY <2>2, ConstantsAssumption DEF SocketConnect
    <3>2. held' \in SUBSET [mid : Mids, id : Ids]
      BY <3>1 DEF WindowInv, TypeOK
    <3>3. toBroker' \in Seq(ToBrokerPackets) /\ toClient' \in Seq(ToClientPackets)
      BY <2>2 DEF SocketConnect
    <3> QED
      BY <2>2, <3>2, <3>3 DEF WindowInv, TypeOK, SocketConnect, client, history
  <2> QED
    BY <2>1, <2>2
<1>2. UNCHANGED <<client, accepted>> /\ pending' = pending
  BY DEF ConnLost, SocketConnect, SocketConnectFails, client, history
<1>3. toBroker' \in {toBroker, <<>>} /\ toClient' \in {toClient, <<>>}
  BY DEF ConnLost, SocketConnect, SocketConnectFails
<1>4. /\ \A i \in DOMAIN toBroker' : KnownMid(toBroker'[i].mid)
      /\ \A i \in DOMAIN toClient' : KnownMid(toClient'[i].mid)
  BY <1>3 DEF WindowInv, WireKnown
<1> QED
  BY <1>1, <1>2, <1>4, FrameWindow

LEMMA TickWindow ==
  ASSUME WindowInv, NEW k, Tick(k)
  PROVE  WindowInv'
<1>1. k \in DOMAIN out_messages /\ out_messages[k] \in Messages
  BY ListFacts DEF WindowInv, Tick
<1>2. [out_messages[k] EXCEPT !.due = TRUE] \in Messages
  BY <1>1 DEF Messages
<1>3. /\ out_messages' = [out_messages EXCEPT ![k] = [out_messages[k] EXCEPT !.due = TRUE]]
      /\ out_messages \in Seq(Messages)
  BY DEF Tick, WindowInv, TypeOK
<1>4. /\ out_messages' \in Seq(Messages)
      /\ Len(out_messages') = Len(out_messages)
  BY <1>1, <1>2, <1>3
<1>5. TypeOK'
  BY <1>4 DEF WindowInv, TypeOK, Tick, history
<1>6. ASSUME NEW i \in DOMAIN out_messages
      PROVE  /\ out_messages'[i].mid = out_messages[i].mid
             /\ out_messages'[i].id = out_messages[i].id
             /\ out_messages'[i].state = out_messages[i].state
  <2>1. out_messages[i] \in Messages
    BY ListFacts DEF WindowInv
  <2> QED
    BY <1>1, <1>3, <2>1 DEF Messages
<1>7. UNCHANGED <<inflight_messages, out_queue_len, last_mid, accepted, pending,
                  toBroker, toClient>>
  BY DEF Tick, history
<1> QED
  BY <1>4, <1>5, <1>6, <1>7, InPlaceWindow DEF WindowInv, WireKnown

LEMMA SendPublishWindow ==
  ASSUME WindowInv, SendPublish
  PROVE  WindowInv'
<1>1. PICK i \in DOMAIN out_messages, p \in pending :
        /\ out_messages[i].id = p.id
        /\ Send(<<PublishPacket(out_messages[i])>>)
  BY DEF SendPublish
<1> DEFINE q == PublishPacket(out_messages[i])
<1>2. q \in PublishPackets /\ q.mid = out_messages[i].mid
  BY ListFacts DEF WindowInv, PublishPacket, PublishPackets, Messages
<1>3. <<q>> \in Seq(ToBrokerPackets) /\ \A j \in DOMAIN <<q>> : <<q>>[j] = q
  BY <1>2 DEF ToBrokerPackets
<1>4. KnownMid(q.mid)
  BY <1>1, <1>2 DEF WindowInv, MidsOrdered, WireKnown
<1>5. /\ toBroker' \in Seq(ToBrokerPackets)
      /\ \A j \in DOMAIN toBroker' : KnownMid(toBroker'[j].mid)
  <2> HIDE DEF q
  <2>1. Send(<<q>>)
    BY <1>1 DEF q
  <2> QED
    BY <1>3, <1>4, <2>1, SendKeepsKnown
<1>6. TypeOK' /\ UNCHANGED <<client, accepted, toClient>> /\ pending' = {}
  BY <1>5 DEF WindowInv, TypeOK, SendPublish, client, history
<1> QED
  BY <1>5, <1>6, FrameWindow DEF WindowInv, WireKnown

LEMMA SendPublishFreedWindow ==
  ASSUME WindowInv, SendPublishFreed
  PROVE  WindowInv'
<1>1. PICK p \in pending :
        \/ Send(<<PublishPacket([mid |-> p.mid, id |-> p.id, qos |-> p.qos,
                                 dup |-> TRUE])>>)
           /\ UNCHANGED conn
        \/ UNCHANGED toBroker /\ conn' = "crashed"
  BY DEF SendPublishFreed
<1> DEFINE q == PublishPacket([mid |-> p.mid, id |-> p.id, qos |-> p.qos, dup |-> TRUE])
<1>2. p \in [mid : Mids, id : Ids, qos : {1, 2}]
  BY DEF WindowInv, TypeOK
<1>3. q \in PublishPackets /\ q.mid = p.mid
  BY <1>2 DEF PublishPacket, PublishPackets
<1>4. <<q>> \in Seq(ToBrokerPackets) /\ \A j \in DOMAIN <<q>> : <<q>>[j] = q
  <2> HIDE DEF q
  <2> QED
    BY <1>3 DEF ToBrokerPackets
<1>5. KnownMid(q.mid)
  BY <1>3 DEF WindowInv, WireKnown
<1>6. /\ toBroker' \in Seq(ToBrokerPackets)
      /\ \A j \in DOMAIN toBroker' : KnownMid(toBroker'[j].mid)
  <2> HIDE DEF q
  <2>1. CASE UNCHANGED toBroker
    BY <2>1 DEF WindowInv, WireKnown, TypeOK
  <2>2. CASE Send(<<q>>)
    BY <1>4, <1>5, <2>2, SendKeepsKnown
  <2> QED
    BY <1>1, <2>1, <2>2 DEF q
<1>7. TypeOK' /\ UNCHANGED <<client, accepted, toClient>> /\ pending' = {}
  BY <1>6 DEF WindowInv, TypeOK, SendPublishFreed, client, history
<1> QED
  BY <1>6, <1>7, FrameWindow DEF WindowInv, WireKnown

(* Acknowledgements that find no message.                                  *)
LEMMA UnknownWindow ==
  ASSUME WindowInv, HandlePubackcompUnknown \/ HandlePubrecUnknown
  PROVE  WindowInv'
<1>1. /\ toClient # <<>>
      /\ toClient' = Tail(toClient)
      /\ UNCHANGED <<client, accepted, pending, toBroker>>
  BY DEF HandlePubackcompUnknown, HandlePubrecUnknown, client, history
<1>2. /\ toClient' \in Seq(ToClientPackets)
      /\ \A i \in DOMAIN toClient' : KnownMid(toClient'[i].mid)
  BY <1>1, TailElements DEF WindowInv, TypeOK, WireKnown
<1>3. TypeOK'
  BY <1>2 DEF WindowInv, TypeOK, HandlePubackcompUnknown, HandlePubrecUnknown,
              client, history
<1> QED
  BY <1>1, <1>2, <1>3, FrameWindow DEF WindowInv, WireKnown

LEMMA HandlePubrecWindow ==
  ASSUME WindowInv, HandlePubrec
  PROVE  WindowInv'
<1> DEFINE mid == Head(toClient).mid
           k == MidIndex(mid)
           new == [out_messages[k] EXCEPT !.state = "wait_for_pubcomp", !.due = FALSE]
           q == MidPacket("PUBREL", mid)
<1>1. /\ toClient # <<>>
      /\ HasMid(mid)
      /\ toClient' = Tail(toClient)
      /\ Send(<<q>>)
      /\ UNCHANGED <<inflight_messages, out_queue_len, last_mid, pending, conn,
                     held, losses, accepted, delivered, reported>>
  BY DEF HandlePubrec, history
<1>2. /\ toClient' \in Seq(ToClientPackets)
      /\ \A i \in DOMAIN toClient' : KnownMid(toClient'[i].mid)
      /\ KnownMid(mid)
      /\ Head(toClient) \in ToClientPackets
  BY <1>1, TailElements DEF WindowInv, TypeOK, WireKnown
<1>3. /\ k \in DOMAIN out_messages
      /\ out_messages[k].mid = mid
      /\ out_messages[k] \in Messages
      /\ out_messages[k].state # "invalid"
  BY <1>1, <1>2, MidIndexFound, ListFacts DEF WindowInv, KnownMid, KnownIn
<1>4. out_messages' = [out_messages EXCEPT ![k] = new]
  BY <1>3 DEF HandlePubrec, Messages
<1>5. /\ new \in Messages
      /\ new.mid = out_messages[k].mid
      /\ new.id = out_messages[k].id
      /\ new.state = "wait_for_pubcomp"
  BY <1>3 DEF Messages, MsgStates
<1>6. <<q>> \in Seq(ToBrokerPackets) /\ \A j \in DOMAIN <<q>> : <<q>>[j].mid = mid
  <2>1. q \in ToBrokerPackets /\ q.mid = mid
    BY <1>2 DEF MidPacket, MidPackets, ToBrokerPackets, ToClientPackets
  <2> HIDE DEF q, mid
  <2> QED
    BY <2>1
<1>7. /\ toBroker' \in Seq(ToBrokerPackets)
      /\ \A j \in DOMAIN toBroker' : KnownMid(toBroker'[j].mid)
  <2> HIDE DEF q, mid
  <2> QED
    BY <1>1, <1>2, <1>6, SendKeepsKnown
<1> HIDE DEF new, k, mid, q
<1>8. out_messages' \in Seq(Messages) /\ Len(out_messages') = Len(out_messages)
  BY <1>3, <1>4, <1>5 DEF WindowInv, TypeOK
<1>9. TypeOK'
  BY <1>1, <1>2, <1>7, <1>8 DEF WindowInv, TypeOK
<1>10. \A i \in DOMAIN out_messages :
         /\ out_messages'[i].mid = out_messages[i].mid
         /\ out_messages'[i].id = out_messages[i].id
         /\ out_messages'[i].state = "invalid" <=> out_messages[i].state = "invalid"
  BY <1>3, <1>4, <1>5 DEF WindowInv, TypeOK
<1> QED
  BY <1>1, <1>2, <1>7, <1>8, <1>9, <1>10, InPlaceWindow

(* A step that rewrites every message in place, f giving the new list.     *)
LEMMA MappedList ==
  ASSUME TypeOK, NEW f \in [DOMAIN out_messages -> Messages]
  PROVE  f \in Seq(Messages) /\ Len(f) = Len(out_messages)
<1>1. Len(out_messages) \in Nat /\ f \in [1 .. Len(out_messages) -> Messages]
  BY ListFacts
<1> QED
  BY <1>1

LEMMA ReconnectResetWindow ==
  ASSUME WindowInv, ReconnectReset
  PROVE  WindowInv'
<1>1. ASSUME NEW i \in DOMAIN out_messages
      PROVE  /\ Reset(i) \in Messages
             /\ Reset(i).mid = out_messages[i].mid
             /\ Reset(i).id = out_messages[i].id
             /\ Reset(i).state = "invalid" <=> out_messages[i].state = "invalid"
  <2>1. out_messages[i] \in Messages
    BY ListFacts DEF WindowInv
  <2>2. out_messages[i].state = "invalid" <=> ~ WindowOpen(i - 1)
    BY DEF WindowInv, InflightWindow
  <2> QED
    BY <2>1, <2>2 DEF Reset, Messages, MsgStates
<1>2. out_messages' = [i \in DOMAIN out_messages |-> Reset(i)]
  BY DEF ReconnectReset
<1>3. out_messages' \in Seq(Messages) /\ Len(out_messages') = Len(out_messages)
  BY <1>1, <1>2, MappedList DEF WindowInv
<1>4. /\ UNCHANGED <<inflight_messages, out_queue_len, last_mid, pending, toBroker,
                     toClient, held, losses, accepted, delivered, reported>>
      /\ conn' = "resetting"
  BY DEF ReconnectReset, WindowInv, InflightWindow, history
<1>5. TypeOK'
  BY <1>3, <1>4 DEF WindowInv, TypeOK
<1>6. \A i \in DOMAIN out_messages :
        /\ out_messages'[i].mid = out_messages[i].mid
        /\ out_messages'[i].id = out_messages[i].id
        /\ out_messages'[i].state = "invalid" <=> out_messages[i].state = "invalid"
  BY <1>1, <1>2
<1> QED
  BY <1>3, <1>4, <1>5, <1>6, InPlaceWindow DEF WindowInv, WireKnown

LEMMA RetryCheckWindow ==
  ASSUME WindowInv, RetryCheck
  PROVE  WindowInv'
<1> DEFINE late == {i \in DOMAIN out_messages :
                      out_messages[i].due /\ out_messages[i].state # "invalid"}
           new == [i \in DOMAIN out_messages |->
                     IF i \in late THEN Retry(out_messages[i]) ELSE out_messages[i]]
           ps == [n \in 1 .. Cardinality(late) |->
                    RetryPacket(out_messages[InOrder(late)[n]])]
<1>1. /\ out_messages' = new
      /\ Send(ps)
      /\ UNCHANGED <<inflight_messages, out_queue_len, last_mid, pending, conn,
                     toClient, held, losses, accepted, delivered, reported>>
  BY DEF RetryCheck, history
<1>2. ASSUME NEW m \in Messages
      PROVE  /\ Retry(m) \in Messages
             /\ Retry(m).mid = m.mid
             /\ Retry(m).id = m.id
             /\ Retry(m).state = m.state
             /\ RetryPacket(m) \in ToBrokerPackets
             /\ RetryPacket(m).mid = m.mid
  <2>1. /\ Retry(m) \in Messages
        /\ Retry(m).mid = m.mid
        /\ Retry(m).id = m.id
        /\ Retry(m).state = m.state
    BY DEF Retry, Messages
  <2>2. CASE m.state = "wait_for_pubcomp"
    BY <2>1, <2>2
    DEF RetryPacket, MidPacket, MidPackets, ToBrokerPackets, Messages
  <2>3. CASE m.state # "wait_for_pubcomp"
    <3>1. PublishPacket(Retry(m)) \in PublishPackets
      BY <2>1 DEF PublishPacket, PublishPackets, Messages
    <3>2. RetryPacket(m) = PublishPacket(Retry(m))
      BY <2>3 DEF RetryPacket
    <3> QED
      BY <2>1, <3>1, <3>2 DEF ToBrokerPackets, PublishPacket
  <2> QED
    BY <2>1, <2>2, <2>3
<1>3. /\ out_messages' \in Seq(Messages)
      /\ Len(out_messages') = Len(out_messages)
      /\ \A i \in DOMAIN out_messages :
           /\ out_messages'[i].mid = out_messages[i].mid
           /\ out_messages'[i].id = out_messages[i].id
           /\ out_messages'[i].state = out_messages[i].state
  <2>1. \A i \in DOMAIN out_messages : out_messages[i] \in Messages
    BY ListFacts DEF WindowInv
  <2>2. /\ new \in [DOMAIN out_messages -> Messages]
        /\ \A i \in DOMAIN out_messages :
             /\ new[i].mid = out_messages[i].mid
             /\ new[i].id = out_messages[i].id
             /\ new[i].state = out_messages[i].state
    <3> HIDE DEF late
    <3> QED
      BY <1>2, <2>1
  <2> HIDE DEF new
  <2> QED
    BY <1>1, <2>2, MappedList DEF WindowInv
<1>4. ps \in Seq(ToBrokerPackets) /\ \A n \in DOMAIN ps : KnownMid(ps[n].mid)
  <2>1. Len(out_messages) \in Nat /\ late \in SUBSET (1 .. Len(out_messages))
    BY ListFacts DEF WindowInv
  <2>2. Cardinality(late) \in Nat
    <3> HIDE DEF late
    <3> QED
      BY <2>1, PositionsFinite
  <2>3. ASSUME NEW n \in 1 .. Cardinality(late)
        PROVE  ps[n] \in ToBrokerPackets /\ KnownMid(ps[n].mid)
    <3>1. InOrder(late)[n] \in late
      <4> HIDE DEF late
      <4> QED
        BY <2>1, InOrderInSet
    <3>2. PICK i \in late : i = InOrder(late)[n]
      BY <3>1
    <3>3. ps[n] = RetryPacket(out_messages[i])
      BY <3>2
    <3>4. /\ i \in DOMAIN out_messages
          /\ out_messages[i] \in Messages
          /\ out_messages[i].state # "invalid"
      BY ListFacts DEF WindowInv
    <3>5. KnownMid(out_messages[i].mid)
      <4>1. ASSUME NEW j \in DOMAIN out_messages,
                   out_messages[j].mid = out_messages[i].mid
            PROVE  j = i
        BY <3>4, <4>1, ListFacts DEF WindowInv, MidsOrdered
      <4> QED
        BY <3>4, <4>1 DEF KnownMid, KnownIn, WindowInv, MidsOrdered
    <3> QED
      BY <1>2, <3>3, <3>4, <3>5
  <2> QED
    <3> HIDE DEF late
    <3>1. ps \in [1 .. Cardinality(late) -> ToBrokerPackets]
      BY <2>3
    <3> QED
      BY <2>2, <2>3, <3>1
<1> HIDE DEF late, new, ps
<1>5. /\ toBroker' \in Seq(ToBrokerPackets)
      /\ \A j \in DOMAIN toBroker' : KnownMid(toBroker'[j].mid)
  BY <1>1, <1>4, SendKeepsKnown
<1>6. TypeOK'
  BY <1>1, <1>3, <1>5 DEF WindowInv, TypeOK
<1> QED
  BY <1>1, <1>3, <1>5, <1>6, InPlaceWindow DEF WindowInv, WireKnown

(* The broker answers with the mid of the packet it read.                  *)
LEMMA BrokerWindow ==
  ASSUME WindowInv, BrokerPublish \/ BrokerPubrel
  PROVE  WindowInv'
<1>1. /\ toBroker # <<>>
      /\ toBroker' = Tail(toBroker)
      /\ UNCHANGED <<client, pending, conn, losses, accepted, reported>>
  BY DEF BrokerPublish, BrokerPubrel, client
<1>2. /\ toBroker' \in Seq(ToBrokerPackets)
      /\ \A i \in DOMAIN toBroker' : KnownMid(toBroker'[i].mid)
      /\ KnownMid(Head(toBroker).mid)
      /\ Head(toBroker) \in ToBrokerPackets
  BY <1>1, TailElements DEF WindowInv, TypeOK, WireKnown
<1>3. Head(toBroker).mid \in Mids
  BY <1>2 DEF ToBrokerPackets, PublishPackets, MidPackets
<1>4. /\ toClient' \in Seq(ToClientPackets)
      /\ \A i \in DOMAIN toClient' : KnownMid(toClient'[i].mid)
  <2>1. CASE UNCHANGED toClient
    BY <2>1 DEF WindowInv, TypeOK, WireKnown
  <2>2. ASSUME NEW t \in {"PUBACK", "PUBREC", "PUBCOMP"},
               toClient' = Append(toClient, MidPacket(t, Head(toBroker).mid))
        PROVE  /\ toClient' \in Seq(ToClientPackets)
               /\ \A i \in DOMAIN toClient' : KnownMid(toClient'[i].mid)
    <3> DEFINE q == MidPacket(t, Head(toBroker).mid)
    <3>1. q \in ToClientPackets /\ q.mid = Head(toBroker).mid
      BY <1>3 DEF MidPacket, MidPackets, ToClientPackets
    <3>2. toClient \in Seq(ToClientPackets)
      BY DEF WindowInv, TypeOK
    <3>3. toClient' = Append(toClient, q)
      BY <2>2
    <3> HIDE DEF q
    <3>4. toClient' \in Seq(ToClientPackets)
      BY <3>1, <3>2, <3>3
    <3>5. \A i \in DOMAIN toClient' :
            toClient'[i] = q \/ \E j \in DOMAIN toClient : toClient'[i] = toClient[j]
      BY <3>1, <3>2, <3>3
    <3>6. \A j \in DOMAIN toClient : KnownMid(toClient[j].mid)
      BY DEF WindowInv, WireKnown
    <3> QED
      BY <1>2, <3>1, <3>4, <3>5, <3>6
  <2> QED
    BY <2>1, <2>2 DEF BrokerPublish, BrokerPubrel
<1>5. /\ held' \in SUBSET [mid : Mids, id : Ids]
      /\ delivered' \in [Ids -> 0 .. 2]
  <2>1. held \in SUBSET [mid : Mids, id : Ids] /\ delivered \in [Ids -> 0 .. 2]
    BY DEF WindowInv, TypeOK
  <2>2. ASSUME NEW id \in Ids, Deliver(id)
        PROVE  delivered' \in [Ids -> 0 .. 2]
    BY <2>1, <2>2 DEF Deliver, CountUp
  <2>3. CASE BrokerPublish
    <3>1. Head(toBroker).type = "PUBLISH"
      BY <2>3 DEF BrokerPublish
    <3>2. Head(toBroker) \in PublishPackets
      BY <1>2, <3>1 DEF ToBrokerPackets, MidPackets
    <3>3. Head(toBroker).id \in Ids
      BY <3>2 DEF PublishPackets
    <3>4. held' \in {held, held \cup {[mid |-> Head(toBroker).mid, id |-> Head(toBroker).id]}}
      BY <2>3 DEF BrokerPublish
    <3>5. UNCHANGED delivered \/ Deliver(Head(toBroker).id)
      BY <2>3 DEF BrokerPublish
    <3>6. [mid |-> Head(toBroker).mid, id |-> Head(toBroker).id] \in [mid : Mids, id : Ids]
      BY <1>3, <3>3
    <3>7. held' \in SUBSET [mid : Mids, id : Ids]
      BY <2>1, <3>4, <3>6
    <3>8. delivered' \in [Ids -> 0 .. 2]
      BY <2>1, <2>2, <3>3, <3>5
    <3> QED
      BY <3>7, <3>8
  <2>4. CASE BrokerPubrel
    <3>1. \/ UNCHANGED <<held, delivered>>
          \/ \E h \in held : Deliver(h.id) /\ held' = held \ {h}
      BY <2>4 DEF BrokerPubrel
    <3>2. \A h \in held : h.id \in Ids
      BY <2>1
    <3> QED
      BY <2>1, <2>2, <3>1, <3>2
  <2> QED
    BY <2>3, <2>4
<1>6. TypeOK'
  BY <1>1, <1>2, <1>4, <1>5 DEF WindowInv, TypeOK, client
<1> QED
  BY <1>1, <1>2, <1>4, <1>6, FrameWindow DEF client

(* Steps that change the list: mids that were known stay known, and new    *)
(* packets name known mids.                                                *)
LEMMA WireGrows ==
  ASSUME WindowInv,
         \A mid \in Mids : KnownMid(mid) => KnownIn(mid, last_mid', out_messages'),
         \A i \in DOMAIN toBroker' :
           \/ \E j \in DOMAIN toBroker : toBroker'[i] = toBroker[j]
           \/ KnownIn(toBroker'[i].mid, last_mid', out_messages'),
         \A i \in DOMAIN toClient' :
           \E j \in DOMAIN toClient : toClient'[i] = toClient[j],
         \A p \in pending' :
           \/ p \in pending
           \/ KnownIn(p.mid, last_mid', out_messages') /\ p.id = p.mid
  PROVE  WireKnown'
<1>1. \A p \in ToBrokerPackets : p.mid \in Mids
  BY DEF ToBrokerPackets, PublishPackets, MidPackets
<1>2. \A p \in ToClientPackets : p.mid \in Mids
  BY DEF ToClientPackets, MidPackets
<1>3. \A j \in DOMAIN toBroker : KnownIn(toBroker[j].mid, last_mid', out_messages')
  BY <1>1, ListFacts DEF WindowInv, WireKnown
<1>4. \A j \in DOMAIN toClient : KnownIn(toClient[j].mid, last_mid', out_messages')
  BY <1>2, ListFacts DEF WindowInv, WireKnown
<1>5. \A p \in pending : KnownIn(p.mid, last_mid', out_messages') /\ p.id = p.mid
  BY DEF WindowInv, WireKnown, TypeOK
<1> QED
  BY <1>3, <1>4, <1>5 DEF WireKnown, KnownMid

(* Before the wrap the next message id is the successor of the last.       *)
LEMMA NextMid ==
  ASSUME NoWrap, WindowInv, Len(accepted) < MaxPublishes
  PROVE  /\ MidGenerate(last_mid) = last_mid + 1
         /\ MidGenerate(last_mid) \in Mids
         /\ last_mid + 1 = Len(accepted) + 1
         /\ Len(accepted) + 1 \in Ids
         /\ last_mid \in Nat
<1>1. /\ last_mid = Len(accepted)
      /\ Len(accepted) \in Nat
      /\ MidSpace \in Nat \ {0}
      /\ MaxPublishes \in Nat
  BY ConstantsAssumption DEF WindowInv, MidsOrdered, TypeOK
<1>2. last_mid < MidSpace
  BY <1>1 DEF NoWrap
<1>3. last_mid % MidSpace = last_mid
  BY <1>1, <1>2
<1> QED
  BY <1>1, <1>2, <1>3 DEF MidGenerate, Mids, Ids

LEMMA PublishQos0Window ==
  ASSUME NoWrap, WindowInv, PublishQos0
  PROVE  WindowInv'
<1> DEFINE q == PublishPacket([mid |-> last_mid', id |-> Len(accepted'),
                               qos |-> 0, dup |-> FALSE])
<1>1. /\ Len(accepted) < MaxPublishes
      /\ last_mid' = MidGenerate(last_mid)
      /\ accepted' = Append(accepted, 0)
      /\ Send(<<q>>)
      /\ UNCHANGED <<out_messages, inflight_messages, out_queue_len, pending, conn,
                     toClient, held, losses, delivered, reported>>
  BY DEF PublishQos0
<1>2. /\ accepted' \in Seq(0 .. 2)
      /\ Len(accepted') = Len(accepted) + 1
      /\ Len(accepted) \in Nat
  BY <1>1 DEF WindowInv, TypeOK
<1>3. /\ last_mid' = last_mid + 1
      /\ last_mid' \in Mids
      /\ last_mid' = Len(accepted')
      /\ Len(accepted') \in Ids
      /\ last_mid \in Nat
  BY <1>1, <1>2, NextMid
<1>4. q \in PublishPackets /\ q.mid = last_mid'
  BY <1>3 DEF PublishPacket, PublishPackets
<1> HIDE DEF q
<1>5. <<q>> \in Seq(ToBrokerPackets) /\ \A j \in DOMAIN <<q>> : <<q>>[j].mid = last_mid'
  BY <1>4 DEF ToBrokerPackets
<1>6. /\ toBroker' \in Seq(ToBrokerPackets)
      /\ \A i \in DOMAIN toBroker' :
           \/ \E j \in DOMAIN toBroker : toBroker'[i] = toBroker[j]
           \/ \E j \in DOMAIN <<q>> : toBroker'[i] = <<q>>[j]
  BY <1>1, <1>5, SendKnown DEF WindowInv
<1>7. TypeOK'
  BY <1>1, <1>2, <1>3, <1>6, ConstantsAssumption DEF WindowInv, TypeOK, Mids, Ids
<1>8. InflightWindow'
  BY <1>1 DEF WindowInv, InflightWindow, WindowOpen
<1>9. \A i \in DOMAIN out_messages :
        out_messages[i].mid \in Nat /\ out_messages[i].mid <= last_mid
  BY ListFacts DEF WindowInv, MidsOrdered
<1>10. MidsOrdered'
  BY <1>1, <1>3, <1>9 DEF WindowInv, MidsOrdered
<1>11. KnownIn(last_mid', last_mid', out_messages')
  BY <1>1, <1>3, <1>9 DEF KnownMid, KnownIn
<1>12. ASSUME NEW mid \in Mids, KnownMid(mid)
       PROVE  KnownIn(mid, last_mid', out_messages')
  BY <1>1, <1>3, <1>12, ConstantsAssumption DEF KnownMid, KnownIn, Mids
<1>13. WireKnown'
  BY <1>1, <1>5, <1>6, <1>11, <1>12, WireGrows
<1> QED
  BY <1>7, <1>8, <1>10, <1>13 DEF WindowInv

LEMMA PublishQueueWindow ==
  ASSUME NoWrap, WindowInv, NEW q \in {1, 2}, PublishQueue(q)
  PROVE  WindowInv'
<1> DEFINE L == Len(out_messages)
           open == WindowOpen(inflight_messages)
           m == [id |-> Len(accepted) + 1, mid |-> MidGenerate(last_mid), qos |-> q,
                 state |-> IF open THEN WaitState(q) ELSE "invalid",
                 due |-> FALSE, dup |-> FALSE]
<1>1. /\ Len(accepted) < MaxPublishes
      /\ last_mid' = m.mid
      /\ accepted' = Append(accepted, q)
      /\ out_messages' = Append(out_messages, m)
      /\ out_queue_len' = out_queue_len + 1
      /\ UNCHANGED <<conn, toBroker, toClient, held, losses, delivered, reported>>
  BY DEF PublishQueue
<1>2. /\ open => /\ inflight_messages' = inflight_messages + 1
                 /\ pending' = {[mid |-> m.mid, id |-> m.id, qos |-> q]}
      /\ ~ open => UNCHANGED <<inflight_messages, pending>>
  BY DEF PublishQueue
<1>3. /\ accepted' \in Seq(0 .. 2)
      /\ Len(accepted') = Len(accepted) + 1
      /\ Len(accepted) \in Nat
  BY <1>1 DEF WindowInv, TypeOK
<1>4. /\ m.mid = last_mid + 1
      /\ m.mid \in Mids
      /\ m.id = m.mid
      /\ m.id = Len(accepted')
      /\ m.id \in Ids
      /\ last_mid \in Nat
  BY <1>1, <1>3, NextMid
<1>5. /\ m \in Messages
      /\ m.state = "invalid" <=> ~ open
  BY <1>4 DEF Messages, MsgStates, WaitState
<1>6. /\ L \in Nat
      /\ out_queue_len = L
      /\ inflight_messages = IF MaxInflight = 0 \/ L <= MaxInflight THEN L ELSE MaxInflight
      /\ MaxInflight \in Nat
  BY ListFacts, WindowSize, ConstantsAssumption DEF WindowInv, InflightWindow
<1>7. open <=> WindowOpen(L)
  BY <1>6 DEF WindowOpen
<1> HIDE DEF m, open
<1>8. /\ out_messages' \in Seq(Messages)
      /\ Len(out_messages') = L + 1
      /\ DOMAIN out_messages' = 1 .. (L + 1)
      /\ \A i \in DOMAIN out_messages : out_messages'[i] = out_messages[i]
      /\ out_messages'[L + 1] = m
      /\ DOMAIN out_messages = 1 .. L
  BY <1>1, <1>5 DEF WindowInv, TypeOK
<1>9. pending' \in SUBSET [mid : Mids, id : Ids, qos : {1, 2}]
  BY <1>2, <1>4 DEF WindowInv, TypeOK
<1>10. TypeOK'
  <2>1. inflight_messages' \in Nat /\ out_queue_len' \in Nat
    BY <1>1, <1>2, <1>6
  <2>2. last_mid' \in 0 .. MidSpace /\ Len(accepted') <= MaxPublishes
    BY <1>1, <1>3, <1>4, ConstantsAssumption DEF Mids
  <2> QED
    BY <1>1, <1>3, <1>8, <1>9, <2>1, <2>2 DEF WindowInv, TypeOK
<1>11. InflightWindow'
  <2>1. inflight_messages' =
          IF MaxInflight = 0 \/ L + 1 <= MaxInflight THEN L + 1 ELSE MaxInflight
    BY <1>2, <1>6, <1>7 DEF WindowOpen
  <2>2. inflight_messages' = Cardinality({i \in 1 .. (L + 1) : WindowOpen(i - 1)})
    BY <1>6, <2>1, WindowSize
  <2>3. ASSUME NEW i \in DOMAIN out_messages'
        PROVE  out_messages'[i].state = "invalid" <=> ~ WindowOpen(i - 1)
    <3>1. CASE i = L + 1
      BY <1>5, <1>6, <1>7, <1>8, <3>1
    <3>2. CASE i # L + 1
      <4>1. i \in DOMAIN out_messages
        BY <1>6, <1>8, <2>3, <3>2
      <4> QED
        BY <1>8, <4>1 DEF WindowInv, InflightWindow
    <3> QED
      BY <3>1, <3>2
  <2> QED
    BY <1>1, <1>6, <1>8, <2>2, <2>3 DEF InflightWindow, WindowOpen
<1>12. \A i \in DOMAIN out_messages :
         out_messages[i].mid \in Nat /\ out_messages[i].mid <= last_mid
  BY ListFacts DEF WindowInv, MidsOrdered
<1>13. MidsOrdered'
  <2>1. \A i \in DOMAIN out_messages' : i = L + 1 \/ i \in DOMAIN out_messages
    BY <1>6, <1>8
  <2>2. \A i \in DOMAIN out_messages' :
          out_messages'[i].mid <= last_mid' /\ out_messages'[i].id = out_messages'[i].mid
    BY <1>1, <1>4, <1>8, <1>12, <2>1 DEF WindowInv, MidsOrdered
  <2>3. ASSUME NEW i \in DOMAIN out_messages', NEW j \in DOMAIN out_messages', i < j
        PROVE  out_messages'[i].mid < out_messages'[j].mid
    <3>1. i \in DOMAIN out_messages
      BY <1>6, <1>8, <2>3
    <3>2. CASE j = L + 1
      BY <1>4, <1>8, <1>12, <3>1, <3>2
    <3>3. CASE j \in DOMAIN out_messages
      BY <1>8, <2>3, <3>1, <3>3 DEF WindowInv, MidsOrdered
    <3> QED
      BY <2>1, <3>2, <3>3
  <2> QED
    BY <1>1, <1>4, <2>2, <2>3 DEF MidsOrdered
<1>14. ASSUME NEW mid \in Mids, KnownMid(mid)
       PROVE  KnownIn(mid, last_mid', out_messages')
  <2>1. mid <= last_mid /\ mid \in Nat
    BY <1>14 DEF KnownMid, KnownIn, Mids
  <2>2. ASSUME NEW i \in DOMAIN out_messages', out_messages'[i].mid = mid
        PROVE  out_messages'[i].state # "invalid"
    <3>1. i # L + 1
      BY <1>4, <1>8, <2>1, <2>2
    <3>2. i \in DOMAIN out_messages
      BY <1>6, <1>8, <2>2, <3>1
    <3> QED
      BY <1>8, <1>14, <2>2, <3>2 DEF KnownMid, KnownIn
  <2> QED
    BY <1>1, <1>4, <2>1, <2>2 DEF KnownIn
<1>15. ASSUME open
       PROVE  KnownIn(m.mid, last_mid', out_messages')
  <2>1. ASSUME NEW i \in DOMAIN out_messages', out_messages'[i].mid = m.mid
        PROVE  out_messages'[i].state # "invalid"
    <3>1. i = L + 1
      BY <1>4, <1>6, <1>8, <1>12, <2>1
    <3> QED
      BY <1>5, <1>8, <1>15, <3>1
  <2>2. m.mid <= last_mid'
    BY <1>1, <1>4
  <2> QED
    BY <2>1, <2>2 DEF KnownIn
<1>16. WireKnown'
  BY <1>1, <1>2, <1>4, <1>14, <1>15, WireGrows
<1> QED
  BY <1>10, <1>11, <1>13, <1>16 DEF WindowInv

(* Removing the message at position at of a list that fills its window     *)
(* promotes the first queued message, which moves to position MaxInflight, *)
(* and nothing when no message is queued.                                  *)
LEMMA PromotedIsNext ==
  ASSUME NEW L \in Nat, NEW before \in Int, NEW rest,
         Queued(rest) = {i \in 1 .. L : MaxInflight # 0 /\ i >= MaxInflight},
         (MaxInflight = 0 \/ L < MaxInflight) => before = L,
         ~ (MaxInflight = 0 \/ L < MaxInflight) => before = MaxInflight - 1
  PROVE  /\ (MaxInflight = 0 \/ L < MaxInflight) =>
              Promoted(rest, before) = {}
         /\ ~ (MaxInflight = 0 \/ L < MaxInflight) =>
              Promoted(rest, before) = {MaxInflight}
<1> DEFINE up == Promoted(rest, before)
<1>1. MaxInflight \in Nat
  BY ConstantsAssumption
<1>2. CASE MaxInflight = 0 \/ L < MaxInflight
  <2>1. Queued(rest) = {}
    BY <1>1, <1>2
  <2>2. up = {}
    BY <2>1 DEF Promoted
  <2> QED
    BY <1>2, <2>2
<1>3. CASE ~ (MaxInflight = 0 \/ L < MaxInflight)
  <2>1. Queued(rest) = MaxInflight .. L
    BY <1>1, <1>3
  <2>2. ASSUME NEW i \in MaxInflight .. L
        PROVE  Rank(Queued(rest), i) = i - MaxInflight + 1
    <3>1. {j \in Queued(rest) : j <= i} = MaxInflight .. i
      BY <1>1, <2>1
    <3>2. Cardinality(MaxInflight .. i) = i - MaxInflight + 1
      BY <1>1, FS_Interval
    <3> QED
      BY <3>1, <3>2 DEF Rank
  <2>3. up = {MaxInflight}
    <3>1. ASSUME NEW i \in MaxInflight .. L
          PROVE  i \in up <=> i = MaxInflight
      BY <1>1, <1>3, <2>1, <2>2 DEF Promoted
    <3>2. up \subseteq MaxInflight .. L
      BY <2>1 DEF Promoted
    <3>3. MaxInflight \in MaxInflight .. L
      BY <1>1, <1>3
    <3> QED
      BY <3>1, <3>2, <3>3
  <2> QED
    BY <1>3, <2>3
<1> QED
  BY <1>2, <1>3

LEMMA HandlePubackcompWindow ==
  ASSUME WindowInv, HandlePubackcomp
  PROVE  WindowInv'
<1> DEFINE mid == Head(toClient).mid
           at == MidIndex(mid)
           L == Len(out_messages) - 1
           rest == [i \in 1 .. (Len(out_messages) - 1) |->
                      out_messages[IF i < at THEN i ELSE i + 1]]
           up == Promoted(rest, inflight_messages - 1)
           next == [i \in DOMAIN rest |->
                      IF i \in up THEN Start(rest[i]) ELSE rest[i]]
           ps == [n \in 1 .. Cardinality(up) |-> PublishPacket(next[InOrder(up)[n]])]
           done == out_messages[at].id
<1>1. /\ toClient # <<>>
      /\ HasMid(mid)
      /\ toClient' = Tail(toClient)
      /\ UNCHANGED <<last_mid, pending, conn, held, losses, accepted, delivered>>
  BY DEF HandlePubackcomp
<1>2. /\ out_messages' = next
      /\ out_queue_len' = out_queue_len - 1
      /\ inflight_messages' = inflight_messages - 1 + Cardinality(up)
      /\ Send(ps)
      /\ reported' = [reported EXCEPT ![done] = CountUp(@)]
  BY DEF HandlePubackcomp
<1>3. /\ toClient' \in Seq(ToClientPackets)
      /\ \A i \in DOMAIN toClient' : \E j \in DOMAIN toClient : toClient'[i] = toClient[j]
      /\ KnownMid(mid)
  BY <1>1, TailElements DEF WindowInv, TypeOK, WireKnown
<1>4. /\ at \in DOMAIN out_messages
      /\ out_messages[at] \in Messages
      /\ out_messages[at].state # "invalid"
  BY <1>1, <1>3, MidIndexFound, ListFacts DEF WindowInv, KnownMid, KnownIn
<1> HIDE DEF at, mid
<1>5. /\ Len(out_messages) \in Nat
      /\ DOMAIN out_messages = 1 .. Len(out_messages)
      /\ L \in Nat
      /\ at \in 1 .. (L + 1)
      /\ Len(out_messages) = L + 1
      /\ MaxInflight \in Nat
  BY <1>4, ListFacts, ConstantsAssumption DEF WindowInv
<1>6. at <= MaxInflight \/ MaxInflight = 0
  BY <1>4, <1>5 DEF WindowInv, InflightWindow, WindowOpen
<1>7. DOMAIN rest = 1 .. L
  OBVIOUS
<1>8. ASSUME NEW i \in 1 .. L
      PROVE  \E k \in DOMAIN out_messages :
               /\ k = IF i < at THEN i ELSE i + 1
               /\ rest[i] = out_messages[k]
               /\ rest[i] \in Messages
               /\ rest[i].state = "invalid" <=> (MaxInflight # 0 /\ i >= MaxInflight)
  <2> DEFINE k == IF i < at THEN i ELSE i + 1
  <2>1. k \in DOMAIN out_messages /\ rest[i] = out_messages[k]
    BY <1>5
  <2>2. out_messages[k] \in Messages
    BY <2>1, ListFacts DEF WindowInv
  <2>3. out_messages[k].state = "invalid" <=> ~ WindowOpen(k - 1)
    BY <2>1 DEF WindowInv, InflightWindow
  <2>4. ~ WindowOpen(k - 1) <=> (MaxInflight # 0 /\ i >= MaxInflight)
    BY <1>5, <1>6 DEF WindowOpen
  <2> HIDE DEF rest
  <2> QED
    BY <2>1, <2>2, <2>3, <2>4
<1> HIDE DEF rest, L
<1>9. inflight_messages - 1 =
        IF MaxInflight = 0 \/ L < MaxInflight THEN L ELSE MaxInflight - 1
  <2>1. inflight_messages =
          IF MaxInflight = 0 \/ L + 1 <= MaxInflight THEN L + 1 ELSE MaxInflight
    BY <1>5, WindowSize DEF WindowInv, InflightWindow
  <2> QED
    BY <1>5, <2>1
<1>10. /\ up \in SUBSET (1 .. L)
       /\ (MaxInflight = 0 \/ L < MaxInflight) => up = {}
       /\ ~ (MaxInflight = 0 \/ L < MaxInflight) => up = {MaxInflight}
       /\ inflight_messages' =
            IF MaxInflight = 0 \/ L <= MaxInflight THEN L ELSE MaxInflight
  <2>1. Queued(rest) = {i \in 1 .. L : MaxInflight # 0 /\ i >= MaxInflight}
    BY <1>7, <1>8 DEF Queued
  <2>2. /\ inflight_messages - 1 \in Int
        /\ (MaxInflight = 0 \/ L < MaxInflight) => inflight_messages - 1 = L
        /\ ~ (MaxInflight = 0 \/ L < MaxInflight) => inflight_messages - 1 = MaxInflight - 1
    BY <1>5, <1>9
  <2>3. /\ (MaxInflight = 0 \/ L < MaxInflight) => up = {}
        /\ ~ (MaxInflight = 0 \/ L < MaxInflight) => up = {MaxInflight}
    BY <1>5, <2>1, <2>2, PromotedIsNext
  <2> HIDE DEF up
  <2>4. CASE MaxInflight = 0 \/ L < MaxInflight
    <3>1. up = {} /\ Cardinality(up) = 0
      BY <2>3, <2>4, FS_EmptySet
    <3> QED
      BY <1>2, <1>5, <2>2, <2>4, <3>1
  <2>5. CASE ~ (MaxInflight = 0 \/ L < MaxInflight)
    <3>1. up = {MaxInflight} /\ Cardinality(up) = 1
      BY <2>3, <2>5, FS_Singleton
    <3>2. inflight_messages' = MaxInflight /\ MaxInflight \in 1 .. L
      BY <1>2, <1>5, <2>2, <2>5, <3>1
    <3> QED
      BY <1>5, <2>5, <3>1, <3>2
  <2> QED
    BY <2>4, <2>5
<1> HIDE DEF up
<1>11. ASSUME NEW i \in 1 .. L
       PROVE  /\ next[i] \in Messages
              /\ next[i].mid = rest[i].mid
              /\ next[i].id = rest[i].id
              /\ rest[i].state # "invalid" => next[i].state # "invalid"
              /\ i \in up => next[i].state # "invalid"
              /\ i \notin up => next[i].state = rest[i].state
  <2>1. rest[i] \in Messages
    BY <1>8
  <2>2. ASSUME NEW m \in Messages
        PROVE  /\ Start(m) \in Messages
               /\ Start(m).mid = m.mid
               /\ Start(m).id = m.id
               /\ Start(m).state # "invalid"
    BY DEF Start, WaitState, Messages, MsgStates
  <2>3. next[i] = IF i \in up THEN Start(rest[i]) ELSE rest[i]
    BY <1>7
  <2> HIDE DEF next
  <2> QED
    BY <2>1, <2>2, <2>3
<1>12. /\ out_messages' \in Seq(Messages)
       /\ Len(out_messages') = L
       /\ DOMAIN out_messages' = 1 .. L
  <2>1. next \in [1 .. L -> Messages]
    <3>1. DOMAIN next = 1 .. L /\ next = [i \in 1 .. L |-> next[i]]
      BY <1>7
    <3> HIDE DEF next
    <3> QED
      BY <1>11, <3>1
  <2> HIDE DEF next
  <2> QED
    BY <1>2, <1>5, <2>1
<1>13. InflightWindow'
  <2>1. out_queue_len' = L
    BY <1>2, <1>5 DEF WindowInv, InflightWindow
  <2>2. inflight_messages' = Cardinality({i \in 1 .. L : WindowOpen(i - 1)})
    BY <1>5, <1>10, WindowSize
  <2>3. ASSUME NEW i \in 1 .. L
        PROVE  next[i].state = "invalid" <=> ~ WindowOpen(i - 1)
    <3>1. rest[i].state = "invalid" <=> (MaxInflight # 0 /\ i >= MaxInflight)
      BY <1>8
    <3>2. CASE i \in up
      <4>1. i = MaxInflight
        BY <1>10, <3>2
      <4>2. WindowOpen(i - 1)
        BY <1>5, <4>1 DEF WindowOpen
      <4> QED
        BY <1>11, <3>2, <4>2
    <3>3. CASE i \notin up
      <4>1. ~ (MaxInflight # 0 /\ i = MaxInflight)
        BY <1>5, <1>10, <3>3
      <4>2. ~ WindowOpen(i - 1) <=> (MaxInflight # 0 /\ i >= MaxInflight)
        BY <1>5, <4>1 DEF WindowOpen
      <4> HIDE DEF next
      <4> QED
        BY <1>11, <3>1, <3>3, <4>2
    <3> QED
      BY <3>2, <3>3
  <2> HIDE DEF next
  <2> QED
    BY <1>2, <1>12, <2>1, <2>2, <2>3 DEF InflightWindow, WindowOpen
<1>14. \A i \in 1 .. L : \E k \in DOMAIN out_messages :
         /\ k = IF i < at THEN i ELSE i + 1
         /\ out_messages'[i].mid = out_messages[k].mid
         /\ out_messages'[i].id = out_messages[k].id
         /\ out_messages[k].state # "invalid" => out_messages'[i].state # "invalid"
  <2> HIDE DEF next
  <2> QED
    BY <1>2, <1>8, <1>11
<1>15. MidsOrdered'
  <2>1. \A i \in DOMAIN out_messages' :
          out_messages'[i].mid <= last_mid' /\ out_messages'[i].id = out_messages'[i].mid
    BY <1>1, <1>12, <1>14 DEF WindowInv, MidsOrdered
  <2>2. ASSUME NEW i \in 1 .. L, NEW j \in 1 .. L, i < j
        PROVE  out_messages'[i].mid < out_messages'[j].mid
    <3>1. PICK k \in DOMAIN out_messages :
            /\ k = IF i < at THEN i ELSE i + 1
            /\ out_messages'[i].mid = out_messages[k].mid
      BY <1>14
    <3>2. PICK l \in DOMAIN out_messages :
            /\ l = IF j < at THEN j ELSE j + 1
            /\ out_messages'[j].mid = out_messages[l].mid
      BY <1>14
    <3>3. k < l
      BY <1>5, <2>2, <3>1, <3>2
    <3> QED
      BY <3>1, <3>2, <3>3 DEF WindowInv, MidsOrdered
  <2> QED
    BY <1>1, <1>12, <2>1, <2>2 DEF WindowInv, MidsOrdered
<1>16. ASSUME NEW n \in Mids, KnownMid(n)
       PROVE  KnownIn(n, last_mid', out_messages')
  BY <1>1, <1>12, <1>14, <1>16 DEF KnownMid, KnownIn
<1>17. /\ ps \in Seq(ToBrokerPackets)
       /\ \A n \in DOMAIN ps : KnownIn(ps[n].mid, last_mid', out_messages')
  <2>1. Cardinality(up) \in Nat
    BY <1>5, <1>10, PositionsFinite
  <2>2. ASSUME NEW n \in 1 .. Cardinality(up)
        PROVE  /\ ps[n] \in ToBrokerPackets
               /\ KnownIn(ps[n].mid, last_mid', out_messages')
    <3>1. PICK i \in up : i = InOrder(up)[n]
      BY <1>5, <1>10, InOrderInSet
    <3>2. ps[n] = PublishPacket(next[i])
      BY <3>1
    <3> HIDE DEF next, ps
    <3>3. i \in 1 .. L /\ next[i] \in Messages /\ next[i].state # "invalid"
      BY <1>10, <1>11
    <3>4. ps[n] \in PublishPackets /\ ps[n].mid = next[i].mid
      BY <3>2, <3>3 DEF PublishPacket, PublishPackets, Messages
    <3>5. next[i] = out_messages'[i] /\ i \in DOMAIN out_messages'
      BY <1>2, <1>12, <3>3
    <3>6. \A j \in DOMAIN out_messages' :
            out_messages'[j].mid = next[i].mid => j = i
      <4>1. ASSUME NEW j \in DOMAIN out_messages', out_messages'[j].mid = next[i].mid
            PROVE  ~ (j < i) /\ ~ (i < j)
        <5>1. next[i].mid \in Nat
          BY <3>3, ConstantsAssumption DEF Messages, Mids
        <5> QED
          BY <1>15, <3>5, <4>1, <5>1 DEF MidsOrdered
      <4> QED
        BY <1>5, <1>12, <3>3, <4>1
    <3> QED
      BY <1>15, <3>3, <3>4, <3>5, <3>6 DEF KnownIn, MidsOrdered, ToBrokerPackets
  <2>3. ps \in [1 .. Cardinality(up) -> ToBrokerPackets]
    <3>1. ps = [n \in 1 .. Cardinality(up) |-> ps[n]]
      OBVIOUS
    <3> HIDE DEF ps
    <3> QED
      BY <2>2, <3>1
  <2> HIDE DEF ps
  <2> QED
    BY <2>1, <2>2, <2>3
<1> HIDE DEF ps, next
<1>18. /\ toBroker' \in Seq(ToBrokerPackets)
       /\ \A i \in DOMAIN toBroker' :
            \/ \E j \in DOMAIN toBroker : toBroker'[i] = toBroker[j]
            \/ \E j \in DOMAIN ps : toBroker'[i] = ps[j]
  BY <1>2, <1>17, SendKnown DEF WindowInv
<1>19. WireKnown'
  BY <1>1, <1>3, <1>16, <1>17, <1>18, WireGrows
<1>20. TypeOK'
  <2>1. inflight_messages' \in Nat /\ out_queue_len' \in Nat
    BY <1>2, <1>5, <1>10 DEF WindowInv, InflightWindow
  <2>2. reported' \in [Ids -> 0 .. 2]
    <3>1. reported \in [Ids -> 0 .. 2] /\ done \in Ids
      BY <1>4 DEF WindowInv, TypeOK, Messages
    <3> HIDE DEF done
    <3> QED
      BY <1>2, <3>1 DEF CountUp
  <2> QED
    BY <1>1, <1>3, <1>12, <1>18, <2>1, <2>2 DEF WindowInv, TypeOK
<1> QED
  BY <1>13, <1>15, <1>19, <1>20 DEF WindowInv

-----------------------------------------------------------------------------
LEMMA NextWindow ==
  ASSUME NoWrap, WindowInv, [Next]_vars
  PROVE  WindowInv'
<1>1. CASE Quiescent \/ UNCHANGED vars
  <2>1. UNCHANGED vars
    BY <1>1 DEF Quiescent
  <2>2. UNCHANGED <<client, accepted, toBroker, toClient, pending>> /\ TypeOK'
    BY <2>1 DEF vars, client, history, WindowInv, TypeOK
  <2> QED
    BY <2>2, FrameWindow DEF WindowInv, WireKnown
<1> QED
  BY <1>1, PublishQos0Window, PublishQueueWindow, SendPublishWindow,
     SendPublishFreedWindow, HandlePubackcompWindow, UnknownWindow,
     HandlePubrecWindow, RetryCheckWindow, ConnWindow, ReconnectResetWindow,
     TickWindow, BrokerWindow
  DEF Next

(* Types: every variable of the client, the channels and the broker keeps  *)
(* its type; in particular the counters never become negative when an      *)
(* acknowledgement is counted off (messages_mosq.c, message_remove).       *)
THEOREM TypeCorrect ==
  ASSUME NoWrap
  PROVE  Spec => []TypeOK
<1>1. WindowInv /\ [Next]_vars => WindowInv'
  BY NextWindow
<1>2. WindowInv => TypeOK
  BY DEF WindowInv
<1> QED
  BY <1>1, <1>2, InitWindow, PTL DEF Spec

(* The window: message_queue, message_remove and reconnect_reset together  *)
(* keep exactly the oldest messages in flight, as many as the window       *)
(* allows, and both counters exact, for any window and list length.        *)
THEOREM WindowCorrect ==
  ASSUME NoWrap
  PROVE  Spec => []InflightWindow
<1>1. WindowInv /\ [Next]_vars => WindowInv'
  BY NextWindow
<1>2. WindowInv => InflightWindow
  BY DEF WindowInv
<1> QED
  BY <1>1, <1>2, InitWindow, PTL DEF Spec
=============================================================================
