----------------------------- MODULE OutMessages -----------------------------
(***************************************************************************)
(* Outgoing messages of one client: the list out_messages, the in-flight   *)
(* window, publish() on the request thread, and the acknowledgements,      *)
(* retries and reconnections handled by the network thread.                *)
(*                                                                         *)
(* The packets of a connection travel in two FIFO channels, toBroker (the  *)
(* client's packet queue and the TCP stream together) and toClient.  The   *)
(* broker is not part of the repository: it is modelled by what the        *)
(* protocol lets it answer.                                                *)
(***************************************************************************)
EXTENDS Integers, Sequences, FiniteSets, ListOrder

CONSTANTS
  MaxInflight,   \* mosq->max_inflight_messages; 0 means no limit
  MidSpace,      \* number of message ids: 65535 in the code (uint16_t, never 0)
  Qos,           \* the QoS levels the application publishes with
  CleanSession,  \* does the broker forget the session when the connection drops?
  LateSend,      \* may a retry pass run between the two halves of a publish()?
  MaxPublishes,  \* bound: number of publish() calls
  MaxLoss,       \* bound: number of lost connections and failed attempts
  WireCap        \* bound: no retry period elapses with more packets travelling

ASSUME ConstantsAssumption ==
  /\ MaxInflight \in Nat
  /\ MidSpace \in Nat \ {0}
  /\ Qos \subseteq 0 .. 2
  /\ CleanSession \in BOOLEAN
  /\ LateSend \in BOOLEAN
  /\ MaxPublishes \in Nat
  /\ MaxLoss \in Nat
  /\ WireCap \in Nat

VARIABLES
  out_messages,       \* the queued messages, oldest first
  inflight_messages,  \* the counter of messages in the window
  out_queue_len,      \* the counter of queued messages
  last_mid,           \* the last message id given out
  pending,            \* the message publish() has queued and not yet sent
  conn,               \* the connection, as the network thread sees it
  toBroker, toClient, \* the packets travelling in each direction
  held,               \* broker: QoS 2 messages received and not released
  losses,             \* connections lost or refused so far
  accepted,           \* history: the QoS of each publish(), in order
  delivered,          \* history: how often the broker took each message over
  reported            \* history: how often on_publish was called for each

client == <<out_messages, inflight_messages, out_queue_len, last_mid>>
history == <<accepted, delivered, reported>>
vars == <<client, pending, conn, toBroker, toClient, held, losses, history>>

-----------------------------------------------------------------------------
(* Messages and packets.  A message's id stands for its topic and payload; *)
(* due says that message_retry seconds have passed since its timestamp.    *)

Ids == 1 .. MaxPublishes
Mids == 1 .. MidSpace

MsgStates == {"invalid", "wait_for_puback", "wait_for_pubrec", "wait_for_pubcomp"}

Messages == [id : Ids, mid : Mids, qos : {1, 2}, state : MsgStates,
             due : BOOLEAN, dup : BOOLEAN]

PublishPackets ==
  [type : {"PUBLISH"}, mid : Mids, id : Ids, qos : 0 .. 2, dup : BOOLEAN]

MidPackets(types) == [type : types, mid : Mids]

ToBrokerPackets == PublishPackets \cup MidPackets({"PUBREL"})
ToClientPackets == MidPackets({"PUBACK", "PUBREC", "PUBCOMP"})

PublishPacket(m) ==
  [type |-> "PUBLISH", mid |-> m.mid, id |-> m.id, qos |-> m.qos, dup |-> m.dup]

MidPacket(type, mid) == [type |-> type, mid |-> mid]

\* Mutant: the id is returned before it is incremented.
MidGenerateStale(mid) == mid % MidSpace

\* _mosquitto_mid_generate: the next id, 0 being skipped at the wrap
MidGenerate(mid) == (mid % MidSpace) + 1

\* The test of the window: may one more message be in flight?
WindowOpen(inflight) == MaxInflight = 0 \/ inflight < MaxInflight

\* The state of a message whose PUBLISH is being sent
WaitState(qos) == IF qos = 1 THEN "wait_for_puback" ELSE "wait_for_pubrec"

\* Position of the first message with this id, as the list walks find it
HasMid(mid) == \E i \in DOMAIN out_messages : out_messages[i].mid = mid
MidIndex(mid) ==
  CHOOSE i \in DOMAIN out_messages :
    /\ out_messages[i].mid = mid
    /\ \A j \in 1 .. (i - 1) : out_messages[j].mid # mid

\* One more event in a counter that only tells 0, 1 and more apart
CountUp(n) == IF n = 0 THEN 1 ELSE 2

-----------------------------------------------------------------------------
Init ==
  /\ out_messages = <<>>
  /\ inflight_messages = 0
  /\ out_queue_len = 0
  /\ last_mid = 0
  /\ pending = {}
  /\ conn = "up"
  /\ toBroker = <<>>
  /\ toClient = <<>>
  /\ held = {}
  /\ losses = 0
  /\ accepted = <<>>
  /\ delivered = [k \in Ids |-> 0]
  /\ reported = [k \in Ids |-> 0]

\* _mosquitto_send_publish and friends: without a socket, MOSQ_ERR_NO_CONN
Send(packets) ==
  toBroker' = IF conn = "up" THEN toBroker \o packets ELSE toBroker

-----------------------------------------------------------------------------
(* The request thread: mosquitto_publish.  The serial queue of MQTTClient  *)
(* runs one request at a time.                                             *)

\* QoS 0: nothing is queued, the packet is sent or lost.
PublishQos0 ==
  /\ 0 \in Qos
  /\ Len(accepted) < MaxPublishes
  /\ pending = {}
  /\ conn # "crashed"
  /\ last_mid' = MidGenerate(last_mid)
  /\ accepted' = Append(accepted, 0)
  /\ Send(<<PublishPacket([mid |-> last_mid', id |-> Len(accepted'),
                           qos |-> 0, dup |-> FALSE])>>)
  /\ UNCHANGED <<out_messages, inflight_messages, out_queue_len, pending, conn,
                 toClient, held, losses, delivered, reported>>

\* QoS 1 and 2, under out_message_mutex: queue the message and, if the window
\* is open, count it as in flight; it is sent after the mutex is released.
PublishQueue(q) ==
  LET m == [id |-> Len(accepted) + 1, mid |-> MidGenerate(last_mid), qos |-> q,
            state |-> IF WindowOpen(inflight_messages) THEN WaitState(q)
                                                       ELSE "invalid",
            due |-> FALSE, dup |-> FALSE]
  IN  /\ q \in Qos
      /\ Len(accepted) < MaxPublishes
      /\ pending = {}
      /\ conn # "crashed"
      /\ last_mid' = m.mid
      /\ accepted' = Append(accepted, q)
      /\ out_messages' = Append(out_messages, m)
      /\ out_queue_len' = out_queue_len + 1
      /\ IF WindowOpen(inflight_messages)
         THEN /\ inflight_messages' = inflight_messages + 1
              /\ pending' = {[mid |-> m.mid, id |-> m.id, qos |-> q]}
         ELSE UNCHANGED <<inflight_messages, pending>>
      /\ UNCHANGED <<conn, toBroker, toClient, held, losses, delivered, reported>>

\* ... and send it through the pointer kept across the unlock.
SendPublish ==
  \E p \in pending, i \in DOMAIN out_messages :
    /\ out_messages[i].id = p.id
    /\ conn # "crashed"
    /\ Send(<<PublishPacket(out_messages[i])>>)
    /\ pending' = {}
    /\ UNCHANGED <<client, conn, toClient, held, losses, history>>

\* The pointer dangles when the network thread has freed the message: the
\* freed block still reads as the message that was there, or the process dies.
SendPublishFreed ==
  \E p \in pending :
    /\ \A i \in DOMAIN out_messages : out_messages[i].id # p.id
    /\ conn # "crashed"
    /\ \/ /\ Send(<<PublishPacket([mid |-> p.mid, id |-> p.id, qos |-> p.qos,
                                   dup |-> TRUE])>>)
          /\ UNCHANGED conn
       \/ /\ conn' = "crashed"
          /\ UNCHANGED toBroker
    /\ pending' = {}
    /\ UNCHANGED <<client, toClient, held, losses, history>>

-----------------------------------------------------------------------------
(* The network thread.                                                     *)

\* _mosquitto_message_remove, after the message left the list: walk the list
\* and start the queued messages the window has room for, oldest first.
Queued(list) == {i \in DOMAIN list : list[i].state = "invalid"}

\* Mutant: one slot of the window is left unused.
PromotedOneLess(list, inflight) ==
  {i \in Queued(list) :
     MaxInflight = 0 \/ inflight + Rank(Queued(list), i) < MaxInflight}

\* Mutant: the newest queued messages are started first.
PromotedNewest(list, inflight) ==
  {i \in Queued(list) :
     \/ MaxInflight = 0
     \/ inflight + 1 + Cardinality(Queued(list)) - Rank(Queued(list), i) <= MaxInflight}

\* Mutant: nothing is started when a slot becomes free.
PromotedNone(list, inflight) == {}

Promoted(list, inflight) ==
  {i \in Queued(list) :
     MaxInflight = 0 \/ inflight + Rank(Queued(list), i) <= MaxInflight}

Start(m) == [m EXCEPT !.state = WaitState(m.qos)]

\* _mosquitto_handle_pubackcomp: remove the message, promote, on_publish.
HandlePubackcomp ==
  /\ conn = "up"
  /\ toClient # <<>>
  /\ Head(toClient).type \in {"PUBACK", "PUBCOMP"}
  /\ HasMid(Head(toClient).mid)
  /\ LET at   == MidIndex(Head(toClient).mid)
         rest == [i \in 1 .. (Len(out_messages) - 1) |->
                    out_messages[IF i < at THEN i ELSE i + 1]]
         up   == Promoted(rest, inflight_messages - 1)
         next == [i \in DOMAIN rest |->
                    IF i \in up THEN Start(rest[i]) ELSE rest[i]]
         done == out_messages[at].id
     IN  /\ out_messages' = next
         /\ out_queue_len' = out_queue_len - 1
         /\ inflight_messages' = inflight_messages - 1 + Cardinality(up)
         /\ Send([n \in 1 .. Cardinality(up) |->
                    PublishPacket(next[InOrder(up)[n]])])
         /\ reported' = [reported EXCEPT ![done] = CountUp(@)]
  /\ toClient' = Tail(toClient)
  /\ UNCHANGED <<last_mid, pending, conn, held, losses, accepted, delivered>>

\* An acknowledgement of a message that is no longer there is ignored.
HandlePubackcompUnknown ==
  /\ conn = "up"
  /\ toClient # <<>>
  /\ Head(toClient).type \in {"PUBACK", "PUBCOMP"}
  /\ ~ HasMid(Head(toClient).mid)
  /\ toClient' = Tail(toClient)
  /\ UNCHANGED <<client, pending, conn, toBroker, held, losses, history>>

\* _mosquitto_handle_pubrec: out_update, then PUBREL.
HandlePubrec ==
  /\ conn = "up"
  /\ toClient # <<>>
  /\ Head(toClient).type = "PUBREC"
  /\ LET mid == Head(toClient).mid
     IN  /\ HasMid(mid)
         /\ out_messages' = [out_messages EXCEPT
              ![MidIndex(mid)].state = "wait_for_pubcomp",
              ![MidIndex(mid)].due = FALSE]
         /\ Send(<<MidPacket("PUBREL", mid)>>)
  /\ toClient' = Tail(toClient)
  /\ UNCHANGED <<inflight_messages, out_queue_len, last_mid, pending, conn,
                 held, losses, history>>

\* MOSQ_ERR_NOT_FOUND is an error mosquitto_loop_forever does not recover
\* from: the socket is closed and the network thread ends.
HandlePubrecUnknown ==
  /\ conn = "up"
  /\ toClient # <<>>
  /\ Head(toClient).type = "PUBREC"
  /\ ~ HasMid(Head(toClient).mid)
  /\ conn' = "ended"
  /\ toClient' = Tail(toClient)
  /\ UNCHANGED <<client, pending, toBroker, held, losses, history>>

\* _mosquitto_message_retry_check, once a second from mosquitto_loop_misc.
\* Unless LateSend, publish() is not preempted for that long between its halves.
\* Mutant: the DUP flag is not set.
RetryUnmarked(m) == [m EXCEPT !.due = FALSE]

Retry(m) == [m EXCEPT !.due = FALSE, !.dup = TRUE]

\* Mutant: PUBLISH is repeated in every state.
RetryPacketPublish(m) == PublishPacket(Retry(m))

RetryPacket(m) ==
  IF m.state = "wait_for_pubcomp" THEN MidPacket("PUBREL", m.mid)
                                  ELSE PublishPacket(Retry(m))

RetryCheck ==
  LET late == {i \in DOMAIN out_messages :
                 out_messages[i].due /\ out_messages[i].state # "invalid"}
  IN  /\ conn = "up"
      /\ LateSend \/ pending = {}
      /\ late # {}
      /\ out_messages' = [i \in DOMAIN out_messages |->
           IF i \in late THEN Retry(out_messages[i]) ELSE out_messages[i]]
      /\ Send([n \in 1 .. Cardinality(late) |->
                 RetryPacket(out_messages[InOrder(late)[n]])])
      /\ UNCHANGED <<inflight_messages, out_queue_len, last_mid, pending, conn,
                     toClient, held, losses, history>>

\* The connection breaks: the loop closes the socket.
ConnLost ==
  /\ conn = "up"
  /\ losses < MaxLoss
  /\ conn' = "down"
  /\ losses' = losses + 1
  /\ UNCHANGED <<client, pending, toBroker, toClient, held, history>>

\* Mutant: the window is not applied to the messages that are reset.
ResetUnlimited(i) ==
  [out_messages[i] EXCEPT !.due = TRUE,
                          !.state = IF out_messages[i].qos = 1 THEN "wait_for_puback"
                                    ELSE WaitState(2)]

\* Mutant: a QoS 2 message starts again from PUBLISH.
ResetForgetful(i) ==
  [out_messages[i] EXCEPT !.due = TRUE,
                          !.state = IF WindowOpen(i - 1) THEN WaitState(out_messages[i].qos)
                                    ELSE "invalid"]

\* _mosquitto_reconnect, first half: _mosquitto_messages_reconnect_reset.
Reset(i) ==
  [out_messages[i] EXCEPT
     !.due = TRUE,
     !.state = IF ~ WindowOpen(i - 1) THEN "invalid"
               ELSE IF out_messages[i].qos = 1 THEN "wait_for_puback"
               ELSE @]

ReconnectReset ==
  /\ conn = "down"
  /\ conn' = "resetting"
  /\ out_messages' = [i \in DOMAIN out_messages |-> Reset(i)]
  /\ out_queue_len' = Len(out_messages)
  /\ inflight_messages' = Cardinality({i \in DOMAIN out_messages : WindowOpen(i - 1)})
  /\ UNCHANGED <<last_mid, pending, toBroker, toClient, held, losses, history>>

\* ... second half: _mosquitto_socket_connect; the old packets are gone.
SocketConnect ==
  /\ conn = "resetting"
  /\ conn' = "up"
  /\ toBroker' = <<>>
  /\ toClient' = <<>>
  /\ held' = IF CleanSession THEN {} ELSE held
  /\ UNCHANGED <<client, pending, losses, history>>

SocketConnectFails ==
  /\ conn = "resetting"
  /\ losses < MaxLoss
  /\ conn' = "down"
  /\ losses' = losses + 1
  /\ UNCHANGED <<client, pending, toBroker, toClient, held, history>>

-----------------------------------------------------------------------------
(* The clock and the broker.                                               *)

\* message_retry seconds have passed since the timestamp of message i
Tick(i) ==
  /\ i \in DOMAIN out_messages
  /\ ~ out_messages[i].due
  /\ Len(toBroker) + Len(toClient) <= WireCap
  /\ out_messages' = [out_messages EXCEPT ![i].due = TRUE]
  /\ UNCHANGED <<inflight_messages, out_queue_len, last_mid, pending, conn,
                 toBroker, toClient, held, losses, history>>

Deliver(id) == delivered' = [delivered EXCEPT ![id] = CountUp(@)]

\* The broker also reads what was sent before the connection broke.
BrokerPublish ==
  /\ toBroker # <<>>
  /\ Head(toBroker).type = "PUBLISH"
  /\ LET p == Head(toBroker)
     IN  \/ /\ p.qos = 0
            /\ Deliver(p.id)
            /\ UNCHANGED <<toClient, held>>
         \/ /\ p.qos = 1
            /\ Deliver(p.id)
            /\ toClient' = Append(toClient, MidPacket("PUBACK", p.mid))
            /\ UNCHANGED held
         \/ /\ p.qos = 2
            /\ held' = IF \E h \in held : h.mid = p.mid THEN held
                       ELSE held \cup {[mid |-> p.mid, id |-> p.id]}
            /\ toClient' = Append(toClient, MidPacket("PUBREC", p.mid))
            /\ UNCHANGED delivered
  /\ toBroker' = Tail(toBroker)
  /\ UNCHANGED <<client, pending, conn, losses, accepted, reported>>

BrokerPubrel ==
  /\ toBroker # <<>>
  /\ Head(toBroker).type = "PUBREL"
  /\ LET mid == Head(toBroker).mid
     IN  /\ \/ \E h \in held : h.mid = mid /\ Deliver(h.id) /\ held' = held \ {h}
            \/ /\ \A h \in held : h.mid # mid
               /\ UNCHANGED <<held, delivered>>
         /\ toClient' = Append(toClient, MidPacket("PUBCOMP", mid))
  /\ toBroker' = Tail(toBroker)
  /\ UNCHANGED <<client, pending, conn, losses, accepted, reported>>

\* Nothing is left to do within the bounds, or the process is dead.
Quiescent ==
  /\ \/ conn \in {"ended", "crashed"}
     \/ out_messages = <<>> /\ Len(accepted) = MaxPublishes
  /\ UNCHANGED vars

Next ==
  \/ PublishQos0
  \/ \E q \in {1, 2} : PublishQueue(q)
  \/ SendPublish
  \/ SendPublishFreed
  \/ HandlePubackcomp
  \/ HandlePubackcompUnknown
  \/ HandlePubrec
  \/ HandlePubrecUnknown
  \/ RetryCheck
  \/ ConnLost
  \/ ReconnectReset
  \/ SocketConnect
  \/ SocketConnectFails
  \/ \E i \in 1 .. MaxPublishes : Tick(i)
  \/ BrokerPublish
  \/ BrokerPubrel
  \/ Quiescent

Spec == Init /\ [][Next]_vars

(* Scheduling: both threads keep running, the broker answers, time passes, *)
(* and an attempt to connect ends.                                         *)
Fairness ==
  /\ WF_vars(SendPublish)
  /\ WF_vars(HandlePubackcomp \/ HandlePubackcompUnknown \/ HandlePubrec)
  /\ WF_vars(RetryCheck)
  /\ WF_vars(ReconnectReset)
  /\ WF_vars(SocketConnect)
  /\ \A i \in 1 .. MaxPublishes : WF_vars(Tick(i))
  /\ WF_vars(BrokerPublish \/ BrokerPubrel)

FairSpec == Spec /\ Fairness

-----------------------------------------------------------------------------
(* Properties.                                                             *)

\* Every variable stays in its type; message ids stay in 1 .. MidSpace.
TypeOK ==
  /\ out_messages \in Seq(Messages)
  /\ inflight_messages \in Nat
  /\ out_queue_len \in Nat
  /\ last_mid \in 0 .. MidSpace
  /\ pending \in SUBSET [mid : Mids, id : Ids, qos : {1, 2}]
  /\ conn \in {"up", "down", "resetting", "ended", "crashed"}
  /\ toBroker \in Seq(ToBrokerPackets)
  /\ toClient \in Seq(ToClientPackets)
  /\ held \in SUBSET [mid : Mids, id : Ids]
  /\ losses \in 0 .. MaxLoss
  /\ accepted \in Seq(0 .. 2)
  /\ Len(accepted) <= MaxPublishes
  /\ delivered \in [Ids -> 0 .. 2]
  /\ reported \in [Ids -> 0 .. 2]

\* The window: whatever the order of publish(), acknowledgements, retries and
\* reconnections, the messages in flight are the oldest of the list, as many as
\* max_inflight_messages allows, and the two counters agree with the list.  So
\* no queued message is overtaken and no free slot is left unused or lost.
InflightWindow ==
  /\ out_queue_len = Len(out_messages)
  /\ inflight_messages = Cardinality({i \in DOMAIN out_messages : WindowOpen(i - 1)})
  /\ \A i \in DOMAIN out_messages :
       out_messages[i].state = "invalid" <=> ~ WindowOpen(i - 1)

\* A PUBREC always finds its message: with a broker that keeps to the protocol
\* _mosquitto_handle_pubrec never returns the error that ends the thread.
PubrecNeverFatal == conn # "ended"

\* publish() never sends through a pointer to a message that the network
\* thread has removed and freed since the mutex was released.
SendsLiveMessage ==
  \A p \in pending : \E i \in DOMAIN out_messages : out_messages[i].id = p.id

\* A PUBLISH the broker has already taken is marked as a duplicate when it is
\* sent again, by the retry pass and after a reconnection alike.
ResentIsMarked ==
  \A i \in DOMAIN toBroker :
    (toBroker[i].type = "PUBLISH" /\ ~ toBroker[i].dup) =>
      /\ delivered[toBroker[i].id] = 0
      /\ \A h \in held : h.id # toBroker[i].id

\* As long as the connection holds, messages of one QoS reach the subscribers
\* of the broker in the order of the publish() calls, also those that had to
\* wait for the window.
DeliveredInOrder ==
  losses = 0 =>
    \A j \in 1 .. Len(accepted) : \A i \in 1 .. (j - 1) :
      (accepted[i] = accepted[j] /\ delivered[j] > 0) => delivered[i] > 0

\* The message id identifies the message: on_publish is called for a message
\* only after the broker took that very message over, and once.
ReportedAfterDelivery ==
  \A k \in Ids : reported[k] > 0 => delivered[k] > 0 /\ reported[k] = 1

\* QoS 2 is exactly once: no retry, lost connection or repeated acknowledgement
\* makes the broker take a QoS 2 message over twice.
ExactlyOnce ==
  \A k \in 1 .. Len(accepted) : accepted[k] = 2 => delivered[k] <= 1

\* Every message of QoS 1 or 2 is eventually reported by on_publish, through
\* any finite number of lost connections.
EventuallyReported ==
  \A k \in Ids :
    (Len(accepted) >= k /\ accepted[k] > 0) ~> (reported[k] > 0)

\* The client implements the abstract publish service.
Service == INSTANCE PublishService WITH handedOver <- delivered
ImplementsService == Service!Spec
=============================================================================
