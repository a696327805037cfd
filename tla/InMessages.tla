------------------------------ MODULE InMessages ------------------------------
(***************************************************************************)
(* Incoming messages of one client: the list in_messages of QoS 2 messages *)
(* waiting for their PUBREL, and on_message.  Only the network thread      *)
(* touches the list.                                                       *)
(*                                                                         *)
(* The broker is external.  It numbers its messages with message ids of    *)
(* its own, reuses an id only when its previous message is completed, and  *)
(* after a reconnection sends again what is not acknowledged.              *)
(***************************************************************************)
EXTENDS Integers, Sequences, FiniteSets, ListOrder

CONSTANTS
  MidSpace,      \* number of message ids of the broker
  Qos,           \* the QoS levels of the messages the broker sends
  Sessions,      \* the values of cleanSession the application configures
  MaxMessages,   \* bound: messages the broker sends
  MaxLoss,       \* bound: lost connections and failed attempts
  WireCap        \* bound: no retry period elapses with more packets travelling

ASSUME InMessagesAssumption ==
  /\ MidSpace \in Nat \ {0}
  /\ Qos \subseteq 0 .. 2
  /\ Sessions \subseteq BOOLEAN
  /\ MaxMessages \in Nat
  /\ MaxLoss \in Nat
  /\ WireCap \in Nat

VARIABLES
  clean_session,       \* does the broker forget the session with the connection?
  in_messages,         \* the waiting QoS 2 messages, oldest first
  in_queue_len,        \* their counter
  conn,                \* is the connection up?
  toBroker, toClient,  \* the packets travelling in each direction
  sent,                \* broker: the QoS of the messages sent, in order
  broker,              \* broker: what it waits for, for each message
  losses,
  received             \* history: how often on_message was called for each

vars == <<clean_session, in_messages, in_queue_len, conn, toBroker, toClient, sent, broker,
          losses, received>>

Ids == 1 .. MaxMessages
Mids == 1 .. MidSpace

\* bound: a message is queued at most once per connection
ListCap == (MaxLoss + 1) * MaxMessages

\* The broker's id for its k-th message
Mid(k) == ((k - 1) % MidSpace) + 1

\* A message waiting in in_messages, always in state wait_for_pubrel
Waiting == [id : Ids, mid : Mids, due : BOOLEAN]

PublishPackets == [type : {"PUBLISH"}, id : Ids, mid : Mids, qos : 0 .. 2]
MidPackets(types) == [type : types, mid : Mids]

PublishPacket(k, q) == [type |-> "PUBLISH", id |-> k, mid |-> Mid(k), qos |-> q]
MidPacket(type, mid) == [type |-> type, mid |-> mid]

CountUp(n) == IF n = 0 THEN 1 ELSE 2

Init ==
  /\ clean_session \in Sessions
  /\ in_messages = <<>>
  /\ in_queue_len = 0
  /\ conn = TRUE
  /\ toBroker = <<>>
  /\ toClient = <<>>
  /\ sent = <<>>
  /\ broker = [k \in Ids |-> "unsent"]
  /\ losses = 0
  /\ received = [k \in Ids |-> 0]

-----------------------------------------------------------------------------
(* The client.                                                             *)

Receive(type) ==
  /\ conn
  /\ toClient # <<>>
  /\ Head(toClient).type = type
  /\ toClient' = Tail(toClient)

Reply(type, mid) == toBroker' = Append(toBroker, MidPacket(type, mid))

OnMessage(id) == received' = [received EXCEPT ![id] = CountUp(@)]

\* Mutant: the message is not counted.
QueueUncounted(p) ==
  /\ in_messages' = Append(in_messages, [id |-> p.id, mid |-> p.mid, due |-> FALSE])
  /\ UNCHANGED in_queue_len

\* QoS 2: PUBREC, and the message joins the list, whatever is there already.
Queue(p) ==
  /\ in_messages' = Append(in_messages, [id |-> p.id, mid |-> p.mid, due |-> FALSE])
  /\ in_queue_len' = in_queue_len + 1

HandlePublish ==
  /\ Receive("PUBLISH")
  /\ LET p == Head(toClient)
     IN  \/ /\ p.qos = 0
            /\ OnMessage(p.id)
            /\ UNCHANGED <<in_messages, in_queue_len, toBroker>>
         \/ /\ p.qos = 1
            /\ Reply("PUBACK", p.mid)
            /\ OnMessage(p.id)
            /\ UNCHANGED <<in_messages, in_queue_len>>
         \/ /\ p.qos = 2
            /\ Reply("PUBREC", p.mid)
            /\ Queue(p)
            /\ UNCHANGED received
  /\ UNCHANGED <<clean_session, conn, sent, broker, losses>>

\* _mosquitto_message_remove takes the first message with this id.
HasMid(mid) == \E i \in DOMAIN in_messages : in_messages[i].mid = mid
\* Mutant: the message at the end of the list is taken.
LastIndex(mid) == Len(in_messages)

MidIndex(mid) ==
  CHOOSE i \in DOMAIN in_messages :
    /\ in_messages[i].mid = mid
    /\ \A j \in 1 .. (i - 1) : in_messages[j].mid # mid

\* Mutant: the message is left in the list.
RemoveNothing(at) == at > 0 /\ UNCHANGED <<in_messages, in_queue_len>>

Remove(at) ==
  /\ in_messages' = [i \in 1 .. (Len(in_messages) - 1) |->
                       in_messages[IF i < at THEN i ELSE i + 1]]
  /\ in_queue_len' = in_queue_len - 1

\* PUBCOMP is sent whether or not the message was there.
HandlePubrel ==
  /\ Receive("PUBREL")
  /\ LET mid == Head(toClient).mid
     IN  /\ IF HasMid(mid)
            THEN /\ OnMessage(in_messages[MidIndex(mid)].id)
                 /\ Remove(MidIndex(mid))
            ELSE UNCHANGED <<in_messages, in_queue_len, received>>
         /\ Reply("PUBCOMP", mid)
  /\ UNCHANGED <<clean_session, conn, sent, broker, losses>>

\* _mosquitto_message_retry_check: PUBREC again
RetryCheck ==
  LET late == {i \in DOMAIN in_messages : in_messages[i].due}
  IN  /\ conn
      /\ late # {}
      /\ in_messages' = [i \in DOMAIN in_messages |->
                           [in_messages[i] EXCEPT !.due = FALSE]]
      /\ toBroker' = toBroker \o [n \in 1 .. Cardinality(late) |->
                       MidPacket("PUBREC", in_messages[InOrder(late)[n]].mid)]
      /\ UNCHANGED <<clean_session, in_queue_len, conn, toClient, sent, broker,
                     losses, received>>

\* message_retry seconds have passed since the timestamp of message i
Tick(i) ==
  /\ i \in DOMAIN in_messages
  /\ ~ in_messages[i].due
  /\ Len(toBroker) + Len(toClient) <= WireCap
  /\ in_messages' = [in_messages EXCEPT ![i].due = TRUE]
  /\ UNCHANGED <<clean_session, in_queue_len, conn, toBroker, toClient, sent,
                 broker, losses, received>>

ConnLost ==
  /\ conn
  /\ losses < MaxLoss
  /\ conn' = FALSE
  /\ losses' = losses + 1
  /\ UNCHANGED <<clean_session, in_messages, in_queue_len, toBroker, toClient,
                 sent, broker, received>>

\* Mutant: the messages are dropped, as those of QoS 1 are.
ResetDrops ==
  /\ in_messages' = <<>>
  /\ in_queue_len' = 0

\* _mosquitto_messages_reconnect_reset keeps the QoS 2 messages.
Reset ==
  /\ in_messages' = [i \in DOMAIN in_messages |->
                       [in_messages[i] EXCEPT !.due = TRUE]]
  /\ in_queue_len' = Len(in_messages)

\* What the broker sends first on a new connection
Unacknowledged == {k \in Ids : broker[k] \in {"PUBACK", "PUBREC", "PUBCOMP"}}

Resent(k) ==
  IF broker[k] = "PUBCOMP" THEN MidPacket("PUBREL", Mid(k))
                           ELSE PublishPacket(k, sent[k])

Reconnect ==
  /\ ~ conn
  /\ Reset
  /\ conn' = TRUE
  /\ toBroker' = <<>>
  /\ IF clean_session
     THEN /\ broker' = [k \in Ids |-> IF k \in Unacknowledged THEN "dropped"
                                      ELSE broker[k]]
          /\ toClient' = <<>>
     ELSE /\ toClient' = [n \in 1 .. Cardinality(Unacknowledged) |->
                            Resent(InOrder(Unacknowledged)[n])]
          /\ UNCHANGED broker
  /\ UNCHANGED <<clean_session, sent, losses, received>>

ReconnectFails ==
  /\ ~ conn
  /\ losses < MaxLoss
  /\ losses' = losses + 1
  /\ Reset
  /\ UNCHANGED <<clean_session, conn, toBroker, toClient, sent, broker, received>>

-----------------------------------------------------------------------------
(* The broker.                                                             *)

AckOf(q) == CASE q = 0 -> "done" [] q = 1 -> "PUBACK" [] q = 2 -> "PUBREC"

\* A message for a subscription of the client
BrokerPublish(q) ==
  LET k == Len(sent) + 1
  IN  /\ conn
      /\ k <= MaxMessages
      /\ \A j \in Unacknowledged : Mid(j) # Mid(k)
      /\ sent' = Append(sent, q)
      /\ broker' = [broker EXCEPT ![k] = AckOf(q)]
      /\ toClient' = Append(toClient, PublishPacket(k, q))
      /\ UNCHANGED <<clean_session, in_messages, in_queue_len, conn, toBroker, losses,
                     received>>

\* An acknowledgement the broker waits for
Awaits(p) == {k \in Unacknowledged : Mid(k) = p.mid}

BrokerHandle ==
  /\ toBroker # <<>>
  /\ LET p == Head(toBroker)
     IN  \/ /\ p.type \in {"PUBACK", "PUBCOMP"}
            /\ broker' = [k \in Ids |-> IF k \in Awaits(p) /\ broker[k] = p.type
                                        THEN "done" ELSE broker[k]]
            /\ UNCHANGED toClient
         \/ /\ p.type = "PUBREC"
            /\ broker' = [k \in Ids |-> IF k \in Awaits(p) /\ broker[k] = "PUBREC"
                                        THEN "PUBCOMP" ELSE broker[k]]
            /\ \/ toClient' = IF conn THEN Append(toClient, MidPacket("PUBREL", p.mid))
                                      ELSE toClient
               \/ Awaits(p) = {} /\ UNCHANGED toClient
  /\ toBroker' = Tail(toBroker)
  /\ UNCHANGED <<clean_session, in_messages, in_queue_len, conn, sent, losses,
                 received>>

\* All messages are sent and the packets have arrived.
Quiescent ==
  /\ Len(sent) = MaxMessages
  /\ conn
  /\ toBroker = <<>>
  /\ toClient = <<>>
  /\ UNCHANGED vars

Next ==
  \/ HandlePublish
  \/ HandlePubrel
  \/ RetryCheck
  \/ \E i \in 1 .. ListCap : Tick(i)
  \/ ConnLost
  \/ Reconnect
  \/ ReconnectFails
  \/ \E q \in Qos : BrokerPublish(q)
  \/ BrokerHandle
  \/ Quiescent

Spec == Init /\ [][Next]_vars

(* Scheduling: the network thread keeps running and reconnects, the retry  *)
(* period passes, and the broker reads what it is sent.                    *)
Fairness ==
  /\ WF_vars(HandlePublish \/ HandlePubrel)
  /\ WF_vars(RetryCheck)
  /\ \A i \in 1 .. ListCap : WF_vars(Tick(i))
  /\ WF_vars(Reconnect)
  /\ WF_vars(BrokerHandle)

FairSpec == Spec /\ Fairness

-----------------------------------------------------------------------------
(* Properties.                                                             *)

\* Every variable stays in its type.
TypeOK ==
  /\ clean_session \in Sessions
  /\ in_messages \in Seq(Waiting)
  /\ in_queue_len \in Nat
  /\ conn \in BOOLEAN
  /\ toBroker \in Seq(MidPackets({"PUBACK", "PUBREC", "PUBCOMP"}))
  /\ toClient \in Seq(PublishPackets \cup MidPackets({"PUBREL"}))
  /\ sent \in Seq(0 .. 2)
  /\ Len(sent) <= MaxMessages
  /\ broker \in [Ids -> {"unsent", "PUBACK", "PUBREC", "PUBCOMP", "done", "dropped"}]
  /\ losses \in 0 .. MaxLoss
  /\ received \in [Ids -> 0 .. 2]

\* A QoS 2 message is passed to on_message once, however often the broker or
\* the client repeats its part of the exchange.
ReceivedOnce == \A k \in 1 .. Len(sent) : sent[k] = 2 => received[k] <= 1

\* It is, as long as the broker has no reason to send a PUBLISH again.
ReceivedOnceIfSentOnce == (losses = 0 \/ clean_session) => ReceivedOnce

\* PUBCOMP, which handle_pubrel sends in any case, never completes a message
\* that was not passed on: a message of QoS 1 or 2 the broker has finished with
\* has reached on_message.
CompletedWasReceived ==
  \A k \in 1 .. Len(sent) : (sent[k] > 0 /\ broker[k] = "done") => received[k] > 0

\* While the connection holds, messages of one QoS reach on_message in order.
ReceivedInOrder ==
  losses = 0 =>
    \A j \in 1 .. Len(sent) : \A i \in 1 .. (j - 1) :
      (sent[i] = sent[j] /\ received[j] > 0) => received[i] > 0

\* Every message of QoS 1 or 2 is eventually passed on, through any finite
\* number of lost connections, unless the broker has dropped it with the session.
EventuallyReceived ==
  \A k \in Ids : (Len(sent) >= k /\ sent[k] > 0) ~> (received[k] > 0 \/ broker[k] = "dropped")
=============================================================================
