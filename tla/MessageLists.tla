---------------------------- MODULE MessageLists ----------------------------
(***************************************************************************)
(* The two linked lists of messages of struct mosquitto, with the pointers *)
(* to their first and last messages that OutMessages and InMessages leave  *)
(* out.  A message is named by its direction and its id, and is added at   *)
(* most once; the outgoing ones are of QoS 1 and fit in the window, the    *)
(* incoming ones of QoS 2, as only those are kept.                         *)
(***************************************************************************)
EXTENDS Naturals, SequencesExt

CONSTANTS
  Mids,    \* message ids
  MaxLoss  \* bound: lost connections

Null == [dir |-> "none", mid |-> 0]
Message == [dir : {"out", "in"}, mid : Mids]

VARIABLES
  next,               \* message->next
  out_messages, out_messages_last,
  in_messages, in_messages_last,
  losses,
  (* History *)
  used,               \* messages that were added to a list
  acknowledged,       \* messages whose PUBACK was handled
  published           \* messages on_publish was called for

out == <<out_messages, out_messages_last>>
in == <<in_messages, in_messages_last>>
history == <<used, acknowledged, published>>
vars == <<next, out, in, losses, history>>

Init ==
  /\ next = [m \in Message |-> Null]
  /\ out_messages = Null /\ out_messages_last = Null
  /\ in_messages = Null /\ in_messages_last = Null
  /\ losses = 0
  /\ used = {} /\ acknowledged = {} /\ published = {}

\* The messages from m on
Chain[m \in Message \cup {Null}] ==
  IF m = Null THEN <<>> ELSE <<m>> \o Chain[next[m]]

-----------------------------------------------------------------------------
(* _mosquitto_message_queue.                                               *)

\* The new message is the last one; a list is taken for empty if its last pointer is.
Link(m, last) ==
  /\ m \notin used
  /\ used' = used \cup {m}
  /\ next' = IF last = Null THEN next ELSE [next EXCEPT ![last] = m]

Publish(mid) ==
  LET m == [dir |-> "out", mid |-> mid]
  IN /\ Link(m, out_messages_last)
     /\ out_messages' = IF out_messages_last = Null THEN m ELSE out_messages
     /\ out_messages_last' = m
     /\ UNCHANGED <<in, losses, acknowledged, published>>

HandlePublish(mid) ==
  LET m == [dir |-> "in", mid |-> mid]
  IN /\ Link(m, in_messages_last)
     /\ in_messages' = IF in_messages_last = Null THEN m ELSE in_messages
     /\ in_messages_last' = m
     /\ UNCHANGED <<out, losses, acknowledged, published>>

-----------------------------------------------------------------------------
(* _mosquitto_message_remove.                                              *)

Found(mid, first) == \E i \in DOMAIN Chain[first] : Chain[first][i].mid = mid

\* Take the first message with this id out of a list; first and last are the new
\* pointers.
Unlink(mid, oldFirst, oldLast, first, last) ==
  LET list == Chain[oldFirst]
      i == SelectInSeq(list, LAMBDA m : m.mid = mid)
      prev == IF i = 1 THEN Null ELSE list[i - 1]
  IN /\ next' = IF prev = Null THEN next ELSE [next EXCEPT ![prev] = next[list[i]]]
     /\ first = IF prev = Null THEN next[list[i]] ELSE oldFirst
     /\ last = IF next[list[i]] = Null THEN prev ELSE oldLast

\* The broker acknowledges a message; on_publish is called if it is found.
HandlePuback(mid) ==
  LET m == [dir |-> "out", mid |-> mid]
  IN /\ m \in used \ acknowledged
     /\ acknowledged' = acknowledged \cup {m}
     /\ IF Found(mid, out_messages)
        THEN /\ Unlink(mid, out_messages, out_messages_last, out_messages', out_messages_last')
             /\ published' = published \cup {m}
        ELSE UNCHANGED <<next, out, published>>
     /\ UNCHANGED <<in, losses, used>>

HandlePubrel(mid) ==
  /\ [dir |-> "in", mid |-> mid] \in used
  /\ Found(mid, in_messages)
  /\ Unlink(mid, in_messages, in_messages_last, in_messages', in_messages_last')
  /\ UNCHANGED <<out, losses, history>>

-----------------------------------------------------------------------------
LastOf(list, otherwise) == IF list = <<>> THEN otherwise ELSE Last(list)

\* _mosquitto_messages_reconnect_reset, as far as the lists go: one variable prev
\* serves both loops, and still points into in_messages if out_messages is empty.
ReconnectReset ==
  /\ losses < MaxLoss
  /\ losses' = losses + 1
  /\ in_messages_last' = LastOf(Chain[in_messages], Null)
  /\ out_messages_last' = LastOf(Chain[out_messages], in_messages_last')
  /\ UNCHANGED <<next, out_messages, in_messages, history>>

Next ==
  \/ \E mid \in Mids : Publish(mid) \/ HandlePublish(mid) \/ HandlePuback(mid) \/ HandlePubrel(mid)
  \/ ReconnectReset

Spec == Init /\ [][Next]_vars

-----------------------------------------------------------------------------
\* The publish callback is called for every message the broker has acknowledged.
AcknowledgedIsPublished == acknowledged = published
=============================================================================
