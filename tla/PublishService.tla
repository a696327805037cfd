--------------------------- MODULE PublishService ---------------------------
(***************************************************************************)
(* What MQTTClient.publish promises an application for messages of QoS 1   *)
(* and 2 (Moscapsule.swift, enum Qos and onPublishCallback): a message     *)
(* accepted by publish() is handed over to the broker, exactly once at QoS *)
(* 2, and its onPublish is called once and not before the hand-over.       *)
(***************************************************************************)
EXTENDS Integers, Sequences

CONSTANTS MaxPublishes

VARIABLES
  accepted,     \* the QoS of the publish() calls so far, in order
  handedOver,   \* handedOver[k]: how often the broker took message k over
  reported      \* reported[k]: how often onPublish was called for message k

vars == <<accepted, handedOver, reported>>

Ids == 1 .. MaxPublishes

Init ==
  /\ accepted = <<>>
  /\ handedOver = [k \in Ids |-> 0]
  /\ reported = [k \in Ids |-> 0]

Accept ==
  /\ Len(accepted) < MaxPublishes
  /\ \E q \in 0 .. 2 : accepted' = Append(accepted, q)
  /\ UNCHANGED <<handedOver, reported>>

HandOver(k) ==
  /\ k <= Len(accepted)
  /\ accepted[k] # 1 => handedOver[k] = 0
  /\ handedOver' = [handedOver EXCEPT ![k] = IF @ = 0 THEN 1 ELSE 2]
  /\ UNCHANGED <<accepted, reported>>

Report(k) ==
  /\ k <= Len(accepted)
  /\ accepted[k] # 0
  /\ handedOver[k] > 0
  /\ reported[k] = 0
  /\ reported' = [reported EXCEPT ![k] = 1]
  /\ UNCHANGED <<accepted, handedOver>>

Next == Accept \/ \E k \in Ids : HandOver(k) \/ Report(k)

Spec == Init /\ [][Next]_vars
=============================================================================
