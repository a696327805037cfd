---------------------------- MODULE PacketChannel ----------------------------
(***************************************************************************)
(* What a connection promises to the handlers of packets: the packets the  *)
(* other side has sent on it arrive whole, unchanged, once and in order,   *)
(* until it breaks.                                                        *)
(***************************************************************************)
EXTENDS Sequences

CONSTANT Packet

VARIABLES
  travelling,  \* packets sent and not received yet
  received     \* packets received on this connection

vars == <<travelling, received>>

Init ==
  /\ travelling = <<>>
  /\ received = <<>>

Send(p) ==
  /\ travelling' = Append(travelling, p)
  /\ UNCHANGED received

Receive ==
  /\ travelling # <<>>
  /\ received' = Append(received, Head(travelling))
  /\ travelling' = Tail(travelling)

\* The connection is lost, with everything that is on its way.
Renew ==
  /\ travelling' = <<>>
  /\ received' = <<>>

Next == (\E p \in Packet : Send(p)) \/ Receive \/ Renew

Spec == Init /\ [][Next]_vars
=============================================================================
