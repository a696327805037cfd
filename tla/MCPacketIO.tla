----------------------------- MODULE MCPacketIO -----------------------------
(***************************************************************************)
(* Instances of PacketIO for TLC.                                          *)
(***************************************************************************)
EXTENDS PacketIO

Filled(command, n) == [command |-> command, payload |-> [i \in 1 .. n |-> command]]

MCConnect == Filled(1, 2)
MCDisconnect == Filled(3, 0)
MCReply == Filled(2, 1)
MCRequests == {Filled(2, 2), Filled(2, 4)}
MCIncoming == {Filled(1, 0), Filled(2, 2), Filled(3, 4)}
=============================================================================
