----------------------------- MODULE MCLifecycle -----------------------------
(***************************************************************************)
(* Instances of Lifecycle for TLC.                                         *)
(***************************************************************************)
EXTENDS Lifecycle

\* Connecting at once, with keepalive and with or without reconnection
Recovering ==
  [immediately |-> TRUE, reconnect |-> TRUE, keepalive |-> TRUE, fatal |-> FALSE]
Ending == [Recovering EXCEPT !.reconnect = FALSE]

\* Connected by the application, without keepalive and reconnection, and
\* against a broker that may send malformed packets
Bare == [immediately |-> FALSE, reconnect |-> FALSE, keepalive |-> FALSE, fatal |-> TRUE]

MCRecovering == {Recovering}
MCEnding == {Ending}
MCAll == {Recovering, Ending, Bare}
=============================================================================
