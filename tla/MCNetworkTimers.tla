--------------------------- MODULE MCNetworkTimers ---------------------------
(***************************************************************************)
(* Instances of NetworkTimers for TLC.                                     *)
(***************************************************************************)
EXTENDS NetworkTimers
=============================================================================
