---------------------------- MODULE MCOutMessages ----------------------------
(***************************************************************************)
(* Instances of OutMessages for TLC.                                       *)
(***************************************************************************)
EXTENDS OutMessages
=============================================================================
