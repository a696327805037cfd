----------------------------- MODULE MCInMessages -----------------------------
(***************************************************************************)
(* Instances of InMessages for TLC.                                        *)
(***************************************************************************)
EXTENDS InMessages
=============================================================================
