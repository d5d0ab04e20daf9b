---------------------------- MODULE MCMessageLogger ----------------------------
(***************************************************************************)
(* Instances of MessageLogger for TLC.                                     *)
(***************************************************************************)
EXTENDS MessageLogger

None == {}
===============================================================================
