------------------------------ MODULE MCBridge ------------------------------
(***************************************************************************)
(* Instances of Bridge for TLC: a command that is passed on, and one that  *)
(* is not.                                                                 *)
(***************************************************************************)
EXTENDS Bridge

MCCommands == {"arm", "unknown"}

MCOneCommand == {"arm"}
=============================================================================
