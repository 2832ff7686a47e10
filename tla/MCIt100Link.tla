---------------------------- MODULE MCIt100Link ----------------------------
(***************************************************************************)
(* Instances of It100Link for TLC.  One caller's command is enough beside  *)
(* the class's own four: what is queued is never looked at.                *)
(***************************************************************************)
EXTENDS It100Link

MCCommands == {"disarm"}
=============================================================================
