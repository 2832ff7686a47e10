---------------------------- MODULE MCLineReader ----------------------------
(***************************************************************************)
(* Instances of LineReader for TLC.  The bytes of the first message sum to *)
(* 90h, a sum of two digits with a zero; those of the second to 13Ah, one  *)
(* of three with a letter.                                                 *)
(***************************************************************************)
EXTENDS LineReader

\* "000", and "654119".
MCMessages == {<<48, 48, 48>>, <<54, 53, 52, 49, 49, 57>>}
=============================================================================
