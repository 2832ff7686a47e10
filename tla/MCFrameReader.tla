--------------------------- MODULE MCFrameReader ---------------------------
(***************************************************************************)
(* Instances of FrameReader for TLC, with bytes of three bits: a length    *)
(* below 4 takes one byte, the others two.  Of the ids, 1 is 01h, 37 is    *)
(* 45h, of which both bytes have a sign, and 33 is 41h.  One topic is too  *)
(* long for its length to be read.                                         *)
(***************************************************************************)
EXTENDS FrameReader

MCMessages ==
  {[topic |-> <<1>>, id |-> 1, payload |-> <<>>],
   [topic |-> <<1>>, id |-> 37, payload |-> <<6>>],
   [topic |-> <<2, 2>>, id |-> 33, payload |-> <<>>],
   [topic |-> <<2, 2, 2, 2>>, id |-> 1, payload |-> <<>>]}

\* CONNACK and PINGRESP.
MCAnswers == {[header |-> 2, data |-> <<0, 0>>], [header |-> 5, data |-> <<>>]}
=============================================================================
