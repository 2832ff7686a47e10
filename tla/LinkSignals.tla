----------------------------- MODULE LinkSignals -----------------------------
(***************************************************************************)
(* What class IT100 promises to the bridge that listens to its signals:    *)
(* when connected, disconnected, communicationsBegin and                   *)
(* communicationsTimeout may be emitted, and what getStatus returns then.  *)
(* How the link comes to emit them is the business of It100Link, which     *)
(* implements this specification; Bridge is built upon this one.           *)
(***************************************************************************)

VARIABLES
  up,      \* the TCP connection stands: after connected, before disconnected
  good,    \* communications are good: after communicationsBegin, before a
           \* timeout or a disconnect
  status   \* what getStatus returns

linkVars == <<up, good, status>>

LinkInit == up = FALSE /\ good = FALSE /\ status = "unknown"

\* Emits connected.
LinkConnect ==
  /\ ~up
  /\ up' = TRUE
  /\ UNCHANGED <<good, status>>

\* Emits disconnected.  The status stays what it was.
LinkDisconnect ==
  /\ up
  /\ up' = FALSE /\ good' = FALSE
  /\ UNCHANGED status

\* Emits communicationsBegin.
LinkBegin ==
  /\ up /\ ~good
  /\ good' = TRUE /\ status' = "ok"
  /\ UNCHANGED up

\* Emits communicationsTimeout, connected or not, again and again, but never
\* before communications have begun for the first time.
LinkTimeout ==
  /\ status # "unknown"
  /\ good' = FALSE /\ status' = "failed"
  /\ UNCHANGED up

LinkNext == LinkConnect \/ LinkDisconnect \/ LinkBegin \/ LinkTimeout

LinkSpec == LinkInit /\ [][LinkNext]_linkVars
=============================================================================
