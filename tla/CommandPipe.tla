----------------------------- MODULE CommandPipe -----------------------------
(***************************************************************************)
(* What class IT100 promises to whoever calls sendCommand: an unbounded    *)
(* first-in first-out pipe.  Accepted commands leave it oldest first, one  *)
(* at a time, and each leaves it once.  Nothing is said of what happens to *)
(* a command after it has left (the connection may lose it), nor of how    *)
(* long a command stays: the pipe survives any number of connections.      *)
(***************************************************************************)
EXTENDS Sequences

CONSTANTS Message,   \* what can be put into the pipe
          Nothing    \* the value of last before the first departure

VARIABLES pending,   \* the accepted commands that have not left, oldest first
          last       \* the command that left last

pipeVars == <<pending, last>>

\* A caller's handler puts in nothing, one command, or a keypress and its break.
Accepted ==
  {pending}
    \cup {Append(pending, c) : c \in Message}
    \cup {Append(Append(pending, c), d) : c, d \in Message}

PipeInit == pending = <<>> /\ last = Nothing

\* New commands join at the tail and none leaves.
Accept == pending' \in Accepted /\ UNCHANGED last

\* The oldest command leaves, possibly one that this very step accepted.
Depart ==
  \E p \in Accepted :
    /\ p # <<>>
    /\ pending' = Tail(p)
    /\ last' = Head(p)

PipeNext == Accept \/ Depart

PipeSpec == PipeInit /\ [][PipeNext]_pipeVars
=============================================================================
