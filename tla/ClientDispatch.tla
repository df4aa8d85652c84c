--------------------------- MODULE ClientDispatch ---------------------------
(***************************************************************************)
(* What the thread pool promises: every accepted connection waits, is      *)
(* served by one worker, and is over; those that wait are taken in the     *)
(* order in which they were accepted.  There are no threads, locks or      *)
(* lists here: WorkerPool implements this specification.                   *)
(***************************************************************************)
EXTENDS Integers

CONSTANTS Worker, MaxConn

Client == 1 .. MaxConn
NULL == 0

VARIABLES
  waiting,   \* accepted, not taken yet
  serving,   \* the connection of each worker, or NULL
  served     \* the connections that are over

vars == <<waiting, serving, served>>

Init ==
  /\ waiting = {}
  /\ serving = [w \in Worker |-> NULL]
  /\ served = {}

Known(c) == c \in waiting \cup served \/ \E w \in Worker : serving[w] = c

\* A connection that is younger than all before it
Submit(c) ==
  /\ \A d \in Client : Known(d) => d < c
  /\ waiting' = waiting \cup {c}
  /\ UNCHANGED <<serving, served>>

\* A worker that serves nobody takes the oldest that waits
Take(w, c) ==
  /\ serving[w] = NULL
  /\ c \in waiting
  /\ \A d \in waiting : c <= d
  /\ waiting' = waiting \ {c}
  /\ serving' = [serving EXCEPT ![w] = c]
  /\ UNCHANGED served

Finish(w) ==
  /\ serving[w] # NULL
  /\ served' = served \cup {serving[w]}
  /\ serving' = [serving EXCEPT ![w] = NULL]
  /\ UNCHANGED waiting

Next ==
  \/ \E c \in Client : Submit(c)
  \/ \E w \in Worker, c \in Client : Take(w, c)
  \/ \E w \in Worker : Finish(w)

Spec == Init /\ [][Next]_vars
=============================================================================
