--------------------------- MODULE AtomicDatabase ---------------------------
(***************************************************************************)
(* What storage.rs promises of one database file: it always holds a whole  *)
(* container, every commit replaces that container by one of the next      *)
(* generation in a single step, and a commit the engine has reported as    *)
(* done is never taken back.                                               *)
(***************************************************************************)
EXTENDS Integers

CONSTANTS
  Payload,        \* what the sections of a container can hold
  MaxGeneration,  \* Generation's u64::MAX
  Nothing         \* no commit has been acknowledged yet

VARIABLES
  current,        \* the container a reader of the file decodes
  acknowledged    \* the last container a commit returned Ok for

vars == <<current, acknowledged>>

Container == [gen : 1 .. MaxGeneration, payload : Payload]

Init ==
  /\ current \in {c \in Container : c.gen = 1}
  /\ acknowledged = Nothing

\* The file moves to the next generation, in one step.
Commit ==
  /\ current' \in {c \in Container : c.gen = current.gen + 1}
  /\ UNCHANGED acknowledged

\* A commit is reported to its caller only once the file holds it.
Acknowledge ==
  /\ acknowledged' = current
  /\ UNCHANGED current

Next == Commit \/ Acknowledge

Spec == Init /\ [][Next]_vars

=============================================================================
