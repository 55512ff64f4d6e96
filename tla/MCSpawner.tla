----------------------------- MODULE MCSpawner -----------------------------
(* The instance of Spawner that TLC checks. *)
EXTENDS Spawner, Functions

CONSTANTS
  Quiet,   \* the processes that write nothing
  MaxWork  \* bound on the chunks of all processes and the calls

(* It cuts only steps that no fairness asks for: Write, Call and ReadSync. *)
WorkConstraint ==
  /\ \A c \in Quiet : written[c] = 0
  /\ calls + FoldFunction(+, 0, written) <= MaxWork
=============================================================================
