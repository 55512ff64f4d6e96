--------------------------- MODULE MCLintaiClient ---------------------------
(* Instances of LintaiClient for TLC.                                      *)
EXTENDS LintaiClient, TLC

AllFaults == {"spawn", "timeout", "error", "garbled", "crash", "oneshot"}
NoFaults  == {}

(* Saves of two files over eight ticks with at most one fault, or one file *)
(* with a rule edit, three processes and two faults within two ticks.      *)
OneProcess == \A p \in Procs \ {1} : proc[p] = "unborn"
Alone(f) == \A g \in Files \ {f} : content[g] = 0 /\ savedAnalyzed[g] = -1
SavesOrFaults ==
  \/ rules = 0 /\ faults <= 1 /\ OneProcess
  \/ now <= SecondTicks + 2 /\ content[call.file] <= 1 /\ Alone(call.file)

FileSymmetry == Permutations(Files)
=============================================================================
