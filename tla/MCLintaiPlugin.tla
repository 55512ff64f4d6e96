--------------------------- MODULE MCLintaiPlugin ---------------------------
(* The instance of LintaiPlugin that TLC checks. *)
EXTENDS LintaiPlugin, TLC

CONSTANTS f, g, r, s, failure, noRule

Violation(id) == [rule |-> id, kind |-> "violation"]
MCDiagnostics ==
  {Violation(r), Violation(s), [rule |-> r, kind |-> "rule_execution_error"], [rule |-> s, kind |-> "unused_suppression"]}

(* Everything, little with a rule that could not run, and a failure. *)
MCResults ==
  {[found |-> [x \in Files |-> IF x = f THEN MCDiagnostics ELSE {Violation(s)}], problems |-> {}],
   [found |-> [x \in Files |-> IF x = f THEN {Violation(r)} ELSE {}], problems |-> {noRule}],
   [found |-> [x \in Files |-> {}], problems |-> {failure}]}

(* A command line never looks at the saved text: it gets no choice. *)
DiskConstraint == mode = "oneshot" => \A x \in Files : disk[x] = Nothing

TextSymmetry == Permutations(Texts)
=============================================================================
