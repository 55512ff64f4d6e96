--------------------------- MODULE MCLintaiServer ---------------------------
(* Ids of requests are numbers, so NoId and Nothing are strings. *)
EXTENDS LintaiServer

CONSTANTS c1, c2

MCConfigs == {c1, c2}
=============================================================================
