--------------------------- MODULE MCLintaiProgram ---------------------------
(* The instance of LintaiProgram that TLC checks: a prelude with a negated *)
(* premise and a recursive clause, as prelude.mg has them.                 *)
EXTENDS LintaiProgram, TLC

CONSTANTS edge, symbol, hasSymbols, runtime, reach, fact, v, w  \* symbols

MCSymbols == {edge, symbol, hasSymbols, runtime, reach, fact, v, w}
MCAtoms == {<<s, 1>> : s \in MCSymbols} \cup {<<reach, 2>>}
MCSymbol == [a \in MCAtoms |-> a[1]]
At(s) == <<s, 1>>
Clause(h, p, n) == [head |-> h, pos |-> p, neg |-> n]
MCPrelude ==
  {Clause(At(hasSymbols), {At(symbol)}, {}),
   Clause(At(runtime), {At(edge)}, {At(hasSymbols)}),
   Clause(At(reach), {At(runtime)}, {}),
   Clause(<<reach, 2>>, {At(runtime), At(reach)}, {})}

(* Up to two clauses of a rule, one of them of a predicate of the prelude. *)
UnitClauses ==
  {Clause(At(v), {<<reach, 2>>}, {}), Clause(At(v), {At(edge)}, {At(runtime)}),
   Clause(At(v), {At(w)}, {At(hasSymbols)}), Clause(At(w), {At(fact)}, {}),
   Clause(At(w), {At(v)}, {}), Clause(At(reach), {At(symbol)}, {})}
Expected == {{}, {reach}, {hasSymbols, v}, {edge, fact}}

MCUnits ==
  [clauses : {cs \in SUBSET UnitClauses : Cardinality(cs) <= 2}, declared : {{v, w, fact}},
   extensional : {{fact}}, facts : {{}, {At(fact)}}, report : {{v}, {w}, {runtime}}, expectNonEmpty : Expected]

MCLocated == {At(v)}
=============================================================================
