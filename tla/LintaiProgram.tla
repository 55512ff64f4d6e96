---------------------------- MODULE LintaiProgram ----------------------------
(***************************************************************************)
(* The evaluation of one rule (evaluateProgram in engine/program.go): the  *)
(* checks of its program, the pruning of the prelude and the evaluation,   *)
(* stratum by stratum, by the library.  A program is the set of the ground *)
(* instances of its clauses; the code prunes by the symbols of predicates. *)
(***************************************************************************)
EXTENDS Naturals, FiniteSets

CONSTANTS
  Atoms,         \* ground atoms
  Symbols,       \* of predicates
  Symbol,        \* the symbol of each atom
  Base,          \* symbols of the base relations (schemaDecls)
  PreludeDecls,  \* symbols that the prelude declares
  Prelude,       \* the clauses of the prelude
  Units,         \* the programs that rules may have
  Located,       \* atoms whose anchor has a location
  FactLimit,     \* bound of the code on the facts that an evaluation creates
  MaxStratum     \* bound on the strata of a program

Clauses == [head : Atoms, pos : SUBSET Atoms, neg : SUBSET Atoms]
Unit == [clauses : SUBSET Clauses, declared : SUBSET Symbols, extensional : SUBSET Symbols,
         facts : SUBSET Atoms, report : SUBSET Symbols, expectNonEmpty : SUBSET Symbols]

ASSUME ProgramAssumption ==
  /\ IsFiniteSet(Atoms) /\ Symbol \in [Atoms -> Symbols]
  /\ Base \subseteq Symbols /\ PreludeDecls \subseteq Symbols
  /\ Prelude \subseteq Clauses /\ \A c \in Prelude : Symbol[c.head] \in PreludeDecls
  /\ Units \subseteq Unit
  /\ Located \subseteq Atoms
  /\ FactLimit \in Nat /\ MaxStratum \in Nat

VARIABLES
  unit, base,       \* the program of the rule; the base facts
  phase,            \* the step that comes next, or how the evaluation has ended
  pending, needed,  \* the locals of preludeFor; a set for the stack: the order is open
  clauses,          \* what is evaluated
  strata, stratum,  \* the stratum of each symbol; the one that comes next
  store,
  violations

input == <<unit, base>>
pruning == <<pending, needed>>
evaluation == <<clauses, strata, stratum, store, violations>>
vars == <<input, phase, pruning, evaluation>>

Steps == {"check", "prune", "evaluate"}
Failures == {"program_analysis", "evaluation", "premise", "report"}

Init ==
  /\ unit \in Units /\ base \in SUBSET {a \in Atoms : Symbol[a] \in Base}
  /\ phase = "check"
  /\ pending = {} /\ needed = {}
  /\ clauses = {} /\ store = {} /\ violations = {}
  /\ strata = [s \in Symbols |-> 0] /\ stratum = 0

-----------------------------------------------------------------------------
Heads(cs) == {Symbol[c.head] : c \in cs}

(* Mutant: a negated premise is no premise. *)
PositivePremises(cs) == {Symbol[a] : a \in UNION {c.pos : c \in cs}}

addPremises(cs) == {Symbol[a] : a \in UNION {c.pos \cup c.neg : c \in cs}}

clausesByHead(s) == {c \in Prelude : Symbol[c.head] = s}

checkReservedPredicates(u) ==
  /\ (u.declared \cup Heads(u.clauses)) \cap (Base \cup PreludeDecls) = {}
  /\ u.extensional \cap Heads(u.clauses) = {}

ruleFactStore(u) == \A a \in u.facts : Symbol[a] \in u.declared \cap u.extensional

Fail(how) == phase' = how /\ UNCHANGED <<input, pruning, evaluation>>

roots(u) == u.report \cup u.expectNonEmpty

Check ==
  /\ phase = "check"
  /\ IF checkReservedPredicates(unit) /\ ruleFactStore(unit)
     THEN /\ phase' = "prune"
          /\ pending' = roots(unit) \cup addPremises(unit.clauses)
          /\ UNCHANGED <<input, needed, evaluation>>
     ELSE Fail("program_analysis")

(* Mutant: a symbol that is needed already is visited again. *)
VisitAgain(s) ==
  /\ phase = "prune" /\ s \in pending
  /\ needed' = needed \cup {s}
  /\ pending' = (pending \ {s}) \cup addPremises(clausesByHead(s))
  /\ UNCHANGED <<input, phase, evaluation>>

Visit(s) ==
  /\ phase = "prune" /\ s \in pending
  /\ \/ /\ s \in needed
        /\ pending' = pending \ {s}
        /\ UNCHANGED needed
     \/ /\ s \notin needed
        /\ needed' = needed \cup {s}
        /\ pending' = (pending \ {s}) \cup addPremises(clausesByHead(s))
  /\ UNCHANGED <<input, phase, evaluation>>

(* Mutant: the whole prelude is evaluated. *)
WholePrelude(symbols) == Prelude

preludeFor(symbols) == {c \in Prelude : Symbol[c.head] \in symbols}

findSyms(u) == Base \cup PreludeDecls \cup u.declared \cup Heads(u.clauses)

Stratified(cs, level) ==
  \A c \in cs : /\ \A a \in c.pos : level[Symbol[a]] <= level[Symbol[c.head]]
                /\ \A a \in c.neg : level[Symbol[a]] < level[Symbol[c.head]]
Levels(cs) ==
  {[s \in Symbols |-> IF s \in Heads(cs) THEN level[s] ELSE 0] : level \in [Heads(cs) -> 0..MaxStratum]}
Stratifications(cs) == {level \in Levels(cs) : Stratified(cs, level)}

Given == base \cup unit.facts

(* Analyze and Stratify: the strata are the library's choice. *)
Analyze ==
  /\ phase = "prune" /\ pending = {}
  /\ LET program == preludeFor(needed) \cup unit.clauses
     IN IF /\ unit.report \subseteq unit.declared /\ unit.expectNonEmpty \subseteq findSyms(unit)
           /\ Stratifications(program) # {}
        THEN /\ strata' \in Stratifications(program)
             /\ clauses' = program
             /\ store' = Given
             /\ phase' = "evaluate"
             /\ UNCHANGED <<input, pruning, stratum, violations>>
        ELSE Fail("program_analysis")

(* X is the least set with the facts that is closed under the clauses      *)
(* whose negated premises do not hold in a given set.                      *)
Closed(X, cs, facts, in) ==
  facts \subseteq X /\ \A c \in cs : c.pos \subseteq X /\ c.neg \cap in = {} => c.head \in X
Least(X, cs, facts, in) ==
  /\ Closed(X, cs, facts, in)
  /\ \A Y \in SUBSET X : Closed(Y, cs, facts, in) => Y = X

(* Mutant: one stratum too many. *)
EvaluateOneMore ==
  /\ phase = "evaluate" /\ stratum <= MaxStratum + 1
  /\ LET now == {c \in clauses : strata[Symbol[c.head]] = stratum}
     IN \E new \in SUBSET {c.head : c \in now} :
          store' = store \cup new /\ Least(store', now, store, store)
  /\ stratum' = stratum + 1
  /\ phase' = IF Cardinality(store' \ Given) > FactLimit THEN "evaluation" ELSE phase
  /\ UNCHANGED <<input, pruning, clauses, strata, violations>>

Evaluate ==
  /\ phase = "evaluate" /\ stratum <= MaxStratum
  /\ LET now == {c \in clauses : strata[Symbol[c.head]] = stratum}
     IN \E new \in SUBSET {c.head : c \in now} :
          store' = store \cup new /\ Least(store', now, store, store)
  /\ stratum' = stratum + 1
  /\ phase' = IF Cardinality(store' \ Given) > FactLimit THEN "evaluation" ELSE phase
  /\ UNCHANGED <<input, pruning, clauses, strata, violations>>

hasFacts(facts, s) == \E a \in facts : Symbol[a] = s
Rows(facts) == {a \in facts : Symbol[a] \in unit.report}

Report ==
  /\ phase = "evaluate" /\ stratum > MaxStratum
  /\ IF \E s \in unit.expectNonEmpty : ~hasFacts(store, s) THEN Fail("premise")
     ELSE IF ~(Rows(store) \subseteq Located) THEN Fail("report")
     ELSE /\ phase' = "done"
          /\ violations' = Rows(store)
          /\ UNCHANGED <<input, pruning, clauses, strata, stratum, store>>

Next == Check \/ (\E s \in Symbols : Visit(s)) \/ Analyze \/ Evaluate \/ Report

Spec == Init /\ [][Next]_vars

(* The loops and calls go on by themselves. *)
FairSpec == Spec /\ WF_vars(Next)

-----------------------------------------------------------------------------
(* Every variable has a value of its kind. *)
TypeOK ==
  /\ unit \in Units /\ base \subseteq Atoms
  /\ phase \in Steps \cup Failures \cup {"done"}
  /\ pending \subseteq Symbols /\ needed \subseteq Symbols
  /\ clauses \subseteq Clauses /\ store \subseteq Atoms /\ violations \subseteq Atoms
  /\ strata \in [Symbols -> 0..MaxStratum] /\ stratum \in 0..(MaxStratum + 1)

(* The model of the whole program, which stratified programs have one of. *)
WholeModel(M) == M \subseteq Atoms /\ Least(M, Prelude \cup unit.clauses, Given, M)

(* A rule ends as if the whole prelude had been evaluated with it: with    *)
(* the same violations, and with a failed expectation, a missing location  *)
(* or too many facts only if it would have had them then as well           *)
(* (program.go:113-147, 316-358; docs/api.md:61, 260).                     *)
EndsAsWhole ==
  phase \in {"done", "premise", "report", "evaluation"} =>
    \A M \in SUBSET Atoms :
      WholeModel(M) =>
        /\ phase = "done" => /\ violations = Rows(M) /\ Rows(M) \subseteq Located
                             /\ \A s \in unit.expectNonEmpty : hasFacts(M, s)
        /\ phase = "premise" => \E s \in unit.expectNonEmpty : ~hasFacts(M, s)
        /\ phase = "report" => ~(Rows(M) \subseteq Located)
        /\ phase = "evaluation" => Cardinality(M \ Given) > FactLimit

(* A rule derives only what it defines, names, or reads through clauses    *)
(* that it reads (the comment of preludeFor, program.go:313-315).          *)
ClosedUnderReading(R) ==
  /\ roots(unit) \cup addPremises(unit.clauses) \subseteq R
  /\ \A c \in Prelude : Symbol[c.head] \in R => addPremises({c}) \subseteq R
DerivesOnlyWhatIsRead ==
  \A a \in store \ Given, R \in SUBSET Symbols :
    ClosedUnderReading(R) => Symbol[a] \in R \cup Heads(unit.clauses)

(* Every step brings an evaluation nearer to its end: to a later phase, to *)
(* a symbol that was not needed before, to one pending symbol less, or to  *)
(* the next stratum.  Nothing is visited twice, however the clauses of the *)
(* prelude depend on each other (program.go:333-346).                      *)
Left(now) == CASE now = "check" -> 3 [] now = "prune" -> 2 [] now = "evaluate" -> 1 [] OTHER -> 0
Nearer ==
  \/ Left(phase') < Left(phase)
  \/ /\ phase' = phase
     /\ \/ needed \subseteq needed' /\ needed # needed'
        \/ needed' = needed /\ pending' \subseteq pending /\ pending' # pending
        \/ <<needed, pending>>' = <<needed, pending>> /\ stratum < stratum'
StepsComeNearer == [][Nearer]_vars

(* Every evaluation ends, though clauses of the prelude depend on          *)
(* themselves and on each other (program.go:336-346).                      *)
EvaluationEnds == <>(phase \notin Steps)
=============================================================================
