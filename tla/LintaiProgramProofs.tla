------------------------- MODULE LintaiProgramProofs -------------------------
(***************************************************************************)
(* For any prelude, programs of rules and facts: evaluating the clauses    *)
(* that preludeFor keeps is evaluating the whole prelude, as far as a rule *)
(* can see.  That the evaluation goes on by strata makes the induction one *)
(* over its steps.                                                         *)
(***************************************************************************)
EXTENDS LintaiProgram, FiniteSetTheorems, WellFoundedInduction, TLAPS

Pruned == {"evaluate", "evaluation", "premise", "report", "done"}

CheckedOK == phase \in Pruned \cup {"prune"} => checkReservedPredicates(unit)

(* What is needed and not pending has been visited, and all of it is read. *)
PruneOK ==
  /\ phase = "check" => needed = {}
  /\ phase \in Pruned \cup {"prune"} =>
       /\ roots(unit) \cup addPremises(unit.clauses) \subseteq needed \cup pending
       /\ \A c \in Prelude : Symbol[c.head] \in needed => addPremises({c}) \subseteq needed \cup pending
       /\ \A R \in SUBSET Symbols : ClosedUnderReading(R) => needed \cup pending \subseteq R

ProgramOK ==
  IF phase \in Pruned
  THEN /\ pending = {}
       /\ clauses = preludeFor(needed) \cup unit.clauses
       /\ Stratified(clauses, strata)
       /\ Given \subseteq store /\ store \subseteq Given \cup {c.head : c \in clauses}
  ELSE store = {} /\ stratum = 0

(* An atom of a symbol that no clause was dropped of. *)
Kept(a) == Symbol[a] \in Heads(Prelude) => Symbol[a] \in needed

(* The store has what M has, up to the stratum that has been evaluated. *)
Agrees(M) ==
  \A a \in Atoms : Kept(a) => /\ a \in store => a \in M
                              /\ a \in M /\ strata[Symbol[a]] < stratum => a \in store

StoreOK == phase \in Pruned => \A M \in SUBSET Atoms : WholeModel(M) => Agrees(M)

EndOK ==
  /\ phase \in {"done", "premise", "report"} => stratum > MaxStratum
  /\ phase = "done" => /\ violations = Rows(store) /\ Rows(store) \subseteq Located
                       /\ \A s \in unit.expectNonEmpty : hasFacts(store, s)
  /\ phase = "premise" => \E s \in unit.expectNonEmpty : ~hasFacts(store, s)
  /\ phase = "report" => ~(Rows(store) \subseteq Located)
  /\ phase = "evaluation" => Cardinality(store \ Given) > FactLimit

Inv == TypeOK /\ CheckedOK /\ PruneOK /\ ProgramOK /\ StoreOK /\ EndOK

-----------------------------------------------------------------------------
(* The least set is below every closed one. *)
LEMMA LeastIsBelow ==
  ASSUME NEW X, NEW cs, NEW facts, NEW in, NEW T, Least(X, cs, facts, in),
         facts \subseteq T,
         \A c \in cs : c.pos \subseteq T /\ c.pos \subseteq X /\ c.neg \cap in = {} => c.head \in T
  PROVE  X \subseteq T
<1>1. Closed(X, cs, facts, in)
  BY DEF Least
<1>2. Closed(X \cap T, cs, facts, in)
  BY <1>1 DEF Closed
<1>3. X \cap T = X
  BY <1>2 DEF Least
<1> QED
  BY <1>3

LEMMA PremisesOf ==
  ASSUME NEW cs, NEW c \in cs
  PROVE  \A a \in c.pos \cup c.neg : Symbol[a] \in addPremises(cs)
BY DEF addPremises

LEMMA PremisesType == ASSUME NEW cs \in SUBSET Clauses PROVE addPremises(cs) \subseteq Symbols
<1>1. Symbol \in [Atoms -> Symbols]
  BY ProgramAssumption
<1>2. \A c \in cs : c.pos \subseteq Atoms /\ c.neg \subseteq Atoms
  BY DEF Clauses
<1> QED
  BY <1>1, <1>2 DEF addPremises

LEMMA UnitType ==
  ASSUME TypeOK
  PROVE  /\ unit.clauses \subseteq Clauses /\ unit.facts \subseteq Atoms
         /\ unit.report \subseteq Symbols /\ unit.expectNonEmpty \subseteq Symbols
         /\ roots(unit) \cup addPremises(unit.clauses) \subseteq Symbols
         /\ Given \subseteq Atoms
<1>1. unit \in Unit
  BY ProgramAssumption DEF TypeOK
<1>2. /\ unit.clauses \subseteq Clauses /\ unit.facts \subseteq Atoms
      /\ unit.report \subseteq Symbols /\ unit.expectNonEmpty \subseteq Symbols
  BY <1>1 DEF Unit
<1> QED
  BY <1>2, PremisesType DEF roots, Given, TypeOK

LEMMA InitInv == Init => Inv
<1> SUFFICES ASSUME Init PROVE Inv
  OBVIOUS
<1> USE DEF Init
<1>1. TypeOK
  <2>1. strata \in [Symbols -> 0..MaxStratum] /\ stratum \in 0..(MaxStratum + 1)
    BY ProgramAssumption
  <2> QED
    BY <2>1 DEF TypeOK, Steps
<1> QED
  BY <1>1 DEF Inv, CheckedOK, PruneOK, ProgramOK, StoreOK, EndOK, Pruned

-----------------------------------------------------------------------------
(* An evaluation that fails keeps all it has. *)
LEMMA FailInv ==
  ASSUME Inv, NEW how \in Failures, Fail(how), how # "evaluation",
         how = "program_analysis" <=> phase \notin Pruned,
         how # "program_analysis" => stratum > MaxStratum,
         how = "premise" => \E s \in unit.expectNonEmpty : ~hasFacts(store, s),
         how = "report" => ~(Rows(store) \subseteq Located)
  PROVE  Inv'
<1> USE DEF Inv, Fail, input, pruning, evaluation
<1>1. TypeOK'
  BY DEF TypeOK
<1>2. CheckedOK' /\ PruneOK'
  BY DEF CheckedOK, PruneOK, Pruned, Failures, ClosedUnderReading
<1>3. ProgramOK'
  BY DEF ProgramOK, Pruned, Failures, Given
<1>4. StoreOK'
  BY DEF StoreOK, Pruned, Failures, Agrees, Kept, WholeModel, Given
<1>5. EndOK'
  BY DEF EndOK, Failures, Pruned, Rows
<1> QED
  BY <1>1, <1>2, <1>3, <1>4, <1>5

LEMMA CheckInv == ASSUME Inv, Check PROVE Inv'
<1> USE DEF Inv
<1>1. CASE checkReservedPredicates(unit) /\ ruleFactStore(unit)
  <2>1. /\ phase' = "prune" /\ phase = "check"
        /\ pending' = roots(unit) \cup addPremises(unit.clauses)
        /\ UNCHANGED <<input, needed, evaluation>>
    BY <1>1 DEF Check
  <2>2. TypeOK'
    BY <2>1, UnitType DEF TypeOK, Steps, input, evaluation
  <2>3. CheckedOK'
    BY <1>1, <2>1 DEF CheckedOK, input
  <2>4. PruneOK'
    <3>1. needed' = {}
      BY <2>1 DEF PruneOK
    <3> QED
      BY <2>1, <3>1 DEF PruneOK, ClosedUnderReading, input
  <2>5. ProgramOK' /\ StoreOK' /\ EndOK'
    BY <2>1 DEF ProgramOK, StoreOK, EndOK, Pruned, evaluation
  <2> QED
    BY <2>2, <2>3, <2>4, <2>5
<1>2. CASE ~(checkReservedPredicates(unit) /\ ruleFactStore(unit))
  BY <1>2, FailInv DEF Check, Failures, Pruned
<1> QED
  BY <1>1, <1>2

(* The two ways to take a symbol keep what has to be visited. *)
LEMMA VisitInv == ASSUME Inv, NEW s \in Symbols, Visit(s) PROVE Inv'
<1> USE DEF Inv
<1>1. /\ phase = "prune" /\ s \in pending /\ UNCHANGED <<input, phase, evaluation>>
      /\ needed' = needed \cup {s}
      /\ \/ s \in needed /\ pending' = pending \ {s}
         \/ s \notin needed /\ pending' = (pending \ {s}) \cup addPremises(clausesByHead(s))
  BY DEF Visit
<1>2. /\ roots(unit) \cup addPremises(unit.clauses) \subseteq needed \cup pending
      /\ \A c \in Prelude : Symbol[c.head] \in needed => addPremises({c}) \subseteq needed \cup pending
      /\ \A R \in SUBSET Symbols : ClosedUnderReading(R) => needed \cup pending \subseteq R
  BY <1>1 DEF PruneOK
<1>3. \A c \in Prelude : Symbol[c.head] = s => addPremises({c}) \subseteq addPremises(clausesByHead(s))
  BY DEF addPremises, clausesByHead
<1>4. needed \cup pending \subseteq needed' \cup pending'
  BY <1>1
<1>5. ASSUME NEW c \in Prelude, Symbol[c.head] \in needed'
      PROVE  addPremises({c}) \subseteq needed' \cup pending'
  BY <1>1, <1>2, <1>3, <1>4, <1>5
<1>6. ASSUME NEW R \in SUBSET Symbols, ClosedUnderReading(R)
      PROVE  needed' \cup pending' \subseteq R
  <2>1. needed \cup pending \subseteq R
    BY <1>2, <1>6
  <2>2. addPremises(clausesByHead(s)) \subseteq R
    BY <1>1, <1>6, <2>1 DEF ClosedUnderReading, addPremises, clausesByHead
  <2> QED
    BY <1>1, <2>1, <2>2
<1>7. PruneOK'
  <2>1. \A R \in SUBSET Symbols : ClosedUnderReading(R)' <=> ClosedUnderReading(R)
    BY <1>1 DEF ClosedUnderReading, input
  <2> QED
    BY <1>1, <1>2, <1>4, <1>5, <1>6, <2>1 DEF PruneOK, input
<1>8. TypeOK'
  <2>1. addPremises(clausesByHead(s)) \subseteq Symbols
    BY PremisesType, ProgramAssumption DEF clausesByHead
  <2> QED
    BY <1>1, <2>1 DEF TypeOK, input, evaluation
<1> QED
  BY <1>1, <1>7, <1>8 DEF CheckedOK, ProgramOK, StoreOK, EndOK, Pruned, input, evaluation

LEMMA AnalyzeInv == ASSUME Inv, Analyze PROVE Inv'
<1> USE DEF Inv
<1> DEFINE program == preludeFor(needed) \cup unit.clauses
<1>1. CASE ~(/\ unit.report \subseteq unit.declared /\ unit.expectNonEmpty \subseteq findSyms(unit)
             /\ Stratifications(program) # {})
  BY <1>1, FailInv DEF Analyze, Failures, Pruned
<1>2. CASE /\ unit.report \subseteq unit.declared /\ unit.expectNonEmpty \subseteq findSyms(unit)
           /\ Stratifications(program) # {}
  <2>1. /\ phase = "prune" /\ pending = {} /\ phase' = "evaluate"
        /\ strata' \in Stratifications(program) /\ clauses' = program /\ store' = Given
        /\ UNCHANGED <<input, pruning, stratum, violations>>
    BY <1>2 DEF Analyze
  <2>2. strata' \in [Symbols -> 0..MaxStratum] /\ Stratified(program, strata')
    <3>1. 0 \in 0..MaxStratum
      BY ProgramAssumption
    <3> QED
      BY <2>1, <3>1 DEF Stratifications, Levels
  <2>3. program \subseteq Clauses
    BY UnitType, ProgramAssumption DEF preludeFor
  <2>4. TypeOK'
    BY <2>1, <2>2, <2>3, UnitType DEF TypeOK, input, pruning, Steps
  <2>5. CheckedOK' /\ PruneOK'
    BY <2>1 DEF CheckedOK, PruneOK, ClosedUnderReading, input, pruning
  <2>6. stratum = 0
    BY <2>1 DEF ProgramOK, Pruned
  <2>7. ProgramOK'
    BY <2>1, <2>2 DEF ProgramOK, Pruned, Given, input, pruning, Stratified
  <2>8. StoreOK'
    <3> SUFFICES ASSUME NEW M \in SUBSET Atoms, WholeModel(M)', NEW a \in Atoms
                 PROVE  /\ a \in store' => a \in M
                        /\ ~(strata'[Symbol[a]] < stratum')
      BY DEF StoreOK, Agrees
    <3>1. Given' \subseteq M
      BY DEF WholeModel, Least, Closed
    <3>2. strata'[Symbol[a]] \in 0..MaxStratum
      BY <2>2, ProgramAssumption
    <3> QED
      BY <2>1, <2>6, <3>1, <3>2 DEF Given, input
  <2>9. EndOK'
    BY <2>1 DEF EndOK
  <2> QED
    BY <2>4, <2>5, <2>7, <2>8, <2>9
<1> QED
  BY <1>1, <1>2

-----------------------------------------------------------------------------
(* What is evaluated reads only what is kept, and lacks no clause of it. *)
LEMMA Reads ==
  ASSUME Inv, phase \in Pruned
  PROVE  /\ clauses \subseteq Prelude \cup unit.clauses
         /\ \A c \in clauses : /\ Kept(c.head)
                               /\ \A a \in c.pos \cup c.neg : Kept(a)
         /\ \A c \in Prelude \cup unit.clauses : Kept(c.head) => c \in clauses
<1>1. /\ pending = {} /\ clauses = preludeFor(needed) \cup unit.clauses
      /\ roots(unit) \cup addPremises(unit.clauses) \subseteq needed
      /\ \A c \in Prelude : Symbol[c.head] \in needed => addPremises({c}) \subseteq needed
      /\ Heads(unit.clauses) \cap PreludeDecls = {}
  BY DEF Inv, ProgramOK, PruneOK, CheckedOK, checkReservedPredicates
<1>2. Heads(Prelude) \subseteq PreludeDecls
  BY ProgramAssumption DEF Heads
<1>3. ASSUME NEW c \in unit.clauses
      PROVE  Kept(c.head) /\ \A a \in c.pos \cup c.neg : Kept(a)
  <2>1. Symbol[c.head] \in Heads(unit.clauses)
    BY DEF Heads
  <2> QED
    BY <1>1, <1>2, <2>1, PremisesOf DEF Kept
<1>4. ASSUME NEW c \in preludeFor(needed)
      PROVE  Kept(c.head) /\ \A a \in c.pos \cup c.neg : Kept(a)
  <2>1. c \in Prelude /\ Symbol[c.head] \in needed
    BY DEF preludeFor
  <2>2. addPremises({c}) \subseteq needed
    BY <1>1, <2>1
  <2> QED
    BY <2>1, <2>2, PremisesOf DEF Kept
<1>5. \A c \in Prelude : Kept(c.head) => c \in preludeFor(needed)
  BY DEF Kept, Heads, preludeFor
<1> QED
  BY <1>1, <1>3, <1>4, <1>5 DEF preludeFor

(* One stratum keeps the agreement with a model M of the whole program:    *)
(* S and T are the store before and after it.                              *)
LEMMA StratumAgrees ==
  ASSUME Inv, phase \in Pruned, NEW T \in SUBSET Atoms,
         Least(T, {c \in clauses : strata[Symbol[c.head]] = stratum}, store, store),
         NEW M \in SUBSET Atoms, WholeModel(M)
  PROVE  \A a \in Atoms : Kept(a) => /\ a \in T => a \in M
                                     /\ a \in M /\ strata[Symbol[a]] < stratum + 1 => a \in T
<1> DEFINE level(a) == strata[Symbol[a]]
           now == {c \in clauses : level(c.head) = stratum}
           whole == Prelude \cup unit.clauses
<1>1. /\ Agrees(M) /\ Given \subseteq store /\ Stratified(clauses, strata)
      /\ clauses \subseteq whole /\ clauses \subseteq Clauses /\ whole \subseteq Clauses
      /\ stratum \in Nat
  BY Reads, UnitType, ProgramAssumption DEF Inv, StoreOK, ProgramOK, TypeOK
<1>2. \A a \in Atoms : level(a) \in Nat
  BY ProgramAssumption DEF Inv, TypeOK
<1>3. store \subseteq T /\ \A c \in now : c.pos \subseteq T /\ c.neg \cap store = {} => c.head \in T
  BY DEF Least, Closed
<1>4. /\ Given \subseteq M
      /\ \A c \in whole : c.pos \subseteq M /\ c.neg \cap M = {} => c.head \in M
  BY DEF WholeModel, Least, Closed
<1>5. \A c \in whole : c.head \in Atoms /\ c.pos \subseteq Atoms /\ c.neg \subseteq Atoms
  BY <1>1 DEF Clauses
<1>6. ASSUME NEW a \in Atoms, Kept(a), a \in T
      PROVE  a \in M
  <2> DEFINE upper == {x \in Atoms : Kept(x) => x \in M}
  <2>1. store \subseteq upper
    BY <1>1 DEF Agrees, Inv, TypeOK
  <2>2. ASSUME NEW c \in now, c.pos \subseteq upper, c.neg \cap store = {}
        PROVE  c.head \in upper
    <3>1. c \in clauses /\ c \in whole /\ level(c.head) = stratum
      BY <1>1
    <3>2. \A x \in c.pos \cup c.neg : Kept(x)
      BY <3>1, Reads
    <3>3. c.pos \subseteq M
      BY <2>2, <3>2
    <3>4. ASSUME NEW x \in c.neg PROVE x \notin M
      <4>1. x \in Atoms /\ level(x) < stratum /\ x \notin store /\ Kept(x)
        BY <1>1, <1>5, <2>2, <3>1, <3>2 DEF Stratified
      <4> QED
        BY <1>1, <4>1 DEF Agrees
    <3>5. c.head \in M
      BY <1>4, <3>1, <3>3, <3>4
    <3> QED
      BY <3>5
  <2> HIDE DEF now, upper
  <2>3. Least(T, now, store, store)
    BY DEF now
  <2>4. T \subseteq upper
    BY <2>1, <2>2, <2>3, LeastIsBelow
  <2> QED
    BY <1>6, <2>4 DEF upper
<1>7. ASSUME NEW a \in Atoms, Kept(a), a \in M, level(a) < stratum + 1
      PROVE  a \in T
  <2> DEFINE lower == {x \in Atoms : ~Kept(x) \/ level(x) > stratum \/ x \in T}
  <2>1. Given \subseteq lower
    BY <1>1, <1>3, UnitType DEF Inv
  <2>2. ASSUME NEW c \in whole, c.pos \subseteq lower, c.pos \subseteq M, c.neg \cap M = {}
        PROVE  c.head \in lower
    <3>1. c.head \in Atoms
      BY <1>5
    <3>2. CASE ~Kept(c.head) \/ level(c.head) > stratum
      BY <3>1, <3>2
    <3>3. CASE Kept(c.head) /\ level(c.head) = stratum
      <4>1. c \in clauses /\ c \in now
        BY <3>3, Reads
      <4>2. \A x \in c.pos \cup c.neg : Kept(x)
        BY <4>1, Reads
      <4>3. ASSUME NEW x \in c.pos PROVE x \in T
        <5>1. x \in Atoms /\ level(x) <= stratum
          BY <1>1, <1>5, <3>3, <4>1 DEF Stratified
        <5>2. ~(level(x) > stratum)
          BY <1>1, <1>2, <5>1
        <5> QED
          BY <2>2, <4>2, <5>2
      <4>4. ASSUME NEW x \in c.neg PROVE x \notin store
        BY <1>1, <1>5, <2>2, <4>2 DEF Agrees
      <4> QED
        BY <1>3, <3>1, <4>1, <4>3, <4>4
    <3>4. CASE Kept(c.head) /\ level(c.head) < stratum
      <4>1. c.head \in M
        BY <1>4, <2>2
      <4>2. c.head \in store
        BY <1>1, <3>1, <3>4, <4>1 DEF Agrees
      <4> QED
        BY <1>3, <3>1, <4>2
    <3>5. level(c.head) < stratum \/ level(c.head) = stratum \/ level(c.head) > stratum
      BY <1>1, <1>2, <3>1
    <3> QED
      BY <3>2, <3>3, <3>4, <3>5
  <2> HIDE DEF lower, whole
  <2>3. Least(M, whole, Given, M)
    BY DEF whole, WholeModel
  <2>4. M \subseteq lower
    BY <2>1, <2>2, <2>3, LeastIsBelow
  <2>5. ~(level(a) > stratum)
    BY <1>1, <1>2, <1>7
  <2> QED
    BY <1>7, <2>4, <2>5 DEF lower
<1> QED
  BY <1>6, <1>7

LEMMA EvaluateInv == ASSUME Inv, Evaluate PROVE Inv'
<1> DEFINE now == {c \in clauses : strata[Symbol[c.head]] = stratum}
<1>1. /\ phase = "evaluate" /\ stratum <= MaxStratum /\ stratum' = stratum + 1
      /\ phase' = IF Cardinality(store' \ Given) > FactLimit THEN "evaluation" ELSE phase
      /\ UNCHANGED <<input, pruning, clauses, strata, violations>>
  BY DEF Evaluate
<1>2. PICK new \in SUBSET {c.head : c \in now} : store' = store \cup new /\ Least(store', now, store, store)
  BY DEF Evaluate
<1>3. phase \in Pruned /\ phase' \in Pruned /\ phase' \in {"evaluate", "evaluation"}
  BY <1>1 DEF Pruned
<1>4. store' \subseteq store \cup {c.head : c \in clauses}
  BY <1>2
<1>5. store' \subseteq Atoms
  <2>1. store \subseteq Atoms /\ clauses \subseteq Clauses
    BY DEF Inv, TypeOK
  <2>2. {c.head : c \in clauses} \subseteq Atoms
    BY <2>1 DEF Clauses
  <2> QED
    BY <1>4, <2>1, <2>2
<1>6. TypeOK'
  <2>1. stratum' \in 0..(MaxStratum + 1)
    BY <1>1, ProgramAssumption DEF Inv, TypeOK
  <2> QED
    BY <1>1, <1>3, <1>5, <2>1 DEF Inv, TypeOK, input, pruning, Steps, Failures
<1>7. CheckedOK' /\ PruneOK'
  BY <1>1, <1>3 DEF Inv, CheckedOK, PruneOK, ClosedUnderReading, input, pruning
<1>8. ProgramOK'
  <2>1. Given' = Given
    BY <1>1 DEF Given, input
  <2> QED
    BY <1>1, <1>2, <1>3, <1>4, <2>1 DEF Inv, ProgramOK, pruning, input
<1>9. StoreOK'
  <2> SUFFICES ASSUME NEW M \in SUBSET Atoms, WholeModel(M)' PROVE Agrees(M)'
    BY DEF StoreOK
  <2>1. WholeModel(M)
    BY <1>1 DEF WholeModel, Given, input
  <2> HIDE DEF now
  <2>2. Least(store', now, store, store)
    BY <1>2
  <2>3. \A a \in Atoms : Kept(a) => /\ a \in store' => a \in M
                                    /\ a \in M /\ strata[Symbol[a]] < stratum + 1 => a \in store'
    BY <1>3, <1>5, <2>1, <2>2, StratumAgrees DEF now
  <2>4. \A a : Kept(a)' <=> Kept(a)
    BY <1>1 DEF Kept, pruning
  <2> QED
    BY <1>1, <2>3, <2>4 DEF Agrees
<1>10. EndOK'
  BY <1>1, <1>3 DEF EndOK, Given, input
<1> QED
  BY <1>6, <1>7, <1>8, <1>9, <1>10 DEF Inv

LEMMA ReportInv == ASSUME Inv, Report PROVE Inv'
<1> USE DEF Inv
<1>1. phase = "evaluate" /\ stratum > MaxStratum
  BY DEF Report
<1>2. CASE \E s \in unit.expectNonEmpty : ~hasFacts(store, s)
  BY <1>1, <1>2, FailInv DEF Report, Failures, Pruned
<1>3. CASE ~(\E s \in unit.expectNonEmpty : ~hasFacts(store, s)) /\ ~(Rows(store) \subseteq Located)
  BY <1>1, <1>3, FailInv DEF Report, Failures, Pruned
<1>4. CASE ~(\E s \in unit.expectNonEmpty : ~hasFacts(store, s)) /\ Rows(store) \subseteq Located
  <2>1. /\ phase' = "done" /\ violations' = Rows(store)
        /\ UNCHANGED <<input, pruning, clauses, strata, stratum, store>>
    BY <1>4 DEF Report
  <2>2. TypeOK'
    BY <2>1 DEF TypeOK, input, pruning, Rows
  <2>3. CheckedOK' /\ PruneOK' /\ ProgramOK'
    BY <1>1, <2>1 DEF CheckedOK, PruneOK, ProgramOK, ClosedUnderReading, Pruned, Given, input, pruning
  <2>4. StoreOK'
    BY <1>1, <2>1 DEF StoreOK, Agrees, Kept, WholeModel, Given, Pruned, input, pruning
  <2>5. EndOK'
    BY <1>1, <1>4, <2>1 DEF EndOK, Rows, input
  <2> QED
    BY <2>2, <2>3, <2>4, <2>5
<1> QED
  BY <1>2, <1>3, <1>4

LEMMA NextInv == Inv /\ [Next]_vars => Inv'
<1> SUFFICES ASSUME Inv, [Next]_vars PROVE Inv'
  OBVIOUS
<1>1. ASSUME NEW s \in Symbols, Visit(s) PROVE Inv'
  BY <1>1, VisitInv
<1>2. CASE UNCHANGED vars
  BY <1>2 DEF Inv, TypeOK, CheckedOK, PruneOK, ClosedUnderReading, ProgramOK, StoreOK, Agrees, Kept,
              WholeModel, Given, EndOK, Rows, vars, input, pruning, evaluation
<1> QED
  BY <1>1, <1>2, CheckInv, AnalyzeInv, EvaluateInv, ReportInv DEF Next

LEMMA Invariance == Spec => []Inv
BY InitInv, NextInv, PTL DEF Spec

-----------------------------------------------------------------------------
(* Every variable always has a value of its kind. *)
THEOREM ProgramTypeCorrect == Spec => []TypeOK
<1>1. Inv => TypeOK
  BY DEF Inv
<1> QED
  BY <1>1, Invariance, PTL

(* Pruning the prelude changes nothing that a rule can see: its violations *)
(* and its failures are those of the whole prelude (program.go:316-358).   *)
THEOREM PruningIsUnseen == Spec => []EndsAsWhole
<1>1. Inv => EndsAsWhole
  <2> SUFFICES ASSUME Inv, phase \in {"done", "premise", "report", "evaluation"},
                      NEW M \in SUBSET Atoms, WholeModel(M)
               PROVE  /\ phase = "done" => /\ violations = Rows(M) /\ Rows(M) \subseteq Located
                                           /\ \A s \in unit.expectNonEmpty : hasFacts(M, s)
                      /\ phase = "premise" => \E s \in unit.expectNonEmpty : ~hasFacts(M, s)
                      /\ phase = "report" => ~(Rows(M) \subseteq Located)
                      /\ phase = "evaluation" => Cardinality(M \ Given) > FactLimit
    BY DEF EndsAsWhole
  <2>1. /\ phase \in Pruned /\ Agrees(M) /\ store \subseteq Atoms /\ EndOK
        /\ roots(unit) \subseteq needed
        /\ store \subseteq Given \cup {c.head : c \in clauses}
    BY DEF Inv, Pruned, StoreOK, TypeOK, PruneOK, ProgramOK
  <2>2. CASE phase # "evaluation"
    <3>1. stratum > MaxStratum
      BY <2>1, <2>2 DEF EndOK
    <3>2. ASSUME NEW a \in Atoms PROVE strata[Symbol[a]] < stratum
      <4>1. strata[Symbol[a]] \in 0..MaxStratum /\ stratum \in 0..(MaxStratum + 1) /\ MaxStratum \in Nat
        BY ProgramAssumption DEF Inv, TypeOK
      <4> QED
        BY <3>1, <4>1
    <3>3. \A a \in Atoms : Symbol[a] \in roots(unit) => (a \in store <=> a \in M)
      BY <2>1, <3>2 DEF Agrees, Kept
    <3>4. Rows(M) = Rows(store)
      BY <2>1, <3>3 DEF Rows, roots
    <3>5. \A s \in unit.expectNonEmpty : hasFacts(store, s) <=> hasFacts(M, s)
      BY <2>1, <3>3 DEF hasFacts, roots
    <3> QED
      BY <2>1, <2>2, <3>4, <3>5 DEF EndOK
  <2>3. CASE phase = "evaluation"
    <3>1. store \ Given \subseteq M \ Given
      <4>1. \A a \in store \ Given : Kept(a) /\ a \in Atoms
        BY <2>1, Reads
      <4> QED
        BY <2>1, <4>1 DEF Agrees
    <3>2. IsFiniteSet(M \ Given)
      BY ProgramAssumption, FS_Subset
    <3>3. /\ Cardinality(store \ Given) <= Cardinality(M \ Given)
          /\ Cardinality(store \ Given) \in Nat /\ Cardinality(M \ Given) \in Nat
      BY <3>1, <3>2, FS_Subset, FS_CardinalityType
    <3>4. Cardinality(store \ Given) > FactLimit /\ FactLimit \in Nat
      BY <2>1, <2>3, ProgramAssumption DEF EndOK
    <3> QED
      BY <2>3, <3>3, <3>4
  <2> QED
    BY <2>2, <2>3
<1> QED
  BY <1>1, Invariance, PTL

(* No rule derives a relation of the prelude that it never reads           *)
(* (program.go:313-315).                                                   *)
THEOREM OnlyReadIsDerived == Spec => []DerivesOnlyWhatIsRead
<1>1. Inv => DerivesOnlyWhatIsRead
  <2> SUFFICES ASSUME Inv, NEW a \in store \ Given, NEW R \in SUBSET Symbols, ClosedUnderReading(R)
               PROVE  Symbol[a] \in R \cup Heads(unit.clauses)
    BY DEF DerivesOnlyWhatIsRead
  <2>1. phase \in Pruned
    BY DEF Inv, ProgramOK
  <2>2. /\ clauses = preludeFor(needed) \cup unit.clauses /\ a \in {c.head : c \in clauses}
        /\ needed \subseteq R
    BY <2>1 DEF Inv, ProgramOK, PruneOK
  <2> QED
    BY <2>2 DEF preludeFor, Heads
<1> QED
  BY <1>1, Invariance, PTL

(* Every step brings an evaluation nearer to its end (program.go:333-346). *)
THEOREM AlwaysNearer == Spec => StepsComeNearer
<1>1. ASSUME Inv, Next PROVE Nearer
  <2>1. CASE Check
    BY <1>1, <2>1 DEF Check, Fail, Nearer, Left
  <2>2. ASSUME NEW s \in Symbols, Visit(s) PROVE Nearer
    BY <2>2 DEF Visit, input, evaluation, Nearer
  <2>3. CASE Analyze
    BY <2>3 DEF Analyze, Fail, Nearer, Left
  <2>4. CASE Evaluate
    <3>1. stratum \in Nat /\ stratum' = stratum + 1 /\ phase = "evaluate" /\ UNCHANGED <<needed, pending>>
      BY <1>1, <2>4, ProgramAssumption DEF Evaluate, Inv, TypeOK, pruning
    <3>2. phase' = "evaluation" \/ phase' = phase
      BY <2>4 DEF Evaluate
    <3> QED
      BY <3>1, <3>2 DEF Nearer, Left
  <2>5. CASE Report
    BY <2>5 DEF Report, Fail, Nearer, Left
  <2> QED
    BY <1>1, <2>1, <2>2, <2>3, <2>4, <2>5 DEF Next
<1>2. Inv /\ [Next]_vars => [Nearer]_vars
  BY <1>1
<1> QED
  BY <1>2, Invariance, PTL DEF Spec, StepsComeNearer

-----------------------------------------------------------------------------
(* Models.  What EndsAsWhole compares a rule with is there, and is one.    *)
(* The induction over strata is by the least number that has no model.     *)
LEMMA LeastNat ==
  ASSUME NEW T, T \subseteq Nat, T # {}
  PROVE  \E n \in T : \A m \in T : n <= m
<1> DEFINE less == OpToRel(<, Nat)
<1>1. IsWellFoundedOn(less, Nat)
  BY NatLessThanWellFounded
<1>2. \A m, n \in Nat : m < n => <<m, n>> \in less
  BY DEF OpToRel
<1> HIDE DEF less
<1>3. PICK n \in T : \A m \in T : ~(<<m, n>> \in less)
  BY <1>1, WFMin
<1>4. \A m \in T : ~(m < n)
  BY <1>2, <1>3
<1>5. \A m \in T : n <= m
  BY <1>4
<1> QED
  BY <1>5

LEMMA Numbers ==
  ASSUME NEW S, 0 \in S, \A n \in Nat : n \in S => n + 1 \in S
  PROVE  Nat \subseteq S
<1> SUFFICES ASSUME {n \in Nat : n \notin S} # {} PROVE FALSE
  OBVIOUS
<1> DEFINE T == {n \in Nat : n \notin S}
<1> HIDE DEF T
<1>1. T \subseteq Nat /\ T # {}
  BY DEF T
<1>2. PICK n \in T : \A m \in T : n <= m
  BY <1>1, LeastNat
<1>3. n \in Nat /\ n # 0 /\ n \notin S
  BY <1>2 DEF T
<1>4. n - 1 \in Nat /\ ~(n <= n - 1)
  BY <1>3
<1>5. n - 1 \in S
  BY <1>2, <1>4 DEF T
<1>6. (n - 1) + 1 \in S
  BY <1>4, <1>5
<1> QED
  BY <1>3, <1>6

(* Clauses have a least closed set: what all closed sets share. *)
LEMMA LeastExists ==
  ASSUME NEW cs \in SUBSET Clauses, NEW facts \in SUBSET Atoms, NEW in
  PROVE  \E T \in SUBSET Atoms : Least(T, cs, facts, in)
<1> DEFINE T == {a \in Atoms : \A Y \in SUBSET Atoms : Closed(Y, cs, facts, in) => a \in Y}
<1>1. facts \subseteq T
  BY DEF Closed
<1>2. ASSUME NEW c \in cs, c.pos \subseteq T, c.neg \cap in = {} PROVE c.head \in T
  <2>1. c.head \in Atoms
    BY DEF Clauses
  <2>2. ASSUME NEW Y \in SUBSET Atoms, Closed(Y, cs, facts, in) PROVE c.head \in Y
    <3>1. c.pos \subseteq Y
      BY <1>2, <2>2
    <3> QED
      BY <1>2, <2>2, <3>1 DEF Closed
  <2> QED
    BY <2>1, <2>2
<1>3. ASSUME NEW Y \in SUBSET T, Closed(Y, cs, facts, in) PROVE Y = T
  BY <1>3
<1>4. T \subseteq Atoms
  OBVIOUS
<1> HIDE DEF T
<1>5. Least(T, cs, facts, in)
  BY <1>1, <1>2, <1>3 DEF Least, Closed
<1> QED
  BY <1>4, <1>5

LEMMA HeadsOnly ==
  ASSUME NEW X, NEW cs, NEW facts, NEW in, Least(X, cs, facts, in)
  PROVE  X \subseteq facts \cup {c.head : c \in cs}
<1> DEFINE T == facts \cup {c.head : c \in cs}
<1>1. facts \subseteq T /\ \A c \in cs : c.head \in T
  OBVIOUS
<1> HIDE DEF T
<1>2. X \subseteq T
  BY <1>1, LeastIsBelow
<1> QED
  BY <1>2 DEF T

Below(cs, level, n) == {c \in cs : level[Symbol[c.head]] < n}
At(cs, level, n) == {c \in cs : level[Symbol[c.head]] = n}

(* A model of the strata below n, with what stratum n derives from it, is  *)
(* a model of the strata up to n.                                          *)
LEMMA StratumExtends ==
  ASSUME NEW cs \in SUBSET Clauses, NEW facts \in SUBSET Atoms, NEW level \in [Symbols -> Nat],
         Stratified(cs, level), NEW n \in Nat,
         NEW X \in SUBSET Atoms, Least(X, Below(cs, level, n), facts, X),
         NEW T \in SUBSET Atoms, Least(T, At(cs, level, n), X, X)
  PROVE  Least(T, Below(cs, level, n + 1), facts, T)
<1> DEFINE lv(a) == level[Symbol[a]]
<1>1. \A a \in Atoms : lv(a) \in Nat
  BY ProgramAssumption
<1>2. \A c \in cs : c.head \in Atoms /\ c.pos \subseteq Atoms /\ c.neg \subseteq Atoms
  BY DEF Clauses
<1>3. /\ \A c \in cs, a \in Atoms : a \in c.pos => lv(a) <= lv(c.head)
      /\ \A c \in cs, a \in Atoms : a \in c.neg => lv(a) < lv(c.head)
  BY DEF Stratified
<1>4. \A c : c \in Below(cs, level, n + 1) <=> c \in Below(cs, level, n) \/ c \in At(cs, level, n)
  BY <1>1, <1>2 DEF Below, At
<1>5. X \subseteq T /\ facts \subseteq X
  BY DEF Least, Closed
<1>6. ASSUME NEW a \in T, a \notin X PROVE lv(a) = n
  <2>1. PICK c \in At(cs, level, n) : c.head = a
    BY <1>6, HeadsOnly
  <2> QED
    BY <2>1 DEF At
<1>7. ASSUME NEW c \in Below(cs, level, n + 1)
      PROVE  /\ c \in cs /\ lv(c.head) <= n
             /\ c.neg \cap T = {} <=> c.neg \cap X = {}
  <2>1. c \in cs /\ lv(c.head) <= n
    BY <1>1, <1>2 DEF Below
  <2>2. ASSUME NEW a \in c.neg, a \in T PROVE a \in X
    <3>1. lv(a) < n
      BY <1>1, <1>2, <1>3, <2>1
    <3> QED
      BY <1>1, <1>2, <1>6, <2>1, <2>2, <3>1
  <2> QED
    BY <1>5, <2>1, <2>2
<1>8. ASSUME NEW c \in Below(cs, level, n), c.pos \subseteq T PROVE c.pos \subseteq X
  <2> SUFFICES ASSUME NEW a \in c.pos PROVE a \in X
    OBVIOUS
  <2>1. c \in cs /\ lv(c.head) < n
    BY DEF Below
  <2>2. lv(a) < n
    BY <1>1, <1>2, <1>3, <2>1
  <2> QED
    BY <1>1, <1>2, <1>6, <1>8, <2>1, <2>2
<1> HIDE DEF lv
<1>9. Closed(T, Below(cs, level, n + 1), facts, T)
  <2>1. ASSUME NEW c \in Below(cs, level, n + 1), c.pos \subseteq T, c.neg \cap T = {}
        PROVE  c.head \in T
    <3>1. c.neg \cap X = {}
      BY <1>7, <2>1
    <3>2. CASE c \in Below(cs, level, n)
      BY <1>5, <1>8, <2>1, <3>1, <3>2 DEF Least, Closed
    <3>3. CASE c \in At(cs, level, n)
      BY <2>1, <3>1, <3>3 DEF Least, Closed
    <3> QED
      BY <1>4, <3>2, <3>3
  <2> QED
    BY <1>5, <2>1 DEF Closed
<1>10. ASSUME NEW Y \in SUBSET T, Closed(Y, Below(cs, level, n + 1), facts, T) PROVE Y = T
  <2>1. X \subseteq Y
    <3>1. ASSUME NEW c \in Below(cs, level, n), c.pos \subseteq Y, c.neg \cap X = {} PROVE c.head \in Y
      BY <1>4, <1>7, <1>10, <3>1 DEF Closed
    <3>2. facts \subseteq Y
      BY <1>10 DEF Closed
    <3> QED
      BY <3>1, <3>2, LeastIsBelow
  <2>2. ASSUME NEW c \in At(cs, level, n), c.pos \subseteq Y, c.neg \cap X = {} PROVE c.head \in Y
    BY <1>4, <1>7, <1>10, <2>2 DEF Closed
  <2>3. Closed(Y, At(cs, level, n), X, X)
    BY <2>1, <2>2 DEF Closed
  <2> QED
    BY <2>3 DEF Least
<1> QED
  BY <1>9, <1>10 DEF Least

(* Two models that agree below n: the one has what the other has at n.     *)
LEMMA StratumDecides ==
  ASSUME NEW cs \in SUBSET Clauses, NEW facts \in SUBSET Atoms, NEW level \in [Symbols -> Nat],
         Stratified(cs, level), NEW n \in Nat,
         NEW M \in SUBSET Atoms, Least(M, cs, facts, M),
         NEW N \in SUBSET Atoms, Least(N, cs, facts, N),
         \A a \in Atoms : level[Symbol[a]] < n => (a \in M <=> a \in N)
  PROVE  \A a \in M : level[Symbol[a]] <= n => a \in N
<1> DEFINE lv(a) == level[Symbol[a]]
           Z == {a \in Atoms : lv(a) <= n => a \in N}
<1>1. \A a \in Atoms : lv(a) \in Nat
  BY ProgramAssumption
<1>2. \A c \in cs : c.head \in Atoms /\ c.pos \subseteq Atoms /\ c.neg \subseteq Atoms
  BY DEF Clauses
<1>3. /\ \A c \in cs, a \in Atoms : a \in c.pos => lv(a) <= lv(c.head)
      /\ \A c \in cs, a \in Atoms : a \in c.neg => lv(a) < lv(c.head)
  BY DEF Stratified
<1>4. facts \subseteq Z
  BY DEF Least, Closed
<1>5. ASSUME NEW c \in cs, c.pos \subseteq Z, c.neg \cap M = {} PROVE c.head \in Z
  <2> SUFFICES ASSUME lv(c.head) <= n PROVE c.head \in N
    BY <1>2
  <2>1. ASSUME NEW a \in c.pos PROVE a \in N
    <3>1. lv(a) <= n
      BY <1>1, <1>2, <1>3
    <3> QED
      BY <1>5, <3>1
  <2>2. ASSUME NEW a \in c.neg PROVE a \notin N
    <3>1. a \in Atoms /\ lv(a) < n
      BY <1>1, <1>2, <1>3
    <3> QED
      BY <1>5, <3>1
  <2> QED
    BY <2>1, <2>2 DEF Least, Closed
<1> HIDE DEF Z
<1>6. M \subseteq Z
  BY <1>4, <1>5, LeastIsBelow
<1> QED
  BY <1>6 DEF Z

(* A stratified program has one model: what EndsAsWhole says is about a    *)
(* set that is there (the comment of preludeFor, program.go:313-315).      *)
THEOREM StratifiedHasOneModel ==
  ASSUME NEW cs \in SUBSET Clauses, NEW facts \in SUBSET Atoms,
         NEW level \in [Symbols -> 0..MaxStratum], Stratified(cs, level)
  PROVE  \E M \in SUBSET Atoms :
           /\ Least(M, cs, facts, M)
           /\ \A N \in SUBSET Atoms : Least(N, cs, facts, N) => N = M
<1>1. level \in [Symbols -> Nat] /\ MaxStratum + 1 \in Nat
  BY ProgramAssumption
<1>2. \A a \in Atoms : level[Symbol[a]] < MaxStratum + 1
  BY ProgramAssumption
<1>3. \E M \in SUBSET Atoms : Least(M, cs, facts, M)
  <2> DEFINE S == {n \in Nat : \E X \in SUBSET Atoms : Least(X, Below(cs, level, n), facts, X)}
  <2>1. 0 \in S
    <3>1. Below(cs, level, 0) = {}
      <4>1. \A c \in cs : level[Symbol[c.head]] \in Nat
        BY <1>1, ProgramAssumption DEF Clauses
      <4> QED
        BY <4>1 DEF Below
    <3>2. Least(facts, {}, facts, facts)
      BY DEF Least, Closed
    <3> QED
      BY <3>1, <3>2
  <2>2. ASSUME NEW n \in Nat, n \in S PROVE n + 1 \in S
    <3>1. PICK X \in SUBSET Atoms : Least(X, Below(cs, level, n), facts, X)
      BY <2>2
    <3>2. At(cs, level, n) \in SUBSET Clauses
      BY DEF At
    <3>3. PICK T \in SUBSET Atoms : Least(T, At(cs, level, n), X, X)
      BY <3>2, LeastExists
    <3>4. Least(T, Below(cs, level, n + 1), facts, T)
      BY <1>1, <3>1, <3>3, StratumExtends
    <3> QED
      BY <3>4
  <2> HIDE DEF S
  <2>3. MaxStratum + 1 \in S
    BY <1>1, <2>1, <2>2, Numbers
  <2>4. PICK X \in SUBSET Atoms : Least(X, Below(cs, level, MaxStratum + 1), facts, X)
    BY <2>3 DEF S
  <2>5. Below(cs, level, MaxStratum + 1) = cs
    BY <1>2 DEF Below, Clauses
  <2> QED
    BY <2>4, <2>5
<1>4. ASSUME NEW M \in SUBSET Atoms, Least(M, cs, facts, M),
             NEW N \in SUBSET Atoms, Least(N, cs, facts, N)
      PROVE  N = M
  <2> DEFINE S == {n \in Nat : \A a \in Atoms : level[Symbol[a]] < n => (a \in M <=> a \in N)}
  <2>0. \A a \in Atoms : level[Symbol[a]] \in Nat
    BY <1>1, ProgramAssumption
  <2>1. 0 \in S
    BY <2>0
  <2>2. ASSUME NEW n \in Nat, n \in S PROVE n + 1 \in S
    <3>1. \A a \in M : level[Symbol[a]] <= n => a \in N
      BY <1>1, <1>4, <2>2, StratumDecides
    <3>2. \A a \in N : level[Symbol[a]] <= n => a \in M
      BY <1>1, <1>4, <2>2, StratumDecides
    <3>3. \A a \in Atoms : level[Symbol[a]] < n + 1 => level[Symbol[a]] <= n
      BY <2>0
    <3> QED
      BY <3>1, <3>2, <3>3
  <2> HIDE DEF S
  <2>3. MaxStratum + 1 \in S
    BY <1>1, <2>1, <2>2, Numbers
  <2> QED
    BY <1>2, <2>3 DEF S
<1> QED
  BY <1>3, <1>4

(* A rule that is done shows the rows of the model of the whole program,   *)
(* if that is stratified as the prelude is (program.go:113-147, 316-358).  *)
DoneShowsTheModel ==
  phase = "done" /\ (\E level \in [Symbols -> 0..MaxStratum] : Stratified(Prelude \cup unit.clauses, level)) =>
    \E M \in SUBSET Atoms :
      /\ WholeModel(M) /\ \A N \in SUBSET Atoms : WholeModel(N) => N = M
      /\ violations = Rows(M)

(* Theorem: the rows of a rule that is done are those of the one model,    *)
(* whichever clauses of the prelude were pruned (program.go:113-147).      *)
THEOREM DoneRulesShowTheModel == Spec => []DoneShowsTheModel
<1>1. ASSUME TypeOK, EndsAsWhole PROVE DoneShowsTheModel
  <2> SUFFICES ASSUME phase = "done",
                      NEW level \in [Symbols -> 0..MaxStratum], Stratified(Prelude \cup unit.clauses, level)
               PROVE  \E M \in SUBSET Atoms :
                        /\ WholeModel(M) /\ \A N \in SUBSET Atoms : WholeModel(N) => N = M
                        /\ violations = Rows(M)
    BY DEF DoneShowsTheModel
  <2>1. Prelude \cup unit.clauses \in SUBSET Clauses /\ Given \in SUBSET Atoms
    BY <1>1, UnitType, ProgramAssumption
  <2>2. PICK M \in SUBSET Atoms :
          /\ Least(M, Prelude \cup unit.clauses, Given, M)
          /\ \A N \in SUBSET Atoms : Least(N, Prelude \cup unit.clauses, Given, N) => N = M
    BY <2>1, StratifiedHasOneModel
  <2>3. WholeModel(M) /\ \A N \in SUBSET Atoms : WholeModel(N) => N = M
    BY <2>2 DEF WholeModel
  <2>4. violations = Rows(M)
    BY <1>1, <2>3 DEF EndsAsWhole
  <2> QED
    BY <2>3, <2>4
<1> QED
  BY <1>1, ProgramTypeCorrect, PruningIsUnseen, PTL

(* An evaluation is never stuck in a stratum: there is a least set that    *)
(* its clauses derive from the store (program.go:113-147).                 *)
StratumHasResult ==
  phase = "evaluate" /\ stratum <= MaxStratum =>
    \E new \in SUBSET {c.head : c \in At(clauses, strata, stratum)} :
      Least(store \cup new, At(clauses, strata, stratum), store, store)

(* Theorem: whatever the earlier strata derived, the next one has a result *)
(* (program.go:113-147).                                                   *)
THEOREM StrataHaveResults == Spec => []StratumHasResult
<1>1. ASSUME TypeOK PROVE StratumHasResult
  <2> DEFINE now == At(clauses, strata, stratum)
  <2>1. now \in SUBSET Clauses /\ store \in SUBSET Atoms
    BY <1>1 DEF At, TypeOK
  <2> HIDE DEF now
  <2>2. PICK T \in SUBSET Atoms : Least(T, now, store, store)
    BY <2>1, LeastExists
  <2>3. T \subseteq store \cup {c.head : c \in now} /\ store \subseteq T
    BY <2>2, HeadsOnly DEF Least, Closed
  <2>4. T \ store \in SUBSET {c.head : c \in now} /\ store \cup (T \ store) = T
    BY <2>3
  <2>5. \E new \in SUBSET {c.head : c \in now} : Least(store \cup new, now, store, store)
    BY <2>2, <2>4
  <2> QED
    BY <2>5 DEF StratumHasResult, now
<1> QED
  BY <1>1, ProgramTypeCorrect, PTL
=============================================================================
