--------------------------- MODULE LintaiRunProofs ---------------------------
(* Theorems about LintaiRun, for every workspace and every number of runs. *)
EXTENDS LintaiRun, SuppressionsProofs

-----------------------------------------------------------------------------
(* The inductive invariant. *)

RunRecord ==
  [files : SUBSET Paths, raw : SUBSET Violations, found : SUBSET Violations,
   selected : SUBSET Rules, errors : SUBSET Rules, known : SUBSET Rules,
   evaluated : SUBSET Rules, complete : BOOLEAN]

Shape ==
  /\ present \subseteq Violations /\ files \subseteq Paths
  /\ pc \in [Runs -> PCs] /\ exit \in [Runs -> Exits]
  /\ run \in [Runs -> RunRecord]
  /\ opts \in [Runs -> Options] /\ DOMAIN state = Runs
  /\ DOMAIN file = Runs /\ DOMAIN approved = Runs

(* Violations come from analyzed files and evaluated rules; without errors *)
(* every rule file gave a known rule.                                      *)
Evaluated(p) ==
  /\ run[p].found \subseteq run[p].raw
  /\ \A v \in run[p].raw : PathOf[v] \in run[p].files
  /\ \A v \in run[p].found : RuleOf[v] \in run[p].evaluated
  /\ run[p].evaluated \subseteq run[p].known /\ run[p].known \subseteq run[p].selected
  /\ run[p].errors = {} => run[p].selected \subseteq run[p].known

(* Until the update a run goes on with what it loaded. *)
Loaded(p) ==
  pc[p] \in {"readlock", "snapshot", "evaluate", "update"} => file[p] = state[p].file

(* Before the evaluation nothing is known; only lintai lock takes its      *)
(* steps.                                                                  *)
Begun(p) ==
  /\ pc[p] \in {"readlock", "snapshot", "evaluate"} => run[p].found = {} /\ run[p].known = {}
  /\ pc[p] \in {"hash", "truncatelock", "writelock"} => opts[p].mode = "lock"

AfterUpdate == {"truncate", "write", "report"}

Kept(p) ==
  \A s \in DOMAIN state[p].file :
    s[2] \in run[p].selected \ run[p].evaluated =>
      s \in DOMAIN file[p] /\ file[p][s] = state[p].file[s]

Hidden(p) ==
  \A v \in run[p].found :
    (opts[p].mode = "rule" => RuleOf[v] \in opts[p].named) =>
      v \in Suppressed(file[p], run[p].found)

Recorded(p) == opts[p].mode \in {"all", "rule"} => Refuses(p) \/ Hidden(p)

Pruned(p) ==
  opts[p].mode = "prune" =>
    /\ Suppressed(file[p], run[p].found) = Suppressed(state[p].file, run[p].found)
    /\ Refuses(p) \/ Unused(file[p], run[p].found, Scope(p)) = {}

(* What goes with each way to end. *)
NoneRecorded(p, how) ==
  how = "violations" =>
    /\ opts[p].mode # "all"
    /\ opts[p].mode = "rule" => \A v \in Reported(p) : RuleOf[v] \notin opts[p].named

PrunedQuietly(p, how) ==
  opts[p].mode = "prune" =>
    /\ how # "unused"
    /\ how \in {"clean", "violations", "rule error"} =>
         Suppressed(file[p], run[p].found) = Suppressed(state[p].file, run[p].found)

LockSuffices(p, how) ==
  how \in {"clean", "unused"} /\ opts[p].lock /\ opts[p].mode # "lock" =>
    run[p].found \subseteq Suppressed(approved[p].suppressions, run[p].found)

Tight(p, how) ==
  how = "clean" /\ ~opts[p].pass /\ opts[p].mode # "lock" =>
    /\ \A v \in run[p].found : Slot(v) \in DOMAIN file[p]
    /\ \A s \in DOMAIN file[p] : Covers(Scope(p), s) =>
         /\ file[p][s].count = Cardinality(Group(run[p].found, s))
         /\ \A k \in Listed(file[p][s]) :
              file[p][s].entities[k] = Cardinality(OfKey(run[p].found, s, k))

Done(p, how) ==
  NoneRecorded(p, how) /\ PrunedQuietly(p, how) /\ LockSuffices(p, how) /\ Tight(p, how)

RunInv(p) ==
  /\ Evaluated(p)
  /\ Loaded(p) /\ Begun(p)
  /\ pc[p] \in AfterUpdate => Kept(p) /\ Recorded(p) /\ Pruned(p)
  /\ pc[p] = "done" => Done(p, exit[p])

Inv == Shape /\ \A p \in Runs : RunInv(p)

(* Every file, loaded, computed or written, is one that Parse accepts.     *)
FilesInv ==
  /\ IsDisk(disk) /\ IsLock(lock) /\ rule \in [Rules -> RuleStatus]
  /\ \A p \in Runs :
       /\ GoodFile(state[p].file) /\ GoodFile(file[p]) /\ IsLock(approved[p])
       /\ state[p].exists \in BOOLEAN

-----------------------------------------------------------------------------
SameLocals(p) ==
  /\ opts'[p] = opts[p] /\ state'[p] = state[p] /\ file'[p] = file[p]
  /\ approved'[p] = approved[p] /\ run'[p] = run[p]

OthersStay(q) ==
  \A p \in Runs \ {q} : SameLocals(p) /\ pc'[p] = pc[p] /\ exit'[p] = exit[p]

(* What the parts of RunInv say depends on the locals of the run alone. *)
LEMMA LocalsDecide ==
  ASSUME NEW p, SameLocals(p)
  PROVE  /\ Evaluated(p)' <=> Evaluated(p)
         /\ Kept(p)' <=> Kept(p)
         /\ Refuses(p)' <=> Refuses(p)
         /\ Recorded(p)' <=> Recorded(p)
         /\ Pruned(p)' <=> Pruned(p)
         /\ \A how : Done(p, how)' <=> Done(p, how)
<1> USE DEF SameLocals
<1>1. Evaluated(p)' <=> Evaluated(p)
  BY DEF Evaluated
<1>2. Kept(p)' <=> Kept(p)
  BY DEF Kept
<1>3. Refuses(p)' <=> Refuses(p)
  BY DEF Refuses, UnknownSuppressRules, BlockingRuleErrors
<1>4. Hidden(p)' <=> Hidden(p)
  BY DEF Hidden
<1>5. Recorded(p)' <=> Recorded(p)
  BY <1>3, <1>4 DEF Recorded
<1>6. Reported(p)' = Reported(p)
  BY DEF Reported, Limited
<1>7. Scope(p)' = Scope(p)
  BY DEF Scope
<1>8. Pruned(p)' <=> Pruned(p)
  BY <1>3, <1>7 DEF Pruned
<1>9. ASSUME NEW how PROVE Done(p, how)' <=> Done(p, how)
  <2>1. NoneRecorded(p, how)' <=> NoneRecorded(p, how)
    BY <1>6 DEF NoneRecorded
  <2>2. PrunedQuietly(p, how)' <=> PrunedQuietly(p, how)
    BY DEF PrunedQuietly
  <2>3. LockSuffices(p, how)' <=> LockSuffices(p, how)
    BY DEF LockSuffices
  <2>4. Tight(p, how)' <=> Tight(p, how)
    BY <1>7 DEF Tight
  <2> QED BY <2>1, <2>2, <2>3, <2>4 DEF Done
<1> QED BY <1>1, <1>2, <1>3, <1>5, <1>8, <1>9

LEMMA RunStays ==
  ASSUME NEW p, RunInv(p), SameLocals(p), pc'[p] = pc[p], exit'[p] = exit[p]
  PROVE  RunInv(p)'
<1>1. PICK how : how = exit[p] /\ how = exit'[p]
  OBVIOUS
<1>2. Done(p, how)' <=> Done(p, how)
  BY LocalsDecide
<1>3. Done(p, exit[p])' <=> Done(p, exit[p])
  BY <1>1, <1>2
<1>4. (Loaded(p)' <=> Loaded(p)) /\ (Begun(p)' <=> Begun(p))
  BY DEF Loaded, Begun, SameLocals
<1> QED BY <1>3, <1>4, LocalsDecide DEF RunInv

(* One run takes a step. *)
LEMMA OneRunSteps ==
  ASSUME Inv, NEW q \in Runs, Shape', OthersStay(q), RunInv(q)'
  PROVE  Inv'
<1>1. ASSUME NEW p \in Runs PROVE RunInv(p)'
  <2>1. CASE p = q BY <2>1
  <2>2. CASE p # q
    BY <2>2, RunStays DEF Inv, OthersStay
  <2> QED BY <2>1, <2>2
<1> QED BY <1>1 DEF Inv

LEMMA WhereItGoes ==
  ASSUME Shape, NEW q \in Runs, NEW to \in PCs, Goes(q, to)
  PROVE  /\ pc' \in [Runs -> PCs] /\ exit' \in [Runs -> Exits]
         /\ pc'[q] = to /\ exit'[q] = exit[q]
         /\ \A p \in Runs \ {q} : pc'[p] = pc[p] /\ exit'[p] = exit[p]
BY DEF Shape, Goes

LEMMA HowItEnds ==
  ASSUME Shape, NEW q \in Runs, NEW how \in Exits, Ends(q, how)
  PROVE  /\ pc' \in [Runs -> PCs] /\ exit' \in [Runs -> Exits]
         /\ pc'[q] = "done" /\ exit'[q] = how
         /\ \A p \in Runs \ {q} : pc'[p] = pc[p] /\ exit'[p] = exit[p]
BY DEF Shape, Ends, PCs

(* A run that ends with how it may end. *)
LEMMA EndsWell ==
  ASSUME Inv, NEW q \in Runs, NEW how \in Exits, Ends(q, how), Evaluated(q)', Done(q, how)'
  PROVE  RunInv(q)'
<1>1. pc'[q] = "done" /\ exit'[q] = how
  BY HowItEnds DEF Inv
<1>2. Loaded(q)' /\ Begun(q)'
  BY <1>1 DEF Loaded, Begun
<1>3. Done(q, exit[q])'
  BY <1>1
<1> QED BY <1>1, <1>2, <1>3 DEF RunInv, AfterUpdate

(* A run ends without a report. *)
LEMMA EndsQuietly ==
  ASSUME Inv, NEW q \in Runs, NEW how \in {"usage", "killed"}, Ends(q, how), Evaluated(q)'
  PROVE  RunInv(q)'
<1>1. Done(q, how)'
  BY DEF Done, NoneRecorded, PrunedQuietly, LockSuffices, Tight
<1>2. how \in Exits BY DEF Exits
<1> QED BY <1>1, <1>2, EndsWell

-----------------------------------------------------------------------------
(* Every step keeps the invariant. *)

LEMMA BeginStep ==
  ASSUME Inv, NEW q \in Runs, NEW o \in Options, Begin(q, o)
  PROVE  Inv'
<1>1. /\ opts' = [opts EXCEPT ![q] = o]
      /\ state' = [state EXCEPT ![q] = [file |-> disk.content, exists |-> disk.state = "whole"]]
      /\ file' = [file EXCEPT ![q] = disk.content]
      /\ approved' = [approved EXCEPT ![q] = NoLock]
      /\ run' = [run EXCEPT ![q] = NoRun]
      /\ present' = present /\ files' = files
  BY DEF Begin, world
<1>2. NoRun \in RunRecord
  BY DEF NoRun, RunRecord
<1>3. /\ run' \in [Runs -> RunRecord] /\ opts' \in [Runs -> Options] /\ DOMAIN state' = Runs
      /\ DOMAIN file' = Runs /\ DOMAIN approved' = Runs
      /\ present' \subseteq Violations /\ files' \subseteq Paths
  BY <1>1, <1>2 DEF Inv, Shape
<1>4. \A p \in Runs \ {q} : SameLocals(p)
  BY <1>1 DEF Inv, Shape, SameLocals
<1>5. run'[q] = NoRun /\ file'[q] = disk.content /\ state'[q].file = disk.content
  BY <1>1 DEF Inv, Shape
<1>6. Evaluated(q)'
  BY <1>5 DEF Evaluated, NoRun
<1>7. CASE LoadFails(o)
  <2>1. Ends(q, "usage") /\ "usage" \in Exits
    BY <1>7 DEF Begin, Exits
  <2>2. Shape' /\ OthersStay(q)
    BY <2>1, <1>3, <1>4, HowItEnds DEF Inv, Shape, OthersStay
  <2>3. RunInv(q)'
    BY <2>1, <1>6, EndsQuietly
  <2> QED BY <2>2, <2>3, OneRunSteps
<1>8. CASE ~LoadFails(o)
  <2>1. exit' = [exit EXCEPT ![q] = "none"]
    BY <1>8 DEF Begin
  <2>0. PICK to \in {"hash", "readlock", "snapshot"} :
          pc' = [pc EXCEPT ![q] = to] /\ (to = "hash" => o.mode = "lock")
    BY <1>8 DEF Begin
  <2>2. Shape' /\ OthersStay(q)
    <3>1. exit' \in [Runs -> Exits] /\ pc' \in [Runs -> PCs]
      BY <2>1, <2>0 DEF Inv, Shape, PCs, Exits
    <3>2. \A p \in Runs \ {q} : pc'[p] = pc[p] /\ exit'[p] = exit[p]
      BY <2>1, <2>0 DEF Inv, Shape
    <3> QED BY <3>1, <3>2, <1>3, <1>4 DEF Shape, OthersStay
  <2>3. pc'[q] \in {"hash", "readlock", "snapshot"} /\ (pc'[q] = "hash" => opts'[q].mode = "lock")
    BY <1>1, <2>0 DEF Inv, Shape
  <2>4. Begun(q)'
    BY <2>3, <1>5 DEF Begun, NoRun
  <2>5. RunInv(q)'
    BY <2>3, <2>4, <1>5, <1>6 DEF RunInv, Loaded, AfterUpdate
  <2> QED BY <2>2, <2>5, OneRunSteps
<1> QED BY <1>7, <1>8

LEMMA ReadLockStep ==
  ASSUME Inv, NEW q \in Runs, ReadLock(q)
  PROVE  Inv'
<1>1. /\ opts' = opts /\ state' = state /\ file' = file /\ run' = run
      /\ present' = present /\ files' = files /\ pc[q] = "readlock"
      /\ DOMAIN approved' = Runs
      /\ \A p \in Runs \ {q} : approved'[p] = approved[p]
  BY DEF ReadLock, world, Inv, Shape
<1>2. \A p \in Runs \ {q} : SameLocals(p)
  BY <1>1 DEF SameLocals
<1>3. Evaluated(q)'
  BY <1>1 DEF Inv, RunInv, Evaluated
<1>4. CASE Goes(q, "snapshot")
  <2>1. "snapshot" \in PCs BY DEF PCs
  <2>2. Shape' /\ OthersStay(q)
    BY <2>1, <1>4, <1>1, <1>2, WhereItGoes DEF Inv, Shape, OthersStay
  <2>3. pc'[q] = "snapshot" /\ file'[q] = state'[q].file
    BY <2>1, <1>4, <1>1, WhereItGoes DEF Inv, RunInv, Loaded
  <2>4. Begun(q)'
    BY <2>3, <1>1 DEF Inv, RunInv, Begun
  <2>5. RunInv(q)'
    BY <2>3, <2>4, <1>3 DEF RunInv, Loaded, AfterUpdate
  <2> QED BY <2>2, <2>5, OneRunSteps
<1>5. CASE Ends(q, "usage")
  <2>1. "usage" \in Exits BY DEF Exits
  <2>2. Shape' /\ OthersStay(q)
    BY <2>1, <1>5, <1>1, <1>2, HowItEnds DEF Inv, Shape, OthersStay
  <2> QED BY <2>1, <2>2, <1>5, <1>3, EndsQuietly, OneRunSteps
<1> QED BY <1>4, <1>5 DEF ReadLock

LEMMA BuildSnapshotStep ==
  ASSUME Inv, NEW q \in Runs, BuildSnapshot(q)
  PROVE  Inv'
<1> DEFINE analyzed == opts[q].files \cap files
           raw == {v \in present : PathOf[v] \in analyzed}
           record == [run[q] EXCEPT !.files = analyzed, !.raw = raw]
<1>1. /\ opts' = opts /\ state' = state /\ file' = file /\ approved' = approved
      /\ present' = present /\ files' = files /\ pc[q] = "snapshot" /\ Goes(q, "evaluate")
      /\ run' = [run EXCEPT ![q] = record]
  BY DEF BuildSnapshot, world
<1>2. run[q] \in RunRecord /\ analyzed \subseteq Paths /\ raw \subseteq Violations
  BY DEF Inv, Shape
<1>3. /\ record \in RunRecord
      /\ record.found = run[q].found /\ record.evaluated = run[q].evaluated
      /\ record.errors = run[q].errors /\ record.selected = run[q].selected
      /\ record.known = run[q].known
      /\ \A v \in record.raw : PathOf[v] \in record.files
  BY <1>2 DEF RunRecord
<1>10. run[q].found = {} /\ run[q].known = {}
  BY <1>1 DEF Inv, RunInv, Begun
<1> HIDE DEF record
<1>4. \A p \in Runs \ {q} : SameLocals(p)
  BY <1>1 DEF SameLocals, Inv, Shape
<1>5. "evaluate" \in PCs BY DEF PCs
<1>6. Shape' /\ OthersStay(q)
  BY <1>1, <1>3, <1>4, <1>5, WhereItGoes DEF Inv, Shape, OthersStay
<1>7. run'[q] = record
  BY <1>1 DEF Inv, Shape
<1>8. Evaluated(q)'
  BY <1>3, <1>7, <1>10 DEF Inv, RunInv, Evaluated
<1>9. pc'[q] = "evaluate" /\ file'[q] = state'[q].file
  BY <1>1, <1>5, WhereItGoes DEF Inv, RunInv, Loaded
<1>11. Begun(q)'
  BY <1>3, <1>7, <1>9, <1>10 DEF Begun
<1> QED
  <2>1. RunInv(q)' BY <1>8, <1>9, <1>11 DEF RunInv, Loaded, AfterUpdate
  <2> QED BY <2>1, <1>6, OneRunSteps

LEMMA SelectedAreRules ==
  ASSUME Shape, NEW q \in Runs
  PROVE  Selected(opts[q]) \subseteq Rules
BY OptionsAssumption DEF Shape, Selected

(* Violations are of rules that ran, which are known ones; a rule file     *)
(* without an error gives a known rule.                                    *)
LEMMA EvaluationIsSound ==
  ASSUME Shape, NEW q \in Runs, NEW selected \in SUBSET Rules
  PROVE  /\ Evaluation(q, selected) \in RunRecord
         /\ \A v \in Evaluation(q, selected).found :
               RuleOf[v] \in Evaluation(q, selected).evaluated
         /\ Evaluation(q, selected).errors = {} =>
               Evaluation(q, selected).selected \subseteq Evaluation(q, selected).known
         /\ Evaluation(q, selected).found \subseteq Evaluation(q, selected).raw
         /\ Evaluation(q, selected).raw = run[q].raw
         /\ Evaluation(q, selected).files = run[q].files
         /\ Evaluation(q, selected).evaluated \subseteq Evaluation(q, selected).known
         /\ Evaluation(q, selected).known \subseteq Evaluation(q, selected).selected
<1> DEFINE o == opts[q]
           unbuilt == {r \in selected : rule[r] = "unbuilt"}
           integrity == IntegrityFailures(q, selected)
           prepared == selected \ (unbuilt \cup integrity)
           known == {r \in prepared : rule[r] # "unnamed"}
           failed == {r \in prepared : \/ rule[r] \in {"unnamed", "invalid"}
                                       \/ rule[r] \in {"setup", "program"}
                                            /\ Severity(o, r) # "off"}
           evaluated == {r \in prepared : rule[r] = "ok" /\ Severity(o, r) = "error"}
           complete == unbuilt = {} /\ integrity = {}
           unknown == IF complete THEN {r \in Rules \ known : o.severity[r] # "unset"} ELSE {}
           found == {v \in run[q].raw : RuleOf[v] \in evaluated}
           e == Evaluation(q, selected)
<1>1. integrity \subseteq Rules
  BY DEF IntegrityFailures
<1>2. run[q] \in RunRecord
  BY DEF Shape
<1>3. e = [run[q] EXCEPT !.selected = selected, !.known = known, !.evaluated = evaluated,
                         !.complete = complete,
                         !.errors = unbuilt \cup integrity \cup failed \cup unknown,
                         !.found = found]
  BY DEF Evaluation
<1>4. /\ unbuilt \cup integrity \cup failed \cup unknown \subseteq Rules
      /\ known \subseteq Rules /\ evaluated \subseteq Rules /\ complete \in BOOLEAN
  BY <1>1
<1>5. found \subseteq Violations
  BY <1>2 DEF RunRecord
<1>6. (unbuilt \cup integrity \cup failed \cup unknown = {}) => selected \subseteq known
  OBVIOUS
<1>7. /\ \A v \in found : RuleOf[v] \in evaluated
      /\ found \subseteq run[q].raw /\ evaluated \subseteq known /\ known \subseteq selected
  OBVIOUS
<1> HIDE DEF unbuilt, integrity, prepared, known, failed, evaluated, complete, unknown, found
<1> DEFINE errors == unbuilt \cup integrity \cup failed \cup unknown
<1>8. errors \subseteq Rules /\ (errors = {} => selected \subseteq known)
  BY <1>4, <1>6
<1>9. e = [run[q] EXCEPT !.selected = selected, !.known = known, !.evaluated = evaluated,
                         !.complete = complete, !.errors = errors, !.found = found]
  BY <1>3
<1> HIDE DEF errors, e
<1>10. /\ e \in RunRecord /\ e.found = found /\ e.evaluated = evaluated
       /\ e.errors = errors /\ e.selected = selected /\ e.known = known
       /\ e.raw = run[q].raw /\ e.files = run[q].files
  BY <1>2, <1>4, <1>5, <1>8, <1>9 DEF RunRecord
<1> QED BY <1>7, <1>8, <1>10 DEF e

LEMMA EvaluateRulesStep ==
  ASSUME Inv, NEW q \in Runs, EvaluateRules(q)
  PROVE  Inv'
<1>1. /\ opts' = opts /\ state' = state /\ file' = file /\ approved' = approved
      /\ present' = present /\ files' = files /\ pc[q] = "evaluate"
  BY DEF EvaluateRules, world
<1>2. Selected(opts[q]) \subseteq Rules
  BY SelectedAreRules DEF Inv
<1>3. CASE Selected(opts[q]) = {}
  <2>1. run' = run /\ Ends(q, "usage") /\ "usage" \in Exits
    BY <1>3 DEF EvaluateRules, Exits
  <2>2. \A p \in Runs : SameLocals(p)
    BY <1>1, <2>1 DEF SameLocals
  <2>3. Shape' /\ OthersStay(q)
    BY <1>1, <2>1, <2>2, HowItEnds DEF Inv, Shape, OthersStay
  <2>4. Evaluated(q)'
    BY <2>2, LocalsDecide DEF Inv, RunInv
  <2> QED BY <2>1, <2>3, <2>4, EndsQuietly, OneRunSteps
<1>4. CASE Selected(opts[q]) # {}
  <2> DEFINE e == Evaluation(q, Selected(opts[q]))
  <2>1. run' = [run EXCEPT ![q] = e] /\ Goes(q, "update") /\ "update" \in PCs
    BY <1>4 DEF EvaluateRules, PCs
  <2>2. /\ e \in RunRecord
        /\ \A v \in e.found : RuleOf[v] \in e.evaluated
        /\ e.errors = {} => e.selected \subseteq e.known
        /\ e.found \subseteq e.raw /\ e.raw = run[q].raw /\ e.files = run[q].files
        /\ e.evaluated \subseteq e.known /\ e.known \subseteq e.selected
    BY <1>2, EvaluationIsSound DEF Inv
  <2> HIDE DEF e
  <2>3. /\ run' \in [Runs -> RunRecord] /\ run'[q] = e
        /\ \A p \in Runs \ {q} : SameLocals(p)
    BY <1>1, <2>1, <2>2 DEF Inv, Shape, SameLocals
  <2>4. Shape' /\ OthersStay(q)
    BY <1>1, <2>1, <2>3, WhereItGoes DEF Inv, Shape, OthersStay
  <2>5. pc'[q] = "update" /\ file'[q] = state'[q].file
    BY <1>1, <2>1, WhereItGoes DEF Inv, RunInv, Loaded
  <2>6. Evaluated(q)'
    BY <2>2, <2>3 DEF Inv, RunInv, Evaluated
  <2>7. RunInv(q)'
    BY <2>5, <2>6 DEF RunInv, Loaded, Begun, AfterUpdate
  <2> QED BY <2>4, <2>7, OneRunSteps
<1> QED BY <1>3, <1>4

LEMMA ToolsFailStep ==
  ASSUME Inv, NEW q \in Runs, ToolsFail(q)
  PROVE  Inv'
<1> DEFINE selected == Selected(opts[q])
           record == [run[q] EXCEPT !.selected = selected, !.errors = selected]
<1>1. /\ opts' = opts /\ state' = state /\ file' = file /\ approved' = approved
      /\ present' = present /\ files' = files /\ pc[q] = "evaluate" /\ Goes(q, "update")
      /\ selected # {} /\ run' = [run EXCEPT ![q] = record]
  BY DEF ToolsFail, world
<1>2. selected \subseteq Rules /\ run[q] \in RunRecord
  BY SelectedAreRules DEF Inv, Shape
<1> HIDE DEF selected
<1>3. /\ record \in RunRecord /\ record.found = run[q].found
      /\ record.evaluated = run[q].evaluated /\ record.errors = selected
      /\ record.known = run[q].known /\ record.selected = selected
      /\ record.raw = run[q].raw /\ record.files = run[q].files
  BY <1>2 DEF RunRecord
<1> HIDE DEF record
<1>4. /\ run' \in [Runs -> RunRecord] /\ run'[q] = record
      /\ \A p \in Runs \ {q} : SameLocals(p)
  BY <1>1, <1>3 DEF Inv, Shape, SameLocals
<1>5. "update" \in PCs BY DEF PCs
<1>6. Shape' /\ OthersStay(q)
  BY <1>1, <1>4, <1>5, WhereItGoes DEF Inv, Shape, OthersStay
<1>7. pc'[q] = "update" /\ file'[q] = state'[q].file
  BY <1>1, <1>5, WhereItGoes DEF Inv, RunInv, Loaded
<1>8. Evaluated(q)'
  BY <1>1, <1>3, <1>4 DEF Inv, RunInv, Evaluated, Begun
<1>9. RunInv(q)'
  BY <1>7, <1>8 DEF RunInv, Loaded, Begun, AfterUpdate
<1> QED BY <1>6, <1>9, OneRunSteps

(* What an update that is not refused keeps and hides. *)
LEMMA UpdatedKeepsAndHides ==
  ASSUME Shape, NEW q \in Runs, Evaluated(q), Updates(q), ~Refuses(q)
  PROVE  /\ \A s \in DOMAIN state[q].file :
               s[2] \in run[q].selected \ run[q].evaluated =>
                 s \in DOMAIN Updated(q) /\ Updated(q)[s] = state[q].file[s]
         /\ opts[q].mode \in {"all", "rule"} =>
               \A v \in run[q].found :
                 (opts[q].mode = "rule" => RuleOf[v] \in opts[q].named) =>
                   v \in Suppressed(Updated(q), run[q].found)
<1> DEFINE old == state[q].file
           found == run[q].found
<1>1. found \in SUBSET Violations
  BY DEF Shape, RunRecord
<1>2. ASSUME NEW rules, NEW s \in DOMAIN old, s[2] \in run[q].selected \ run[q].evaluated
      PROVE  s \in DOMAIN Record(old, found, rules) /\ Record(old, found, rules)[s] = old[s]
  <2>1. \A v \in found : RuleOf[v] # s[2]
    BY <1>2 DEF Evaluated
  <2> HIDE DEF old, found
  <2> QED BY <2>1, <1>2, RecordKeeps
<1>3. CASE opts[q].mode = "all"
  <2>1. Updated(q) = Record(old, found, Rules)
    BY <1>3 DEF Updated
  <2>2. \A v \in found : RuleOf[v] \in Rules
    BY <1>1, ViolationsAssumption
  <2>3. \A v \in found : v \in Suppressed(Updated(q), found)
    BY <1>1, <2>1, <2>2, RecordedIsSuppressed
  <2> QED BY <1>2, <2>1, <2>3
<1>4. CASE opts[q].mode = "rule"
  <2>1. Updated(q) = Record(old, found, opts[q].named)
    BY <1>4 DEF Updated
  <2>2. \A v \in found : RuleOf[v] \in opts[q].named => v \in Suppressed(Updated(q), found)
    BY <1>1, <2>1, RecordedIsSuppressed
  <2> QED BY <1>2, <1>4, <2>1, <2>2
<1>5. CASE opts[q].mode = "prune"
  <2>1. Updated(q) = Prune(old, found, Scope(q), files)
    BY <1>5 DEF Updated
  <2>2. run[q].errors = {}
    BY <1>5 DEF Refuses, BlockingRuleErrors
  <2>3. ASSUME NEW s \in DOMAIN old, s[2] \in run[q].selected \ run[q].evaluated
        PROVE  s \in DOMAIN Updated(q) /\ Updated(q)[s] = old[s]
    <3>1. s[2] \in run[q].known
      BY <2>2, <2>3 DEF Evaluated
    <3>2. ~CoversRule(Scope(q), s[2])
      BY <2>3, <3>1 DEF CoversRule, Scope
    <3> HIDE DEF old, found
    <3> QED BY <2>1, <2>3, <3>2, PruneKeeps
  <2> QED BY <1>5, <2>3
<1> QED BY <1>3, <1>4, <1>5 DEF Updates

(* Pruning goes on with what hides the same, and all of it is used. *)
LEMMA UpdatedIsUsed ==
  ASSUME Shape, NEW q \in Runs, Evaluated(q), GoodFile(state[q].file), opts[q].mode = "prune"
  PROVE  /\ Suppressed(Updated(q), run[q].found) = Suppressed(state[q].file, run[q].found)
         /\ Unused(Updated(q), run[q].found, Scope(q)) = {}
<1>1. Updated(q) = Prune(state[q].file, run[q].found, Scope(q), files)
  BY DEF Updated
<1>2. run[q].found \in SUBSET Violations
  BY DEF Shape, RunRecord
<1>3. \A v \in run[q].found : PathOf[v] \in Scope(q).files
  BY DEF Evaluated, Scope
<1> QED BY <1>1, <1>2, <1>3, PruneHidesTheSame, PruneLeavesNothingUnused

LEMMA UpdateStep ==
  ASSUME Inv, FilesInv, NEW q \in Runs, Update(q)
  PROVE  Inv'
<1>1. /\ opts' = opts /\ state' = state /\ approved' = approved /\ run' = run
      /\ present' = present /\ files' = files /\ pc[q] = "update"
  BY DEF Update, world
<1>2. Shape /\ Evaluated(q) /\ file[q] = state[q].file
  BY <1>1 DEF Inv, RunInv, Loaded
<1>3. {"report", "truncate"} \subseteq PCs BY DEF PCs
<1>4. CASE ~Updates(q) \/ Refuses(q)
  <2>1. file' = file /\ Goes(q, "report")
    BY <1>4 DEF Update
  <2>2. \A p \in Runs : SameLocals(p)
    BY <1>1, <2>1 DEF SameLocals
  <2>3. Shape' /\ OthersStay(q)
    BY <1>1, <1>3, <2>1, <2>2, WhereItGoes DEF Inv, Shape, OthersStay
  <2>4. Kept(q) /\ Recorded(q) /\ Pruned(q)
    BY <1>2, <1>4 DEF Kept, Recorded, Pruned, Updates
  <2>5. pc'[q] = "report"
    BY <1>2, <1>3, <2>1, WhereItGoes
  <2>6. RunInv(q)'
    BY <1>2, <2>2, <2>4, <2>5, LocalsDecide DEF RunInv, Loaded, Begun
  <2> QED BY <2>3, <2>6, OneRunSteps
<1>5. CASE Updates(q) /\ ~Refuses(q)
  <2>1. PICK to \in {"report", "truncate"} : Goes(q, to)
    BY <1>5 DEF Update
  <2>2. file' = [file EXCEPT ![q] = Updated(q)]
    BY <1>5 DEF Update
  <2>3. /\ DOMAIN file' = Runs /\ file'[q] = Updated(q)
        /\ \A p \in Runs \ {q} : SameLocals(p)
    BY <1>1, <1>2, <2>2 DEF Shape, SameLocals
  <2>4. Shape' /\ OthersStay(q)
    BY <1>1, <1>2, <1>3, <2>1, <2>3, WhereItGoes DEF Shape, OthersStay
  <2>5. Evaluated(q)'
    BY <1>1, <1>2 DEF Evaluated
  <2>6. Kept(q)'
    BY <1>1, <1>2, <1>5, <2>3, UpdatedKeepsAndHides DEF Kept
  <2>7. Recorded(q)'
    BY <1>1, <1>2, <1>5, <2>3, UpdatedKeepsAndHides DEF Recorded, Hidden
  <2>8. pc'[q] \in {"report", "truncate"}
    BY <1>2, <1>3, <2>1, WhereItGoes
  <2>9. Pruned(q)'
    <3>1. opts[q].mode = "prune" =>
            /\ Suppressed(Updated(q), run[q].found) = Suppressed(state[q].file, run[q].found)
            /\ Unused(Updated(q), run[q].found, Scope(q)) = {}
      BY <1>2, UpdatedIsUsed DEF FilesInv
    <3>2. Scope(q)' = Scope(q)
      BY <1>1 DEF Scope
    <3> QED BY <1>1, <2>3, <3>1, <3>2 DEF Pruned
  <2>10. RunInv(q)'
    BY <2>5, <2>6, <2>7, <2>8, <2>9 DEF RunInv, Loaded, Begun
  <2> QED BY <2>4, <2>10, OneRunSteps
<1> QED BY <1>4, <1>5

(* Steps that write a file: the locals stay. *)
LEMMA WritingStep ==
  ASSUME Inv, NEW q \in Runs, NEW to \in AfterUpdate, pc[q] \in AfterUpdate, Goes(q, to),
         UNCHANGED locals, UNCHANGED world
  PROVE  Inv'
<1>1. \A p \in Runs : SameLocals(p)
  BY DEF SameLocals, locals
<1>2. to \in PCs BY DEF PCs, AfterUpdate
<1>3. Shape' /\ OthersStay(q)
  BY <1>1, <1>2, WhereItGoes DEF Inv, Shape, OthersStay, locals, world
<1>4. pc'[q] = to
  BY <1>2, WhereItGoes DEF Inv
<1>5. RunInv(q)'
  BY <1>1, <1>4, LocalsDecide DEF Inv, RunInv, Loaded, Begun, AfterUpdate
<1> QED BY <1>3, <1>5, OneRunSteps

(* Steps that end a run as it may end. *)
LEMMA EndingStep ==
  ASSUME Inv, NEW q \in Runs, NEW how \in Exits, Ends(q, how), Done(q, how),
         UNCHANGED locals, UNCHANGED world
  PROVE  Inv'
<1>1. \A p \in Runs : SameLocals(p)
  BY DEF SameLocals, locals
<1>2. Shape' /\ OthersStay(q)
  BY <1>1, HowItEnds DEF Inv, Shape, OthersStay, locals, world
<1>3. Evaluated(q)'
  BY <1>1, LocalsDecide DEF Inv, RunInv
<1>4. Done(q, how)'
  BY <1>1, LocalsDecide
<1> QED BY <1>2, <1>3, <1>4, EndsWell, OneRunSteps

LEMMA QuietEndingStep ==
  ASSUME Inv, NEW q \in Runs, NEW how \in {"usage", "killed"}, Ends(q, how),
         UNCHANGED locals, UNCHANGED world
  PROVE  Inv'
<1>1. Done(q, how)
  BY DEF Done, NoneRecorded, PrunedQuietly, LockSuffices, Tight
<1>2. how \in Exits BY DEF Exits
<1> QED BY <1>1, <1>2, EndingStep

(* The outcome of a run says what its status promises. *)
LEMMA OutcomeIsTrue ==
  ASSUME Inv, FilesInv, NEW q \in Runs, pc[q] = "report"
  PROVE  Done(q, Outcome(q))
<1> DEFINE found == run[q].found
           how == Outcome(q)
<1>1. Kept(q) /\ Recorded(q) /\ Pruned(q)
  BY DEF Inv, RunInv, AfterUpdate
<1>2. /\ found \in SUBSET Violations /\ GoodFile(file[q]) /\ GoodFile(approved[q].suppressions)
  BY DEF Inv, Shape, RunRecord, FilesInv, IsLock, GoodFile
<1>3. ASSUME how # "rule error"
      PROVE  /\ ~Refuses(q) /\ LockFailures(q) = {}
             /\ Suppressed(Limited(q), found) = Suppressed(file[q], found)
             /\ Unused(Limited(q), found, Scope(q)) = Unused(file[q], found, Scope(q))
  <2>1. run[q].errors = {} /\ UnknownSuppressRules(q) = {} /\ LockFailures(q) = {}
    BY <1>3 DEF Outcome
  <2>2. ~Refuses(q)
    BY <2>1 DEF Refuses, BlockingRuleErrors
  <2> QED BY <2>1, <2>2, UnlimitedIsWhole DEF Limited, LockFailures
<1>4. how \in {"clean", "unused"} => found \subseteq Suppressed(file[q], found)
  BY <1>3 DEF Outcome, Reported
<1>5. how = "clean" /\ ~opts[q].pass => Unused(file[q], found, Scope(q)) = {}
  BY <1>3 DEF Outcome
<1>6. NoneRecorded(q, how)
  <2> SUFFICES ASSUME how = "violations" PROVE NoneRecorded(q, how)
    BY DEF NoneRecorded
  <2>1. ~Refuses(q) /\ Reported(q) # {}
    BY <1>3 DEF Outcome
  <2>2. opts[q].mode \in {"all", "rule"} => Hidden(q)
    BY <1>1, <2>1 DEF Recorded
  <2>3. opts[q].mode # "all"
    BY <1>3, <2>1, <2>2 DEF Hidden, Reported
  <2>4. opts[q].mode = "rule" => \A v \in Reported(q) : RuleOf[v] \notin opts[q].named
    BY <1>3, <2>2 DEF Hidden, Reported
  <2> QED BY <2>3, <2>4 DEF NoneRecorded
<1>7. PrunedQuietly(q, how)
  <2> SUFFICES ASSUME opts[q].mode = "prune" PROVE PrunedQuietly(q, how)
    BY DEF PrunedQuietly
  <2>1. how # "unused"
    BY <1>1, <1>3 DEF Pruned, Outcome
  <2> QED BY <1>1, <2>1 DEF Pruned, PrunedQuietly
<1>8. LockSuffices(q, how)
  <2> SUFFICES ASSUME how \in {"clean", "unused"}, opts[q].lock
               PROVE  found \subseteq Suppressed(approved[q].suppressions, found)
    BY DEF LockSuffices
  <2>1. LimitFailures(file[q], approved[q].suppressions) = {}
    BY <1>3 DEF LockFailures
  <2> HIDE DEF found, how
  <2> QED BY <1>2, <1>4, <2>1, WithinTheLockIsLocked
<1>9. Tight(q, how)
  <2> SUFFICES ASSUME how = "clean", ~opts[q].pass PROVE Tight(q, how)
    BY DEF Tight
  <2>1. found \subseteq Suppressed(file[q], found) /\ Unused(file[q], found, Scope(q)) = {}
    BY <1>4, <1>5
  <2>2. \A v \in found : Slot(v) \in DOMAIN file[q]
    BY <2>1 DEF Suppressed
  <2>3. ASSUME NEW s \in DOMAIN file[q], Covers(Scope(q), s)
        PROVE  /\ file[q][s].count = Cardinality(Group(found, s))
               /\ \A k \in Listed(file[q][s]) :
                    file[q][s].entities[k] = Cardinality(OfKey(found, s, k))
    <3> HIDE DEF found
    <3> QED BY <1>2, <2>1, <2>3, UsedFileIsTight
  <2> QED BY <2>2, <2>3 DEF Tight
<1> QED BY <1>6, <1>7, <1>8, <1>9 DEF Done

LEMMA ReportStep ==
  ASSUME Inv, FilesInv, NEW q \in Runs, Report(q)
  PROVE  Inv'
<1>1. /\ UNCHANGED locals /\ UNCHANGED world /\ pc[q] = "report" /\ Ends(q, Outcome(q))
  BY DEF Report
<1>2. Outcome(q) \in Exits
  BY DEF Outcome, Exits
<1>3. PICK how \in Exits : how = Outcome(q)
  BY <1>2
<1>4. Done(q, how) /\ Ends(q, how)
  BY <1>1, <1>3, OutcomeIsTrue
<1> QED BY <1>1, <1>4, EndingStep

LEMMA HashRulesStep ==
  ASSUME Inv, NEW q \in Runs, HashRules(q)
  PROVE  Inv'
<1>1. /\ opts' = opts /\ state' = state /\ file' = file /\ run' = run
      /\ present' = present /\ files' = files
      /\ DOMAIN approved' = Runs
      /\ \A p \in Runs \ {q} : approved'[p] = approved[p]
  BY DEF HashRules, world, Inv, Shape
<1>2. \A p \in Runs \ {q} : SameLocals(p)
  BY <1>1 DEF SameLocals
<1>3. Evaluated(q)'
  BY <1>1 DEF Inv, RunInv, Evaluated
<1>4. CASE Goes(q, "truncatelock")
  <2>1. "truncatelock" \in PCs BY DEF PCs
  <2>2. Shape' /\ OthersStay(q)
    BY <2>1, <1>4, <1>1, <1>2, WhereItGoes DEF Inv, Shape, OthersStay
  <2>3. pc'[q] = "truncatelock" /\ pc[q] = "hash"
    BY <2>1, <1>4, WhereItGoes DEF Inv, HashRules
  <2>4. RunInv(q)'
    BY <2>3, <1>1, <1>3 DEF Inv, RunInv, Loaded, Begun, AfterUpdate
  <2> QED BY <2>2, <2>4, OneRunSteps
<1>5. CASE Ends(q, "usage")
  <2>1. "usage" \in Exits BY DEF Exits
  <2>2. Shape' /\ OthersStay(q)
    BY <2>1, <1>5, <1>1, <1>2, HowItEnds DEF Inv, Shape, OthersStay
  <2> QED BY <2>1, <2>2, <1>5, <1>3, EndsQuietly, OneRunSteps
<1> QED BY <1>4, <1>5 DEF HashRules

LEMMA TruncateLockStep ==
  ASSUME Inv, NEW q \in Runs, TruncateLock(q)
  PROVE  Inv'
<1>1. /\ UNCHANGED locals /\ UNCHANGED world /\ Goes(q, "writelock") /\ "writelock" \in PCs
      /\ pc[q] = "truncatelock"
  BY DEF TruncateLock, PCs
<1>2. \A p \in Runs : SameLocals(p)
  BY <1>1 DEF SameLocals, locals
<1>3. Shape' /\ OthersStay(q)
  BY <1>1, <1>2, WhereItGoes DEF Inv, Shape, OthersStay, locals, world
<1>4. pc'[q] = "writelock"
  BY <1>1, WhereItGoes DEF Inv
<1>5. Evaluated(q)' /\ Begun(q)'
  BY <1>1, <1>2, <1>4, LocalsDecide DEF Inv, RunInv, Begun, SameLocals
<1>6. RunInv(q)'
  BY <1>4, <1>5 DEF RunInv, Loaded, AfterUpdate
<1> QED BY <1>3, <1>6, OneRunSteps

LEMMA WriteLockStep ==
  ASSUME Inv, NEW q \in Runs, WriteLock(q)
  PROVE  Inv'
<1>1. UNCHANGED locals /\ UNCHANGED world /\ Ends(q, "clean") /\ opts[q].mode = "lock"
  BY DEF WriteLock, Inv, RunInv, Begun
<1>2. Done(q, "clean")
  BY <1>1 DEF Done, NoneRecorded, PrunedQuietly, LockSuffices, Tight
<1>3. "clean" \in Exits BY DEF Exits
<1> QED BY <1>1, <1>2, <1>3, EndingStep

(* Steps around the runs. *)
LEMMA WorldStep ==
  ASSUME Inv, UNCHANGED <<pc, locals, exit>>,
         present' \subseteq Violations, files' \subseteq Paths
  PROVE  Inv'
<1>1. \A p \in Runs : SameLocals(p) /\ pc'[p] = pc[p] /\ exit'[p] = exit[p]
  BY DEF SameLocals, locals
<1>2. Shape'
  BY DEF Inv, Shape, locals
<1>3. \A p \in Runs : RunInv(p)'
  BY <1>1, RunStays DEF Inv
<1> QED BY <1>2, <1>3 DEF Inv

-----------------------------------------------------------------------------
LEMMA InitInv == Init => Inv
<1> SUFFICES ASSUME Init PROVE Inv
  OBVIOUS
<1>1. NoRun \in RunRecord
  BY DEF NoRun, RunRecord
<1>2. (CHOOSE o \in Options : TRUE) \in Options
  BY OptionsAssumption
<1>3. Shape
  BY <1>1, <1>2, InitialAssumption DEF Init, Shape, PCs, Exits
<1>4. \A p \in Runs : RunInv(p)
  BY DEF Init, RunInv, Evaluated, Loaded, Begun, AfterUpdate, NoRun
<1> QED BY <1>3, <1>4 DEF Inv

LEMMA NextInv == Inv /\ FilesInv /\ [Next]_vars => Inv'
<1> SUFFICES ASSUME Inv, FilesInv, [Next]_vars PROVE Inv'
  OBVIOUS
<1>1. ASSUME NEW p \in Runs, NEW o \in Options, Begin(p, o) PROVE Inv'
  BY <1>1, BeginStep
<1>2. ASSUME NEW p \in Runs, ReadLock(p) PROVE Inv'
  BY <1>2, ReadLockStep
<1>3. ASSUME NEW p \in Runs, BuildSnapshot(p) PROVE Inv'
  BY <1>3, BuildSnapshotStep
<1>4. ASSUME NEW p \in Runs, EvaluateRules(p) PROVE Inv'
  BY <1>4, EvaluateRulesStep
<1>5. ASSUME NEW p \in Runs, ToolsFail(p) PROVE Inv'
  BY <1>5, ToolsFailStep
<1>6. ASSUME NEW p \in Runs, Update(p) PROVE Inv'
  BY <1>6, UpdateStep
<1>7. ASSUME NEW p \in Runs, Truncate(p) PROVE Inv'
  BY <1>7, WritingStep DEF Truncate, AfterUpdate
<1>8. ASSUME NEW p \in Runs, WriteFile(p) PROVE Inv'
  BY <1>8, WritingStep DEF WriteFile, AfterUpdate
<1>9. ASSUME NEW p \in Runs, WriteFails(p) PROVE Inv'
  BY <1>9, QuietEndingStep DEF WriteFails
<1>10. ASSUME NEW p \in Runs, Report(p) PROVE Inv'
  BY <1>10, ReportStep
<1>11. ASSUME NEW p \in Runs, HashRules(p) PROVE Inv'
  BY <1>11, HashRulesStep
<1>12. ASSUME NEW p \in Runs, TruncateLock(p) PROVE Inv'
  BY <1>12, TruncateLockStep
<1>13. ASSUME NEW p \in Runs, WriteLock(p) PROVE Inv'
  BY <1>13, WriteLockStep
<1>14. ASSUME NEW p \in Runs, Crash(p) PROVE Inv'
  BY <1>14, QuietEndingStep DEF Crash
<1>15. ASSUME NEW v \in Violations, EditCode(v) PROVE Inv'
  BY <1>15, WorldStep DEF EditCode, Inv, Shape
<1>16. ASSUME NEW r \in Rules, NEW status \in RuleStatus, EditRule(r, status) PROVE Inv'
  BY <1>16, WorldStep DEF EditRule, Inv, Shape
<1>17. ASSUME NEW f \in Paths, DeletePath(f) PROVE Inv'
  BY <1>17, WorldStep DEF DeletePath, Inv, Shape
<1>18. ASSUME Restore PROVE Inv'
  BY <1>18, WorldStep DEF Restore, Inv, Shape, world
<1>19. CASE UNCHANGED vars
  BY <1>19, WorldStep DEF vars, Inv, Shape, world
<1> QED
  BY <1>1, <1>2, <1>3, <1>4, <1>5, <1>6, <1>7, <1>8, <1>9, <1>10, <1>11, <1>12, <1>13,
     <1>14, <1>15, <1>16, <1>17, <1>18, <1>19 DEF Next

-----------------------------------------------------------------------------
(* Every step keeps the files good: what is written was loaded, recorded   *)
(* or pruned from a good file.                                             *)

LEMMA EmptyIsGood == GoodFile(EmptyFile)
BY DEF GoodFile, IsFile, Readable, EmptyFile

LEMMA NoLockIsLock ==
  ASSUME NEW how \in FileStates
  PROVE  IsLock(NoLock) /\ IsLock([NoLock EXCEPT !.state = how])
<1>1. "missing" \in FileStates /\ "absent" \in RuleStatus
  BY DEF FileStates, RuleStatus
<1> QED BY <1>1, EmptyIsGood DEF IsLock, NoLock, GoodFile

LEMMA InitFiles == Init => FilesInv
<1> SUFFICES ASSUME Init PROVE FilesInv
  OBVIOUS
<1>1. IsDisk(disk) /\ IsLock(lock) /\ rule \in [Rules -> RuleStatus]
  BY InitialAssumption DEF Init
<1>2. "missing" \in FileStates BY DEF FileStates
<1>3. ASSUME NEW p \in Runs
      PROVE  /\ GoodFile(state[p].file) /\ GoodFile(file[p]) /\ IsLock(approved[p])
             /\ state[p].exists \in BOOLEAN
  BY <1>2, EmptyIsGood, NoLockIsLock DEF Init
<1> QED BY <1>1, <1>3 DEF FilesInv

LEMMA FilesStay ==
  ASSUME FilesInv, UNCHANGED <<disk, lock, rule, state, file, approved>>
  PROVE  FilesInv'
BY DEF FilesInv

LEMMA UpdatedIsGood ==
  ASSUME Shape, FilesInv, NEW q \in Runs, Updates(q)
  PROVE  GoodFile(Updated(q))
<1>1. run[q].found \in SUBSET Violations /\ GoodFile(state[q].file)
  BY DEF Shape, RunRecord, FilesInv
<1>2. CASE opts[q].mode = "all"
  BY <1>1, <1>2, RecordIsGood DEF Updated
<1>3. CASE opts[q].mode = "rule"
  BY <1>1, <1>3, RecordIsGood DEF Updated
<1>4. CASE opts[q].mode = "prune"
  BY <1>1, <1>4, PruneIsGood DEF Updated
<1> QED BY <1>2, <1>3, <1>4 DEF Updates

LEMMA NextFiles == Inv /\ FilesInv /\ [Next]_vars => FilesInv'
<1> SUFFICES ASSUME Shape, FilesInv, [Next]_vars PROVE FilesInv'
  BY DEF Inv
<1>1. ASSUME NEW q \in Runs, NEW o \in Options, Begin(q, o) PROVE FilesInv'
  <2>1. /\ state' = [state EXCEPT ![q] = [file |-> disk.content, exists |-> disk.state = "whole"]]
        /\ file' = [file EXCEPT ![q] = disk.content]
        /\ approved' = [approved EXCEPT ![q] = NoLock]
        /\ disk' = disk /\ lock' = lock /\ rule' = rule
    BY <1>1 DEF Begin, world
  <2>2. GoodFile(disk.content) /\ IsLock(NoLock)
    BY NoLockIsLock DEF FilesInv, IsDisk, GoodFile, FileStates
  <2>3. /\ state'[q].file = disk.content /\ file'[q] = disk.content /\ approved'[q] = NoLock
        /\ state'[q].exists \in BOOLEAN
    BY <2>1 DEF Shape
  <2>4. \A p \in Runs \ {q} : state'[p] = state[p] /\ file'[p] = file[p] /\ approved'[p] = approved[p]
    BY <2>1 DEF Shape
  <2>5. ASSUME NEW p \in Runs
        PROVE  /\ GoodFile(state'[p].file) /\ GoodFile(file'[p]) /\ IsLock(approved'[p])
               /\ state'[p].exists \in BOOLEAN
    <3>1. CASE p = q BY <2>2, <2>3, <3>1
    <3>2. CASE p # q BY <2>4, <3>2 DEF FilesInv
    <3> QED BY <3>1, <3>2
  <2> QED BY <2>1, <2>5 DEF FilesInv
<1>2. ASSUME NEW q \in Runs, NEW to, IsLock(to), approved' = [approved EXCEPT ![q] = to],
             UNCHANGED <<disk, lock, rule, state, file>>
      PROVE  FilesInv'
  BY <1>2 DEF Shape, FilesInv
<1>3. ASSUME NEW q \in Runs, ReadLock(q) PROVE FilesInv'
  <2>1. UNCHANGED <<disk, lock, rule, state, file>>
    BY <1>3 DEF ReadLock, world
  <2>2. CASE approved' = [approved EXCEPT ![q] = lock]
    <3>1. PICK to : to = lock OBVIOUS
    <3> QED BY <1>2, <2>1, <2>2, <3>1 DEF FilesInv
  <2>3. CASE approved' = approved
    BY <2>1, <2>3, FilesStay
  <2> QED BY <1>3, <2>2, <2>3 DEF ReadLock
<1>4. ASSUME NEW q \in Runs, HashRules(q) PROVE FilesInv'
  <2>1. UNCHANGED <<disk, lock, rule, state, file>>
    BY <1>4 DEF HashRules, world
  <2>2. CASE approved' = approved
    BY <2>1, <2>2, FilesStay
  <2>3. CASE approved' # approved
    <3>1. PICK selected, to :
             /\ to = [state |-> "whole",
                      rules |-> [r \in Rules |-> IF r \in selected THEN rule[r] ELSE "absent"],
                      suppressions |-> state[q].file]
             /\ approved' = [approved EXCEPT ![q] = to]
      BY <1>4, <2>3 DEF HashRules
    <3>2. IsLock(to)
      <4>1. "whole" \in FileStates /\ "absent" \in RuleStatus
        BY DEF FileStates, RuleStatus
      <4>2. GoodFile(state[q].file) /\ rule \in [Rules -> RuleStatus]
        BY DEF FilesInv
      <4> QED BY <3>1, <4>1, <4>2 DEF IsLock, GoodFile
    <3> QED BY <1>2, <2>1, <3>1, <3>2
  <2> QED BY <2>2, <2>3
<1>5. ASSUME NEW q \in Runs, Update(q) PROVE FilesInv'
  <2>1. UNCHANGED <<disk, lock, rule, state, approved>>
    BY <1>5 DEF Update, world
  <2>2. CASE file' = file
    BY <2>1, <2>2, FilesStay
  <2>3. CASE file' # file
    <3>1. Updates(q) /\ file' = [file EXCEPT ![q] = Updated(q)]
      BY <1>5, <2>3 DEF Update
    <3>2. GoodFile(Updated(q))
      BY <3>1, UpdatedIsGood
    <3> QED BY <2>1, <3>1, <3>2 DEF Shape, FilesInv
  <2> QED BY <2>2, <2>3
<1>6. ASSUME IsDisk(disk'), UNCHANGED <<lock, rule, state, file, approved>> PROVE FilesInv'
  BY <1>6 DEF FilesInv
<1>7. ASSUME IsLock(lock'), UNCHANGED <<disk, rule, state, file, approved>> PROVE FilesInv'
  BY <1>7 DEF FilesInv
<1>8. ASSUME NEW how \in FileStates, NEW content, GoodFile(content),
             disk' = [state |-> how, content |-> content]
      PROVE  IsDisk(disk')
  BY <1>8 DEF IsDisk, GoodFile
<1>9. ASSUME NEW q \in Runs, Truncate(q) PROVE FilesInv'
  <2>1. IsDisk(disk')
    BY <1>8, <1>9, EmptyIsGood DEF Truncate, FileStates
  <2> QED BY <1>6, <1>9, <2>1 DEF Truncate, world, locals
<1>10. ASSUME NEW q \in Runs, WriteFile(q) PROVE FilesInv'
  <2>1. PICK content : content = file[q] /\ GoodFile(content)
    BY DEF FilesInv
  <2>2. \/ disk' = [state |-> "whole", content |-> content]
        \/ disk' = [state |-> "garbled", content |-> EmptyFile]
    BY <1>10, <2>1 DEF WriteFile
  <2>3. IsDisk(disk')
    BY <1>8, <2>1, <2>2, EmptyIsGood DEF FileStates
  <2> QED BY <1>6, <1>10, <2>3 DEF WriteFile, world, locals
<1>11. ASSUME NEW q \in Runs, TruncateLock(q) PROVE FilesInv'
  <2>1. IsLock(lock')
    BY <1>11, NoLockIsLock DEF TruncateLock, FileStates
  <2> QED BY <1>7, <1>11, <2>1 DEF TruncateLock, world, locals
<1>12. ASSUME NEW q \in Runs, WriteLock(q) PROVE FilesInv'
  <2>1. lock' = approved[q] \/ lock' = [NoLock EXCEPT !.state = "garbled"]
    BY <1>12 DEF WriteLock
  <2>2. IsLock(approved[q]) /\ "garbled" \in FileStates
    BY DEF FilesInv, FileStates
  <2>3. IsLock(lock')
    BY <2>1, <2>2, NoLockIsLock
  <2> QED BY <1>7, <1>12, <2>3 DEF WriteLock, world, locals
<1>13. ASSUME NEW q \in Runs,
              BuildSnapshot(q) \/ EvaluateRules(q) \/ ToolsFail(q) \/ WriteFails(q) \/ Report(q)
                \/ Crash(q)
       PROVE  FilesInv'
  BY <1>13, FilesStay
  DEF BuildSnapshot, EvaluateRules, ToolsFail, WriteFails, Report, Crash, world, locals
<1>14. ASSUME NEW v \in Violations, EditCode(v) PROVE FilesInv'
  BY <1>14, FilesStay DEF EditCode, locals
<1>15. ASSUME NEW r \in Rules, NEW status \in RuleStatus, EditRule(r, status) PROVE FilesInv'
  BY <1>15 DEF EditRule, locals, FilesInv
<1>16. ASSUME NEW f \in Paths, DeletePath(f) PROVE FilesInv'
  BY <1>16, FilesStay DEF DeletePath, locals
<1>17. ASSUME Restore PROVE FilesInv'
  <2>1. IsDisk(disk')
    BY <1>17, InitialAssumption DEF Restore
  <2> QED BY <1>6, <1>17, <2>1 DEF Restore, world, locals
<1>18. CASE UNCHANGED vars
  BY <1>18, FilesStay DEF vars, world, locals
<1> QED
  BY <1>1, <1>3, <1>4, <1>5, <1>9, <1>10, <1>11, <1>12, <1>13, <1>14, <1>15, <1>16, <1>17,
     <1>18 DEF Next

LEMMA AlwaysInv == Spec => [](Inv /\ FilesInv)
BY InitInv, NextInv, InitFiles, NextFiles, PTL DEF Spec

-----------------------------------------------------------------------------
(* Type correctness: the bounds of the model, with the two invariants. *)
Bounds ==
  /\ begun \in 0..MaxRuns /\ edits \in 0..MaxEdits /\ faults \in 0..MaxFaults
  /\ abandoned \in BOOLEAN

LEMMA NextBounds == Bounds /\ [Next]_vars => Bounds'
<1> SUFFICES ASSUME Bounds, [Next]_vars PROVE Bounds'
  OBVIOUS
<1> USE BoundsAssumption
<1>1. begun' = begun \/ (begun < MaxRuns /\ begun' = begun + 1)
  BY DEF Next, Begin, ReadLock, BuildSnapshot, EvaluateRules, ToolsFail, Update, Truncate,
         WriteFile, WriteFails, Report, HashRules, TruncateLock, WriteLock, Crash, EditCode,
         EditRule, DeletePath, Restore, vars
<1>2. edits' = edits \/ (edits < MaxEdits /\ edits' = edits + 1)
  BY DEF Next, Begin, ReadLock, BuildSnapshot, EvaluateRules, ToolsFail, Update, Truncate,
         WriteFile, WriteFails, Report, HashRules, TruncateLock, WriteLock, Crash, EditCode,
         EditRule, DeletePath, Restore, vars, world
<1>3. faults' = faults \/ (faults < MaxFaults /\ faults' = faults + 1)
  BY DEF Next, Begin, ReadLock, BuildSnapshot, EvaluateRules, ToolsFail, Update, Truncate,
         WriteFile, WriteFails, Report, HashRules, TruncateLock, WriteLock, Crash, EditCode,
         EditRule, DeletePath, Restore, vars
<1>4. abandoned' \in BOOLEAN
  <2>1. abandoned' = abandoned \/ abandoned' = FALSE \/ \E p \in Runs, how \in Exits : Ends(p, how)
    BY DEF Next, Begin, ReadLock, BuildSnapshot, EvaluateRules, ToolsFail, Update, Truncate,
           WriteFile, WriteFails, Report, HashRules, TruncateLock, WriteLock, Crash, EditCode,
           EditRule, DeletePath, Restore, vars, Goes, Exits, Outcome
  <2>2. ASSUME NEW p \in Runs, NEW how \in Exits, Ends(p, how) PROVE abandoned' \in BOOLEAN
    BY <2>2 DEF Ends
  <2> QED BY <2>1, <2>2 DEF Bounds
<1> QED BY <1>1, <1>2, <1>3, <1>4 DEF Bounds

(* Theorem: LintaiRun is type correct, and every suppressions file that is *)
(* on disk, in a lock, loaded by a run or computed by one is one that      *)
(* Parse accepts: its counts are positive, and those of the entities of an *)
(* entry add up to the count of the entry (suppressions.go:125-148).       *)
THEOREM RunTypes == Spec => [](TypeOK /\ FilesInv)
<1>1. Init => Bounds
  <2>1. 0 \in 0..MaxRuns /\ 0 \in 0..MaxEdits /\ 0 \in 0..MaxFaults
    BY BoundsAssumption
  <2>2. Init => begun = 0 /\ edits = 0 /\ faults = 0 /\ abandoned = FALSE
    BY DEF Init
  <2> QED BY <2>1, <2>2 DEF Bounds
<1>2. Inv /\ FilesInv /\ Bounds => TypeOK
  <2> SUFFICES ASSUME Inv, FilesInv, Bounds PROVE TypeOK
    OBVIOUS
  <2>1. ASSUME NEW p \in Runs
        PROVE  /\ IsFile(state[p].file) /\ state[p].exists \in BOOLEAN
               /\ IsFile(file[p])
               /\ IsFile(approved[p].suppressions)
               /\ run[p].found \subseteq run[p].raw /\ run[p].raw \subseteq Violations
               /\ run[p].evaluated \subseteq run[p].known
               /\ run[p].known \subseteq run[p].selected
    BY DEF Inv, Shape, RunInv, Evaluated, RunRecord, FilesInv, GoodFile, IsLock
  <2> QED BY <2>1 DEF Inv, Shape, FilesInv, Bounds, IsDisk, IsLock, TypeOK
<1> QED BY <1>1, <1>2, NextBounds, AlwaysInv, PTL DEF Spec

-----------------------------------------------------------------------------
(* Theorem: an update of the suppressions file leaves the entries of every *)
(* rule that is there but was not evaluated (blockingRuleErrors and the    *)
(* scope in engine/suppressions.go).                                       *)
THEOREM UnevaluatedRulesKeepTheirs == Spec => []UnevaluatedRuleKeepsSuppressions
<1>1. Inv => UnevaluatedRuleKeepsSuppressions
  BY DEF Inv, RunInv, AfterUpdate, Kept, UnevaluatedRuleKeepsSuppressions
<1> QED BY <1>1, AlwaysInv, PTL

(* Theorem: no run that records reports a violation it was to record, with *)
(* or without a lock (Record, Limit and Apply in applySuppressions).       *)
THEOREM RecordingLeavesNoViolation == Spec => []RecordLeavesNoViolation
<1>1. Inv => RecordLeavesNoViolation
  BY DEF Inv, RunInv, Done, NoneRecorded, RecordLeavesNoViolation
<1> QED BY <1>1, AlwaysInv, PTL

(* Theorem: pruning changes nothing of what is reported, and a run that    *)
(* prunes does not fail for unused suppressions (Prune and Apply in        *)
(* suppressions.go, in the order of applySuppressions).                    *)
THEOREM PruningChangesNoReport == Spec => []PruneChangesNoReport
<1>1. Inv => PruneChangesNoReport
  BY DEF Inv, RunInv, Done, PrunedQuietly, PruneChangesNoReport
<1> QED BY <1>1, AlwaysInv, PTL

(* Theorem: whatever the suppressions file says, a run with the lock that  *)
(* ends without violations and rule errors would also do so with the       *)
(* locked suppressions (Limit and Apply in suppressions.go).               *)
THEOREM LockedSuppressionsAlwaysSuffice == Spec => []LockedSuppressionsSuffice
<1>1. Inv => LockedSuppressionsSuffice
  BY DEF Inv, RunInv, Done, LockSuffices, LockedSuppressionsSuffice
<1> QED BY <1>1, AlwaysInv, PTL

(* Theorem: exit status 0 means that the counters of the file are exact    *)
(* for everything that the run covered (suppressionsOutcome in main.go).   *)
THEOREM CleanIsAlwaysTight == Spec => []CleanIsTight
<1>1. Inv => CleanIsTight
  BY DEF Inv, RunInv, Done, Tight, CleanIsTight
<1> QED BY <1>1, AlwaysInv, PTL

(* Theorem: no run writes a suppressions file or a lock that Parse         *)
(* refuses, whatever it loaded, recorded or pruned.                        *)
THEOREM WritesAreReadable == Spec => []EveryWriteIsReadable
<1>1. FilesInv => EveryWriteIsReadable
  BY DEF FilesInv, IsDisk, IsLock, GoodFile, EveryWriteIsReadable
<1> QED BY <1>1, AlwaysInv, PTL

-----------------------------------------------------------------------------
(* While a damaged file is abandoned, no run is in progress. *)
Nobody == abandoned => Damaged /\ \A p \in Runs : ~InProgress(p)

DamageInv == Inv /\ Nobody

LEMMA NobodyAfterEnd ==
  ASSUME Shape, Nobody, NEW q \in Runs, NEW how, Ends(q, how), UNCHANGED disk
  PROVE  Nobody'
<1>1. pc' = [pc EXCEPT ![q] = "done"]
  BY DEF Ends
<1>2. ~InProgress(q)' /\ \A p \in Runs \ {q} : InProgress(p)' <=> InProgress(p)
  BY <1>1 DEF Shape, InProgress
<1>3. abandoned' => Damaged' /\ \A p \in Runs \ {q} : ~InProgress(p)
  BY DEF Ends, Nobody, Damaged
<1> QED BY <1>2, <1>3 DEF Nobody

LEMMA NextNobody == DamageInv /\ [Next]_vars => Nobody'
<1> SUFFICES ASSUME Inv, Nobody, [Next]_vars PROVE Nobody'
  BY DEF DamageInv
<1>1. ASSUME NEW p \in Runs, NEW o \in Options, Begin(p, o) PROVE Nobody'
  <2>1. CASE LoadFails(o)
    BY <1>1, <2>1, NobodyAfterEnd DEF Begin, Inv
  <2>2. CASE ~LoadFails(o)
    BY <1>1, <2>2 DEF Begin, LoadFails, Nobody, Damaged
  <2> QED BY <2>1, <2>2
<1>2. ASSUME NEW p \in Runs, InProgress(p),
             abandoned' = abandoned \/ \E how : Ends(p, how) /\ UNCHANGED disk
      PROVE  Nobody'
  BY <1>2, NobodyAfterEnd DEF Nobody, Inv
<1>3. ASSUME NEW p \in Runs,
             ReadLock(p) \/ BuildSnapshot(p) \/ EvaluateRules(p) \/ ToolsFail(p) \/ Update(p)
               \/ Truncate(p) \/ WriteFile(p) \/ WriteFails(p) \/ Report(p) \/ HashRules(p)
               \/ TruncateLock(p) \/ WriteLock(p) \/ Crash(p)
      PROVE  Nobody'
  <2>1. InProgress(p)
    BY <1>3 DEF ReadLock, BuildSnapshot, EvaluateRules, ToolsFail, Update, Truncate, WriteFile,
                WriteFails, Report, HashRules, TruncateLock, WriteLock, Crash, InProgress
  <2>2. abandoned' = abandoned \/ \E how : Ends(p, how) /\ UNCHANGED disk
    BY <1>3 DEF ReadLock, BuildSnapshot, EvaluateRules, ToolsFail, Update, Truncate, WriteFile,
                WriteFails, Report, HashRules, TruncateLock, WriteLock, Crash, Goes
  <2> QED BY <2>1, <2>2, <1>2
<1>4. ASSUME UNCHANGED <<disk, abandoned, pc>> PROVE Nobody'
  BY <1>4 DEF Nobody, Damaged, InProgress
<1>5. ASSUME NEW v \in Violations, EditCode(v) PROVE Nobody'
  BY <1>5, <1>4 DEF EditCode
<1>6. ASSUME NEW r \in Rules, NEW status \in RuleStatus, EditRule(r, status) PROVE Nobody'
  BY <1>6, <1>4 DEF EditRule
<1>7. ASSUME NEW f \in Paths, DeletePath(f) PROVE Nobody'
  BY <1>7, <1>4 DEF DeletePath
<1>8. ASSUME Restore PROVE Nobody'
  BY <1>8 DEF Restore, Nobody
<1>9. CASE UNCHANGED vars
  BY <1>9, <1>4 DEF vars
<1> QED BY <1>1, <1>3, <1>5, <1>6, <1>7, <1>8, <1>9 DEF Next

(* Theorem: once a damaged suppressions file is left behind, no run puts   *)
(* another in its place (Load and Parse in suppressions.go).               *)
THEOREM DamageStays == Spec => []AbandonedDamageStays
<1>1. Init => Nobody
  BY DEF Init, Nobody
<1>2. Nobody => AbandonedDamageStays
  BY DEF Nobody, AbandonedDamageStays
<1> QED BY <1>1, <1>2, AlwaysInv, NextNobody, PTL DEF Spec, DamageInv
=============================================================================
