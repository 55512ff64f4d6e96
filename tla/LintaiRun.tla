------------------------------ MODULE LintaiRun ------------------------------
(***************************************************************************)
(* Runs of the command line (runOnce and runLock in cmd/lintai/main.go)    *)
(* over one workspace: each loads the suppressions file, reads the rules   *)
(* lock, takes a snapshot, evaluates the rules, perhaps records or prunes  *)
(* suppressions, and exits with a status.  Runs share only files.  Between *)
(* two steps of a run the code, the rules and the files may change, other  *)
(* runs may take steps, and the run may be killed.                         *)
(***************************************************************************)
EXTENDS Suppressions

CONSTANTS
  Runs,          \* runs that may be in progress at a time
  Options,       \* the command lines
  InitialDisks,  \* suppressions file, rules lock, code and rules at first
  InitialLocks,
  InitialCode,
  InitialRules,
  Restorable,    \* files a user may put in place of a damaged one
  MaxRuns,       \* bound on the runs that begin
  MaxEdits,      \* bound on the changes of code, rules and files
  MaxFaults      \* bound on killed runs and failing system calls

ASSUME BoundsAssumption == MaxRuns \in Nat /\ MaxEdits \in Nat /\ MaxFaults \in Nat

(* What becomes of a rule file: it is not there, does not bundle, fails in *)
(* setup() (with or without a known id), has an invalid or duplicate id,   *)
(* fails in its program, or runs.  Also its content: the hash in a lock.   *)
RuleStatus == {"absent", "unbuilt", "unnamed", "setup", "invalid", "program", "ok"}

Severities == {"unset", "error", "warning", "off"}

Modes == {"check", "all", "rule", "prune", "lock"}

ASSUME OptionsAssumption == Options # {} /\
  \A o \in Options :
    /\ o.mode \in Modes
    /\ o.named \subseteq Rules                 \* --suppress-rule
    /\ o.explicit \in BOOLEAN                  \* --suppressions-location
    /\ o.lock \in BOOLEAN                      \* --rules-lock
    /\ o.files \subseteq Paths                 \* --exclude, --files
    /\ o.rules \subseteq Rules                 \* --rules; Rules is the default
    /\ o.severity \in [Rules -> Severities]    \* --severity
    /\ o.pass \in BOOLEAN                      \* --pass-on-unpruned-suppressions

(* A file is garbled when Parse refuses it: the content of any other one   *)
(* is what Parse accepts.                                                  *)
FileStates == {"missing", "empty", "garbled", "whole"}

IsDisk(d) == d.state \in FileStates /\ IsFile(d.content) /\ Readable(d.content)

IsLock(l) ==
  /\ l.state \in FileStates /\ l.rules \in [Rules -> RuleStatus]
  /\ IsFile(l.suppressions) /\ Readable(l.suppressions)

ASSUME InitialAssumption ==
  /\ InitialCode \subseteq SUBSET Violations /\ InitialRules \subseteq [Rules -> RuleStatus]
  /\ \A d \in InitialDisks \cup Restorable : IsDisk(d)
  /\ \A l \in InitialLocks : IsLock(l)

VARIABLES
  disk,       \* the suppressions file: state and content
  lock,       \* the rules lock: state, locked rules and suppressions
  present,    \* violations that the code has
  files,      \* paths that exist
  rule,       \* status of every rule
  begun, edits, faults,
  abandoned,  \* history: a damaged file was left with no run in progress
  pc,         \* where a run is
  opts,       \* its command line
  state,      \* the file it loaded (suppressionsState), and whether it existed
  file,       \* the file it goes on with (file in applySuppressions)
  approved,   \* the rules lock it read
  run,        \* what the evaluation found (runInfo and the diagnostics)
  exit        \* how it ended

world == <<present, files, rule, edits>>
locals == <<opts, state, file, approved, run>>
vars == <<disk, lock, world, begun, faults, abandoned, pc, locals, exit>>

Damaged == disk.state \in {"empty", "garbled"}

NoLock == [state |-> "missing", rules |-> [r \in Rules |-> "absent"], suppressions |-> EmptyFile]

NoRun == [files |-> {}, raw |-> {}, found |-> {}, selected |-> {}, errors |-> {},
          known |-> {}, evaluated |-> {}, complete |-> FALSE]

Exits == {"none", "clean", "violations", "unused", "usage", "rule error", "killed"}

PCs == {"idle", "readlock", "snapshot", "evaluate", "update", "truncate", "write",
        "report", "hash", "truncatelock", "writelock", "done"}

InProgress(p) == pc[p] \notin {"idle", "done"}

Init ==
  /\ disk \in InitialDisks
  /\ lock \in InitialLocks
  /\ present \in InitialCode
  /\ files = Paths
  /\ rule \in InitialRules
  /\ begun = 0 /\ edits = 0 /\ faults = 0
  /\ abandoned = FALSE
  /\ pc = [p \in Runs |-> "idle"]
  /\ opts \in [Runs -> {CHOOSE o \in Options : TRUE}]
  /\ state = [p \in Runs |-> [file |-> EmptyFile, exists |-> FALSE]]
  /\ file = [p \in Runs |-> EmptyFile]
  /\ approved = [p \in Runs |-> NoLock]
  /\ run = [p \in Runs |-> NoRun]
  /\ exit = [p \in Runs |-> "none"]

Ends(p, how) ==
  /\ pc' = [pc EXCEPT ![p] = "done"]
  /\ exit' = [exit EXCEPT ![p] = how]
  /\ abandoned' = (abandoned \/ (disk'.state \in {"empty", "garbled"}
                                  /\ \A q \in Runs \ {p} : ~InProgress(q)))

Goes(p, to) ==
  /\ pc' = [pc EXCEPT ![p] = to]
  /\ UNCHANGED <<exit, abandoned>>

-----------------------------------------------------------------------------
(* Mutant: an empty file is taken for one without entries. *)
LoadFailsUnlessEmpty(o) ==
  \/ disk.state = "garbled" \/ ~Readable(disk.content)
  \/ disk.state = "missing" /\ o.explicit /\ o.mode \notin {"all", "rule"}

(* A run begins: loadSuppressions, or the load of BuildRulesLock.          *)
LoadFails(o) ==
  \/ Damaged \/ ~Readable(disk.content)
  \/ disk.state = "missing" /\ o.explicit /\ o.mode \notin {"all", "rule"}

Begin(p, o) ==
  /\ ~InProgress(p)
  /\ begun < MaxRuns
  /\ begun' = begun + 1
  /\ opts' = [opts EXCEPT ![p] = o]
  /\ state' = [state EXCEPT ![p] = [file |-> disk.content, exists |-> disk.state = "whole"]]
  /\ file' = [file EXCEPT ![p] = disk.content]
  /\ approved' = [approved EXCEPT ![p] = NoLock]
  /\ run' = [run EXCEPT ![p] = NoRun]
  /\ UNCHANGED <<disk, lock, world, faults>>
  /\ IF LoadFails(o)
     THEN Ends(p, "usage")
     ELSE /\ pc' = [pc EXCEPT ![p] = IF o.mode = "lock" THEN "hash"
                                     ELSE IF o.lock THEN "readlock" ELSE "snapshot"]
          /\ exit' = [exit EXCEPT ![p] = "none"]
          /\ UNCHANGED abandoned

ReadLock(p) ==
  /\ pc[p] = "readlock"
  /\ UNCHANGED <<begun, disk, lock, world, faults, opts, state, file, run>>
  /\ IF lock.state = "whole" /\ Readable(lock.suppressions)
     THEN /\ approved' = [approved EXCEPT ![p] = lock]
          /\ Goes(p, "snapshot")
     ELSE UNCHANGED approved /\ Ends(p, "usage")

(* The facts of the selected files, and with them the violations that the  *)
(* rules will find if they run.                                            *)
BuildSnapshot(p) ==
  /\ pc[p] = "snapshot"
  /\ LET analyzed == opts[p].files \cap files
     IN  run' = [run EXCEPT ![p].files = analyzed,
                            ![p].raw = {v \in present : PathOf[v] \in analyzed}]
  /\ Goes(p, "evaluate")
  /\ UNCHANGED <<begun, disk, lock, world, faults, opts, state, file, approved>>

Severity(o, r) == IF o.severity[r] = "unset" THEN "error" ELSE o.severity[r]

(* checkRulesLock: changed, new and removed rules. *)
IntegrityFailures(p, selected) ==
  IF ~opts[p].lock THEN {}
  ELSE {r \in selected : rule[r] # "unbuilt" /\ approved[p].rules[r] # rule[r]}
         \cup {r \in Rules \ selected : approved[p].rules[r] # "absent"}

(* analyze from the discovery of the rule files on; selected is rulePaths. *)
Evaluation(p, selected) ==
  LET o == opts[p]
      unbuilt == {r \in selected : rule[r] = "unbuilt"}
      integrity == IntegrityFailures(p, selected)
      prepared == selected \ (unbuilt \cup integrity)
      known == {r \in prepared : rule[r] # "unnamed"}
      failed == {r \in prepared : \/ rule[r] \in {"unnamed", "invalid"}
                                  \/ rule[r] \in {"setup", "program"}
                                       /\ Severity(o, r) # "off"}
      evaluated == {r \in prepared : rule[r] = "ok" /\ Severity(o, r) = "error"}
      complete == unbuilt = {} /\ integrity = {}
      unknown == IF complete THEN {r \in Rules \ known : o.severity[r] # "unset"} ELSE {}
  IN  [run[p] EXCEPT !.selected = selected,
                     !.known = known,
                     !.evaluated = evaluated,
                     !.complete = complete,
                     !.errors = unbuilt \cup integrity \cup failed \cup unknown,
                     !.found = {v \in run[p].raw : RuleOf[v] \in evaluated}]

Selected(o) == {r \in o.rules : rule[r] # "absent"}

EvaluateRules(p) ==
  /\ pc[p] = "evaluate"
  /\ UNCHANGED <<begun, disk, lock, world, faults, opts, state, file, approved>>
  /\ IF Selected(opts[p]) = {}
     THEN UNCHANGED run /\ Ends(p, "usage")
     ELSE /\ run' = [run EXCEPT ![p] = Evaluation(p, Selected(opts[p]))]
          /\ Goes(p, "update")

(* The bundler or the setup process does not work at all: an error for     *)
(* every rule, and no rule is known.                                       *)
ToolsFail(p) ==
  /\ pc[p] = "evaluate"
  /\ faults < MaxFaults
  /\ faults' = faults + 1
  /\ Selected(opts[p]) # {}
  /\ run' = [run EXCEPT ![p].selected = Selected(opts[p]),
                        ![p].errors = Selected(opts[p])]
  /\ Goes(p, "update")
  /\ UNCHANGED <<begun, disk, lock, world, opts, state, file, approved>>

-----------------------------------------------------------------------------
(* applySuppressions *)

Updates(p) == opts[p].mode \in {"all", "rule", "prune"}

UnknownSuppressRules(p) ==
  IF opts[p].mode = "rule" /\ run[p].complete THEN opts[p].named \ run[p].known ELSE {}

BlockingRuleErrors(p) ==
  IF opts[p].mode = "rule"
  THEN {r \in run[p].errors : r \in opts[p].named \/ r \notin run[p].known}
  ELSE run[p].errors

Refuses(p) == UnknownSuppressRules(p) # {} \/ BlockingRuleErrors(p) # {}

Scope(p) ==
  [files          |-> run[p].files,
   rules          |-> run[p].evaluated,
   known          |-> run[p].known,
   allRulesLoaded |-> opts[p].rules = Rules /\ run[p].errors = {}]

Updated(p) ==
  CASE opts[p].mode = "all"   -> Record(state[p].file, run[p].found, Rules)
    [] opts[p].mode = "rule"  -> Record(state[p].file, run[p].found, opts[p].named)
    [] opts[p].mode = "prune" -> Prune(state[p].file, run[p].found, Scope(p), files)

Update(p) ==
  /\ pc[p] = "update"
  /\ UNCHANGED <<begun, disk, lock, world, faults, opts, state, approved, run>>
  /\ IF ~Updates(p) \/ Refuses(p)
     THEN UNCHANGED file /\ Goes(p, "report")
     ELSE /\ file' = [file EXCEPT ![p] = Updated(p)]
          /\ Goes(p, IF opts[p].mode # "prune" \/ state[p].exists
                     THEN "truncate" ELSE "report")

(* os.WriteFile opens the file, which cuts it to nothing, and then writes. *)
Truncate(p) ==
  /\ pc[p] = "truncate"
  /\ disk' = [state |-> "empty", content |-> EmptyFile]
  /\ Goes(p, "write")
  /\ UNCHANGED <<begun, lock, world, faults, locals>>

(* Written at the beginning of a file in which another run has written     *)
(* since: the longer text of the other one may stick out at the end.       *)
WriteFile(p) ==
  /\ pc[p] = "write"
  /\ LET mine == [state |-> "whole", content |-> file[p]]
     IN  \/ disk' = mine
         \/ /\ disk.state # "empty" /\ disk # mine
            /\ disk' = [state |-> "garbled", content |-> EmptyFile]
  /\ Goes(p, "report")
  /\ UNCHANGED <<begun, lock, world, faults, locals>>

WriteFails(p) ==
  /\ pc[p] \in {"truncate", "write", "truncatelock", "writelock"}
  /\ faults < MaxFaults
  /\ faults' = faults + 1
  /\ UNCHANGED <<begun, disk, lock, world, locals>>
  /\ Ends(p, "usage")

Limited(p) ==
  IF opts[p].lock THEN Limit(file[p], approved[p].suppressions) ELSE file[p]

LockFailures(p) ==
  IF opts[p].lock THEN LimitFailures(file[p], approved[p].suppressions) ELSE {}

Reported(p) == run[p].found \ Suppressed(Limited(p), run[p].found)

(* diagnosticsOutcome, then suppressionsOutcome *)
Outcome(p) ==
  IF run[p].errors \cup UnknownSuppressRules(p) \cup LockFailures(p) # {} THEN "rule error"
  ELSE IF Reported(p) # {} THEN "violations"
  ELSE IF ~opts[p].pass /\ Unused(Limited(p), run[p].found, Scope(p)) # {} THEN "unused"
  ELSE "clean"

Report(p) ==
  /\ pc[p] = "report"
  /\ UNCHANGED <<begun, disk, lock, world, faults, locals>>
  /\ Ends(p, Outcome(p))

-----------------------------------------------------------------------------
(* lintai lock: bundle and hash the rules, then write the rules lock. *)
HashRules(p) ==
  /\ pc[p] = "hash"
  /\ UNCHANGED <<begun, disk, lock, world, faults, opts, state, file, run>>
  /\ LET selected == Selected(opts[p])
     IN  IF selected = {} \/ \E r \in selected : rule[r] = "unbuilt"
         THEN UNCHANGED approved /\ Ends(p, "usage")
         ELSE /\ approved' = [approved EXCEPT ![p] =
                   [state |-> "whole",
                    rules |-> [r \in Rules |-> IF r \in selected THEN rule[r] ELSE "absent"],
                    suppressions |-> state[p].file]]
              /\ Goes(p, "truncatelock")

TruncateLock(p) ==
  /\ pc[p] = "truncatelock"
  /\ lock' = [NoLock EXCEPT !.state = "empty"]
  /\ Goes(p, "writelock")
  /\ UNCHANGED <<begun, disk, world, faults, locals>>

WriteLock(p) ==
  /\ pc[p] = "writelock"
  /\ \/ lock' = approved[p]
     \/ /\ lock.state # "empty" /\ lock # approved[p]
        /\ lock' = [NoLock EXCEPT !.state = "garbled"]
  /\ UNCHANGED <<begun, disk, world, faults, locals>>
  /\ Ends(p, "clean")

-----------------------------------------------------------------------------
(* What happens to a run and around it. *)
Crash(p) ==
  /\ InProgress(p)
  /\ faults < MaxFaults
  /\ faults' = faults + 1
  /\ UNCHANGED <<begun, disk, lock, world, locals>>
  /\ Ends(p, "killed")

EditCode(v) ==
  /\ edits < MaxEdits
  /\ edits' = edits + 1
  /\ PathOf[v] \in files
  /\ present' = IF v \in present THEN present \ {v} ELSE present \cup {v}
  /\ UNCHANGED <<begun, disk, lock, files, rule, faults, abandoned, pc, locals, exit>>

EditRule(r, status) ==
  /\ edits < MaxEdits
  /\ edits' = edits + 1
  /\ rule' = [rule EXCEPT ![r] = status]
  /\ UNCHANGED <<begun, disk, lock, present, files, faults, abandoned, pc, locals, exit>>

DeletePath(f) ==
  /\ edits < MaxEdits
  /\ edits' = edits + 1
  /\ f \in files
  /\ files' = files \ {f}
  /\ present' = {v \in present : PathOf[v] # f}
  /\ UNCHANGED <<begun, disk, lock, rule, faults, abandoned, pc, locals, exit>>

(* A user puts back a damaged file, for example from version control. *)
Restore ==
  /\ Damaged
  /\ disk' \in Restorable
  /\ abandoned' = FALSE
  /\ UNCHANGED <<begun, lock, world, faults, pc, locals, exit>>

Next ==
  \/ \E p \in Runs :
       \/ \E o \in Options : Begin(p, o)
       \/ ReadLock(p) \/ BuildSnapshot(p) \/ EvaluateRules(p) \/ ToolsFail(p)
       \/ Update(p) \/ Truncate(p) \/ WriteFile(p) \/ WriteFails(p) \/ Report(p)
       \/ HashRules(p) \/ TruncateLock(p) \/ WriteLock(p)
       \/ Crash(p)
  \/ \E v \in Violations : EditCode(v)
  \/ \E r \in Rules, status \in RuleStatus : EditRule(r, status)
  \/ \E f \in Paths : DeletePath(f)
  \/ Restore

Spec == Init /\ [][Next]_vars

-----------------------------------------------------------------------------
(* Every variable has a value of its kind; a file that some run has loaded *)
(* or computed is a suppressions file (suppressions.go:41-51).             *)
TypeOK ==
  /\ disk.state \in FileStates /\ IsFile(disk.content)
  /\ lock.state \in FileStates /\ lock.rules \in [Rules -> RuleStatus]
  /\ IsFile(lock.suppressions)
  /\ present \subseteq Violations /\ files \subseteq Paths
  /\ rule \in [Rules -> RuleStatus]
  /\ begun \in 0..MaxRuns /\ edits \in 0..MaxEdits /\ faults \in 0..MaxFaults /\ abandoned \in BOOLEAN
  /\ pc \in [Runs -> PCs] /\ opts \in [Runs -> Options] /\ exit \in [Runs -> Exits]
  /\ DOMAIN state = Runs /\ DOMAIN file = Runs /\ DOMAIN approved = Runs /\ DOMAIN run = Runs
  /\ \A p \in Runs :
       /\ IsFile(state[p].file) /\ state[p].exists \in BOOLEAN
       /\ IsFile(file[p])
       /\ IsFile(approved[p].suppressions)
       /\ run[p].found \subseteq run[p].raw /\ run[p].raw \subseteq Violations
       /\ run[p].evaluated \subseteq run[p].known
       /\ run[p].known \subseteq run[p].selected

(* Parse accepts what Record and Prune make of a file that Parse accepted: *)
(* no run writes a suppressions file or a lock that the next run refuses   *)
(* (suppressions.go:125-148, 414-470).                                     *)
EveryWriteIsReadable ==
  /\ disk.state = "whole" => Readable(disk.content)
  /\ lock.state = "whole" => Readable(lock.suppressions)
  /\ \A p \in Runs : pc[p] \in {"truncate", "write"} => Readable(file[p])

(* A rule whose file is there but that was not evaluated - it failed, or a *)
(* severity setting or a lock kept it from running - keeps its suppressions *)
(* in every update of the file (engine/suppressions.go:172-178).           *)
UnevaluatedRuleKeepsSuppressions ==
  \A p \in Runs :
    pc[p] \in {"truncate", "write", "report"} =>
      \A s \in DOMAIN state[p].file :
        s[2] \in run[p].selected \ run[p].evaluated =>
          s \in DOMAIN file[p] /\ file[p][s] = state[p].file[s]

(* Pruning hides exactly the violations that the file hid before, and a    *)
(* pruning run never fails for unused suppressions: what it leaves is used *)
(* (engine/suppressions.go:116-156, suppressions.go:401-443).              *)
PruneChangesNoReport ==
  \A p \in Runs :
    pc[p] = "done" /\ opts[p].mode = "prune" =>
      /\ exit[p] # "unused"
      /\ exit[p] \in {"clean", "violations", "rule error"} =>
           Suppressed(file[p], run[p].found) = Suppressed(state[p].file, run[p].found)

(* After --suppress-all no violation is left to report, and after          *)
(* --suppress-rule none of a named rule: the run is clean, has unused      *)
(* entries or a rule error, with or without a lock                         *)
(* (engine/suppressions.go:127-156).                                       *)
RecordLeavesNoViolation ==
  \A p \in Runs :
    pc[p] = "done" /\ exit[p] = "violations" =>
      /\ opts[p].mode # "all"
      /\ opts[p].mode = "rule" => \A v \in Reported(p) : RuleOf[v] \notin opts[p].named

(* Whatever the suppressions file says, a run with the lock that neither   *)
(* reports violations nor rule errors would report none with the locked    *)
(* suppressions alone (engine/suppressions.go:149-156, docs/trust.md).     *)
LockedSuppressionsSuffice ==
  \A p \in Runs :
    pc[p] = "done" /\ exit[p] \in {"clean", "unused"}
      /\ opts[p].lock /\ opts[p].mode # "lock" =>
      run[p].found \subseteq Suppressed(approved[p].suppressions, run[p].found)

(* Exit status 0 means that the file fits the code: in every slot that the *)
(* run covered, each counter equals the number of violations found, and no *)
(* violation is outside the file (cmd/lintai/main.go:270-313).             *)
CleanIsTight ==
  \A p \in Runs :
    pc[p] = "done" /\ exit[p] = "clean" /\ ~opts[p].pass /\ opts[p].mode # "lock" =>
      /\ \A v \in run[p].found : Slot(v) \in DOMAIN file[p]
      /\ \A s \in DOMAIN file[p] : Covers(Scope(p), s) =>
           /\ file[p][s].count = Cardinality(Group(run[p].found, s))
           /\ \A k \in Listed(file[p][s]) :
                file[p][s].entities[k] = Cardinality(OfKey(run[p].found, s, k))

(* A file that a killed or failed write has damaged is never recorded over *)
(* as if it were empty: all later runs refuse it until it is put back      *)
(* (suppressions.go:67-148).                                               *)
AbandonedDamageStays == abandoned => Damaged
=============================================================================
