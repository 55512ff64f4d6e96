---------------------------- MODULE LintaiPlugin ----------------------------
(***************************************************************************)
(* What the linter plugins share (packages/client/src/plugin.ts): a linter *)
(* rule for each rule of lintai, and lintai/analysis for everything else.  *)
(* The linter lints a file in one synchronous pass that calls the rules of *)
(* its config in any order.  The client is reduced to the answers that its *)
(* callers may get; LintaiClient has what is behind them.                  *)
(***************************************************************************)
EXTENDS Naturals, FiniteSets

CONSTANTS
  Files, Texts,
  Rules,                \* the ids that rules may have
  Analysis, Message,    \* the rule lintai/analysis; its message for an unsaved file
  Diagnostics,          \* what may be found in a file, as records of a rule and a kind
  Problems, LoadErrors, \* messages of the client, and of loading the rules
  Results,              \* what an analysis may find
  Nothing,              \* no text, no entry, no diagnostics
  MaxPasses             \* bound on the passes of the linter

Kinds == {"violation", "rule_execution_error", "unused_suppression"}

ASSUME PluginAssumption ==
  /\ Analysis \notin Rules
  /\ Diagnostics \subseteq [rule : Rules, kind : Kinds]
  /\ Results \subseteq [found : [Files -> SUBSET Diagnostics], problems : SUBSET Problems]
  /\ Nothing \notin Texts /\ \A d \in SUBSET Diagnostics : d # Nothing
  /\ \A t \in Texts, d \in {Nothing} \cup SUBSET Diagnostics : [text |-> t, diagnostics |-> d] # Nothing
  /\ Message \notin Problems \cup LoadErrors
  /\ Diagnostics \cap (Problems \cup LoadErrors \cup {Message}) = {}
  /\ MaxPasses \in Nat

VARIABLES
  mode, reportProblemsOnce,  \* options
  known, enabled,            \* the linter rules of the plugin; those the config turns on
  client,                    \* what the client has of the newest analysis
  problemsReported, loadErrorsReported,
  disk,                      \* the saved text of each file, Nothing when it cannot be read
  passCache,                 \* of each file an entry or Nothing
  inTask,                    \* whether a task of the event loop lints
  pass, reports,             \* the newest pass, and what has been reported in it
  passes,
  seen,                      \* history: what this task could have read so far
  analysed                   \* history: passes in which lintai/analysis read diagnostics

options == <<mode, reportProblemsOnce, known, enabled>>
vars == <<options, client, problemsReported, loadErrorsReported, disk, passCache, inTask, pass,
          reports, passes, seen, analysed>>

Unloaded == [found |-> [f \in Files |-> {}], problems |-> {}]
Readings == {Nothing} \cup SUBSET Diagnostics
NoPass == [file |-> Nothing, text |-> Nothing, todo |-> {}, read |-> FALSE, reading |-> Nothing]

Init ==
  /\ mode \in {"serve", "oneshot"} /\ reportProblemsOnce \in BOOLEAN
  /\ known \in SUBSET Rules /\ enabled \in SUBSET (known \cup {Analysis})
  /\ client = [loaded |-> FALSE, result |-> Unloaded]
  /\ problemsReported = FALSE /\ loadErrorsReported = FALSE
  /\ disk \in [Files -> Texts \cup {Nothing}]
  /\ passCache = [f \in Files |-> Nothing]
  /\ inTask = FALSE
  /\ pass = NoPass /\ reports = {}
  /\ passes = 0
  /\ seen = [found |-> [f \in Files |-> {}], disk |-> [f \in Files |-> {}]]
  /\ analysed = 0

-----------------------------------------------------------------------------
hasUnsavedChanges(f, t) == disk[f] \notin {t, Nothing}

(* In serve mode an analysis may end, or start, within any call; the       *)
(* result of one run of lintai stays until rules are edited.               *)
GetDiagnostics ==
  /\ client.loaded /\ mode = "oneshot" => UNCHANGED client
  /\ ~(client.loaded /\ mode = "oneshot") =>
       client' \in [loaded : {TRUE}, result : Results]

readDiagnostics(f, t, d) ==
  IF mode = "serve" /\ hasUnsavedChanges(f, t)
  THEN d = Nothing /\ UNCHANGED client
  ELSE GetDiagnostics /\ d = client'.result.found[f]

(* Mutant: the text of an entry is not compared. *)
CachedForFile(f, t) == passCache[f] # Nothing

Cached(f, t) == passCache[f] # Nothing /\ passCache[f].text = t

diagnosticsFor(f, t, d) ==
  \/ /\ Cached(f, t)
     /\ d = passCache[f].diagnostics
     /\ UNCHANGED <<client, passCache>>
  \/ /\ ~Cached(f, t)
     /\ readDiagnostics(f, t, d)
     /\ passCache' = [passCache EXCEPT ![f] = [text |-> t, diagnostics |-> d]]

Report(by, as, what) == [by |-> by, as |-> as, what |-> what]

(* A rule of the pass has read d and reports the reports in new. *)
Calls(rule, d, new) ==
  /\ pass' = [pass EXCEPT !.todo = @ \ {rule}, !.read = TRUE, !.reading = IF pass.read THEN @ ELSE d]
  /\ reports' = reports \cup new
  /\ seen' = [seen EXCEPT !.found = [f \in Files |-> @[f] \cup {client'.result.found[f]}]]
  /\ UNCHANGED <<options, disk, inTask, passes>>

OwnReports(id, d) ==
  {Report(id, "own", x) : x \in {x \in d : x.rule = id /\ x.kind = "violation"}}

lintRule(id) ==
  /\ id \in pass.todo
  /\ \E d \in Readings :
       /\ diagnosticsFor(pass.file, pass.text, d)
       /\ Calls(id, d, IF d = Nothing THEN {} ELSE OwnReports(id, d))
  /\ UNCHANGED <<problemsReported, loadErrorsReported, analysed>>

problems(result) == IF reportProblemsOnce /\ problemsReported THEN {} ELSE result.problems

loadErrors == IF reportProblemsOnce /\ loadErrorsReported THEN {} ELSE LoadErrors

RuleErrors(d) == {x \in d : x.kind # "violation"}

(* Mutant: rules that are off are taken for rules without a linter rule. *)
OrphansOfEnabled(d) == {x \in d : x.kind = "violation" /\ x.rule \notin enabled}

Orphans(d) == {x \in d : x.kind = "violation" /\ x.rule \notin known}

AnalysisReports(d, messages) ==
  {Report(Analysis, "problem", x) : x \in messages}
    \cup {Report(Analysis, "rule error", x) : x \in RuleErrors(d)}
    \cup {Report(Analysis, "orphan", x) : x \in Orphans(d)}

(* Mutant: the problems are asked for before the diagnostics are read. *)
lintAnalysisLate ==
  /\ Analysis \in pass.todo
  /\ \E d \in Readings :
       /\ diagnosticsFor(pass.file, pass.text, d)
       /\ IF d = Nothing
          THEN /\ Calls(Analysis, d, {Report(Analysis, "message", Message)})
               /\ UNCHANGED <<problemsReported, loadErrorsReported, analysed>>
          ELSE /\ Calls(Analysis, d, AnalysisReports(d, problems(client.result) \cup loadErrors))
               /\ problemsReported' = (problemsReported \/ reportProblemsOnce)
               /\ loadErrorsReported' = TRUE
               /\ analysed' = analysed + 1

lintAnalysis ==
  /\ Analysis \in pass.todo
  /\ \E d \in Readings :
       /\ diagnosticsFor(pass.file, pass.text, d)
       /\ IF d = Nothing
          THEN /\ Calls(Analysis, d, {Report(Analysis, "message", Message)})
               /\ UNCHANGED <<problemsReported, loadErrorsReported, analysed>>
          ELSE /\ Calls(Analysis, d, AnalysisReports(d, problems(client'.result) \cup loadErrors))
               /\ problemsReported' = (problemsReported \/ reportProblemsOnce)
               /\ loadErrorsReported' = TRUE
               /\ analysed' = analysed + 1

-----------------------------------------------------------------------------
(* The linter, and the world around it. *)
StartTask ==
  IF inTask THEN UNCHANGED seen
  ELSE seen' = [found |-> [f \in Files |-> {client.result.found[f]}], disk |-> [f \in Files |-> {disk[f]}]]

(* Mutant: rules that the config turns off run as well. *)
LintEvery(f, t) ==
  /\ pass.todo = {} /\ passes < MaxPasses
  /\ passes' = passes + 1
  /\ pass' = [file |-> f, text |-> t, todo |-> known \cup {Analysis}, read |-> FALSE, reading |-> Nothing]
  /\ reports' = {}
  /\ StartTask /\ inTask' = TRUE
  /\ UNCHANGED <<options, client, problemsReported, loadErrorsReported, disk, passCache, analysed>>

Lint(f, t) ==
  /\ pass.todo = {} /\ passes < MaxPasses
  /\ passes' = passes + 1
  /\ pass' = [file |-> f, text |-> t, todo |-> enabled, read |-> FALSE, reading |-> Nothing]
  /\ reports' = {}
  /\ StartTask /\ inTask' = TRUE
  /\ UNCHANGED <<options, client, problemsReported, loadErrorsReported, disk, passCache, analysed>>

(* The microtask that clears the cache runs when the task has ended. *)
ClearCache ==
  /\ inTask /\ pass.todo = {}
  /\ inTask' = FALSE
  /\ passCache' = [f \in Files |-> Nothing]
  /\ UNCHANGED <<options, client, problemsReported, loadErrorsReported, disk, pass, reports, passes,
                 seen, analysed>>

(* Rules are edited, or in serve mode a refresh ends. *)
ClientEvent ==
  /\ ~inTask /\ client.loaded
  /\ \/ client' = [loaded |-> FALSE, result |-> Unloaded]
     \/ mode = "serve" /\ client' \in [loaded : {TRUE}, result : Results]
  /\ UNCHANGED <<options, problemsReported, loadErrorsReported, disk, passCache, inTask, pass,
                 reports, passes, seen, analysed>>

DiskChanges(f, t) ==
  /\ t # disk[f]
  /\ disk' = [disk EXCEPT ![f] = t]
  /\ seen' = [seen EXCEPT !.disk[f] = @ \cup {t}]
  /\ UNCHANGED <<options, client, problemsReported, loadErrorsReported, passCache, inTask, pass,
                 reports, passes, analysed>>

Next ==
  \/ \E id \in Rules : lintRule(id)
  \/ lintAnalysis
  \/ \E f \in Files, t \in Texts : Lint(f, t)
  \/ ClearCache \/ ClientEvent
  \/ \E f \in Files, t \in Texts \cup {Nothing} : DiskChanges(f, t)

Spec == Init /\ [][Next]_vars

-----------------------------------------------------------------------------
(* Every variable has a value of its kind. *)
TypeOK ==
  /\ mode \in {"serve", "oneshot"} /\ reportProblemsOnce \in BOOLEAN
  /\ known \subseteq Rules /\ enabled \subseteq known \cup {Analysis}
  /\ client \in [loaded : BOOLEAN, result : Results \cup {Unloaded}]
  /\ problemsReported \in BOOLEAN /\ loadErrorsReported \in BOOLEAN
  /\ disk \in [Files -> Texts \cup {Nothing}]
  /\ passCache \in [Files -> {Nothing} \cup [text : Texts, diagnostics : Readings]]
  /\ inTask \in BOOLEAN
  /\ pass \in [file : {Nothing} \cup Files, text : {Nothing} \cup Texts, todo : SUBSET enabled,
              read : BOOLEAN, reading : Readings]
  /\ reports \subseteq [by : Rules \cup {Analysis},
                       as : {"own", "problem", "rule error", "orphan", "message"},
                       what : Diagnostics \cup Problems \cup LoadErrors \cup {Message}]
  /\ passes \in 0..MaxPasses /\ analysed \in 0..MaxPasses
  /\ seen \in [found : [Files -> SUBSET SUBSET Diagnostics], disk : [Files -> SUBSET (Texts \cup {Nothing})]]

Passed == pass.read /\ pass.todo = {}

(* The rules of a pass share out one reading: each diagnostic is reported  *)
(* once, by its own rule or by lintai/analysis, unless that one is off,    *)
(* though the file is saved and the client reads on while they run         *)
(* (plugin.ts:107-132, 141-146, 165-178).                                  *)
Reporter(x) == IF x.kind = "violation" /\ x.rule \in known THEN x.rule ELSE Analysis

ReportedOnce ==
  Passed =>
    /\ \A x \in Diagnostics :
         Cardinality({r \in reports : r.what = x})
           = IF pass.reading # Nothing /\ x \in pass.reading /\ Reporter(x) \in enabled THEN 1 ELSE 0
    /\ (\E r \in reports : r.what = Message) <=> pass.reading = Nothing /\ Analysis \in enabled

(* A pass shows what the client had, and a text that was saved, at a time  *)
(* in the task that it runs in, and never an older entry of the cache or   *)
(* the entry of another text (plugin.ts:104-131, reports.ts:8-20).         *)
ReadingIsCurrent ==
  Passed =>
    IF pass.reading = Nothing
    THEN mode = "serve" /\ seen.disk[pass.file] \ {pass.text, Nothing} # {}
    ELSE /\ pass.reading \in seen.found[pass.file]
         /\ mode = "serve" => seen.disk[pass.file] \cap {pass.text, Nothing} # {}

(* Every pass shows the problems that the client has by then, in an editor *)
(* again and again, on a command line in the first pass that has           *)
(* diagnostics and in no other (plugin.ts:157-164, client.ts:279-310).     *)
ProblemsAreShown ==
  Passed /\ inTask /\ Analysis \in enabled /\ pass.reading # Nothing =>
    {r.what : r \in {r \in reports : r.as = "problem"}}
      = IF reportProblemsOnce /\ analysed > 1 THEN {} ELSE client.result.problems \cup LoadErrors
=============================================================================
