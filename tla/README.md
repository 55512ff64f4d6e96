# A TLA+ model of lintai

lintai checks a TypeScript workspace with rules written in TypeScript and Mangle (Datalog).
Linter plugins (ESLint, Oxlint) ask a client object for the diagnostics of one file at a time;
the client talks to a `lintai serve` process, or runs `lintai --json` once; the binary loads the
rules, extracts facts from the workspace, evaluates the rules, applies suppressions and answers.

This directory holds the model of that system, the TLC runs that check it and the proofs about
it. Paths are relative to the repository root.

## The system

| component | code | state it keeps | operations |
|---|---|---|---|
| client object | `packages/client/src/client.ts` | life-cycle state, serve process, table of pending requests, diagnostics with the time of their analysis, epoch of the rule files, rule timer, oneshot cache, failures | `getDiagnostics`, `problems`, `refresh`, `dispose`, handlers of output, exit, watcher and timer |
| linter adapters | `plugin.ts`, `reports.ts`, the two plugins | per file: which rule reports what | one pass per file |
| spawner process | `spawner.ts`, `spawner-child.ts`, `frames.ts` | channels, decoder buffer | run, start, write, end, kill, blocking reads |
| serve protocol | `server/server.go`, `jsonrpc/` | options, last analysis and whether it is valid | initialize, reanalyze, diagnostics/file, shutdown |
| engine | `engine/engine.go`, `rules.go`, `internal/analysis` | none between analyses | analyse: load rules, build snapshot, prepare, facts, evaluate, suppress |
| rules lock | `engine/lock.go`, `packages/client/scripts` | the lock file | check, write, bundle and hash |
| suppressions | `suppressions/suppressions.go`, `engine/suppressions.go` | the suppressions file | load, apply, prune, record, limit, write |
| Mangle programs | `engine/program.go`, `prelude.mg`, `schema.mg` | none | prune, check, evaluate |
| TypeScript backend | `backend/typescript` | none | snapshot: list, extract, hash, read facts |
| bundles, sandbox, runtime | `bundle/`, `runtime/` | cached bundles | bundle, prepare in a sandbox, evaluate |
| command line | `cmd/lintai/main.go` | none | flags, output, exit status |
| the rest | `facts`, `diagnostics`, `internal/{workspace,canonical,ambient}`, `packages/{sdk,authoring-rules,lintai}`, `scripts` | none | data types, paths, packaging |
| compiler | `internal/tsgo` | vendored | - |

How they interact: a plugin calls the client synchronously, once per rule and file. The client
writes JSON-RPC frames to the serve process and *blocks the JavaScript thread* reading the answer
for the analyses a lint cannot do without; an analysis that is only a refresh is a promise. The
process answers its requests in order, reading the workspace and the rule files anew for each
analysis. In Oxlint the client's processes are children of the spawner process and their pipes
are multiplexed. Two runs share nothing but files: the workspace, the rules, the lock and the
suppressions file.

What is hard: the client is a state machine with seven sources of steps (calls, responses, exits,
write errors, file events, the timer, dispose), several processes when it restarts one, and two
clocks (its own and the file system's). A response may come after its request stopped to matter.
Parts can fail one at a time: a spawn, a request, a whole process, the oneshot run. `PROJECT.json`
lists the hazards line by line, with the properties that cover each or the reason why none does.

What makes each component correct: the client never shows diagnostics older than a rule change it
knows of, or than a save before the lint; never hides a failure; always returns; leaks no process.
The adapters report each diagnostic once. The spawner loses, reorders and mixes nothing. The
server never answers from a failed analysis. The engine isolates rule failures. A rule derives from
the part of the prelude that it reads what it would derive from all of it. Suppressions hide what
they name, as often as they say, and nothing else. A lock admits the bundles it was made of.

## Modules

`LintaiClient` models `LintAIClient` with the serve processes it starts and the world they read.

- **Control.** JavaScript runs one thing at a time, so the model has one call in progress: `pc`
  says where `getDiagnostics` is, `call` holds its locals. While `pc # "idle"` no event or handler
  runs, but the processes answer, exit or die and files change. `microtasks` holds settled promises
  whose handlers run after the call and before any event. A method that does not wait is part of
  the action that calls it (`SetDiagnostics`, `HandleServeFailure`, `ApplyRuleInvalidation`);
  a method that waits for a response is split there (`RequestSync` sends, `SyncRead` reads a frame,
  `InitializeDone`, `RuleChangedFailed` and so on are what follows).
- **State.** The variables of the first group are the fields of the class under their own names
  (shortened: `attached`, `timer`, `analyzedAt`, `lastRequestAt`, `savedAnalyzed`). `diagnostics`
  stands for `diagnosticsByFile` and `unlocated`: not their text but *what the analysis read*, the
  version of the rule files and of every file. The two failure messages are Booleans.
- **Processes.** `proc` is the life of each process (unborn, running, ending when its input has been
  ended, exited, reaped when its exit event was handled); `stdin` and `stdout` are its pipes. A
  process answers its requests in order (`ServeAnswers`); the answer is made of what the world is at
  one instant, and the pipe delays it.
- **World.** The clock, the content and modification time of each file, the version of the rule
  files, and the pending watcher event.
- **Faults** are actions or outcomes with a budget: a spawn that throws, a response that is an
  error, output that cannot be parsed, a timeout, a crash, a failing oneshot run.
- **History.** `appliedRules` is the rule version at the last invalidation; nothing reads it.

`MCLintaiClient` gives the constants values for TLC. `LintaiClientProofs` and
`LintaiClientLintProofs` hold the theorems. The operators marked "Mutant" in `LintaiClient` are
plausible bugs; each one makes a property fail.

Simplifications of `LintaiClient`, and why the properties do not see them: a chunk of output is a whole frame
(partial frames only make `handleStdout` wait; mixing chunks of two processes is left out); a
timeout is a fault and does not advance the clock by 60 seconds (no property
compares that interval); a save is at least a clock tick later than any earlier event, so "saved
before the analysis" is never a tie; modification times exist (a missing file has no diagnostics);
the shutdown request of `dispose` is left out, ending the input has the same effect; `problems()`
with `reportProblemsOnce` is in `LintaiPlugin`; `refresh()` called by a host, failing watchers and
option resolution are not modelled. No behaviour reaches the branch of `RefreshInvalidated` without
a process: that is what `LiveStateHasChild` says.

`ServeContract` is what a client may rely on when it writes requests to a serve process, with no
loop, no fields and no pipes in it: a sequence of requests without answers, a sequence of answers,
the params of the newest `initialize` and what the newest analysis saw. `LintaiServer` is the
process: `Server.Serve` of `server/server.go` over `jsonrpc/jsonrpc.go`.

- **Control.** `pc` is the loop: read a request, analyse, respond, ended. What handling a request
  does at once is part of `ReadRequest`; `initialize` and `reanalyze` stop at `engine.Analyze`,
  during which the workspace changes, more input comes and the pipes close.
- **State.** `options`, `initialized`, `analysisValid` and `diagnostics` are the fields of `Server`
  (`diagnostics` stands for the result with its index by file). An analysis is the options it ran
  with and the version of the workspace it saw.
- **Input.** Every method with params that it accepts, that it does not, or that are absent; with an
  id or without; with another `jsonrpc` version; and frames that are no request. The input ends
  after a frame or inside one, where `ReadRequest` reports a clean end or an error depending on the
  byte; the output breaks at any time, and only a response that is written notices.
- **History.** `asked` are the ids of the frames written so far; nothing reads it. It lets
  `OneResponseInOrder` say that each of them is answered or still waits, not only that no response
  is doubled.
- **Refinement.** `ImplementsContract` maps `requests` to what is not handled yet (the input with
  the request under analysis, `Unhandled`) and `answers` to the output with the response being
  written (`Answered`), `params` to `options` and `latest` to `diagnostics`. The part of the
  contract that the client uses is what `LintaiClient` has as its processes: `ServeAnswers` takes
  the first request and answers it with the world of one instant, `ServeExits` and `ServeCrashes`
  end it.

`SpawnedProcess` is what a host sees of a process: its output in order, all of it before the exit
is told; only when what carries the output is broken may the rest be lost, and then the host is
told. `Spawner` has both ends of the spawner: the class of `spawner.ts` in the host and the process
of `spawner-child.ts`, with two pipes of frames.

- **Control.** The host is one thread. While `host` is `"reading"` or `"running"` (`readSync`,
  `spawnSync`) no event runs, and the read takes frames with the same decoder as the data event:
  each frame has two parts (`DecodeHalf`, `Receive`), so that a read may begin in the middle of a
  frame that an event left. A call that finds the spawner dead fails all the channels (`Fails`).
- **State.** `channels` and the fields of each channel keep their names; `results` waits for
  `spawnSync`. A chunk of output is its number, so that loss, mixing and reordering show.
- **Ends.** The spawner process dies at any time, with any part of its output unread; the host dies
  at any time, and the spawner then stops its processes, at the end of its input and, should a write
  fail earlier, then too (`StopAll` twice). A process that cannot be started is one that has exited
  without output.
- **Refinement.** `ImplementsContract` is `SpawnedProcess` for every process: `told` is the emitted
  exit of a channel or what `spawnSync` returned.

`LintaiPlugin` is what the plugins share (`plugin.ts`, `reports.ts`): a pass over a file calls the
enabled rules in any order, each calls `diagnosticsFor`, which looks into the cache of passes or
asks the client; a microtask clears the cache after the task (`ClearCache`), and one task may lint
several files. The client is reduced to the answers it may give: in serve mode an analysis may end
within any call, on the command line one run's result stays until the rules change. `known` are
the rules loaded when the linter started, `enabled` those of its configuration. `seen` and
`analysed` are history. Which rules a diagnostic belongs to is what the reports are about, so a
diagnostic is a rule and a kind.

`LintaiProgram` is the evaluation of one rule (`evaluateProgram` in `engine/program.go`): the checks on
what a rule may define, `preludeFor`, the analysis and the strata, the evaluation with its fact limit,
and the report. A program is the set of the ground instances of its clauses, over atoms that have a
symbol; the code prunes by symbol, and so does the model. Aggregations (transforms of a clause) are not
instances of this kind, and what is shown is about programs without them. The loop of `preludeFor` is
one action per turn (`Visit`), the evaluation one per stratum (`Evaluate`). What the library does is
stated by what it is for: `Analyze` takes any stratification there is, and `Evaluate` adds the least set
that is closed under the clauses of a stratum (`Least`), whatever the order in which the library finds
it. `glob` and its negation are external predicates: their facts, like those of a base relation, are
given.

`Suppressions` is the suppressions file as a value: a function from slots (a file with a rule) to
entries (a count, and perhaps a count for each entity), and the functions of
`suppressions/suppressions.go` on it: what `Parse` accepts (`Readable`), `Apply` (`Suppressed`,
`Unused`), `Record`, `Prune` and `Limit`. A violation is an element of a set with a slot and a key;
only candidates of `IsCandidate` are violations here. The loops of the code over unused entries,
each of which adds the count up again, are one function of the entry (`LoweredEntry`), because what
one turn of the loop does to an entity no other turn reads. The sum of the counts of entities (`Total`) is
the cardinality of a set of pairs: a number that a proof can compare with a number of violations
without following the loop that adds it up. `SuppressionsProofs` has what the functions promise.

`LintaiRun` models runs of the command line (`runOnce`, `runLock`) that share a workspace.

- **Control.** `pc` says where a run is; a step ends where the code touches something shared: the
  load of the suppressions file (`Begin`), the lock (`ReadLock`), the source files
  (`BuildSnapshot`), the rule files (`EvaluateRules`), the workspace again (`Update`, which asks
  which files exist) and the two halves of `os.WriteFile` (`Truncate`, `WriteFile`). `Report`
  limits, applies and gives the exit status. `lintai lock` is `Begin`, `HashRules`, `TruncateLock`,
  `WriteLock`.
- **State.** `disk` and `lock` are the two files: missing, empty, garbled or whole, with their
  content. A run has its command line (`opts`), what it loaded (`state`, as `suppressionsState`),
  the file it goes on with (`file`), the lock it read (`approved`), and `run`, which is `runInfo`
  with the diagnostics: `raw` is what the rules would find, `found` what the evaluated ones did.
- **Rules.** A rule is its status: whether it bundles, fails in `setup()`, has an invalid id, fails
  in its program or runs. `Evaluation` gives for each status, severity and lock what `analyze` puts
  into the errors, the known and the evaluated rules. The status is also its content, so a lock that
  stores it stands for one that stores a hash.
- **World.** Between two steps the code, the rules and the files change (`EditCode`, `EditRule`,
  `DeletePath`), other runs step, a run is killed (`Crash`) or a write fails (`WriteFails`), and a
  user puts a damaged file back (`Restore`).
- **History.** `abandoned` says that a damaged file was left with no run in progress; nothing
  reads it.
- **Files.** `InitialAssumption` says what a disk and a lock may be at the start: garbled, or with a
  content that `Parse` accepts (`IsDisk`, `IsLock`). A content that it refuses *is* a garbled file.

Simplifications of `LintaiRun`: `--rules` is a set of rules that counts as one glob, and the default is
all of them; duplicate ids of two rules are an invalid id of one; a write that lands in a file which
another run has written since leaves the one's text or something that is no JSON; the file lists of
`--exclude` and `--files` are a set. `--rules ""` (`engine.go:173-176`), with which a run goes on
without a rule, finds nothing and checks no rule against the lock, is not a command line of the model,
and an error of `BuildSnapshot`, which ends a run before it updates anything, is left out. When the
tools fail, the integrity failures of rules that were removed are not among the errors; the run ends
with a rule error all the same. `MCLintaiRun` has the three workspaces for TLC, and `LintaiRunProofs`
the theorems.

## Runs

| run | question | bounds |
|---|---|---|
| `client_faults` | nothing older than an applied rule change is shown; a saved file is linted with an analysis of that version; no process leaks; falling back settles every request; a failure is reported; a lint waits only for a response that can come, and each of its steps brings it nearer to its return | 2 files, 2 saves each, 1 rule edit, 2 faults of any kinds, 3 processes, both modes, modification times in whole seconds of three ticks |
| `client_live` | calls return, rule edits arrive, refreshes settle | 1 file, 1 rule edit, 1 fault of any kind, both modes |
| `client_exit`, `client_overwrite`, `client_silent`, `client_problem` | what a comment, a message or a document says and the code does not do | smallest that show it |
| `run_counts` | pruning hides what was hidden; recording leaves nothing to report; the locked suppressions suffice; a clean run is tight; what is written can be read; a damaged file is refused until it is put back | 1 file, 1 rule, every subset of 4 violations (2 keys and an empty one), all 11 small suppressions files and locks, 2 runs in every mode, one after the other or at a time, 1 crash or failing write |
| `run_rules` | a rule that was not evaluated keeps its suppressions | 2 files, 2 rules in every status, all severities, partial scopes, a lock, 1 run with 1 edit and 1 fault |
| `server` | the server implements `ServeContract`; a file is answered from the newest analysis; one response per request, in order; a request is answered or the process ends; the end of input ends it | 3 requests of every kind, one unread at a time, 2 configurations, 1 change of the workspace |
| `spawner` | the spawner implements `SpawnedProcess`; output and exits arrive; runs return; orphans end | 2 processes, one of which writes nothing, and 1 run; 3 chunks and calls together |
| `plugin` | each diagnostic is reported once; a pass shows what was current in its task; problems are shown, once or always | 2 files, 2 texts, 2 rules, 4 diagnostics, 3 results of an analysis, 2 passes, every configuration |
| `program` | a rule ends with the pruned prelude as with the whole one; it derives only what it reads; the evaluation ends | 8 predicates, 9 atoms, a prelude of 4 clauses, every program of at most 2 of 6 clauses with every report and expectation, every set of base facts, every stratification |

**Bounds.** Every restart needs a fault, so `MaxProcs = MaxFaults + 1` processes are all the client
can start. One rule edit makes one epoch, and a restart in it a second process that reads the rules
anew. `MaxTime` leaves a tick after each save plus the idle gap of a
background refresh. Two files are needed because a lint of one renews the diagnostics of the other;
no property tells them apart, nor does the code, so they are symmetric. The constraint
`SavesOrFaults` of `client_faults` leaves out behaviours that have both many saves and many faults:
it explores two saves of both files over seven ticks with at most one fault, no rule edit and no
restart, and, within five ticks, one save of one file with a rule edit, restarts and every pair of
faults. All
runs of the client check for deadlock: `GetDiagnostics` is possible whenever no call is in progress.

In the runs of `LintaiRun` counts go up to 3 or 4, enough for a count of zero, at its limit and
beyond it, with one and with two entities of a slot; slots do not interact but through the scope of
a run, so two files and two rules show every case of the scope. Two runs one after the other let one
load what the other wrote; two at a time mix the steps of their writes, and as an operating system
serialises the steps, a pair is all it takes. `CountConstraint` keeps concurrency and faults to the
command lines that write. These runs do not check for deadlock: a program that has ended stays so, and
`MaxRuns` bounds how often it is started.

Three requests are what it takes to have an analysis, one that replaces or invalidates it, and a
question after that; the loop handles one request at a time, so a longer queue only waits, and
`LintaiServerProofs` has no bound on it. In the spawner two processes share the pipes, which is where
mixing would happen; that one of them writes nothing still leaves its exit among the other's output. The
constraint of that run cuts only steps that no fairness asks for (writes and calls of a host that is
idle), so that the liveness properties mean the same with it. In the plugin the second pass may lint the
same file or another, in the same task or a later one; a command line never reads the saved text, so it
gets no choice of one. The prelude of `program` has what `prelude.mg` has: a negated premise and a
predicate that depends on itself; the second clause of a rule may use the first one's predicate,
positively or negated, and may try to define a predicate of the prelude. `FactLimit` is 3, so that a
rule stays below it or goes beyond it with what it reads. The runs of `server`, `spawner`, `plugin` and
`program` do not check for deadlock: a server whose input has ended, a dead host, a linter that has made
its passes and an evaluation that has ended stop.

**Fairness** (`FairSpec`). Calls keep coming and run to their ends (weak fairness: nothing disables
a call in progress). Event handlers get strong fairness, because each lint disables them while it
runs: it says that a linter leaves the event loop its turns again and again, and that the loop, a
set of queues, starves nothing that is ready. A process answers and, at the end of its input,
exits. No fault, save, edit or dispose is ever forced; nor is `WriteError`, because a process that
dies is noticed by its exit as well. The server's loop runs on (weak fairness of `Serve`): its
process is scheduled and an analysis ends. In `Spawner` the two event loops run on, each as a whole,
and a process ends when it is told to, as a run does by itself; that a host writes, calls or dies is
never forced. In `LintaiProgram` the one thread of an evaluation runs on.

**What the passing runs leave open on purpose.** `LintIsFresh` excepts a file whose last save got
the modification time of the one before: `docs/install.md:170` documents it.
`SilentOnlyBeforeInvalidation` excepts lints made while a rule change waits for its timer, and
`BrokenSetupIsNotSilent` shows that these really are silent. `ReadingIsCurrent` lets the rules of one
task see what was current at any time in it: that is what the cache of a pass is for.

### Disagreements found

- `UnexpectedExitIsOfChild`: the exit listener (`client.ts:405`) does not look whose exit it is.
  After a restart the old process, told to stop, exits, and the client drops the new one for good.
- `NewerAnalysisIsKept`: `isOutdated` uses a strict `<` on milliseconds, so a background result
  replaces a newer one that started in the same millisecond.
- `BrokenSetupIsNotSilent`: a restart while a rule change waits for its timer leaves the client
  "invalidated" inside a lint, which then shows nothing and reports no problem.
- `ServeFailureIsTrue`: unparsable output during the reanalysis for a rule change sets `serveFailure`
  and falls back; the catch starts a process all the same, and the message stays for ever.

## Proofs

For every number of files, processes, edits, faults and ticks, for every set of rules,
violations, command lines and runs, for every number of requests, channels, chunks and passes, and
for every prelude and program. Assumptions: the named `ASSUME`s of `LintaiClient` (bounds are
naturals, modes are the two the code knows, a second and the file system's resolution are at least
one tick, and modification times are exact or in whole seconds, the two cases that
`savedSinceAnalysis` knows), of `Suppressions` (violations are finitely many and have a slot and a key) and of
`LintaiRun` (what a command line is, bounds, the kinds of the initial code, rules, files and locks;
`IsDisk` and `IsLock` say of the files no more than `Parse` decides), and those of
`LintaiServer`, `Spawner`, `LintaiPlugin` and `LintaiProgram`, which say only that sets are disjoint,
that a marker such as `Nothing` is no value, and that the heads of prelude clauses are declared.

| theorem | module | says |
|---|---|---|
| `ClientTypeCorrect` | `LintaiClientProofs` | `Spec => []TypeOK` |
| `LiveStateAlwaysHasChild` | `LintaiClientProofs` | `Spec => []LiveStateHasChild` |
| `NothingLeaks` | `LintaiClientProofs` | `Spec => []NoLeakedServe` |
| `FallbackAlwaysSettles` | `LintaiClientProofs` | `Spec => []FallbackSettlesRequests` |
| `AnswersAreOnTheirWay` | `LintaiClientProofs` | `Spec => []AnswerIsOnItsWay` |
| `CallsAlwaysGoForward` | `LintaiClientProofs` | `Spec => CallsGoForward` |
| `RulesAreNeverStale` | `LintaiClientLintProofs` | `Spec => []RulesNeverStale` |
| `SilentLintIsBeforeInvalidation` | `LintaiClientLintProofs` | `Spec => SilentOnlyBeforeInvalidation` |
| `LintIsAlwaysFresh` | `LintaiClientLintProofs` | `Spec => LintIsFresh` |
| `RecordIsGood`, `PruneIsGood` | `SuppressionsProofs` | `Record` and `Prune` make files that `Parse` accepts |
| `PruneHidesTheSame` | `SuppressionsProofs` | a pruned file hides what the file hid |
| `PruneLeavesNothingUnused` | `SuppressionsProofs` | what pruning leaves is used |
| `WithinTheLockIsLocked` | `SuppressionsProofs` | what a file within the lock hides, the locked one hides |
| `UsedFileIsTight` | `SuppressionsProofs` | a file that hides everything, with nothing unused, counts exactly |
| `RunTypes` | `LintaiRunProofs` | `Spec => [](TypeOK /\ FilesInv)`: types, and every file loaded, computed or stored is one that `Parse` accepts |
| `UnevaluatedRulesKeepTheirs` | `LintaiRunProofs` | `Spec => []UnevaluatedRuleKeepsSuppressions` |
| `RecordingLeavesNoViolation` | `LintaiRunProofs` | `Spec => []RecordLeavesNoViolation` |
| `PruningChangesNoReport` | `LintaiRunProofs` | `Spec => []PruneChangesNoReport` |
| `LockedSuppressionsAlwaysSuffice` | `LintaiRunProofs` | `Spec => []LockedSuppressionsSuffice` |
| `CleanIsAlwaysTight` | `LintaiRunProofs` | `Spec => []CleanIsTight` |
| `WritesAreReadable` | `LintaiRunProofs` | `Spec => []EveryWriteIsReadable` |
| `DamageStays` | `LintaiRunProofs` | `Spec => []AbandonedDamageStays` |
| `ServerTypeCorrect` | `LintaiServerProofs` | `Spec => []TypeOK` |
| `FilesAreNewest` | `LintaiServerProofs` | `Spec => []FileAnswersAreNewest` |
| `ResponsesAreInOrder` | `LintaiServerProofs` | `Spec => []OneResponseInOrder` |
| `ServerImplementsContract` | `LintaiServerProofs` | `Spec => ImplementsContract` |
| `SpawnerTypeCorrect` | `SpawnerProofs` | `Spec => []TypeOK` |
| `NothingWaits` | `SpawnerProofs` | `Spec => []WaitingIsScheduled` |
| `SpawnerImplementsContract` | `SpawnerProofs` | `Spec => ImplementsContract` |
| `PluginTypeCorrect` | `LintaiPluginProofs` | `Spec => []TypeOK` |
| `OneReporter` | `LintaiPluginProofs` | `Spec => []ReportedOnce` |
| `PassesAreCurrent` | `LintaiPluginProofs` | `Spec => []ReadingIsCurrent` |
| `ProblemsShown` | `LintaiPluginProofs` | `Spec => []ProblemsAreShown` |
| `ProgramTypeCorrect` | `LintaiProgramProofs` | `Spec => []TypeOK` |
| `PruningIsUnseen` | `LintaiProgramProofs` | `Spec => []EndsAsWhole` |
| `OnlyReadIsDerived` | `LintaiProgramProofs` | `Spec => []DerivesOnlyWhatIsRead` |
| `AlwaysNearer` | `LintaiProgramProofs` | `Spec => StepsComeNearer` |
| `StratifiedHasOneModel` | `LintaiProgramProofs` | a stratified program has exactly one model |
| `DoneRulesShowTheModel` | `LintaiProgramProofs` | a rule that is done shows the rows of that model |
| `StrataHaveResults` | `LintaiProgramProofs` | no evaluation is stuck in a stratum |

*The invariant.* `Inv` is `TypeOK` with `CallInv`, which says which state and which process go with
each point of a call. None of its parts is inductive alone: that a ready client has a process needs
that a response which has arrived finds the client in the state in which it was asked for, which
needs that a client about to start a process has none, and so on. One lemma per action proves that
it is kept, with one step per part; `HandleServeFailure` and `ReadFrame`, shared by several
actions, have lemmas of their own. `NothingLeaks` then is inductive relative to `Inv`;
`FallbackAlwaysSettles` needs that an idle client has no request either.

*Calls return.* That a lint returns (`LintReturns`) is liveness; what is proved is what makes it
true. `AnswerIsOnItsWay`: the id that a call waits for is in the input or the output of the process in
use, which has not been told to stop, so that the wait ends with a frame, with the end of the output
or with the time limit. It needs that what a client drops is never in use again (`ChildInv`) and that
a read which takes a frame takes either that answer or one before it (`ReadFrameWaits`).
`CallsGoForward`: the method a call is in (`Stage`) and what it has to read (`Unread`) go down with
every step of the call, and nothing else that happens raises them. A failed reanalysis restarts the
process and goes on behind the place where it was asked for, so that a lint starts at most two
processes and makes at most four requests, whatever fails.

*Stale rules.* `RulesNeverStale` says nothing of responses in flight, which is where stale rules
are. `RulesInv` adds: ids and epochs come from counters; a frame in a pipe whose response would be
*usable* (its request is pending in the current epoch, or a call waits for it) was made with rules at
least as new as the last applied change; so were the results in the microtasks of the current epoch
and in the local of a waiting call. A new request gets an id that no frame has (`SendStep`); an
invalidation starts an epoch of which no request is, at a moment when no call waits
(`TimerFiresRules`); steps that do none of this satisfy `CalmStep`.

*What lints show.* Both action properties are about the step in which a call returns, and that is one
of five (`ReturningSteps`); what they claim was settled by steps before it. `SilentInv` says that a
ready client has an analysis or a failure to show, that a oneshot result without content goes with its
failure, that an analysis for a saved file which gave serving up has told so, and that a client can
be "invalidated" behind the refresh of a call only with the timer set. `LintIsFresh` compares
rounded times: the state has the modification time of the last save and the ticks of requests, not
the tick of the save. `FreshInv` says that there are such ticks, one for each file, within one step
of the file system's resolution above the modification time, and states over them what the argument
needs: a response includes every save made by the time its request was sent (`Includes`), wherever
it is - in a pipe, in a microtask, in the call, in the diagnostics; analyses replace older ones only
(`AnalysisTimes`); and a modification time that is noted as analysed belongs to a save that the last
analysis, or the request in progress, includes, unless the file was stamped twice with it
(`StampsAnalyzed`). A save takes a new tick, later than every request (`SaveLint`), and rounding
down is monotonic (`RoundDownIsLast`), so that the new time is not one that was noted before. When
`savedSinceAnalysis` passes over a file, its last save is then before the analysis: by the margin if
times are whole seconds, strictly if they are exact (`UnchangedIsAnalyzed`).

*The suppressions file.* Its functions compare sums of counts with numbers of violations. With
`Total` a cardinality no induction is needed: the violations of a slot, each with its key and its
number among those of the key, are pairs, so that there are at most as many violations as the counts
add up to, and as many when each count is exact (`GroupFits`). `PruneHidesTheSame` and
`UsedFileIsTight` follow entry by entry, and within an entry key by key. `WithinTheLockIsLocked` needs that `Limit` compares an entry with entities key by key, and
with its count only when the lock has no entities.

*Runs.* The invariant of `LintaiRunProofs` says what each point of a run has established: the
functions have the runs as domain (`Shape`); the files on the disk, in the lock and in a run are ones
that `Parse` accepts (`FilesInv`), which the updates keep by `RecordIsGood` and `PruneIsGood`; what
`run` holds after the evaluation - evaluated rules found every violation that is left, and without
rule errors every selected rule is known (`Evaluated`); the file a run goes on with is the one it
loaded until the update (`Loaded`); the update kept the suppressions of rules that were not evaluated
(`Kept`), and recorded what it found (`Recorded`); and what an ended run reports follows, for each
outcome: after recording no violation is left, after pruning nothing changed and nothing is unused,
with a lock the locked file would do, and a clean end is a tight one (`Done`). That rules keep their
suppressions rests on two lemmas about the operators: `Record` touches only slots with a violation
found, which an unevaluated rule has none of, and `Prune` only slots whose rule the scope covers, where
an unevaluated rule that is known is not covered and one that is not known has stopped the update by
its error. Recording rests on: the entry `RecordedEntry` makes allows all of its group, and a limit
that replaces it is a rule error. Damage stays because no run goes past `Begin` from a damaged file,
so that a run that writes began before the file was abandoned, and then it was not abandoned.

*The server.* `Inv` adds to the types that the fields agree with each other and with the history
(`FieldsAgree`: a valid analysis is there, is the newest and ran with the newest accepted params)
and that the request in the loop is one that could get there (`LoopAgrees`: one under analysis is an
`initialize` or a `reanalyze`, with options). With the mapping above each step of the loop is a step
of the contract or none: reading a request that is answered at once handles it, reading one that
starts an analysis begins it, the end of the analysis answers it, and writing the response is
invisible, because `Answered` has it already. `OneResponseInOrder` is stated by positions in the
line of what was answered and what waits; `LineInv` says that this line increases and has the ids that
were asked, and the three things that happen to it (a frame is written, a frame without an id is
dropped, a frame becomes an answer in its place) keep that.

*The spawner.* The refinement needs to know what is in the pipes. The invariant says which messages a
pipe to the spawner can hold (`ToSpawnerOK`: a process is started at most once, and nothing starts one
that lives); that what is delivered, what is pending and what is in the pipe back, put together, are
the chunks that the spawner has read, in order, with the exit after all of them (`ToHostOK`,
`OutputOK`); which points of a life go together in host and spawner (`LifeOK`); and what the fields
of a channel allow (`ChannelOK`). A pipe is a sequence, and the order is stated by positions in it,
so that the steps which append to it or take from it need no induction. `NothingWaits` is inductive
relative to that.

*The plugin.* `Inv` is the types with: the passes and those with diagnostics are counted (`CountOK`);
the cache belongs to the task (`TaskOK`); the entry of the cache for the file of a pass is what the
pass has read, so that all its rules read the same (`ReadOK`); the reports so far are those of the
rules that have run (`ShareOK`), from which counting each diagnostic's reports follows; and the
problems shown so far (`ShownOK`).

*The programs.* `EndsAsWhole` compares what a rule derives with the *whole model*, the least set that
is closed under all clauses of prelude and rule whose negated premises do not hold in that set. A
stratified program has exactly one such set (`StratifiedHasOneModel`, by induction over the strata:
each adds the least set there is to what the strata below have, and two models cannot differ first
anywhere), so that a rule which is done shows its rows (`DoneRulesShowTheModel`). That evaluation
gives this set is proved over the steps of the model: once stratum `n` has been evaluated, `store` agrees with every whole model on the needed symbols of
strata below (`StoreOK`, `Agrees`). That a needed symbol of the pruned program has all its clauses
is `PruneOK`: what is needed and not pending is closed under reading. What is checked at the start
(`CheckedOK`) is that no rule adds to a predicate of the prelude: a clause that the rule has for a
predicate is then never next to clauses that pruning dropped. `EvaluationEnds` is liveness; proved
are its two halves: every step comes nearer to the end (`StepsComeNearer`: to a later phase, to a
symbol that was not needed before, to one pending symbol less, to the next stratum), and no
stratum is without a result (`StrataHaveResults`).

*Induction.* The library's induction theorems take a predicate and cannot be used. Where induction
is needed it is over a *set* of numbers that has zero and successors: its complement has a least
member by `NatLessThanWellFounded` and `WFMin`, or is empty (`LeastNat`, `Numbers`). This reaches what
has a number in it (strata, cardinalities), not what a recursive definition computes; the models
have none.

*What the models assume, and the theorems with them.* The pipe to the spawner has no limit (`send`
waits for room; `spawner-child.ts` reads whatever its output does); frames arrive intact; `kill`
stops a process as the end of its input does; a serve process reads the workspace at one instant of
the analysis.

Model-checked only: the liveness properties, which are out of the prover's reach with
everything about fairness (`LintReturns`, `RuleEditReachesLint`, `RefreshesSettle`,
`RequestsAreAnswered`, `EndOfInputEnds`, `RunsReturn`, `EndsAreTold`, `OutputArrives`, `OrphansEnd`,
`EvaluationEnds`). Every invariant and action property of the passing runs is a theorem; the
properties of the runs that show a disagreement are false and have none.

## Plan

Done: `LintaiClient`, `Suppressions` and `LintaiRun`, `LintaiServer` with `ServeContract`, `Spawner`
with `SpawnedProcess`, `LintaiPlugin` and `LintaiProgram`, each with its proofs.

Worth doing next:

1. The processes of `LintaiClient` as instances of `ServeContract` itself, behind chunks that end
   inside a frame, which would show what a replaced process leaves in `stdoutBuffer`
   (`client.ts:587`).
2. A snapshot's three reads (version, program, facts) as steps of `LintaiRun`.

## Not modelled

- **The vendored compiler** (`internal/tsgo`) is nine tenths of the source lines. It is third-party
  code that lintai calls, and every count of lines of this repository is mostly a count of it.
- **Facts** (`backend/typescript`, `internal/lintaiapi`): walks of the compiler's syntax trees into
  tuples. They keep nothing between calls, and what could be wrong in them is data (which node gives
  which fact), which a model would repeat and not check. The one thing about order in them, three
  reads of the source files, is made below by the compiler.
- **Rule bundles, sandbox, runtime**: esbuild, `node` processes and a JavaScript engine. The models
  have their outcomes: a rule bundles or not, its `setup` fails or not, its program is one of many.
- **Datalog, globs, parsing** are libraries. `LintaiProgram` says what evaluation has to return;
  the checks on `glob` and on `_` reject a program before there is any state.
- **Of the spawner**: `activeSpawner`, which replaces a spawner that had started and failed, is a
  second instance of the same model; frames that do not parse do not occur between two ends that
  share an encoder.
- **Of the client**: `refresh()` called by a host, failing watchers, file matching, resolution of
  options. **Of the adapters**: paths, message texts, defaults that come from `argv`.
- **Paths, canonical names, ambient files, data types, flags, packaging**: string formatting and
  globbing without state.
