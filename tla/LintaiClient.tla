---------------------------- MODULE LintaiClient ----------------------------
(***************************************************************************)
(* The client object of packages/client/src/client.ts (LintAIClient), with *)
(* the `lintai serve` processes it starts and the world they read.         *)
(*                                                                         *)
(* JavaScript runs one thing at a time.  The getDiagnostics call in        *)
(* progress is `pc` and its locals are `call`; while pc # "idle" no timer, *)
(* event or promise handler runs, but the processes and the file system    *)
(* go on.  The handlers of settled promises are `microtasks`: they run     *)
(* once the call has returned, before any other event.                     *)
(***************************************************************************)
EXTENDS Integers, Sequences

CONSTANTS
  Files,        \* the files that are linted
  Modes,        \* the values options.mode may have
  RefreshIdle,  \* refreshIdleMs, in ticks of the clock
  SecondTicks,  \* a second, in ticks: the margin of savedSinceAnalysis
  FsTicks,      \* the resolution of the file system's modification times
  MaxProcs,     \* bound: the processes the client may start
  MaxTime,      \* bound: the last tick of the clock
  MaxSaves,     \* bound: the saves of each file
  MaxRuleEdits, \* bound: the edits of rule files
  MaxFaults,    \* bound: the faults of the environment, of all kinds
  FaultKinds    \* the kinds of fault that may happen

ASSUME ModesAssumption == Modes \subseteq {"serve", "oneshot"}
ASSUME ClockAssumption ==
  /\ RefreshIdle \in Nat
  /\ SecondTicks \in Nat \ {0}
  /\ FsTicks \in Nat \ {0}
(* Modification times are exact, or in the whole seconds that              *)
(* savedSinceAnalysis expects of a coarse file system (client.ts:644).     *)
ASSUME StampAssumption == FsTicks \in {1, SecondTicks}
ASSUME BoundsAssumption ==
  /\ MaxProcs \in Nat \ {0}
  /\ MaxTime \in Nat
  /\ MaxSaves \in Nat
  /\ MaxRuleEdits \in Nat
  /\ MaxFaults \in Nat

VARIABLES
  \* Fields of LintAIClient.
  state, child, attached, pending, nextRequestID, refreshInFlight,
  analysisEpoch, timer, pendingRuleInvalidation,
  diagnostics,      \* diagnosticsByFile and unlocated, by what was analysed
  analyzedAt, analysisFailure, serveFailure, oneshotCache,
  lastRequestAt, savedAnalyzed,
  \* The JavaScript stack and the microtask queue.
  pc, call, microtasks,
  \* The serve processes: life, the two pipes, and the data listener.
  proc, stdin, stdout, listening,
  \* The world: options.mode, clock, files, rule files, faults used.
  mode, now, content, mtime, restamped, rules, ruleEvent, faults,
  \* History: the rule version whose change the client last applied.
  appliedRules

results  == <<diagnostics, analyzedAt, analysisFailure>>
requests == <<pending, nextRequestID, stdin>>
watch    == <<timer, pendingRuleInvalidation, analysisEpoch, appliedRules>>
lintings == <<lastRequestAt, savedAnalyzed>>
pipes    == <<proc, stdin, stdout, listening>>
world    == <<mode, now, content, mtime, restamped, rules, ruleEvent>>
client   == <<state, child, attached, pending, nextRequestID, refreshInFlight,
              results, serveFailure, oneshotCache, watch, lintings>>
vars     == <<client, pc, call, microtasks, pipes, world, faults>>

-----------------------------------------------------------------------------
NoProc  == 0
Procs   == 1..MaxProcs
States  == {"idle", "starting", "ready", "invalidated", "fallback", "disposed"}
Waiting == {"initialize", "rule_changed", "file_saved"}
PCs     == Waiting \cup {"idle", "startServe", "refreshInvalidated", "branch"}

(* What an analysis read: the version of the rule files and of every file. *)
(* A response has the id of its request; "garbled" stands for output that  *)
(* handleStdout or handleResponsePayload cannot parse.                     *)
Replies == [kind : {"none", "ok", "error", "garbled"},
            id : Nat, rules : Nat, seen : [Files -> Nat]]

NoReply     == [kind |-> "none", id |-> 0, rules |-> 0, seen |-> [f \in Files |-> 0]]
FailedReply == [NoReply EXCEPT !.kind = "error"]

Requests == [id : Nat, to : Procs, background : BOOLEAN,
             epoch : Nat, startedAt : Nat]

Init ==
  /\ state = "idle" /\ child = NoProc /\ attached = FALSE
  /\ pending = {} /\ nextRequestID = 1 /\ refreshInFlight = FALSE
  /\ analysisEpoch = 0 /\ timer = FALSE /\ pendingRuleInvalidation = FALSE
  /\ diagnostics = NoReply /\ analyzedAt = -1
  /\ analysisFailure = FALSE /\ serveFailure = FALSE /\ oneshotCache = NoReply
  /\ lastRequestAt = -1 /\ savedAnalyzed = [f \in Files |-> -1]
  /\ pc = "idle" /\ microtasks = {}
  /\ call \in [file : Files, asked : {0}, resume : {"branch"},
               id : {0}, startedAt : {0}, reply : {NoReply}]
  /\ proc = [p \in Procs |-> "unborn"]
  /\ stdin = [p \in Procs |-> <<>>] /\ stdout = [p \in Procs |-> <<>>]
  /\ listening = [p \in Procs |-> FALSE]
  /\ mode \in Modes
  /\ now = SecondTicks + 1
  /\ content = [f \in Files |-> 0] /\ mtime = [f \in Files |-> 0]
  /\ restamped = [f \in Files |-> FALSE]
  /\ rules = 0 /\ ruleEvent = FALSE /\ faults = 0 /\ appliedRules = 0

-----------------------------------------------------------------------------
(* Parts of the client's methods.                                          *)

EndStdin(procs, p) ==
  IF p \in Procs /\ procs[p] = "running" THEN [procs EXCEPT ![p] = "ending"] ELSE procs

EnqueueRequest(p, background) ==
  /\ nextRequestID' = nextRequestID + 1
  /\ pending' = pending \cup
       {[id |-> nextRequestID, to |-> p, background |-> background,
         epoch |-> analysisEpoch, startedAt |-> now]}
  /\ stdin' = [stdin EXCEPT ![p] = Append(@, nextRequestID)]

(* Mutant: the id to wait for is read after the counter has gone on. *)
RequestSyncReadingLate(p, method) ==
  /\ EnqueueRequest(p, FALSE)
  /\ pc' = method
  /\ call' = [call EXCEPT !.id = nextRequestID', !.startedAt = now, !.reply = NoReply]

(* The sending half of requestSync; the call then waits at pc = method.    *)
RequestSync(p, method) ==
  /\ EnqueueRequest(p, FALSE)
  /\ pc' = method
  /\ call' = [call EXCEPT !.id = nextRequestID, !.startedAt = now, !.reply = NoReply]

(* getDiagnostics returns: its locals are gone.                            *)
Return ==
  /\ pc' = "idle"
  /\ call' = [call EXCEPT !.asked = 0, !.id = 0, !.startedAt = 0, !.reply = NoReply,
                          !.resume = "branch"]

SetDiagnostics(analysis, startedAt) ==
  /\ analyzedAt' = startedAt
  /\ diagnostics' = analysis
  /\ analysisFailure' = FALSE

(* Mutant: a failed reanalyze does not tell the user. *)
SetReanalyzeFailureQuietly(startedAt) ==
  /\ analyzedAt' = startedAt
  /\ diagnostics' = NoReply
  /\ UNCHANGED analysisFailure

SetReanalyzeFailure(startedAt) ==
  /\ analyzedAt' = startedAt
  /\ diagnostics' = NoReply
  /\ analysisFailure' = TRUE

Settled(requestSet, reply) ==
  {[request |-> r, reply |-> reply] : r \in {q \in requestSet : q.background}}

(* Mutant: the requests of the dropped process stay pending. *)
HandleServeFailureKeepingRequests(procs) ==
  IF state \in {"disposed", "fallback"}
  THEN /\ proc' = procs
       /\ UNCHANGED <<state, child, attached, pending, refreshInFlight,
                      diagnostics, serveFailure, microtasks>>
  ELSE /\ serveFailure' = TRUE /\ diagnostics' = NoReply /\ state' = "fallback"
       /\ proc' = EndStdin(procs, child) /\ child' = NoProc
       /\ attached' = FALSE /\ refreshInFlight' = FALSE
       /\ UNCHANGED <<pending, microtasks>>

(* Mutant: the state is not set, so the client goes on without a process. *)
HandleServeFailureKeepingState(procs) ==
  /\ serveFailure' = TRUE /\ diagnostics' = NoReply /\ UNCHANGED state
  /\ microtasks' = microtasks \cup Settled(pending, FailedReply) /\ pending' = {}
  /\ proc' = EndStdin(procs, child) /\ child' = NoProc
  /\ attached' = FALSE /\ refreshInFlight' = FALSE

(* `procs` is the process table as the rest of the step leaves it.         *)
HandleServeFailure(procs) ==
  IF state \in {"disposed", "fallback"}
  THEN /\ proc' = procs
       /\ UNCHANGED <<state, child, attached, pending, refreshInFlight,
                      diagnostics, serveFailure, microtasks>>
  ELSE /\ serveFailure' = TRUE
       /\ diagnostics' = NoReply
       /\ microtasks' = microtasks \cup Settled(pending, FailedReply)
       /\ pending' = {}
       /\ proc' = EndStdin(procs, child)
       /\ child' = NoProc
       /\ attached' = FALSE
       /\ refreshInFlight' = FALSE
       /\ state' = "fallback"

Awaiting == pc \in Waiting /\ call.reply.kind = "none"

Fault(kind) == kind \in FaultKinds /\ faults < MaxFaults /\ faults' = faults + 1
NoFault     == UNCHANGED faults

-----------------------------------------------------------------------------
(* getDiagnostics, from call to return.                                    *)

GetDiagnostics(f) ==
  /\ pc = "idle"
  /\ call' = [call EXCEPT !.file = f, !.asked = content[f], !.resume = "refreshInvalidated"]
  /\ \/ /\ state \in {"idle", "starting"} /\ mode = "serve"
        /\ pc' = "startServe"
        /\ UNCHANGED state
     \/ /\ state \in {"idle", "starting"} /\ mode = "oneshot"
        /\ state' = "fallback"
        /\ pc' = "refreshInvalidated"
     \/ /\ state \notin {"idle", "starting"}
        /\ pc' = "refreshInvalidated"
        /\ UNCHANGED state
  /\ UNCHANGED <<child, attached, requests, refreshInFlight, results, serveFailure,
                 oneshotCache, watch, lintings, microtasks, proc, stdout, listening,
                 world, faults>>

(* startServe: the first half, to the request.                             *)
StartServe ==
  /\ pc = "startServe"
  /\ \E p \in Procs :
       /\ \A q \in Procs : proc[q] = "unborn" <=> q >= p
       /\ proc' = [proc EXCEPT ![p] = "running"]
       /\ child' = p
       /\ state' = "starting"
       /\ RequestSync(p, "initialize")
  /\ UNCHANGED <<attached, refreshInFlight, results, serveFailure, oneshotCache, watch,
                 lintings, microtasks, stdout, listening, world, faults>>

(* spawnServe throws: there is no process, and the catch is taken.         *)
SpawnFails ==
  /\ pc = "startServe"
  /\ Fault("spawn")
  /\ serveFailure' = TRUE /\ diagnostics' = NoReply /\ state' = "fallback"
  /\ microtasks' = microtasks \cup Settled(pending, FailedReply)
  /\ pending' = {} /\ refreshInFlight' = FALSE /\ attached' = FALSE
  /\ pc' = call.resume
  /\ UNCHANGED <<child, nextRequestID, analyzedAt, analysisFailure, oneshotCache,
                 watch, lintings, call, pipes, world>>

(* handleStdout and handleResponsePayload on the next frame of p's output. *)
ReadFrame(p) ==
  /\ stdout[p] # <<>>
  /\ stdout' = [stdout EXCEPT ![p] = Tail(@)]
  /\ LET frame == Head(stdout[p])
         hits  == {r \in pending : r.id = frame.id}
     IN  \/ /\ frame.kind = "garbled"
            /\ HandleServeFailure(proc)
            /\ call' = IF Awaiting THEN [call EXCEPT !.reply = FailedReply] ELSE call
         \/ /\ frame.kind # "garbled"
            /\ pending' = pending \ hits
            /\ microtasks' = microtasks \cup Settled(hits, frame)
            /\ call' = IF Awaiting /\ frame.id = call.id
                       THEN [call EXCEPT !.reply = frame] ELSE call
            /\ UNCHANGED <<state, child, attached, refreshInFlight, diagnostics,
                           serveFailure, proc>>
  /\ UNCHANGED <<nextRequestID, analyzedAt, analysisFailure, oneshotCache, watch, lintings,
                 pc, stdin, listening, world, faults>>

(* One turn of waitForInitializationSync: it reads the output of its child *)
(* until the awaited response settles, ...                                 *)
SyncRead == Awaiting /\ child \in Procs /\ ReadFrame(child)

(* Mutant: only the time limit ends the wait, not the end of the output. *)
SyncThrowsOnTimeoutOnly ==
  /\ Awaiting
  /\ child \in Procs /\ stdout[child] = <<>>
  /\ Fault("timeout")
  /\ call' = [call EXCEPT !.reply = FailedReply]
  /\ UNCHANGED <<client, pc, microtasks, pipes, world>>

(* ... the child has closed its output, or the time is over.  The request  *)
(* stays in `pending` in both cases.                                       *)
SyncThrows ==
  /\ Awaiting
  /\ child \in Procs /\ stdout[child] = <<>>
  /\ \/ proc[child] = "exited" /\ NoFault
     \/ proc[child] # "exited" /\ Fault("timeout")
  /\ call' = [call EXCEPT !.reply = FailedReply]
  /\ UNCHANGED <<client, pc, microtasks, pipes, world>>

InitializeDone ==
  /\ pc = "initialize" /\ call.reply.kind = "ok"
  /\ attached' = TRUE
  /\ listening' = [listening EXCEPT ![child] = TRUE]
  /\ SetDiagnostics(call.reply, call.startedAt)
  /\ state' = IF pendingRuleInvalidation THEN "invalidated" ELSE "ready"
  /\ pc' = call.resume
  /\ UNCHANGED <<child, requests, refreshInFlight, serveFailure, oneshotCache, watch,
                 lintings, call, microtasks, proc, stdout, world, faults>>

InitializeFailed ==
  /\ pc = "initialize" /\ call.reply.kind = "error"
  /\ HandleServeFailure(proc)
  /\ pc' = call.resume
  /\ UNCHANGED <<nextRequestID, analyzedAt, analysisFailure, oneshotCache, watch, lintings,
                 call, stdin, stdout, listening, world, faults>>

(* refreshInvalidatedDiagnosticsSync.  Its two checks after the response   *)
(* (epoch and state) cannot fail: nothing else runs during the call.       *)
RefreshInvalidated ==
  /\ pc = "refreshInvalidated"
  /\ \/ /\ state # "invalidated"
        /\ pc' = "branch"
        /\ UNCHANGED <<requests, call>>
     \/ /\ state = "invalidated"
        /\ IF child = NoProc
           THEN /\ pc' = "startServe"
                /\ call' = [call EXCEPT !.resume = "branch"]
                /\ UNCHANGED requests
           ELSE RequestSync(child, "rule_changed")
  /\ UNCHANGED <<state, child, attached, refreshInFlight, results, serveFailure,
                 oneshotCache, watch, lintings, microtasks, proc, stdout, listening,
                 world, faults>>

RuleChangedDone ==
  /\ pc = "rule_changed" /\ call.reply.kind = "ok"
  /\ SetDiagnostics(call.reply, call.startedAt)
  /\ state' = "ready"
  /\ pc' = "branch"
  /\ UNCHANGED <<child, attached, requests, refreshInFlight, serveFailure, oneshotCache,
                 watch, lintings, call, microtasks, proc, stdout, listening, world, faults>>

(* Mutant: the old process is dropped but not told to stop. *)
RuleChangedFailedLeaking ==
  /\ pc = "rule_changed" /\ call.reply.kind = "error"
  /\ proc' = proc
  /\ child' = NoProc
  /\ attached' = FALSE
  /\ pc' = "startServe"
  /\ call' = [call EXCEPT !.resume = "branch"]
  /\ UNCHANGED <<state, requests, refreshInFlight, results, serveFailure, oneshotCache,
                 watch, lintings, microtasks, stdout, listening, world, faults>>

(* Mutant: the call goes on as after its first start, which may ask for    *)
(* the reanalysis again.                                                   *)
RuleChangedFailedRetrying ==
  /\ pc = "rule_changed" /\ call.reply.kind = "error"
  /\ proc' = EndStdin(proc, child)
  /\ child' = NoProc
  /\ attached' = FALSE
  /\ pc' = "startServe"
  /\ call' = [call EXCEPT !.resume = "refreshInvalidated"]
  /\ UNCHANGED <<state, requests, refreshInFlight, results, serveFailure, oneshotCache,
                 watch, lintings, microtasks, stdout, listening, world, faults>>

(* The catch: give the process up and start another.  The old process      *)
(* keeps its exit listener and its data listener, and its pending requests *)
(* are not rejected.                                                       *)
RuleChangedFailed ==
  /\ pc = "rule_changed" /\ call.reply.kind = "error"
  /\ proc' = EndStdin(proc, child)
  /\ child' = NoProc
  /\ attached' = FALSE
  /\ pc' = "startServe"
  /\ call' = [call EXCEPT !.resume = "branch"]
  /\ UNCHANGED <<state, requests, refreshInFlight, results, serveFailure, oneshotCache,
                 watch, lintings, microtasks, stdout, listening, world, faults>>

(* Mutant: no margin for times in whole seconds. *)
SavedSinceAnalysisWithoutMargin(f) ==
  mtime[f] >= analyzedAt /\ savedAnalyzed[f] # mtime[f]

(* The modification time counts when it is not before the analysis (less   *)
(* a second for a whole-second time) and was not analysed already.         *)
SavedSinceAnalysis(f) ==
  LET margin == IF mtime[f] % SecondTicks = 0 THEN SecondTicks ELSE 0
  IN  /\ mtime[f] >= analyzedAt - margin
      /\ savedAnalyzed[f] # mtime[f]

LintSaved ==
  /\ pc = "branch" /\ state = "ready"
  /\ SavedSinceAnalysis(call.file)
  /\ savedAnalyzed' = [savedAnalyzed EXCEPT ![call.file] = mtime[call.file]]
  /\ lastRequestAt' = now
  /\ RequestSync(child, "file_saved")
  /\ UNCHANGED <<state, child, attached, refreshInFlight, results, serveFailure,
                 oneshotCache, watch, microtasks, proc, stdout, listening, world, faults>>

(* maybeStartRefresh and refresh: after an idle gap one background         *)
(* analysis is started, and the call returns without waiting for it.       *)
RefreshIsDue ==
  lastRequestAt >= 0 /\ now - lastRequestAt > RefreshIdle /\ ~refreshInFlight

LintUnchanged ==
  /\ pc = "branch" /\ state = "ready"
  /\ ~SavedSinceAnalysis(call.file)
  /\ lastRequestAt' = now
  /\ Return
  /\ IF RefreshIsDue
     THEN EnqueueRequest(child, TRUE) /\ refreshInFlight' = TRUE
     ELSE UNCHANGED <<requests, refreshInFlight>>
  /\ UNCHANGED <<state, child, attached, results, serveFailure, oneshotCache, watch,
                 savedAnalyzed, microtasks, proc, stdout, listening, world, faults>>

FileSavedDone ==
  /\ pc = "file_saved" /\ call.reply.kind = "ok"
  /\ SetDiagnostics(call.reply, call.startedAt)
  /\ Return
  /\ UNCHANGED <<state, child, attached, requests, refreshInFlight, serveFailure,
                 oneshotCache, watch, lintings, microtasks, proc, stdout, listening,
                 world, faults>>

FileSavedFailed ==
  /\ pc = "file_saved" /\ call.reply.kind = "error"
  /\ IF state = "ready" THEN SetReanalyzeFailure(call.startedAt) ELSE UNCHANGED results
  /\ Return
  /\ UNCHANGED <<state, child, attached, requests, refreshInFlight, serveFailure,
                 oneshotCache, watch, lintings, microtasks, proc, stdout, listening,
                 world, faults>>

(* getOneshotDiagnostics: `lintai --json` runs to its end inside the call. *)
(* A failed run is cached as an empty index.                               *)
OneshotRun(outcome) ==
  /\ oneshotCache' = [kind |-> outcome, id |-> 0, rules |-> rules, seen |-> content]
  /\ analysisFailure' = (outcome = "error")

LintFallback ==
  /\ pc = "branch" /\ state = "fallback"
  /\ \/ /\ oneshotCache.kind # "none"
        /\ UNCHANGED <<oneshotCache, analysisFailure, faults>>
     \/ oneshotCache.kind = "none" /\ OneshotRun("ok") /\ NoFault
     \/ oneshotCache.kind = "none" /\ OneshotRun("error") /\ Fault("oneshot")
  /\ Return
  /\ UNCHANGED <<state, child, attached, requests, refreshInFlight, diagnostics, analyzedAt,
                 serveFailure, watch, lintings, microtasks, proc, stdout, listening,
                 world>>

LintNothing ==
  /\ pc = "branch" /\ state \notin {"ready", "fallback"}
  /\ Return
  /\ UNCHANGED <<client, microtasks, pipes, world, faults>>

-----------------------------------------------------------------------------
(* Promise handlers and events.                                            *)

(* Mutant: the epoch is not compared. *)
IsOutdatedIgnoringEpoch(r) == state # "ready" \/ r.startedAt < analyzedAt

IsOutdated(r) ==
  r.epoch # analysisEpoch \/ state # "ready" \/ r.startedAt < analyzedAt

(* The then, catch and finally handlers of a background refresh.           *)
RefreshSettles(m) ==
  /\ pc = "idle"
  /\ \A other \in microtasks : m.request.id <= other.request.id
  /\ microtasks' = microtasks \ {m}
  /\ refreshInFlight' = FALSE
  /\ \/ IsOutdated(m.request) /\ UNCHANGED results
     \/ /\ ~IsOutdated(m.request) /\ m.reply.kind = "ok"
        /\ SetDiagnostics(m.reply, m.request.startedAt)
     \/ /\ ~IsOutdated(m.request) /\ m.reply.kind # "ok"
        /\ SetReanalyzeFailure(m.request.startedAt)
  /\ UNCHANGED <<state, child, attached, requests, serveFailure, oneshotCache, watch,
                 lintings, pc, call, proc, stdout, listening, world, faults>>

Quiet == pc = "idle" /\ microtasks = {}

DataEvent(p) == Quiet /\ listening[p] /\ ReadFrame(p)

(* The exit listener does not look whose exit it is.                       *)
ExitEvent(p) ==
  /\ Quiet
  /\ proc[p] = "exited"
  /\ HandleServeFailure([proc EXCEPT ![p] = "reaped"])
  /\ UNCHANGED <<nextRequestID, analyzedAt, analysisFailure, oneshotCache, watch, lintings,
                 pc, call, stdin, stdout, listening, world, faults>>

(* The callback of a stdin write that the dead process never read.         *)
WriteError(r) ==
  /\ Quiet
  /\ proc[r.to] \in {"exited", "reaped"}
  /\ \E i \in 1..Len(stdin[r.to]) : stdin[r.to][i] = r.id
  /\ pending' = pending \ {r}
  /\ microtasks' = Settled({r}, FailedReply)
  /\ UNCHANGED <<state, child, attached, nextRequestID, refreshInFlight, results,
                 serveFailure, oneshotCache, watch, lintings, pc, call, pipes, world, faults>>

(* scheduleRuleInvalidation: the timer starts, or starts again.            *)
RuleEvent ==
  /\ Quiet
  /\ ruleEvent /\ state # "disposed"
  /\ ruleEvent' = FALSE
  /\ pendingRuleInvalidation' = TRUE
  /\ timer' = TRUE
  /\ UNCHANGED <<state, child, attached, pending, nextRequestID, refreshInFlight, results,
                 serveFailure, oneshotCache, analysisEpoch, appliedRules, lintings, pc, call,
                 microtasks, pipes, mode, now, content, mtime, restamped, rules, faults>>

(* Mutant: the result of the oneshot run is kept. *)
ApplyRuleInvalidationKeepingOneshot ==
  /\ analysisEpoch' = analysisEpoch + 1
  /\ pendingRuleInvalidation' = FALSE
  /\ diagnostics' = NoReply
  /\ analysisFailure' = FALSE
  /\ refreshInFlight' = FALSE
  /\ state' = IF state \in {"idle", "starting", "fallback"} THEN state ELSE "invalidated"
  /\ UNCHANGED oneshotCache

ApplyRuleInvalidation ==
  /\ analysisEpoch' = analysisEpoch + 1
  /\ pendingRuleInvalidation' = FALSE
  /\ diagnostics' = NoReply
  /\ analysisFailure' = FALSE
  /\ oneshotCache' = NoReply
  /\ refreshInFlight' = FALSE
  /\ state' = IF state \in {"idle", "starting", "fallback"} THEN state ELSE "invalidated"

(* dispose clears the timer, so no timer fires in a disposed client.       *)
TimerFires ==
  /\ Quiet
  /\ timer
  /\ timer' = FALSE
  /\ ApplyRuleInvalidation
  /\ appliedRules' = rules
  /\ UNCHANGED <<child, attached, requests, analyzedAt, serveFailure, lintings, pc, call,
                 microtasks, proc, stdout, listening, world, faults>>

(* The shutdown request is left out: nothing waits for its answer, and the *)
(* end of the input stops the process as well.                             *)
Dispose ==
  /\ pc = "idle" /\ state # "disposed"
  /\ timer' = FALSE
  /\ state' = "disposed"
  /\ child' = NoProc
  /\ proc' = EndStdin(proc, child)
  /\ UNCHANGED <<attached, requests, refreshInFlight, results, serveFailure, oneshotCache,
                 pendingRuleInvalidation, analysisEpoch, appliedRules, lintings, pc, call,
                 microtasks, stdout, listening, world, faults>>

-----------------------------------------------------------------------------
(* The serve processes (server.Serve answers its requests in order and     *)
(* returns at the end of its input) and the rest of the world.             *)

Alive(p) == proc[p] \in {"running", "ending"}

ServeAnswers(p) ==
  /\ Alive(p) /\ stdin[p] # <<>>
  /\ stdin' = [stdin EXCEPT ![p] = Tail(@)]
  /\ \E kind \in {"ok", "error", "garbled"} :
       /\ IF kind = "ok" THEN NoFault ELSE Fault(kind)
       /\ stdout' = [stdout EXCEPT ![p] =
            Append(@, [kind |-> kind, id |-> Head(stdin[p]), rules |-> rules, seen |-> content])]
  /\ UNCHANGED <<state, child, attached, pending, nextRequestID, refreshInFlight, results,
                 serveFailure, oneshotCache, watch, lintings, pc, call, microtasks, proc,
                 listening, world>>

ServeExits(p) ==
  /\ proc[p] = "ending" /\ stdin[p] = <<>>
  /\ proc' = [proc EXCEPT ![p] = "exited"]
  /\ UNCHANGED <<client, pc, call, microtasks, stdin, stdout, listening, world, faults>>

ServeCrashes(p) ==
  /\ Alive(p) /\ Fault("crash")
  /\ proc' = [proc EXCEPT ![p] = "exited"]
  /\ UNCHANGED <<client, pc, call, microtasks, stdin, stdout, listening, world>>

Tick ==
  /\ now < MaxTime
  /\ now' = now + 1
  /\ UNCHANGED <<client, pc, call, microtasks, pipes, mode, content, mtime, restamped, rules,
                 ruleEvent, faults>>

(* A save is later than everything before it, by a tick at least; its      *)
(* modification time is rounded down to the file system's resolution.      *)
Save(f) ==
  /\ now < MaxTime /\ content[f] < MaxSaves
  /\ now' = now + 1
  /\ content' = [content EXCEPT ![f] = @ + 1]
  /\ mtime' = [mtime EXCEPT ![f] = (now + 1) - ((now + 1) % FsTicks)]
  /\ restamped' = [restamped EXCEPT ![f] = (mtime'[f] = mtime[f])]
  /\ UNCHANGED <<client, pc, call, microtasks, pipes, mode, rules, ruleEvent, faults>>

EditRule ==
  /\ rules < MaxRuleEdits
  /\ rules' = rules + 1
  /\ ruleEvent' = TRUE
  /\ UNCHANGED <<client, pc, call, microtasks, pipes, mode, now, content, mtime, restamped,
                 faults>>

-----------------------------------------------------------------------------
CallStep ==
  \/ StartServe \/ SpawnFails \/ SyncRead \/ SyncThrows
  \/ InitializeDone \/ InitializeFailed
  \/ RefreshInvalidated \/ RuleChangedDone \/ RuleChangedFailed
  \/ LintSaved \/ LintUnchanged \/ LintFallback \/ LintNothing
  \/ FileSavedDone \/ FileSavedFailed

Event ==
  \/ \E m \in microtasks : RefreshSettles(m)
  \/ \E p \in Procs : DataEvent(p) \/ ExitEvent(p)
  \/ \E r \in pending : WriteError(r)
  \/ RuleEvent \/ TimerFires

Next ==
  \/ \E f \in Files : GetDiagnostics(f)
  \/ CallStep
  \/ Event
  \/ Dispose
  \/ \E p \in Procs : ServeAnswers(p) \/ ServeExits(p) \/ ServeCrashes(p)
  \/ Tick \/ EditRule \/ \E f \in Files : Save(f)

(* A call runs to its end.  A linter that lints again and again leaves the *)
(* event loop its turns, and the loop starves no handler, event or timer   *)
(* that is ready at infinitely many of them (hence SF: a call in progress  *)
(* disables them).  A serve process answers, and exits at the end of its   *)
(* input.  No fault, save, edit or dispose is ever due.                    *)
Fairness ==
  /\ WF_vars(\E f \in Files : GetDiagnostics(f))
  /\ WF_vars(CallStep)
  /\ SF_vars(\E m \in microtasks : RefreshSettles(m))
  /\ SF_vars(RuleEvent)
  /\ SF_vars(TimerFires)
  /\ \A p \in Procs :
       /\ SF_vars(DataEvent(p))
       /\ SF_vars(ExitEvent(p))
       /\ WF_vars(ServeAnswers(p))
       /\ WF_vars(ServeExits(p))

Spec == Init /\ [][Next]_vars

FairSpec == Spec /\ Fairness

-----------------------------------------------------------------------------
(* Properties.                                                             *)

ClientTypeOK ==
  /\ state \in States /\ child \in Procs \cup {NoProc} /\ attached \in BOOLEAN
  /\ pending \subseteq Requests /\ nextRequestID \in Nat
  /\ refreshInFlight \in BOOLEAN /\ analysisEpoch \in Nat
  /\ timer \in BOOLEAN /\ pendingRuleInvalidation \in BOOLEAN
  /\ diagnostics \in Replies /\ analyzedAt \in Nat \cup {-1}
  /\ analysisFailure \in BOOLEAN /\ serveFailure \in BOOLEAN
  /\ oneshotCache \in Replies
  /\ lastRequestAt \in Nat \cup {-1} /\ savedAnalyzed \in [Files -> Nat \cup {-1}]

CallTypeOK ==
  /\ pc \in PCs
  /\ call \in [file : Files, asked : Nat, resume : {"refreshInvalidated", "branch"},
                id : Nat, startedAt : Nat, reply : Replies]
  /\ microtasks \subseteq [request : Requests, reply : Replies]

ProcTypeOK ==
  /\ proc \in [Procs -> {"unborn", "running", "ending", "exited", "reaped"}]
  /\ stdin \in [Procs -> Seq(Nat)] /\ stdout \in [Procs -> Seq(Replies)]
  /\ listening \in [Procs -> BOOLEAN]

WorldTypeOK ==
  /\ mode \in Modes /\ now \in Nat
  /\ content \in [Files -> Nat] /\ mtime \in [Files -> Nat]
  /\ restamped \in [Files -> BOOLEAN]
  /\ rules \in Nat /\ ruleEvent \in BOOLEAN /\ faults \in Nat
  /\ appliedRules \in Nat

(* Type invariant of the client, its calls, its processes and the world.   *)
TypeOK == ClientTypeOK /\ CallTypeOK /\ ProcTypeOK /\ WorldTypeOK

(* The wait for a response casts this.child to a process (client.ts:520),  *)
(* and refresh sends to it: a client that needs a process has one.         *)
LiveStateHasChild ==
  state \in {"starting", "ready", "invalidated"} /\ pc # "startServe" => child \in Procs

(* Once the client has applied a rule change, no diagnostics made with the *)
(* older rules are shown again, whichever analysis was in flight then and  *)
(* whichever process answers it, and however late.                         *)
RulesNeverStale ==
  \A shown \in {diagnostics, oneshotCache} :
    shown.kind = "ok" => shown.rules >= appliedRules

(* A serve process that the client no longer talks to has been told to     *)
(* stop: restarts, failures and dispose leave no process behind.           *)
NoLeakedServe == \A p \in Procs : proc[p] = "running" => p = child

(* Falling back rejects every request, so nobody waits for an answer of a  *)
(* process that the client has dropped.                                    *)
FallbackSettlesRequests == state = "fallback" /\ pc # "startServe" => pending = {}

Returns == pc # "idle" /\ pc' = "idle"

(* A file that was saved before it is linted is linted with an analysis of *)
(* that version or a later one, or the failure of that analysis is shown   *)
(* (savedSinceAnalysis).  The exception docs/install.md:170 names: another *)
(* save got the same modification time.                                    *)
LintIsFresh ==
  [][Returns /\ state' = "ready" =>
       \/ analysisFailure'
       \/ diagnostics'.kind = "ok" /\ diagnostics'.seen[call.file] >= call.asked
       \/ restamped[call.file]]_vars

ShowsAnalysis ==
  \/ state = "ready" /\ diagnostics.kind = "ok"
  \/ state = "fallback" /\ oneshotCache.kind = "ok"
HasProblem == serveFailure \/ analysisFailure

(* No call but one made while a rule change waits for its timer leaves the *)
(* lint without both an analysis and a problem to report: an empty lint is *)
(* never a failure that looks like a clean workspace.                      *)
SilentOnlyBeforeInvalidation ==
  [][Returns /\ state' # "disposed" => (ShowsAnalysis \/ HasProblem \/ timer)']_vars

(* The response that a call waits for is in the pipes of the process it    *)
(* reads, or was lost with it: no call waits for a response that another   *)
(* read has taken, or of a process that was given up.                      *)
AnswerIsOnItsWay ==
  Awaiting =>
    /\ child \in Procs /\ proc[child] \in {"running", "exited"}
    /\ \/ \E i \in 1..Len(stdin[child]) : stdin[child][i] = call.id
       \/ \E i \in 1..Len(stdout[child]) : stdout[child][i].id = call.id

(* How far a call is from its return: the methods it may still go through, *)
(* and what it may still have to read.                                     *)
Stage ==
  CASE pc = "startServe"         -> IF call.resume = "branch" THEN 4 ELSE 8
    [] pc = "initialize"         -> IF call.resume = "branch" THEN 3 ELSE 7
    [] pc = "refreshInvalidated" -> 6
    [] pc = "rule_changed"       -> 5
    [] pc = "branch"             -> 2
    [] pc = "file_saved"         -> 1
    [] OTHER                     -> 0
Unread == IF Awaiting THEN 1 + Len(stdin[child]) + Len(stdout[child]) ELSE 0
Nearer == Stage' < Stage \/ (Stage' = Stage /\ Unread' < Unread)

(* Each step of a call brings it nearer to its return, and nothing that    *)
(* happens meanwhile takes it away again: failed reanalyses and restarts   *)
(* do not start each other for ever within a lint.                         *)
CallsGoForward ==
  [][/\ CallStep => Nearer
     /\ pc # "idle" => Nearer \/ UNCHANGED <<pc, call, Unread>>]_vars

(* Every getDiagnostics call returns, whatever becomes of the process it   *)
(* waits for.                                                              *)
LintReturns == pc # "idle" ~> pc = "idle"

(* "rule-file edits invalidate the cache and force a fresh analysis on the *)
(* next lint pass" (README.md:61): every rule edit reaches the diagnostics *)
(* that lints show, in serve mode and after a fallback, unless an analysis *)
(* fails or the client is disposed.                                        *)
RuleEditReachesLint ==
  \A v \in 1..MaxRuleEdits :
    rules >= v ~> \/ state = "disposed" \/ analysisFailure
                  \/ state = "ready" /\ diagnostics.kind = "ok" /\ diagnostics.rules >= v
                  \/ state = "fallback" /\ oneshotCache.kind = "ok" /\ oneshotCache.rules >= v

(* The promise of a background refresh settles, also when its process was  *)
(* given up by a restart, as long as the client is not disposed.           *)
RefreshesSettle ==
  (\E r \in pending : r.background)
    ~> (state = "disposed" \/ ~\E r \in pending : r.background)

(* What the code and its documents say and the code does not do.           *)

(* "lintai serve exited unexpectedly" (client.ts:406) is said of the       *)
(* process in use only, never of one the client itself has told to stop.   *)
UnexpectedExitIsOfChild ==
  [][\A p \in Procs :
       proc[p] = "exited" /\ proc'[p] = "reaped" /\ p # child => state' = state]_vars

(* isOutdated (client.ts:632) drops a refresh result when a newer analysis *)
(* finished while the refresh ran: diagnostics are never replaced by those *)
(* of a request sent earlier.                                              *)
NewerAnalysisIsKept ==
  [][diagnostics.kind = "ok" /\ diagnostics'.kind = "ok"
       => diagnostics'.id >= diagnostics.id]_vars

(* When lintai cannot produce diagnostics it reports the reason            *)
(* (docs/api.md:594): no lint is silent without an analysis to show.       *)
BrokenSetupIsNotSilent ==
  [][Returns /\ state' # "disposed" => (ShowsAnalysis \/ HasProblem)']_vars

(* "lintai serve failed, so diagnostics come from one lintai run"          *)
(* (client.ts:298) is shown only while that is where they come from.       *)
ServeFailureIsTrue == serveFailure /\ pc = "idle" => state \in {"fallback", "disposed"}

=============================================================================
