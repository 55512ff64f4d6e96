----------------------- MODULE LintaiClientLintProofs -----------------------
(* What a lint shows, for every value of the constants: no diagnostics     *)
(* older than the last applied rule change, nothing at all only before an  *)
(* invalidation, and otherwise what the files were when it began.          *)
EXTENDS LintaiClientProofs

-----------------------------------------------------------------------------
(* RulesNeverStale is not inductive: a stale response may be in a pipe, in *)
(* a microtask or in the local of a call when the diagnostics are still    *)
(* good.  What protects them is that a response made before the change is  *)
(* never usable after it: its request belongs to an older epoch, and no    *)
(* call waits across the change.                                           *)

(* A request with this id would have its response accepted.                *)
Usable(id) ==
  \/ \E r \in pending : r.id = id /\ r.epoch = analysisEpoch
  \/ Awaiting /\ id = call.id

(* Ids and epochs come from counters.                                      *)
CountersInv ==
  /\ \A r \in pending : r.id < nextRequestID /\ r.epoch <= analysisEpoch
  /\ \A p \in Procs : \A i \in 1..Len(stdin[p]) : stdin[p][i] < nextRequestID
  /\ \A p \in Procs : \A i \in 1..Len(stdout[p]) : stdout[p][i].id < nextRequestID

Fresh(reply) == reply.kind = "ok" => reply.rules >= appliedRules

FramesFresh ==
  \A p \in Procs : \A i \in 1..Len(stdout[p]) :
    Usable(stdout[p][i].id) => Fresh(stdout[p][i])

MicrotasksFresh ==
  \A m \in microtasks :
    /\ m.request.epoch <= analysisEpoch
    /\ m.request.epoch = analysisEpoch => Fresh(m.reply)

RulesInv ==
  /\ appliedRules <= rules
  /\ CountersInv
  /\ FramesFresh
  /\ MicrotasksFresh
  /\ pc \in Waiting => Fresh(call.reply)
  /\ Fresh(diagnostics) /\ Fresh(oneshotCache)

LEMMA RulesInvImplies == RulesInv => RulesNeverStale
BY DEF RulesInv, Fresh, RulesNeverStale

LEMMA ErrorIsFresh == Fresh(NoReply) /\ Fresh(FailedReply) /\ Fresh(NoReply)' /\ Fresh(FailedReply)'
BY NoReplyType DEF Fresh, NoReply, FailedReply

(* A step that sends nothing, answers nothing and starts no epoch keeps    *)
(* the invariant when what it puts in the diagnostics is fresh.            *)
LEMMA CalmStep ==
  ASSUME Inv, RulesInv,
         UNCHANGED <<nextRequestID, stdin, analysisEpoch, appliedRules>>,
         rules' \in Nat, rules' >= rules,
         pending' \subseteq pending,
         microtasks' \subseteq microtasks \cup Settled(pending, FailedReply),
         \A p \in Procs : \A i \in 1..Len(stdout'[p]) :
           \E j \in 1..Len(stdout[p]) : stdout'[p][i] = stdout[p][j],
         Awaiting' => Awaiting /\ call'.id = call.id,
         pc' \in Waiting => Fresh(call'.reply),
         Fresh(diagnostics'), Fresh(oneshotCache')
  PROVE  RulesInv'
<1>1. (appliedRules <= rules)'
  BY DEF RulesInv, Inv, TypeOK, WorldTypeOK
<1>2. CountersInv'
  BY DEF RulesInv, CountersInv
<1>3. \A id : Usable(id)' => Usable(id)
  BY DEF Usable
<1>4. FramesFresh'
  BY <1>3 DEF RulesInv, FramesFresh, Fresh
<1>5. MicrotasksFresh'
  <2>1. \A m \in Settled(pending, FailedReply) :
          m.request.epoch <= analysisEpoch /\ Fresh(m.reply)
    BY ErrorIsFresh DEF Settled, RulesInv, CountersInv
  <2> QED
    BY <2>1 DEF RulesInv, MicrotasksFresh, Fresh
<1> QED
  BY <1>1, <1>2, <1>4, <1>5 DEF RulesInv, Fresh

(* A request gets an id that no response in a pipe has.                    *)
LEMMA SendStep ==
  ASSUME Inv, RulesInv, NEW p \in Procs, NEW background \in BOOLEAN,
         EnqueueRequest(p, background),
         UNCHANGED <<stdout, analysisEpoch, appliedRules, rules, microtasks,
                     diagnostics, oneshotCache>>,
         Awaiting' => call'.id = nextRequestID,
         pc' \in Waiting => Fresh(call'.reply)
  PROVE  RulesInv'
<1> DEFINE sent == [id |-> nextRequestID, to |-> p, background |-> background,
                    epoch |-> analysisEpoch, startedAt |-> now]
<1>1. /\ pending' = pending \cup {sent} /\ nextRequestID' = nextRequestID + 1
      /\ stdin' = [stdin EXCEPT ![p] = Append(@, nextRequestID)]
      /\ nextRequestID \in Nat /\ analysisEpoch \in Nat
  BY DEF EnqueueRequest, Inv, TypeOK, ClientTypeOK
<1>2. \A q \in Procs : \A i \in 1..Len(stdin'[q]) : stdin'[q][i] < nextRequestID + 1
  <2> TAKE q \in Procs
  <2>1. stdin[q] \in Seq(Nat)
    BY DEF Inv, TypeOK, ProcTypeOK
  <2>2. \A i \in 1..Len(stdin[q]) : stdin[q][i] < nextRequestID
    BY DEF RulesInv, CountersInv
  <2>3. stdin'[q] = IF q = p THEN Append(stdin[q], nextRequestID) ELSE stdin[q]
    BY <1>1 DEF Inv, TypeOK, ProcTypeOK
  <2> QED
    BY <1>1, <2>1, <2>2, <2>3
<1>3. \A r \in pending : r.id \in Nat /\ r.epoch \in Nat
  BY DEF Inv, TypeOK, ClientTypeOK, Requests
<1>4. \A q \in Procs : \A i \in 1..Len(stdout[q]) : stdout[q][i].id \in Nat
  <2> TAKE q \in Procs
  <2>1. stdout[q] \in Seq(Replies)
    BY DEF Inv, TypeOK, ProcTypeOK
  <2>2. \A reply \in Replies : reply.id \in Nat
    BY DEF Replies
  <2> QED
    BY <2>1, <2>2
<1>5. CountersInv'
  BY <1>1, <1>2, <1>3, <1>4 DEF RulesInv, CountersInv
<1>6. \A id \in Nat : id < nextRequestID /\ Usable(id)' => Usable(id)
  BY <1>1 DEF Usable
<1>7. FramesFresh'
  BY <1>4, <1>6 DEF RulesInv, CountersInv, FramesFresh, Fresh
<1>8. MicrotasksFresh'
  BY DEF RulesInv, MicrotasksFresh, Fresh
<1> QED
  BY <1>5, <1>7, <1>8 DEF RulesInv, Fresh

(* Reading a frame takes its response to a call or a promise only when its *)
(* request is one whose response is usable.                                *)
LEMMA ReadFrameRules ==
  ASSUME Inv, RulesInv, NEW p \in Procs, ReadFrame(p)
  PROVE  RulesInv'
<1> DEFINE frame == Head(stdout[p])
           hits  == {r \in pending : r.id = frame.id}
<1>1. \A q \in Procs : \A i \in 1..Len(stdout'[q]) :
        \E j \in 1..Len(stdout[q]) : stdout'[q][i] = stdout[q][j]
  <2> TAKE q \in Procs
  <2>1. stdout[q] \in Seq(Replies)
    BY DEF Inv, TypeOK, ProcTypeOK
  <2>2. stdout'[q] = IF q = p THEN Tail(stdout[q]) ELSE stdout[q]
    BY DEF ReadFrame, Inv, TypeOK, ProcTypeOK
  <2>3. \A i \in 1..Len(Tail(stdout[q])) :
          stdout[q] # <<>> => Tail(stdout[q])[i] = stdout[q][i + 1] /\ i + 1 \in 1..Len(stdout[q])
    BY <2>1
  <2> QED
    BY <2>2, <2>3 DEF ReadFrame
<1>2. /\ frame \in Replies /\ 1 \in 1..Len(stdout[p]) /\ frame = stdout[p][1]
  BY DEF ReadFrame, Inv, TypeOK, ProcTypeOK
<1>3. Usable(frame.id) => Fresh(frame)
  BY <1>2 DEF RulesInv, FramesFresh
<1>4. UNCHANGED <<nextRequestID, stdin, analysisEpoch, appliedRules, rules, pc, oneshotCache>>
  BY DEF ReadFrame, watch, world
<1>5. rules' \in Nat /\ rules' >= rules
  BY <1>4 DEF Inv, TypeOK, WorldTypeOK
<1>6. CASE frame.kind = "garbled"
  <2>1. /\ HandleServeFailure(proc)
        /\ call' = IF Awaiting THEN [call EXCEPT !.reply = FailedReply] ELSE call
    BY <1>6 DEF ReadFrame
  <2>2. /\ pending' \subseteq pending
        /\ microtasks' \subseteq microtasks \cup Settled(pending, FailedReply)
        /\ diagnostics' \in {diagnostics, NoReply}
    BY <2>1 DEF HandleServeFailure
  <2>3. call' = call \/ call' = [call EXCEPT !.reply = FailedReply]
    BY <2>1
  <2>4. call'.id = call.id /\ (call'.reply = call.reply \/ call'.reply = FailedReply)
    BY <2>3 DEF Inv, TypeOK, CallTypeOK
  <2>5. Awaiting' => Awaiting
    BY <1>4, <2>4, NoReplyType DEF Awaiting
  <2>6. pc' \in Waiting => Fresh(call'.reply)
    BY <1>4, <2>4, ErrorIsFresh DEF RulesInv
  <2>7. Fresh(diagnostics') /\ Fresh(oneshotCache')
    BY <1>4, <2>2, ErrorIsFresh DEF RulesInv
  <2> QED
    BY <1>1, <1>4, <1>5, <2>2, <2>4, <2>5, <2>6, <2>7, CalmStep
<1>7. CASE frame.kind # "garbled"
  <2>1. /\ pending' = pending \ hits
        /\ microtasks' = microtasks \cup Settled(hits, frame)
        /\ call' = IF Awaiting /\ frame.id = call.id
                   THEN [call EXCEPT !.reply = frame] ELSE call
        /\ UNCHANGED diagnostics
    BY <1>7 DEF ReadFrame
  <2>2. CountersInv'
    BY <1>1, <1>4, <2>1 DEF RulesInv, CountersInv
  <2>3. call'.id = call.id /\ (Awaiting' => Awaiting)
    <3>1. CASE Awaiting /\ frame.id = call.id
      BY <2>1, <3>1 DEF Inv, TypeOK, CallTypeOK
    <3>2. CASE ~(Awaiting /\ frame.id = call.id)
      BY <1>4, <2>1, <3>2 DEF Awaiting
    <3> QED
      BY <3>1, <3>2
  <2>4. \A id : Usable(id)' => Usable(id)
    BY <1>4, <2>1, <2>3 DEF Usable
  <2>5. FramesFresh'
    BY <1>1, <1>4, <2>4 DEF RulesInv, FramesFresh, Fresh
  <2>6. MicrotasksFresh'
    <3>1. \A m \in Settled(hits, frame) :
            /\ m.request \in pending /\ m.request.id = frame.id /\ m.reply = frame
      BY DEF Settled
    <3>2. \A m \in Settled(hits, frame) :
            /\ m.request.epoch <= analysisEpoch
            /\ m.request.epoch = analysisEpoch => Fresh(m.reply)
      BY <1>3, <3>1 DEF Usable, RulesInv, CountersInv
    <3> QED
      BY <1>4, <2>1, <3>2 DEF RulesInv, MicrotasksFresh, Fresh
  <2>7. pc' \in Waiting => Fresh(call'.reply)
    BY <1>3, <1>4, <2>1 DEF Usable, RulesInv, Inv, TypeOK, CallTypeOK
  <2> QED
    BY <1>4, <2>1, <2>2, <2>5, <2>6, <2>7 DEF RulesInv, Fresh
<1> QED
  BY <1>6, <1>7

-----------------------------------------------------------------------------
(* The actions of a call.                                                  *)

(* What a step that leaves the pipes and the rules alone gives CalmStep.   *)
LEMMA SamePipes ==
  ASSUME Inv, UNCHANGED <<stdout, rules>>
  PROVE  /\ rules' \in Nat /\ rules' >= rules
         /\ \A p \in Procs : \A i \in 1..Len(stdout'[p]) :
              \E j \in 1..Len(stdout[p]) : stdout'[p][i] = stdout[p][j]
BY DEF Inv, TypeOK, WorldTypeOK

(* Falling back settles promises with an error and shows nothing.          *)
LEMMA HandleServeFailureCalm ==
  ASSUME NEW procs, HandleServeFailure(procs)
  PROVE  /\ pending' \subseteq pending
         /\ microtasks' \subseteq microtasks \cup Settled(pending, FailedReply)
         /\ diagnostics' \in {diagnostics, NoReply}
BY DEF HandleServeFailure

LEMMA CallStepRules ==
  ASSUME Inv, RulesInv, CallStep
  PROVE  RulesInv'
<1> USE SamePipes, ErrorIsFresh
<1>1. Fresh(diagnostics) /\ Fresh(oneshotCache) /\ (pc \in Waiting => Fresh(call.reply))
  BY DEF RulesInv
<1>2. call.resume \notin Waiting
  BY DEF Inv, TypeOK, CallTypeOK, Waiting
<1>3. CASE StartServe
  <2>1. PICK p \in Procs : RequestSync(p, "initialize")
    BY <1>3 DEF StartServe
  <2>2. call'.id = nextRequestID /\ call'.reply = NoReply
    BY <2>1 DEF RequestSync, Inv, TypeOK, CallTypeOK
  <2> QED
    BY <1>3, <2>1, <2>2, SendStep DEF StartServe, RequestSync, results, watch, world
<1>4. CASE SpawnFails
  BY <1>1, <1>2, <1>4, CalmStep DEF SpawnFails, watch, world, pipes, Awaiting, Waiting
<1>5. CASE SyncRead
  BY <1>5, ReadFrameRules DEF SyncRead, NoProc
<1>6. CASE SyncThrows
  <2>1. call'.id = call.id /\ call'.reply = FailedReply
    BY <1>6 DEF SyncThrows, Inv, TypeOK, CallTypeOK
  <2> QED
    BY <1>1, <1>6, <2>1, CalmStep
    DEF SyncThrows, client, results, requests, watch, world, pipes, Awaiting
<1>7. CASE InitializeDone \/ RuleChangedDone \/ FileSavedDone
  <2>1. diagnostics' = call.reply /\ Fresh(call.reply) /\ pc' \notin Waiting
    BY <1>1, <1>2, <1>7 DEF InitializeDone, RuleChangedDone, FileSavedDone, Return,
       SetDiagnostics, Waiting
  <2> QED
    BY <1>1, <1>7, <2>1, CalmStep
    DEF InitializeDone, RuleChangedDone, FileSavedDone, requests, watch, world, Awaiting
<1>8. CASE InitializeFailed
  BY <1>1, <1>2, <1>8, HandleServeFailureCalm, CalmStep
  DEF InitializeFailed, watch, world, Awaiting
<1>9. CASE RefreshInvalidated
  <2>1. CASE RequestSync(child, "rule_changed") /\ child # NoProc
    <3>1. child \in Procs
      BY <2>1 DEF Inv, TypeOK, ClientTypeOK
    <3>2. call'.id = nextRequestID /\ call'.reply = NoReply
      BY <2>1 DEF RequestSync, Inv, TypeOK, CallTypeOK
    <3> QED
      BY <1>9, <2>1, <3>1, <3>2, SendStep
      DEF RefreshInvalidated, RequestSync, results, watch, world
  <2>2. CASE UNCHANGED requests /\ pc' \notin Waiting
    BY <1>1, <1>9, <2>2, CalmStep
    DEF RefreshInvalidated, requests, results, watch, world, Awaiting
  <2> QED
    BY <1>9, <2>1, <2>2 DEF RefreshInvalidated, Waiting
<1>10. CASE RuleChangedFailed
  BY <1>1, <1>10, CalmStep
  DEF RuleChangedFailed, requests, results, watch, world, Awaiting, Waiting
<1>11. CASE LintSaved
  <2>1. child \in Procs
    BY <1>11 DEF LintSaved, Inv, CallInv, LiveStateHasChild
  <2>2. call'.id = nextRequestID /\ call'.reply = NoReply
    BY <1>11 DEF LintSaved, RequestSync, Inv, TypeOK, CallTypeOK
  <2> QED
    BY <1>11, <2>1, <2>2, SendStep DEF LintSaved, RequestSync, results, watch, world
<1>12. CASE LintUnchanged
  <2>1. child \in Procs
    BY <1>12 DEF LintUnchanged, Inv, CallInv, LiveStateHasChild
  <2>2. CASE EnqueueRequest(child, TRUE)
    BY <1>12, <2>1, <2>2, SendStep
    DEF LintUnchanged, Return, results, watch, world, Awaiting, Waiting
  <2>3. CASE UNCHANGED requests
    BY <1>1, <1>12, <2>3, CalmStep
    DEF LintUnchanged, Return, requests, results, watch, world, Awaiting, Waiting
  <2> QED
    BY <1>12, <2>2, <2>3 DEF LintUnchanged
<1>13. CASE LintFallback
  <2>1. Fresh(oneshotCache')
    BY <1>1, <1>13 DEF LintFallback, OneshotRun, Fresh, RulesInv
  <2> QED
    BY <1>1, <1>13, <2>1, CalmStep
    DEF LintFallback, Return, requests, watch, world, Awaiting, Waiting
<1>14. CASE LintNothing
  BY <1>1, <1>14, CalmStep
  DEF LintNothing, Return, client, requests, results, watch, world, pipes, Awaiting, Waiting
<1>15. CASE FileSavedFailed
  BY <1>1, <1>15, CalmStep
  DEF FileSavedFailed, SetReanalyzeFailure, Return, requests, results, watch, world,
      Awaiting, Waiting
<1> QED
  BY <1>3, <1>4, <1>5, <1>6, <1>7, <1>8, <1>9, <1>10, <1>11, <1>12, <1>13, <1>14, <1>15
  DEF CallStep

-----------------------------------------------------------------------------
(* Promise handlers and events.                                            *)

(* The new epoch makes every response in flight unusable.                  *)
LEMMA TimerFiresRules ==
  ASSUME Inv, RulesInv, TimerFires
  PROVE  RulesInv'
<1>1. /\ pc = "idle" /\ pc' = "idle" /\ microtasks' = {}
      /\ analysisEpoch' = analysisEpoch + 1 /\ analysisEpoch \in Nat
      /\ diagnostics' = NoReply /\ oneshotCache' = NoReply
      /\ appliedRules' = rules /\ rules' = rules /\ rules \in Nat
      /\ UNCHANGED <<pending, nextRequestID, stdin, stdout>>
  BY DEF TimerFires, Quiet, ApplyRuleInvalidation, requests, world, Inv, TypeOK,
     ClientTypeOK, WorldTypeOK
<1>2. \A r \in pending : r.epoch \in Nat
  BY DEF Inv, TypeOK, ClientTypeOK, Requests
<1>3. CountersInv'
  BY <1>1, <1>2 DEF RulesInv, CountersInv
<1>4. \A id : ~Usable(id)'
  BY <1>1, <1>2 DEF Usable, Awaiting, Waiting, RulesInv, CountersInv
<1>5. FramesFresh'
  BY <1>4 DEF FramesFresh
<1>6. MicrotasksFresh'
  BY <1>1 DEF MicrotasksFresh
<1> QED
  BY <1>1, <1>3, <1>5, <1>6, NoReplyType DEF RulesInv, Fresh, Waiting

LEMMA EventRules ==
  ASSUME Inv, RulesInv, Event
  PROVE  RulesInv'
<1> USE SamePipes, ErrorIsFresh
<1>1. Fresh(diagnostics) /\ Fresh(oneshotCache)
  BY DEF RulesInv
<1>2. ASSUME NEW m \in microtasks, RefreshSettles(m) PROVE RulesInv'
  <2>1. ~IsOutdated(m.request) => Fresh(m.reply)
    BY DEF IsOutdated, RulesInv, MicrotasksFresh
  <2>2. Fresh(diagnostics')
    BY <1>1, <1>2, <2>1 DEF RefreshSettles, SetDiagnostics, SetReanalyzeFailure, results
  <2> QED
    BY <1>1, <1>2, <2>2, CalmStep DEF RefreshSettles, requests, watch, world, Awaiting, Waiting
<1>3. ASSUME NEW p \in Procs, DataEvent(p) PROVE RulesInv'
  BY <1>3, ReadFrameRules DEF DataEvent
<1>4. ASSUME NEW p \in Procs, ExitEvent(p) PROVE RulesInv'
  BY <1>1, <1>4, HandleServeFailureCalm, CalmStep
  DEF ExitEvent, Quiet, watch, world, Awaiting, Waiting
<1>5. ASSUME NEW r \in pending, WriteError(r) PROVE RulesInv'
  <2>1. Settled({r}, FailedReply) \subseteq Settled(pending, FailedReply)
    BY DEF Settled
  <2> QED
    BY <1>1, <1>5, <2>1, CalmStep
    DEF WriteError, Quiet, results, watch, world, pipes, Awaiting, Waiting
<1>6. CASE RuleEvent
  BY <1>1, <1>6, CalmStep DEF RuleEvent, Quiet, results, pipes, Awaiting, Waiting
<1>7. CASE TimerFires
  BY <1>7, TimerFiresRules
<1> QED
  BY <1>2, <1>3, <1>4, <1>5, <1>6, <1>7 DEF Event

-----------------------------------------------------------------------------
(* The processes and the world.                                            *)

(* An answer is made with the rules of its moment.                         *)
LEMMA ServeAnswersRules ==
  ASSUME Inv, RulesInv, NEW p \in Procs, ServeAnswers(p)
  PROVE  RulesInv'
<1>1. PICK kind \in {"ok", "error", "garbled"} :
        stdout' = [stdout EXCEPT ![p] =
          Append(@, [kind |-> kind, id |-> Head(stdin[p]),
                     rules |-> rules, seen |-> content])]
  BY Zenon DEF ServeAnswers
<1> DEFINE answer == [kind |-> kind, id |-> Head(stdin[p]),
                      rules |-> rules, seen |-> content]
<1>2. /\ UNCHANGED <<pending, nextRequestID, analysisEpoch, appliedRules, rules, pc, call,
                     microtasks, diagnostics, oneshotCache>>
      /\ stdin' = [stdin EXCEPT ![p] = Tail(@)] /\ stdin[p] # <<>>
  BY DEF ServeAnswers, results, watch, world
<1>3. stdin[p] \in Seq(Nat) /\ \A q \in Procs : stdout[q] \in Seq(Replies)
  BY DEF Inv, TypeOK, ProcTypeOK
<1>4. answer.id < nextRequestID /\ Fresh(answer)
  BY <1>2, <1>3 DEF RulesInv, CountersInv, Fresh
<1>5. \A q \in Procs : \A i \in 1..Len(stdout'[q]) :
        stdout'[q][i] = answer \/ \E j \in 1..Len(stdout[q]) : stdout'[q][i] = stdout[q][j]
  <2> TAKE q \in Procs
  <2>1. stdout'[q] = IF q = p THEN Append(stdout[q], answer) ELSE stdout[q]
    BY <1>1 DEF Inv, TypeOK, ProcTypeOK
  <2> QED
    BY <1>3, <2>1
<1>6. \A q \in Procs : \A i \in 1..Len(stdin'[q]) :
        \E j \in 1..Len(stdin[q]) : stdin'[q][i] = stdin[q][j]
  <2> TAKE q \in Procs
  <2>1. stdin'[q] = IF q = p THEN Tail(stdin[q]) ELSE stdin[q]
    BY <1>2 DEF Inv, TypeOK, ProcTypeOK
  <2>2. \A i \in 1..Len(Tail(stdin[p])) :
          Tail(stdin[p])[i] = stdin[p][i + 1] /\ i + 1 \in 1..Len(stdin[p])
    BY <1>2, <1>3
  <2> QED
    BY <2>1, <2>2
<1> HIDE DEF answer
<1>7. CountersInv'
  <2>1. \A q \in Procs : \A i \in 1..Len(stdin'[q]) : stdin'[q][i] < nextRequestID
    BY <1>6 DEF RulesInv, CountersInv
  <2>2. \A q \in Procs : \A i \in 1..Len(stdout'[q]) : stdout'[q][i].id < nextRequestID
    <3> TAKE q \in Procs
    <3> TAKE i \in 1..Len(stdout'[q])
    <3>1. CASE stdout'[q][i] = answer
      BY <1>4, <3>1
    <3>2. CASE \E j \in 1..Len(stdout[q]) : stdout'[q][i] = stdout[q][j]
      BY <3>2 DEF RulesInv, CountersInv
    <3> QED
      BY <1>5, <3>1, <3>2
  <2> QED
    BY <1>2, <2>1, <2>2 DEF RulesInv, CountersInv
<1>8. \A id : Usable(id)' => Usable(id)
  BY <1>2 DEF Usable, Awaiting
<1>9. FramesFresh'
  BY <1>2, <1>4, <1>5, <1>8 DEF RulesInv, FramesFresh, Fresh
<1>10. MicrotasksFresh'
  BY <1>2 DEF RulesInv, MicrotasksFresh, Fresh
<1> QED
  BY <1>2, <1>7, <1>9, <1>10 DEF RulesInv, Fresh

LEMMA RulesStep ==
  ASSUME Inv, RulesInv, [Next]_vars
  PROVE  RulesInv'
<1> USE SamePipes
<1>1. Fresh(diagnostics) /\ Fresh(oneshotCache) /\ (pc \in Waiting => Fresh(call.reply))
  BY DEF RulesInv
<1>2. CASE \E f \in Files : GetDiagnostics(f)
  BY <1>1, <1>2, CalmStep
  DEF GetDiagnostics, requests, results, watch, world, Awaiting, Waiting
<1>3. CASE CallStep
  BY <1>3, CallStepRules
<1>4. CASE Event
  BY <1>4, EventRules
<1>5. CASE Dispose
  BY <1>1, <1>5, CalmStep DEF Dispose, requests, results, watch, world, Awaiting, Waiting
<1>6. ASSUME NEW p \in Procs, ServeAnswers(p) PROVE RulesInv'
  BY <1>6, ServeAnswersRules
<1>7. ASSUME NEW p \in Procs, ServeExits(p) \/ ServeCrashes(p) PROVE RulesInv'
  BY <1>1, <1>7, CalmStep
  DEF ServeExits, ServeCrashes, client, requests, results, watch, world, Awaiting
<1>8. CASE Tick \/ (\E f \in Files : Save(f)) \/ UNCHANGED vars
  BY <1>1, <1>8, CalmStep
  DEF Tick, Save, vars, client, requests, results, watch, world, pipes, Awaiting
<1>9. CASE EditRule
  <2>1. rules' \in Nat /\ rules' >= rules
    BY <1>9 DEF EditRule, Inv, TypeOK, WorldTypeOK
  <2> QED
    BY <1>1, <1>9, <2>1, CalmStep
    DEF EditRule, client, requests, results, watch, pipes, Awaiting
<1> QED
  BY <1>2, <1>3, <1>4, <1>5, <1>6, <1>7, <1>8, <1>9 DEF Next

(* Once the client has applied a rule change it shows no diagnostics made  *)
(* with older rules: RulesNeverStale, for every instance.                  *)
THEOREM RulesAreNeverStale == Spec => []RulesNeverStale
<1>1. Init => RulesInv
  BY NoReplyType DEF Init, RulesInv, CountersInv, FramesFresh, MicrotasksFresh, Fresh, Waiting
<1>2. Inv /\ RulesInv /\ [Next]_vars => RulesInv'
  BY RulesStep
<1> QED
  BY <1>1, <1>2, RulesInvImplies, ClientInvariant, PTL DEF Spec

-----------------------------------------------------------------------------
(* SilentOnlyBeforeInvalidation is about the step that returns; that the   *)
(* state it returns in has something to show was settled by earlier steps. *)

(* A result of the oneshot run is there only in fallback, between calls or *)
(* before the branch of one, and an empty one goes with its failure.       *)
OneshotInv ==
  /\ oneshotCache.kind # "none" =>
       state \in {"fallback", "disposed"} /\ pc \in {"idle", "refreshInvalidated", "branch"}
  /\ oneshotCache.kind \in {"none", "ok"} \/ analysisFailure \/ state = "disposed"

(* A client that is not disposed has an analysis or a problem to show when *)
(* it is ready, and only a coming rule invalidation keeps it from that.    *)
SilentInv ==
  /\ OneshotInv
  /\ state = "ready" => diagnostics.kind = "ok" \/ analysisFailure
  /\ pc = "file_saved" => state = "ready" \/ (state = "fallback" /\ serveFailure)
  /\ state = "idle" => pc \in {"idle", "startServe"}
  /\ pc \in Waiting \cup {"startServe"} => state # "disposed"
  /\ pendingRuleInvalidation /\ state # "disposed" => timer
  /\ pc = "branch" /\ state = "invalidated" => timer

LEMMA HandleServeFailureSilent ==
  ASSUME SilentInv, NEW procs, HandleServeFailure(procs),
         oneshotCache.kind = "none" \/ pc' = pc \/ pc' \in {"idle", "refreshInvalidated", "branch"},
         state = "idle" => pc' \in {"idle", "startServe"},
         pc' = pc \/ pc' \in {"refreshInvalidated", "branch"},
         UNCHANGED <<oneshotCache, analysisFailure, pendingRuleInvalidation, timer>>
  PROVE  SilentInv'
BY NoReplyType DEF HandleServeFailure, SilentInv, OneshotInv, Waiting

LEMMA ReadFrameSilent ==
  ASSUME SilentInv, NEW p \in Procs, ReadFrame(p)
  PROVE  SilentInv'
<1>1. UNCHANGED <<pc, oneshotCache, analysisFailure, pendingRuleInvalidation, timer>>
  BY DEF ReadFrame, watch
<1>2. CASE HandleServeFailure(proc)
  BY <1>1, <1>2, HandleServeFailureSilent DEF SilentInv
<1>3. CASE UNCHANGED <<state, diagnostics, serveFailure>>
  BY <1>1, <1>3 DEF SilentInv, OneshotInv
<1> QED
  BY <1>2, <1>3 DEF ReadFrame

(* The empty index of a failed oneshot run goes with its failure.          *)
LEMMA LintFallbackCache ==
  ASSUME LintFallback
  PROVE  \/ UNCHANGED <<oneshotCache, analysisFailure>> /\ oneshotCache.kind # "none"
         \/ oneshotCache'.kind = "ok"
         \/ oneshotCache'.kind = "error" /\ analysisFailure'
<1>1. \/ UNCHANGED <<oneshotCache, analysisFailure>> /\ oneshotCache.kind # "none"
      \/ OneshotRun("ok") \/ OneshotRun("error")
  BY DEF LintFallback
<1>2. OneshotRun("ok") => oneshotCache'.kind = "ok"
  BY DEF OneshotRun
<1>3. OneshotRun("error") => oneshotCache'.kind = "error"
  BY DEF OneshotRun
<1>4. OneshotRun("error") => analysisFailure'
  BY DEF OneshotRun
<1> QED
  BY <1>1, <1>2, <1>3, <1>4

LEMMA SilentStep ==
  ASSUME Inv, SilentInv, [Next]_vars
  PROVE  SilentInv'
<1> USE NoReplyType DEF Waiting
<1>1. /\ state = "starting" => pc = "initialize"
      /\ pc \in Waiting /\ call.reply.kind # "error" =>
           \/ pc = "initialize" /\ state = "starting"
           \/ pc = "rule_changed" /\ state = "invalidated"
           \/ pc = "file_saved" /\ state = "ready"
      /\ timer => state # "disposed"
      /\ state \in States /\ pc \in PCs /\ call.resume \in {"refreshInvalidated", "branch"}
  BY DEF Inv, CallInv, TypeOK, ClientTypeOK, CallTypeOK
<1>2. CASE \E f \in Files : GetDiagnostics(f)
  BY <1>1, <1>2 DEF GetDiagnostics, results, watch, SilentInv, OneshotInv
<1>3. CASE StartServe
  BY <1>3 DEF StartServe, RequestSync, results, watch, SilentInv, OneshotInv
<1>4. CASE SpawnFails
  BY <1>1, <1>4 DEF SpawnFails, watch, SilentInv, OneshotInv
<1>5. CASE SyncRead
  BY <1>5, ReadFrameSilent DEF SyncRead
<1>6. CASE InitializeDone
  BY <1>1, <1>6 DEF InitializeDone, SetDiagnostics, watch, SilentInv, OneshotInv
<1>7. CASE InitializeFailed
  <2>1. HandleServeFailure(proc) /\ pc = "initialize" /\ pc' = call.resume
        /\ UNCHANGED <<oneshotCache, analysisFailure, pendingRuleInvalidation, timer>>
    BY <1>7 DEF InitializeFailed, watch
  <2> QED
    BY <1>1, <2>1, HandleServeFailureSilent DEF SilentInv
<1>8. CASE RefreshInvalidated
  BY <1>1, <1>8 DEF RefreshInvalidated, RequestSync, results, watch, SilentInv, OneshotInv
<1>9. CASE RuleChangedDone
  BY <1>1, <1>9 DEF RuleChangedDone, SetDiagnostics, watch, SilentInv, OneshotInv
<1>10. CASE RuleChangedFailed
  BY <1>10 DEF RuleChangedFailed, results, watch, SilentInv, OneshotInv
<1>11. CASE LintSaved
  BY <1>11 DEF LintSaved, RequestSync, results, watch, SilentInv, OneshotInv
<1>12. CASE LintUnchanged
  BY <1>12 DEF LintUnchanged, Return, results, watch, SilentInv, OneshotInv
<1>13. CASE FileSavedDone
  BY <1>1, <1>13 DEF FileSavedDone, SetDiagnostics, Return, watch, SilentInv, OneshotInv
<1>14. CASE FileSavedFailed
  BY <1>14 DEF FileSavedFailed, SetReanalyzeFailure, Return, results, watch, SilentInv, OneshotInv
<1>15. CASE LintFallback
  BY <1>15, LintFallbackCache DEF LintFallback, Return, watch, SilentInv, OneshotInv
<1>16. CASE \E m \in microtasks : RefreshSettles(m)
  BY <1>16 DEF RefreshSettles, IsOutdated, SetDiagnostics, SetReanalyzeFailure, results, watch,
     SilentInv, OneshotInv
<1>17. ASSUME NEW p \in Procs, DataEvent(p) PROVE SilentInv'
  BY <1>17, ReadFrameSilent DEF DataEvent
<1>18. ASSUME NEW p \in Procs, ExitEvent(p) PROVE SilentInv'
  <2>1. HandleServeFailure([proc EXCEPT ![p] = "reaped"]) /\ pc = "idle" /\ pc' = pc
        /\ UNCHANGED <<oneshotCache, analysisFailure, pendingRuleInvalidation, timer>>
    BY <1>18 DEF ExitEvent, Quiet, watch
  <2> QED
    BY <2>1, HandleServeFailureSilent DEF SilentInv
<1>19. CASE RuleEvent
  BY <1>19 DEF RuleEvent, results, SilentInv, OneshotInv
<1>20. CASE TimerFires
  BY <1>1, <1>20 DEF TimerFires, ApplyRuleInvalidation, Quiet, SilentInv, OneshotInv
<1>21. CASE Dispose
  BY <1>21 DEF Dispose, results, SilentInv, OneshotInv
<1>22. CASE /\ UNCHANGED <<state, diagnostics, analysisFailure, serveFailure, oneshotCache,
                           timer, pendingRuleInvalidation>>
            /\ pc' = pc \/ pc' = "idle"
  BY <1>22 DEF SilentInv, OneshotInv
<1>23. \/ SyncThrows \/ LintNothing
       \/ \E r \in pending : WriteError(r)
       \/ \E p \in Procs : ServeAnswers(p) \/ ServeExits(p) \/ ServeCrashes(p)
       \/ Tick \/ EditRule \/ (\E f \in Files : Save(f)) \/ UNCHANGED vars
       => /\ UNCHANGED <<state, diagnostics, analysisFailure, serveFailure, oneshotCache,
                         timer, pendingRuleInvalidation>>
          /\ pc' = pc \/ pc' = "idle"
  BY DEF SyncThrows, LintNothing, Return, WriteError, ServeAnswers, ServeExits, ServeCrashes,
     Tick, EditRule, Save, vars, client, results, watch
<1> QED
  BY <1>2, <1>3, <1>4, <1>5, <1>6, <1>7, <1>8, <1>9, <1>10, <1>11, <1>12, <1>13, <1>14,
     <1>15, <1>16, <1>17, <1>18, <1>19, <1>20, <1>21, <1>22, <1>23
  DEF Next, CallStep, Event

(* The steps in which a call returns.                                      *)
LEMMA ReturningSteps ==
  ASSUME Inv, Next, Returns
  PROVE  LintUnchanged \/ FileSavedDone \/ FileSavedFailed \/ LintFallback \/ LintNothing
<1>1. call.resume # "idle"
  BY DEF Inv, TypeOK, CallTypeOK
<1>2. ~Quiet
  BY DEF Quiet, Returns
<1>3. ASSUME NEW p, ReadFrame(p) PROVE FALSE
  BY <1>3 DEF ReadFrame, Returns
<1>4. ~CallStep =>
        \/ \E f \in Files : GetDiagnostics(f)
        \/ \E m \in microtasks : RefreshSettles(m)
        \/ Dispose
        \/ \E p \in Procs : ServeAnswers(p) \/ ServeExits(p) \/ ServeCrashes(p)
        \/ Tick \/ EditRule \/ \E f \in Files : Save(f)
  BY <1>2 DEF Next, Event, DataEvent, ExitEvent, WriteError, RuleEvent, TimerFires
<1>5. CallStep
  BY <1>4
  DEF Returns, GetDiagnostics, RefreshSettles, Dispose, ServeAnswers, ServeExits, ServeCrashes,
      Tick, EditRule, Save
<1>6. ~(StartServe \/ SpawnFails \/ SyncRead \/ SyncThrows \/ InitializeDone
        \/ InitializeFailed \/ RefreshInvalidated \/ RuleChangedDone \/ RuleChangedFailed
        \/ LintSaved)
  BY <1>1, <1>3
  DEF Returns, StartServe, SpawnFails, SyncRead, SyncThrows, InitializeDone, InitializeFailed,
      RefreshInvalidated, RuleChangedDone, RuleChangedFailed, LintSaved, RequestSync
<1> QED
  BY <1>5, <1>6 DEF CallStep

LEMMA SilentReturn ==
  ASSUME Inv, SilentInv, Next, Returns, state' # "disposed"
  PROVE  (ShowsAnalysis \/ HasProblem \/ timer)'
<1> USE DEF ShowsAnalysis, HasProblem, SilentInv, OneshotInv
<1>1. CASE LintUnchanged
  BY <1>1 DEF LintUnchanged, results
<1>2. CASE FileSavedDone
  BY <1>2 DEF FileSavedDone, SetDiagnostics, Inv, CallInv, Waiting
<1>3. CASE FileSavedFailed
  BY <1>3 DEF FileSavedFailed, SetReanalyzeFailure
<1>4. CASE LintFallback
  BY <1>4, LintFallbackCache DEF LintFallback
<1>5. CASE LintNothing
  BY <1>5 DEF LintNothing, client, watch, results, Inv, CallInv, TypeOK, ClientTypeOK, States
<1> QED
  BY <1>1, <1>2, <1>3, <1>4, <1>5, ReturningSteps

(* An empty lint is never a failure that looks like a clean workspace:     *)
(* SilentOnlyBeforeInvalidation, for every instance.                       *)
THEOREM SilentLintIsBeforeInvalidation == Spec => SilentOnlyBeforeInvalidation
<1>1. Init => SilentInv
  BY NoReplyType DEF Init, SilentInv, OneshotInv
<1>2. Inv /\ SilentInv /\ [Next]_vars => SilentInv'
  BY SilentStep
<1>3. Inv /\ SilentInv /\ [Next]_vars =>
        [Returns /\ state' # "disposed" => (ShowsAnalysis \/ HasProblem \/ timer)']_vars
  BY SilentReturn
<1> QED
  BY <1>1, <1>2, <1>3, ClientInvariant, PTL DEF Spec, SilentOnlyBeforeInvalidation

-----------------------------------------------------------------------------
(* LintIsFresh rests on the order of saves, requests and answers, of which *)
(* the state keeps the times of requests and the rounded times of saves.   *)
(* The invariant is about the exact times: there are ticks s[f], of the    *)
(* last saves, such that what follows holds.                               *)

SaveTimes(s) ==
  \A f \in Files :
    /\ s[f] <= now /\ mtime[f] <= s[f] /\ s[f] < mtime[f] + FsTicks
    /\ mtime[f] % FsTicks = 0

(* Requests are sent in the past, and analyses replace older ones.         *)
AnalysisTimes ==
  /\ analyzedAt <= now
  /\ \A r \in pending : r.startedAt <= now
  /\ \A m \in microtasks : m.request.startedAt <= now
  /\ call.startedAt <= now
  /\ pc \in Waiting => analyzedAt <= call.startedAt

(* The response to a request sent at tick t saw every save made by then.   *)
Includes(reply, t, s) ==
  reply.kind = "ok" => \A f \in Files : s[f] <= t => reply.seen[f] >= content[f]

(* The response saw the content that the call in progress asks about.      *)
SeesAsked(reply) == reply.kind = "ok" => reply.seen[call.file] >= call.asked

ReplyIncludes(frame, s) ==
  /\ \A r \in pending : r.id = frame.id => Includes(frame, r.startedAt, s)
  /\ Awaiting /\ frame.id = call.id => Includes(frame, call.startedAt, s) /\ SeesAsked(frame)

FramesInclude(s) ==
  \A p \in Procs : \A i \in 1..Len(stdout[p]) : ReplyIncludes(stdout[p][i], s)

ResultsInclude(s) ==
  /\ call.asked <= content[call.file]
  /\ \A m \in microtasks : Includes(m.reply, m.request.startedAt, s)
  /\ pc \in Waiting => Includes(call.reply, call.startedAt, s) /\ SeesAsked(call.reply)
  /\ Includes(diagnostics, analyzedAt, s)

(* A modification time that counts as analysed is one that an analysis has *)
(* seen, or that the request in progress will see.                         *)
StampsAnalyzed(s) ==
  \A f \in Files :
    /\ savedAnalyzed[f] <= mtime[f]
    /\ savedAnalyzed[f] = mtime[f] /\ ~restamped[f] =>
         \/ s[f] <= analyzedAt
         \/ pc = "initialize" /\ s[f] <= call.startedAt
         \/ pc = "file_saved" /\ f = call.file /\ s[f] <= call.startedAt
         \/ state \in {"fallback", "disposed"}

SavesInv(s) ==
  SaveTimes(s) /\ AnalysisTimes /\ FramesInclude(s) /\ ResultsInclude(s) /\ StampsAnalyzed(s)

FreshInv == \E s \in [Files -> Nat] : SavesInv(s)

-----------------------------------------------------------------------------
(* Numbers: times are rounded down to a multiple of the resolution.        *)

LEMMA DivMod ==
  ASSUME NEW d \in Nat \ {0}, NEW n \in Nat
  PROVE  n \div d \in Nat /\ n % d \in 0..(d - 1) /\ n = d * (n \div d) + (n % d)
OBVIOUS

LEMMA RoundDown ==
  ASSUME NEW d \in Nat \ {0}, NEW n \in Nat
  PROVE  /\ n - (n % d) \in Nat /\ n - (n % d) <= n /\ n < n - (n % d) + d
         /\ (n - (n % d)) % d = 0
<1>1. n \div d \in Nat /\ n % d \in 0..(d - 1) /\ n = d * (n \div d) + (n % d)
  BY DivMod
<1>2. n - (n % d) = d * (n \div d) + 0
  BY <1>1
<1>3. ASSUME NEW m \in Nat, NEW q \in Nat, m = d * q + 0 PROVE m % d = 0
  BY <1>3
<1>4. /\ n - (n % d) \in Nat /\ n - (n % d) <= n /\ n < n - (n % d) + d
  <2> DEFINE r == n % d
             q == d * (n \div d)
  <2>1. r \in 0..(d - 1) /\ q \in Int /\ n = q + r
    BY <1>1
  <2>2. q \in Nat
    BY <1>1
  <2> HIDE DEF r, q
  <2>3. n - r \in Nat /\ n - r <= n /\ n < n - r + d
    BY <2>1, <2>2
  <2> QED
    BY <2>3 DEF r
<1>5. (n - (n % d)) % d = 0
  BY <1>1, <1>2, <1>3, <1>4
<1> QED
  BY <1>4, <1>5

LEMMA RoundDownIsLast ==
  ASSUME NEW d \in Nat \ {0}, NEW m \in Nat, m % d = 0, NEW n \in Nat, m <= n
  PROVE  m <= n - (n % d)
<1> DEFINE q == m \div d
           k == n \div d
<1>1. q \in Nat /\ m = d * q
  BY DivMod
<1>2. k \in Nat /\ n % d \in 0..(d - 1) /\ n = d * k + (n % d)
  BY DivMod
<1> HIDE DEF q, k
<1>3. q <= k
  <2> SUFFICES ASSUME k + 1 <= q PROVE FALSE
    BY <1>1, <1>2
  <2>1. d * (k + 1) <= d * q
    BY <1>1, <1>2
  <2>2. d * (k + 1) = d * k + d
    BY <1>2
  <2> QED
    BY <1>1, <1>2, <2>1, <2>2
<1>4. d * q <= d * k
  BY <1>1, <1>2, <1>3
<1> QED
  BY <1>1, <1>2, <1>4

-----------------------------------------------------------------------------
(* The types the arithmetic below needs.                                   *)
LEMMA TimeTypes ==
  ASSUME Inv
  PROVE  /\ now \in Nat /\ analyzedAt \in Nat \cup {-1}
         /\ mtime \in [Files -> Nat] /\ content \in [Files -> Nat]
         /\ restamped \in [Files -> BOOLEAN]
         /\ savedAnalyzed \in [Files -> Nat \cup {-1}]
         /\ call.file \in Files /\ call.asked \in Nat /\ call.startedAt \in Nat
         /\ call.reply \in Replies /\ diagnostics \in Replies
         /\ \A r \in pending : r.startedAt \in Nat /\ r.id \in Nat
         /\ \A m \in microtasks : m.request.startedAt \in Nat /\ m.reply \in Replies
         /\ \A p \in Procs : /\ stdout[p] \in Seq(Replies)
                              /\ \A i \in 1..Len(stdout[p]) : stdout[p][i] \in Replies
         /\ FsTicks \in Nat \ {0}
BY ClockAssumption DEF Inv, TypeOK, ClientTypeOK, CallTypeOK, ProcTypeOK, WorldTypeOK, Requests

Gone == state \in {"fallback", "disposed"}

LEMMA StampsCalm ==
  ASSUME Inv, Inv', NEW s \in [Files -> Nat], SavesInv(s),
         UNCHANGED <<mtime, restamped, savedAnalyzed>>,
         analyzedAt <= analyzedAt',
         pc \in {"initialize", "file_saved"} =>
           \/ pc' = pc /\ call'.file = call.file /\ call'.startedAt = call.startedAt
           \/ call.startedAt <= analyzedAt'
           \/ Gone',
         Gone => Gone'
  PROVE  StampsAnalyzed(s)'
<1> SUFFICES ASSUME NEW f \in Files
             PROVE  /\ savedAnalyzed[f] <= mtime[f]
                    /\ savedAnalyzed[f] = mtime[f] /\ ~restamped[f] =>
                         \/ s[f] <= analyzedAt'
                         \/ pc' = "initialize" /\ s[f] <= call'.startedAt
                         \/ pc' = "file_saved" /\ f = call'.file /\ s[f] <= call'.startedAt
                         \/ Gone'
  BY DEF StampsAnalyzed, Gone
<1>1. s[f] \in Nat /\ call.startedAt \in Nat /\ analyzedAt \in Nat \cup {-1}
      /\ analyzedAt' \in Nat \cup {-1}
  BY TimeTypes DEF Inv, TypeOK, ClientTypeOK
<1> QED
  BY <1>1 DEF SavesInv, StampsAnalyzed, Gone

(* A step that saves, sends and answers nothing keeps what is said of      *)
(* times and replies, when its new results include what they should.       *)
LEMMA CalmLint ==
  ASSUME Inv, Inv', NEW s \in [Files -> Nat], SavesInv(s), StampsAnalyzed(s)',
         UNCHANGED <<content, mtime>>, now <= now',
         pending' \subseteq pending,
         \A m \in microtasks' :
           m.request.startedAt <= now /\ Includes(m.reply, m.request.startedAt, s),
         \A p \in Procs : \A i \in 1..Len(stdout'[p]) :
           \E j \in 1..Len(stdout[p]) : stdout'[p][i] = stdout[p][j],
         Awaiting' => Awaiting /\ call'.id = call.id,
         pc' \in Waiting =>
           /\ pc' = pc /\ call'.file = call.file /\ call'.asked = call.asked
           /\ call'.startedAt = call.startedAt
           /\ Includes(call'.reply, call.startedAt, s)
           /\ call'.reply.kind = "ok" => call'.reply.seen[call.file] >= call.asked,
         call'.startedAt <= now, call'.asked <= content[call'.file],
         Includes(diagnostics', analyzedAt', s),
         analyzedAt <= analyzedAt', analyzedAt' <= now,
         pc' \in Waiting => analyzedAt' = analyzedAt
  PROVE  SavesInv(s)'
<1>0. /\ now \in Nat /\ now' \in Nat /\ analyzedAt \in Nat \cup {-1}
      /\ analyzedAt' \in Nat \cup {-1} /\ call.startedAt \in Nat /\ call'.startedAt \in Nat
      /\ (\A r \in pending' : r.startedAt \in Nat)
      /\ (\A m \in microtasks' : m.request.startedAt \in Nat)
  BY TimeTypes DEF Inv, TypeOK, ClientTypeOK, CallTypeOK, WorldTypeOK, Requests
<1>1. SaveTimes(s)'
  BY <1>0, TimeTypes DEF SavesInv, SaveTimes
<1>2. pc' \in Waiting => analyzedAt' <= call'.startedAt
  BY DEF SavesInv, AnalysisTimes
<1>3. AnalysisTimes'
  BY <1>0, <1>2 DEF SavesInv, AnalysisTimes
<1>4. \A reply, t : Includes(reply, t, s)' <=> Includes(reply, t, s)
  BY DEF Includes
<1>5. FramesInclude(s)'
  BY <1>4 DEF SavesInv, FramesInclude, ReplyIncludes, SeesAsked, Includes, Awaiting
<1>6. ResultsInclude(s)'
  BY <1>4 DEF ResultsInclude, SeesAsked, Includes
<1> QED
  BY <1>1, <1>3, <1>5, <1>6 DEF SavesInv

LEMMA MicrotasksInclude ==
  ASSUME Inv, NEW s, SavesInv(s)
  PROVE  \A m \in microtasks \cup Settled(pending, FailedReply) :
           m.request.startedAt <= now /\ Includes(m.reply, m.request.startedAt, s)
BY NoReplyType DEF SavesInv, AnalysisTimes, ResultsInclude, Settled, Includes

LEMMA ErrorIncludes ==
  \A s, t : Includes(NoReply, t, s) /\ Includes(FailedReply, t, s)
BY NoReplyType DEF Includes

(* No response is there for a request that has just been sent.             *)
LEMMA SendLint ==
  ASSUME Inv, Inv', CountersInv, NEW s \in [Files -> Nat], SavesInv(s), StampsAnalyzed(s)',
         NEW p \in Procs, NEW background \in BOOLEAN, EnqueueRequest(p, background),
         UNCHANGED <<content, mtime, now, microtasks, stdout, diagnostics, analyzedAt>>,
         Awaiting' => call'.id = nextRequestID,
         pc' \in Waiting => call'.startedAt = now /\ call'.reply = NoReply,
         call'.startedAt <= now, call'.asked <= content[call'.file]
  PROVE  SavesInv(s)'
<1> DEFINE sent == [id |-> nextRequestID, to |-> p, background |-> background,
                    epoch |-> analysisEpoch, startedAt |-> now]
<1>1. pending' = pending \cup {sent} /\ sent.id = nextRequestID /\ sent.startedAt = now
  BY DEF EnqueueRequest
<1> HIDE DEF sent
<1>2. SaveTimes(s)'
  BY DEF SavesInv, SaveTimes
<1>3. AnalysisTimes'
  BY <1>1, TimeTypes DEF SavesInv, AnalysisTimes
<1>4. \A reply, t : Includes(reply, t, s)' <=> Includes(reply, t, s)
  BY DEF Includes
<1>5. \A q \in Procs : \A i \in 1..Len(stdout[q]) : stdout[q][i].id # nextRequestID
  <2>1. \A q \in Procs : \A i \in 1..Len(stdout[q]) :
          stdout[q][i].id < nextRequestID /\ stdout[q][i].id \in Nat
    BY TimeTypes DEF CountersInv, Replies
  <2> QED
    BY <2>1 DEF Inv, TypeOK, ClientTypeOK
<1>6. FramesInclude(s)'
  <2> SUFFICES ASSUME NEW q \in Procs, NEW i \in 1..Len(stdout[q])
               PROVE  ReplyIncludes(stdout[q][i], s)'
    BY DEF FramesInclude
  <2>1. stdout[q][i].id # nextRequestID /\ ReplyIncludes(stdout[q][i], s)
    BY <1>5 DEF SavesInv, FramesInclude
  <2> QED
    BY <1>1, <1>4, <2>1 DEF ReplyIncludes
<1>7. ResultsInclude(s)'
  BY <1>4, ErrorIncludes, NoReplyType DEF SavesInv, ResultsInclude, SeesAsked
<1> QED
  BY <1>2, <1>3, <1>6, <1>7 DEF SavesInv

(* A response is taken for the requests with its id, or it ends serving.   *)
LEMMA ReadFrameLint ==
  ASSUME Inv, Inv', NEW s \in [Files -> Nat], SavesInv(s), NEW p \in Procs, ReadFrame(p)
  PROVE  SavesInv(s)'
<1> DEFINE frame == Head(stdout[p])
           hits  == {r \in pending : r.id = frame.id}
<1>1. \A q \in Procs : \A i \in 1..Len(stdout'[q]) :
        \E j \in 1..Len(stdout[q]) : stdout'[q][i] = stdout[q][j]
  <2> TAKE q \in Procs
  <2>1. stdout[q] \in Seq(Replies)
    BY DEF Inv, TypeOK, ProcTypeOK
  <2>2. stdout'[q] = IF q = p THEN Tail(stdout[q]) ELSE stdout[q]
    BY DEF ReadFrame, Inv, TypeOK, ProcTypeOK
  <2>3. \A i \in 1..Len(Tail(stdout[q])) :
          stdout[q] # <<>> => Tail(stdout[q])[i] = stdout[q][i + 1] /\ i + 1 \in 1..Len(stdout[q])
    BY <2>1
  <2> QED
    BY <2>2, <2>3 DEF ReadFrame
<1>2. frame \in Replies /\ 1 \in 1..Len(stdout[p]) /\ frame = stdout[p][1]
  BY DEF ReadFrame, Inv, TypeOK, ProcTypeOK
<1>3. ReplyIncludes(frame, s)
  BY <1>2 DEF SavesInv, FramesInclude
<1>4. UNCHANGED <<content, mtime, restamped, savedAnalyzed, now, pc, analyzedAt>>
  BY DEF ReadFrame, world, lintings
<1>5. /\ call.startedAt <= now /\ call.asked <= content[call.file] /\ analyzedAt <= now
      /\ (pc \in Waiting => Includes(call.reply, call.startedAt, s) /\ SeesAsked(call.reply))
      /\ Includes(diagnostics, analyzedAt, s)
  BY DEF SavesInv, AnalysisTimes, ResultsInclude
<1>8. now <= now' /\ analyzedAt <= analyzedAt'
  BY <1>4, TimeTypes
<1> HIDE DEF frame, hits
<1>6. CASE frame.kind = "garbled"
  <2>1. /\ HandleServeFailure(proc)
        /\ call' = IF Awaiting THEN [call EXCEPT !.reply = FailedReply] ELSE call
    BY <1>6 DEF ReadFrame, frame
  <2>2. Gone'
    BY <2>1, HandleServeFailureType DEF Inv, TypeOK, ProcTypeOK, Gone
  <2>3. /\ call'.id = call.id /\ call'.file = call.file /\ call'.asked = call.asked
        /\ call'.startedAt = call.startedAt
        /\ call'.reply = IF Awaiting THEN FailedReply ELSE call.reply
    BY <2>1 DEF Inv, TypeOK, CallTypeOK
  <2>4. StampsAnalyzed(s)'
    BY <1>4, <1>8, <2>2, <2>3, StampsCalm
  <2>5. /\ pending' \subseteq pending
        /\ microtasks' \subseteq microtasks \cup Settled(pending, FailedReply)
        /\ diagnostics' \in {diagnostics, NoReply}
    BY <2>1, HandleServeFailureCalm
  <2>6. Includes(call'.reply, call.startedAt, s) \/ pc \notin Waiting
    BY <1>5, <2>3, ErrorIncludes
  <2>7. pc \in Waiting /\ call'.reply.kind = "ok" => call'.reply.seen[call.file] >= call.asked
    BY <1>5, <2>3, NoReplyType DEF SeesAsked
  <2>8. Awaiting' => Awaiting
    BY <1>4, <2>3 DEF Awaiting
  <2>9. Includes(diagnostics', analyzedAt', s)
    BY <1>4, <1>5, <2>5, ErrorIncludes
  <2> QED
    BY <1>1, <1>4, <1>5, <1>8, <2>3, <2>4, <2>5, <2>6, <2>7, <2>8, <2>9, MicrotasksInclude,
       CalmLint
<1>7. CASE frame.kind # "garbled"
  <2>1. /\ pending' = pending \ hits
        /\ microtasks' = microtasks \cup Settled(hits, frame)
        /\ call' = IF Awaiting /\ frame.id = call.id
                   THEN [call EXCEPT !.reply = frame] ELSE call
        /\ UNCHANGED <<state, diagnostics>>
    BY <1>7 DEF ReadFrame, frame, hits
  <2>2. /\ call'.id = call.id /\ call'.file = call.file /\ call'.asked = call.asked
        /\ call'.startedAt = call.startedAt
        /\ call'.reply = IF Awaiting /\ frame.id = call.id THEN frame ELSE call.reply
    BY <2>1 DEF Inv, TypeOK, CallTypeOK
  <2>3. StampsAnalyzed(s)'
    <3>1. Gone => Gone'
      BY <2>1 DEF Gone
    <3> QED
      BY <1>4, <1>8, <2>2, <3>1, StampsCalm
  <2>4. \A m \in Settled(hits, frame) :
          m.request.startedAt <= now /\ Includes(m.reply, m.request.startedAt, s)
    BY <1>3 DEF Settled, hits, ReplyIncludes, SavesInv, AnalysisTimes
  <2>5. \A m \in microtasks' :
          m.request.startedAt <= now /\ Includes(m.reply, m.request.startedAt, s)
    BY <2>1, <2>4, MicrotasksInclude
  <2>6. pc \in Waiting =>
          /\ Includes(call'.reply, call.startedAt, s)
          /\ call'.reply.kind = "ok" => call'.reply.seen[call.file] >= call.asked
    BY <1>3, <1>5, <2>2 DEF ReplyIncludes, SeesAsked
  <2>7. Awaiting' => Awaiting
    BY <1>4, <2>2 DEF Awaiting
  <2> QED
    BY <1>1, <1>4, <1>5, <1>8, <2>1, <2>2, <2>3, <2>5, <2>6, <2>7, CalmLint
<1> QED
  BY <1>6, <1>7

(* A response that is written now has seen everything.                     *)
LEMMA ServeAnswersLint ==
  ASSUME Inv, Inv', NEW s \in [Files -> Nat], SavesInv(s), NEW p \in Procs, ServeAnswers(p)
  PROVE  SavesInv(s)'
<1>1. PICK kind \in {"ok", "error", "garbled"} :
        stdout' = [stdout EXCEPT ![p] =
          Append(@, [kind |-> kind, id |-> Head(stdin[p]), rules |-> rules, seen |-> content])]
  BY DEF ServeAnswers
<1> DEFINE frame == [kind |-> kind, id |-> Head(stdin[p]), rules |-> rules, seen |-> content]
<1>2. UNCHANGED <<content, mtime, restamped, savedAnalyzed, now, pc, call, analyzedAt, pending,
                  microtasks, diagnostics, state>>
  BY DEF ServeAnswers, world, lintings, results
<1>3. SaveTimes(s)' /\ AnalysisTimes' /\ ResultsInclude(s)' /\ StampsAnalyzed(s)'
  BY <1>2 DEF SavesInv, SaveTimes, AnalysisTimes, ResultsInclude, StampsAnalyzed, Includes,
              SeesAsked
<1>4. frame.seen = content
  OBVIOUS
<1>5. \A t : Includes(frame, t, s)
  BY <1>4, TimeTypes DEF Includes
<1>6. SeesAsked(frame)
  BY <1>4, TimeTypes DEF SeesAsked, SavesInv, ResultsInclude
<1>7. ReplyIncludes(frame, s)
  BY <1>5, <1>6 DEF ReplyIncludes
<1> HIDE DEF frame
<1>8. \A q \in Procs : \A i \in 1..Len(stdout'[q]) :
        stdout'[q][i] = frame \/ \E j \in 1..Len(stdout[q]) : stdout'[q][i] = stdout[q][j]
  <2> TAKE q \in Procs
  <2>1. stdout[q] \in Seq(Replies)
    BY TimeTypes
  <2>2. stdout'[q] = IF q = p THEN Append(stdout[q], frame) ELSE stdout[q]
    BY <1>1 DEF frame, Inv, TypeOK, ProcTypeOK
  <2> QED
    BY <2>1, <2>2
<1>9. \A q \in Procs : \A i \in 1..Len(stdout'[q]) : ReplyIncludes(stdout'[q][i], s)
  BY <1>7, <1>8 DEF SavesInv, FramesInclude
<1>10. FramesInclude(s)'
  BY <1>2, <1>9 DEF FramesInclude, ReplyIncludes, Includes, SeesAsked, Awaiting
<1> QED
  BY <1>3, <1>10 DEF SavesInv

(* A step after which no call waits: what it puts in the diagnostics, if   *)
(* anything, is the response the call waited for.                          *)
LEMMA LeaveLint ==
  ASSUME Inv, Inv', NEW s \in [Files -> Nat], SavesInv(s),
         UNCHANGED <<content, mtime, restamped, savedAnalyzed, now, stdout>>,
         pending' \subseteq pending,
         microtasks' \subseteq microtasks \cup Settled(pending, FailedReply),
         pc' \notin Waiting, call'.startedAt \in {0, call.startedAt},
         call'.asked = 0 \/ call'.asked <= content[call'.file],
         \/ diagnostics' \in {diagnostics, NoReply} /\ analyzedAt' = analyzedAt
         \/ /\ pc \in Waiting /\ analyzedAt' = call.startedAt
            /\ diagnostics' \in {call.reply, NoReply},
         pc \in {"initialize", "file_saved"} => analyzedAt' = call.startedAt \/ Gone',
         Gone => Gone'
  PROVE  SavesInv(s)'
<1>1. /\ call.startedAt <= now /\ call.startedAt \in Nat /\ now \in Nat
      /\ analyzedAt <= now /\ analyzedAt \in Nat \cup {-1}
      /\ pc \in Waiting => analyzedAt <= call.startedAt
  BY TimeTypes DEF SavesInv, AnalysisTimes
<1>2. analyzedAt <= analyzedAt' /\ analyzedAt' <= now
  BY <1>1
<1>3. Includes(diagnostics', analyzedAt', s)
  BY ErrorIncludes DEF SavesInv, ResultsInclude
<1>4. call'.asked <= content[call'.file]
  <2>1. call'.file \in Files
    BY DEF Inv, TypeOK, CallTypeOK
  <2> QED
    BY <2>1, TimeTypes
<1>5. StampsAnalyzed(s)'
  <2>1. pc \in {"initialize", "file_saved"} => call.startedAt <= analyzedAt' \/ Gone'
    BY <1>1
  <2> QED
    BY <1>2, <2>1, StampsCalm
<1>6. \A p \in Procs : \A i \in 1..Len(stdout'[p]) :
        \E j \in 1..Len(stdout[p]) : stdout'[p][i] = stdout[p][j]
  OBVIOUS
<1>7. ~Awaiting'
  BY DEF Awaiting
<1>8. call'.startedAt <= now /\ now <= now'
  BY <1>1
<1>9. \A m \in microtasks' :
        m.request.startedAt <= now /\ Includes(m.reply, m.request.startedAt, s)
  BY MicrotasksInclude
<1> QED
  BY <1>2, <1>3, <1>4, <1>5, <1>6, <1>7, <1>8, <1>9, CalmLint

(* A step of the world other than a save, or the failure of the response.  *)
LEMMA OutsideLint ==
  ASSUME Inv, Inv', NEW s \in [Files -> Nat], SavesInv(s),
         UNCHANGED <<content, mtime, restamped, savedAnalyzed, stdout, pending, microtasks, pc,
                     diagnostics, analyzedAt, state>>,
         now <= now', call' \in {call, [call EXCEPT !.reply = FailedReply]}
  PROVE  SavesInv(s)'
<1>1. /\ call.startedAt <= now /\ call.asked <= content[call.file] /\ analyzedAt <= now
      /\ (pc \in Waiting => Includes(call.reply, call.startedAt, s) /\ SeesAsked(call.reply))
      /\ Includes(diagnostics, analyzedAt, s)
  BY DEF SavesInv, AnalysisTimes, ResultsInclude
<1>2. /\ call'.id = call.id /\ call'.file = call.file /\ call'.asked = call.asked
      /\ call'.startedAt = call.startedAt /\ call'.reply \in {call.reply, FailedReply}
  BY DEF Inv, TypeOK, CallTypeOK
<1>3. analyzedAt <= analyzedAt'
  BY TimeTypes
<1>4. StampsAnalyzed(s)'
  BY <1>2, <1>3, StampsCalm DEF Gone
<1>5. \A p \in Procs : \A i \in 1..Len(stdout'[p]) :
        \E j \in 1..Len(stdout[p]) : stdout'[p][i] = stdout[p][j]
  OBVIOUS
<1>6. \A m \in microtasks' :
        m.request.startedAt <= now /\ Includes(m.reply, m.request.startedAt, s)
  BY MicrotasksInclude
<1>7. pc \in Waiting =>
        /\ Includes(call'.reply, call.startedAt, s)
        /\ call'.reply.kind = "ok" => call'.reply.seen[call.file] >= call.asked
  BY <1>1, <1>2, ErrorIncludes, NoReplyType DEF SeesAsked
<1>8. Awaiting' => Awaiting
  BY <1>2, NoReplyType DEF Awaiting
<1> QED
  BY <1>1, <1>2, <1>3, <1>4, <1>5, <1>6, <1>7, <1>8, CalmLint

(* A save is later than every request there is, and its time is new or the *)
(* file counts as restamped.                                               *)
LEMMA SaveLint ==
  ASSUME Inv, Inv', NEW s \in [Files -> Nat], SavesInv(s), NEW g \in Files, Save(g),
         NEW t \in [Files -> Nat], t = [s EXCEPT ![g] = now + 1]
  PROVE  SavesInv(t)'
<1> DEFINE stamp == (now + 1) - ((now + 1) % FsTicks)
<1>1. /\ now' = now + 1
      /\ content' = [content EXCEPT ![g] = @ + 1]
      /\ mtime' = [mtime EXCEPT ![g] = stamp]
      /\ restamped' = [restamped EXCEPT ![g] = (mtime'[g] = mtime[g])]
      /\ UNCHANGED <<state, pc, call, pending, microtasks, stdout, diagnostics, analyzedAt,
                     savedAnalyzed>>
  BY DEF Save, client, requests, results, lintings, pipes
<1>2. now + 1 \in Nat
  BY TimeTypes
<1>3. /\ stamp \in Nat /\ stamp <= now + 1 /\ now + 1 < stamp + FsTicks /\ stamp % FsTicks = 0
      /\ mtime[g] <= stamp
  <2>1. mtime[g] % FsTicks = 0 /\ mtime[g] <= s[g] /\ s[g] <= now /\ mtime[g] \in Nat
    BY TimeTypes DEF SavesInv, SaveTimes
  <2>2. mtime[g] <= now + 1
    BY <2>1, TimeTypes
  <2>3. FsTicks \in Nat \ {0}
    BY ClockAssumption
  <2> QED
    BY <1>2, <2>1, <2>2, <2>3, RoundDown, RoundDownIsLast
<1> HIDE DEF stamp
<1>4. \A f \in Files : /\ t[f] = IF f = g THEN now + 1 ELSE s[f]
                       /\ mtime'[f] = IF f = g THEN stamp ELSE mtime[f]
                       /\ content'[f] = IF f = g THEN content[g] + 1 ELSE content[f]
                       /\ f # g => restamped'[f] = restamped[f]
                       /\ s[f] \in Nat
  BY <1>1, TimeTypes
<1>5. SaveTimes(t)'
  <2> SUFFICES ASSUME NEW f \in Files
               PROVE  /\ t[f] <= now + 1 /\ mtime'[f] <= t[f] /\ t[f] < mtime'[f] + FsTicks
                      /\ mtime'[f] % FsTicks = 0
    BY <1>1 DEF SaveTimes
  <2>1. CASE f = g
    BY <1>2, <1>3, <1>4, <2>1
  <2>2. CASE f # g
    <3>1. /\ s[f] <= now /\ mtime[f] <= s[f] /\ s[f] < mtime[f] + FsTicks
          /\ mtime[f] % FsTicks = 0
      BY DEF SavesInv, SaveTimes
    <3>2. t[f] = s[f] /\ mtime'[f] = mtime[f]
      BY <1>4, <2>2
    <3> QED
      BY <1>4, <3>1, <3>2, TimeTypes
  <2> QED
    BY <2>1, <2>2
<1>6. AnalysisTimes'
  BY <1>1, TimeTypes DEF SavesInv, AnalysisTimes
<1>7. \A reply : \A at \in Nat \cup {-1} :
        at <= now /\ Includes(reply, at, s) => Includes(reply, at, t)'
  <2> SUFFICES ASSUME NEW reply, NEW at \in Nat \cup {-1}, at <= now, Includes(reply, at, s),
                      reply.kind = "ok", NEW f \in Files, t[f] <= at
               PROVE  reply.seen[f] >= content'[f]
    BY DEF Includes
  <2>1. f # g
    BY <1>2, <1>4, TimeTypes
  <2> QED
    BY <1>4, <2>1 DEF Includes
<1>8. call.asked <= content'[call.file]
  <2>1. /\ call.asked <= content[call.file] /\ call.asked \in Nat
        /\ content[call.file] \in Nat /\ content[g] \in Nat /\ call.file \in Files
    BY TimeTypes DEF SavesInv, ResultsInclude
  <2> QED
    BY <1>4, <2>1
<1>9. FramesInclude(t)'
  BY <1>1, <1>7, TimeTypes DEF SavesInv, AnalysisTimes, FramesInclude, ReplyIncludes, SeesAsked,
                              Awaiting
<1>10. ResultsInclude(t)'
  BY <1>1, <1>7, <1>8, TimeTypes DEF SavesInv, AnalysisTimes, ResultsInclude, SeesAsked
<1>11. StampsAnalyzed(t)'
  <2> SUFFICES ASSUME NEW f \in Files
               PROVE  /\ savedAnalyzed[f] <= mtime'[f]
                      /\ savedAnalyzed[f] = mtime'[f] /\ ~restamped'[f] =>
                           \/ t[f] <= analyzedAt
                           \/ pc = "initialize" /\ t[f] <= call.startedAt
                           \/ pc = "file_saved" /\ f = call.file /\ t[f] <= call.startedAt
                           \/ state \in {"fallback", "disposed"}
    BY <1>1 DEF StampsAnalyzed
  <2>1. CASE f = g
    <3>1. savedAnalyzed[g] <= mtime[g] /\ mtime[g] \in Nat /\ savedAnalyzed[g] \in Nat \cup {-1}
      BY TimeTypes DEF SavesInv, StampsAnalyzed
    <3>2. mtime'[g] = mtime[g] => restamped'[g]
      BY <1>1, TimeTypes
    <3> QED
      BY <1>3, <1>4, <2>1, <3>1, <3>2
  <2>2. CASE f # g
    BY <1>4, <2>2 DEF SavesInv, StampsAnalyzed
  <2> QED
    BY <2>1, <2>2
<1> QED
  BY <1>5, <1>6, <1>9, <1>10, <1>11 DEF SavesInv

-----------------------------------------------------------------------------
(* The call waits for the response to the request it sends now.            *)
LEMMA RequestSyncLint ==
  ASSUME Inv, Inv', CountersInv, NEW s \in [Files -> Nat], SavesInv(s), StampsAnalyzed(s)',
         NEW p \in Procs, NEW method, RequestSync(p, method),
         UNCHANGED <<content, mtime, now, microtasks, stdout, diagnostics, analyzedAt>>
  PROVE  SavesInv(s)'
<1>1. EnqueueRequest(p, FALSE)
  BY DEF RequestSync
<1>2. /\ call'.id = nextRequestID /\ call'.reply = NoReply /\ call'.startedAt = now
      /\ call'.file = call.file /\ call'.asked = call.asked
  BY DEF RequestSync, Inv, TypeOK, CallTypeOK
<1>3. now <= now /\ call.asked <= content[call.file]
  BY TimeTypes DEF SavesInv, ResultsInclude
<1> QED
  BY <1>1, <1>2, <1>3, SendLint

LEMMA CallStepLint ==
  ASSUME Inv, Inv', SilentInv, CountersInv, NEW s \in [Files -> Nat], SavesInv(s), CallStep
  PROVE  SavesInv(s)'
<1> USE NoReplyType
<1>1. /\ call.resume \notin Waiting
      /\ pc \in Waiting /\ call.reply.kind # "error" =>
           \/ pc = "initialize" /\ state = "starting"
           \/ pc = "rule_changed" /\ state = "invalidated"
           \/ pc = "file_saved" /\ state = "ready"
      /\ call.asked <= content[call.file]
      /\ call \in [file : Files, asked : Nat, resume : {"refreshInvalidated", "branch"},
                   id : Nat, startedAt : Nat, reply : Replies]
  BY DEF Inv, CallInv, TypeOK, CallTypeOK, SavesInv, ResultsInclude, Waiting
<1>2. now \in Nat /\ \A f \in Files : s[f] <= now /\ s[f] \in Nat
  BY TimeTypes DEF SavesInv, SaveTimes
<1>3. Return => /\ call'.file = call.file /\ call'.asked = 0 /\ call'.startedAt = 0
                /\ pc' = "idle"
  BY <1>1 DEF Return
<1>4. CASE StartServe
  <2>1. PICK p \in Procs : RequestSync(p, "initialize")
    BY <1>4 DEF StartServe
  <2>2. /\ call'.startedAt = now /\ call'.file = call.file /\ pc' = "initialize"
    BY <1>1, <2>1 DEF RequestSync
  <2>3. StampsAnalyzed(s)'
    BY <1>2, <1>4, <2>2 DEF StartServe, world, results, lintings, StampsAnalyzed, SavesInv
  <2>4. UNCHANGED <<content, mtime, now, microtasks, stdout, diagnostics, analyzedAt>>
    BY <1>4 DEF StartServe, world, results
  <2> QED
    BY <2>1, <2>3, <2>4, RequestSyncLint
<1>5. CASE SpawnFails
  BY <1>1, <1>5, LeaveLint DEF SpawnFails, world, lintings, pipes, Gone, Waiting
<1>6. CASE SyncRead
  BY <1>6, ReadFrameLint DEF SyncRead
<1>7. CASE SyncThrows
  BY <1>2, <1>7, OutsideLint DEF SyncThrows, client, requests, results, lintings, pipes, world
<1>8. CASE InitializeDone
  BY <1>1, <1>8, LeaveLint
  DEF InitializeDone, SetDiagnostics, requests, lintings, world, Gone, Waiting
<1>9. CASE InitializeFailed
  <2>1. Gone'
    BY <1>9, HandleServeFailureType DEF InitializeFailed, Inv, TypeOK, ProcTypeOK, Gone
  <2>2. /\ pending' \subseteq pending
        /\ microtasks' \subseteq microtasks \cup Settled(pending, FailedReply)
        /\ diagnostics' \in {diagnostics, NoReply}
    BY <1>9, HandleServeFailureCalm DEF InitializeFailed
  <2> QED
    BY <1>1, <1>9, <2>1, <2>2, LeaveLint DEF InitializeFailed, lintings, world
<1>10. CASE RefreshInvalidated
  <2>1. UNCHANGED <<content, mtime, restamped, savedAnalyzed, now, microtasks, stdout,
                    diagnostics, analyzedAt, state>> /\ pc = "refreshInvalidated"
    BY <1>10 DEF RefreshInvalidated, world, results, lintings
  <2>2. CASE RequestSync(child, "rule_changed") /\ child \in Procs
    <3>1. StampsAnalyzed(s)'
      BY <2>1 DEF StampsAnalyzed, SavesInv
    <3> QED
      BY <2>1, <2>2, <3>1, RequestSyncLint
  <2>3. CASE /\ pc' \notin Waiting /\ UNCHANGED pending
             /\ call' \in {call, [call EXCEPT !.resume = "branch"]}
    <3>1. call'.startedAt = call.startedAt /\ call'.asked = call.asked /\ call'.file = call.file
      BY <1>1, <2>3
    <3> QED
      BY <1>1, <2>1, <2>3, <3>1, LeaveLint DEF Gone
  <2>4. state = "invalidated" /\ child # NoProc => child \in Procs
    BY DEF Inv, TypeOK, ClientTypeOK
  <2> QED
    BY <1>10, <2>2, <2>3, <2>4 DEF RefreshInvalidated, requests, Waiting
<1>11. CASE RuleChangedDone
  BY <1>1, <1>11, LeaveLint
  DEF RuleChangedDone, SetDiagnostics, requests, lintings, world, Gone, Waiting
<1>12. CASE RuleChangedFailed
  <2>1. call'.startedAt = call.startedAt /\ call'.asked = call.asked /\ call'.file = call.file
    BY <1>1, <1>12 DEF RuleChangedFailed
  <2> QED
    BY <1>1, <1>12, <2>1, LeaveLint
    DEF RuleChangedFailed, requests, results, lintings, world, Gone, Waiting
<1>13. CASE LintSaved
  <2>1. RequestSync(child, "file_saved") /\ child \in Procs /\ pc = "branch"
    BY <1>13 DEF LintSaved, Inv, CallInv, LiveStateHasChild
  <2>2. /\ call'.startedAt = now /\ call'.file = call.file /\ pc' = "file_saved"
    BY <1>1, <2>1 DEF RequestSync
  <2>3. StampsAnalyzed(s)'
    <3> SUFFICES ASSUME NEW f \in Files
                 PROVE  /\ savedAnalyzed'[f] <= mtime[f]
                        /\ savedAnalyzed'[f] = mtime[f] /\ ~restamped[f] =>
                             \/ s[f] <= analyzedAt
                             \/ f = call.file /\ s[f] <= now
                             \/ state \in {"fallback", "disposed"}
      BY <1>13, <2>2 DEF LintSaved, StampsAnalyzed, results, world
    <3>1. CASE f = call.file
      BY <1>2, <1>13, <3>1, TimeTypes DEF LintSaved
    <3>2. CASE f # call.file
      BY <1>13, <2>1, <3>2, TimeTypes DEF LintSaved, SavesInv, StampsAnalyzed
    <3> QED
      BY <3>1, <3>2
  <2>4. UNCHANGED <<content, mtime, now, microtasks, stdout, diagnostics, analyzedAt>>
    BY <1>13 DEF LintSaved, world, results
  <2> QED
    BY <2>1, <2>3, <2>4, RequestSyncLint
<1>14. CASE LintUnchanged
  <2>1. /\ UNCHANGED <<content, mtime, restamped, savedAnalyzed, now, microtasks, stdout,
                       diagnostics, analyzedAt, state>> /\ pc = "branch"
        /\ pc' = "idle" /\ call'.startedAt = 0 /\ call'.asked = 0 /\ call'.file = call.file
    BY <1>3, <1>14 DEF LintUnchanged, world, results
  <2>2. CASE UNCHANGED pending
    BY <2>1, <2>2, LeaveLint DEF Gone, Waiting
  <2>3. CASE EnqueueRequest(child, TRUE)
    <3>1. child \in Procs
      BY <1>14 DEF LintUnchanged, Inv, CallInv, LiveStateHasChild
    <3>2. StampsAnalyzed(s)'
      BY <2>1 DEF StampsAnalyzed, SavesInv
    <3>3. 0 <= now /\ 0 <= content[call.file]
      BY TimeTypes
    <3>4. ~Awaiting' /\ pc' \notin Waiting
      BY <2>1 DEF Awaiting, Waiting
    <3> QED
      BY <2>1, <2>3, <3>1, <3>2, <3>3, <3>4, SendLint
  <2> QED
    BY <1>14, <2>2, <2>3 DEF LintUnchanged, requests
<1>15. CASE FileSavedDone
  BY <1>1, <1>3, <1>15, LeaveLint
  DEF FileSavedDone, SetDiagnostics, requests, lintings, world, Gone, Waiting
<1>16. CASE FileSavedFailed
  <2>1. state # "ready" => Gone
    BY <1>16 DEF FileSavedFailed, SilentInv, Gone
  <2> QED
    BY <1>3, <1>16, <2>1, LeaveLint
    DEF FileSavedFailed, SetReanalyzeFailure, results, requests, lintings, world, Gone, Waiting
<1>17. CASE LintFallback \/ LintNothing
  BY <1>3, <1>17, LeaveLint
  DEF LintFallback, LintNothing, client, results, requests, lintings, pipes, world, Gone, Waiting
<1> QED
  BY <1>4, <1>5, <1>6, <1>7, <1>8, <1>9, <1>10, <1>11, <1>12, <1>13, <1>14, <1>15, <1>16,
     <1>17 DEF CallStep

LEMMA EventLint ==
  ASSUME Inv, Inv', NEW s \in [Files -> Nat], SavesInv(s), Event
  PROVE  SavesInv(s)'
<1>1. ASSUME NEW m \in microtasks, RefreshSettles(m) PROVE SavesInv(s)'
  <2>1. /\ UNCHANGED <<content, mtime, restamped, savedAnalyzed, now, pending, stdout, pc, call,
                       state>>
        /\ microtasks' = microtasks \ {m} /\ pc = "idle"
    BY <1>1 DEF RefreshSettles, requests, lintings, world
  <2>2. /\ analyzedAt \in Nat \cup {-1} /\ analyzedAt <= now /\ now \in Nat
        /\ call.startedAt <= now /\ call.asked <= content[call.file]
        /\ m.request.startedAt \in Nat /\ m.request.startedAt <= now
        /\ Includes(m.reply, m.request.startedAt, s) /\ Includes(diagnostics, analyzedAt, s)
    BY TimeTypes DEF SavesInv, AnalysisTimes, ResultsInclude
  <2>3. /\ analyzedAt <= analyzedAt' /\ analyzedAt' <= now
        /\ Includes(diagnostics', analyzedAt', s)
    <3>1. CASE UNCHANGED results
      BY <2>2, <3>1 DEF results
    <3>2. CASE /\ analyzedAt' = m.request.startedAt /\ diagnostics' \in {m.reply, NoReply}
               /\ ~IsOutdated(m.request)
      BY <2>2, <3>2, ErrorIncludes DEF IsOutdated
    <3> QED
      BY <1>1, <3>1, <3>2 DEF RefreshSettles, SetDiagnostics, SetReanalyzeFailure
  <2>4. StampsAnalyzed(s)'
    BY <2>1, <2>3, StampsCalm DEF Gone
  <2>5. \A q \in microtasks' :
          q.request.startedAt <= now /\ Includes(q.reply, q.request.startedAt, s)
    BY <2>1, MicrotasksInclude
  <2>6. \A p \in Procs : \A i \in 1..Len(stdout'[p]) :
          \E j \in 1..Len(stdout[p]) : stdout'[p][i] = stdout[p][j]
    BY <2>1
  <2>7. pc' \notin Waiting /\ ~Awaiting' /\ now <= now'
    BY <2>1, <2>2 DEF Awaiting, Waiting
  <2> QED
    BY <2>1, <2>2, <2>3, <2>4, <2>5, <2>6, <2>7, CalmLint
<1>2. ASSUME NEW p \in Procs, DataEvent(p) PROVE SavesInv(s)'
  BY <1>2, ReadFrameLint DEF DataEvent
<1>3. ASSUME NEW p \in Procs, ExitEvent(p) PROVE SavesInv(s)'
  <2>1. HandleServeFailure([proc EXCEPT ![p] = "reaped"])
    BY <1>3 DEF ExitEvent
  <2>2. [proc EXCEPT ![p] = "reaped"] \in
          [Procs -> {"unborn", "running", "ending", "exited", "reaped"}]
    BY DEF Inv, TypeOK, ProcTypeOK
  <2>3. Gone'
    BY <2>1, <2>2, HandleServeFailureType DEF Inv, Gone
  <2>4. /\ pending' \subseteq pending
        /\ microtasks' \subseteq microtasks \cup Settled(pending, FailedReply)
        /\ diagnostics' \in {diagnostics, NoReply}
    BY <2>1, HandleServeFailureCalm
  <2>5. call.asked <= content[call.file]
    BY DEF SavesInv, ResultsInclude
  <2> QED
    BY <1>3, <2>3, <2>4, <2>5, LeaveLint DEF ExitEvent, Quiet, lintings, world, Waiting
<1>4. ASSUME NEW r \in pending, WriteError(r) PROVE SavesInv(s)'
  <2>1. Settled({r}, FailedReply) \subseteq Settled(pending, FailedReply)
    BY DEF Settled
  <2>2. call.asked <= content[call.file]
    BY DEF SavesInv, ResultsInclude
  <2> QED
    BY <1>4, <2>1, <2>2, LeaveLint
    DEF WriteError, Quiet, results, lintings, pipes, world, Gone, Waiting
<1>5. CASE RuleEvent
  <2>1. call.asked <= content[call.file]
    BY DEF SavesInv, ResultsInclude
  <2> QED
    BY <1>5, <2>1, LeaveLint DEF RuleEvent, Quiet, results, lintings, pipes, Gone, Waiting
<1>6. CASE TimerFires
  <2>1. call.asked <= content[call.file]
    BY DEF SavesInv, ResultsInclude
  <2>2. Gone => Gone'
    BY <1>6 DEF TimerFires, ApplyRuleInvalidation, Gone, Inv, CallInv
  <2> QED
    BY <1>6, <2>1, <2>2, LeaveLint
    DEF TimerFires, ApplyRuleInvalidation, Quiet, requests, lintings, world, Waiting
<1> QED
  BY <1>1, <1>2, <1>3, <1>4, <1>5, <1>6 DEF Event

LEMMA FreshStep ==
  ASSUME Inv, Inv', SilentInv, CountersInv, FreshInv, [Next]_vars
  PROVE  FreshInv'
<1>1. PICK s \in [Files -> Nat] : SavesInv(s)
  BY DEF FreshInv
<1>2. CASE \E f \in Files : Save(f)
  <2>1. PICK g \in Files : Save(g)
    BY <1>2
  <2>2. now + 1 \in Nat
    BY TimeTypes
  <2>3. [s EXCEPT ![g] = now + 1] \in [Files -> Nat]
    BY <2>2
  <2>4. PICK t \in [Files -> Nat] : t = [s EXCEPT ![g] = now + 1]
    BY <2>3
  <2> QED
    BY <1>1, <2>1, <2>4, SaveLint DEF FreshInv
<1>3. ~(\E f \in Files : Save(f)) => SavesInv(s)'
  <2>1. CASE \E f \in Files : GetDiagnostics(f)
    <3>1. PICK f \in Files : GetDiagnostics(f)
      BY <2>1
    <3>2. call'.file = f /\ call'.asked = content[f] /\ call'.startedAt = call.startedAt
      BY <3>1 DEF GetDiagnostics, Inv, TypeOK, CallTypeOK
    <3>3. call'.asked <= content[call'.file]
      BY <3>2, TimeTypes
    <3>4. Gone => Gone'
      BY <3>1 DEF GetDiagnostics, Gone
    <3>5. pc' \notin Waiting /\ pc = "idle"
      BY <3>1 DEF GetDiagnostics, Waiting
    <3> QED
      BY <1>1, <3>1, <3>2, <3>3, <3>4, <3>5, LeaveLint
      DEF GetDiagnostics, requests, results, lintings, world
  <2>2. CASE CallStep
    BY <1>1, <2>2, CallStepLint
  <2>3. CASE Event
    BY <1>1, <2>3, EventLint
  <2>4. CASE Dispose
    <3>1. call.asked <= content[call.file]
      BY <1>1 DEF SavesInv, ResultsInclude
    <3> QED
      BY <1>1, <2>4, <3>1, LeaveLint
      DEF Dispose, requests, results, lintings, world, Gone, Waiting
  <2>5. ASSUME NEW p \in Procs, ServeAnswers(p) PROVE SavesInv(s)'
    BY <1>1, <2>5, ServeAnswersLint
  <2>6. CASE /\ UNCHANGED <<content, mtime, restamped, savedAnalyzed, stdout, pending, microtasks,
                            pc, diagnostics, analyzedAt, state, call>>
             /\ now <= now'
    BY <1>1, <2>6, OutsideLint
  <2>7. (\E p \in Procs : ServeExits(p) \/ ServeCrashes(p)) \/ Tick \/ EditRule \/ UNCHANGED vars
        => /\ UNCHANGED <<content, mtime, restamped, savedAnalyzed, stdout, pending, microtasks,
                          pc, diagnostics, analyzedAt, state, call>>
           /\ now <= now'
    BY TimeTypes
    DEF ServeExits, ServeCrashes, Tick, EditRule, vars, client, requests, results, lintings,
        pipes, world
  <2> QED
    BY <2>1, <2>2, <2>3, <2>4, <2>5, <2>6, <2>7 DEF Next
<1> QED
  BY <1>1, <1>2, <1>3 DEF FreshInv

(* A file that savedSinceAnalysis passes over is in the last analysis.     *)
LEMMA UnchangedIsAnalyzed ==
  ASSUME Inv, NEW s \in [Files -> Nat], SavesInv(s), LintUnchanged, ~restamped[call.file]
  PROVE  s[call.file] <= analyzedAt
<1> DEFINE f == call.file
<1>1. /\ f \in Files /\ s[f] \in Nat /\ mtime[f] \in Nat /\ analyzedAt \in Nat \cup {-1}
      /\ SecondTicks \in Nat \ {0} /\ s[f] < mtime[f] + FsTicks /\ mtime[f] % FsTicks = 0
  BY TimeTypes, ClockAssumption DEF SavesInv, SaveTimes
<1>2. pc = "branch" /\ state = "ready" /\ ~SavedSinceAnalysis(f)
  BY DEF LintUnchanged
<1>3. CASE savedAnalyzed[f] = mtime[f]
  BY <1>1, <1>2, <1>3 DEF SavesInv, StampsAnalyzed
<1>4. CASE savedAnalyzed[f] # mtime[f] /\ FsTicks = 1
  BY <1>1, <1>2, <1>4 DEF SavedSinceAnalysis
<1>5. CASE savedAnalyzed[f] # mtime[f] /\ FsTicks = SecondTicks
  BY <1>1, <1>2, <1>5 DEF SavedSinceAnalysis
<1> QED
  BY <1>3, <1>4, <1>5, StampAssumption

LEMMA FreshReturn ==
  ASSUME Inv, SilentInv, FreshInv, Next, Returns, state' = "ready"
  PROVE  \/ analysisFailure'
         \/ diagnostics'.kind = "ok" /\ diagnostics'.seen[call.file] >= call.asked
         \/ restamped[call.file]
<1>1. PICK s \in [Files -> Nat] : SavesInv(s)
  BY DEF FreshInv
<1>2. CASE LintUnchanged
  <2>1. state = "ready" /\ UNCHANGED <<diagnostics, analysisFailure>>
    BY <1>2 DEF LintUnchanged, results
  <2>2. diagnostics.kind = "ok" \/ analysisFailure
    BY <2>1 DEF SilentInv
  <2>3. ~restamped[call.file] /\ diagnostics.kind = "ok" =>
          diagnostics.seen[call.file] >= content[call.file]
    BY <1>1, <1>2, UnchangedIsAnalyzed, TimeTypes DEF SavesInv, ResultsInclude, Includes
  <2>4. /\ call.asked <= content[call.file] /\ call.asked \in Nat
        /\ content[call.file] \in Nat /\ diagnostics.seen[call.file] \in Nat
    BY <1>1, TimeTypes DEF SavesInv, ResultsInclude, Replies
  <2> QED
    BY <2>1, <2>2, <2>3, <2>4
<1>3. CASE FileSavedDone
  BY <1>1, <1>3 DEF FileSavedDone, SetDiagnostics, SavesInv, ResultsInclude, SeesAsked, Waiting
<1>4. CASE FileSavedFailed
  BY <1>4 DEF FileSavedFailed, SetReanalyzeFailure
<1>5. CASE LintFallback \/ LintNothing
  BY <1>5 DEF LintFallback, LintNothing, client
<1> QED
  BY <1>2, <1>3, <1>4, <1>5, ReturningSteps

(* A file saved before it is linted is linted with an analysis of that     *)
(* version or a later one, or its failure is shown: LintIsFresh, for every *)
(* instance.                                                               *)
THEOREM LintIsAlwaysFresh == Spec => LintIsFresh
<1>1. Init => SilentInv /\ RulesInv
  BY NoReplyType
  DEF Init, SilentInv, OneshotInv, RulesInv, CountersInv, FramesFresh, MicrotasksFresh, Fresh,
      Waiting
<1>2. Init => FreshInv
  <2> SUFFICES ASSUME Init PROVE FreshInv
    OBVIOUS
  <2>0. PICK s \in [Files -> Nat] : \A f \in Files : s[f] = 0
    <3>1. [f \in Files |-> 0] \in [Files -> Nat]
      OBVIOUS
    <3> QED
      BY <3>1
  <2>1. SaveTimes(s)
    <3>1. FsTicks \in Nat \ {0} /\ 0 % FsTicks = 0 /\ SecondTicks \in Nat
      BY ClockAssumption
    <3> SUFFICES ASSUME NEW f \in Files
                 PROVE  /\ s[f] <= now /\ mtime[f] <= s[f] /\ s[f] < mtime[f] + FsTicks
                        /\ mtime[f] % FsTicks = 0
      BY DEF SaveTimes
    <3>2. now = SecondTicks + 1 /\ mtime[f] = 0 /\ s[f] = 0
      BY <2>0 DEF Init
    <3> QED
      BY <3>1, <3>2
  <2>2. AnalysisTimes /\ FramesInclude(s)
    BY ClockAssumption DEF Init, AnalysisTimes, FramesInclude, Waiting
  <2>3. ResultsInclude(s)
    BY NoReplyType DEF Init, ResultsInclude, Includes, Waiting
  <2>4. StampsAnalyzed(s)
    <3> SUFFICES ASSUME NEW f \in Files
                 PROVE  savedAnalyzed[f] <= mtime[f] /\ savedAnalyzed[f] # mtime[f]
      BY DEF StampsAnalyzed
    <3>1. mtime[f] = 0 /\ savedAnalyzed[f] = -1
      BY DEF Init
    <3> QED
      BY <3>1
  <2> QED
    BY <2>0, <2>1, <2>2, <2>3, <2>4 DEF FreshInv, SavesInv
<1>3. Inv /\ SilentInv /\ RulesInv /\ [Next]_vars => SilentInv' /\ RulesInv'
  BY SilentStep, RulesStep
<1>4. Inv /\ Inv' /\ SilentInv /\ RulesInv /\ FreshInv /\ [Next]_vars => FreshInv'
  BY FreshStep DEF RulesInv
<1>5. Inv /\ SilentInv /\ FreshInv /\ [Next]_vars =>
        [Returns /\ state' = "ready" =>
           \/ analysisFailure'
           \/ diagnostics'.kind = "ok" /\ diagnostics'.seen[call.file] >= call.asked
           \/ restamped[call.file]]_vars
  BY FreshReturn
<1> QED
  BY <1>1, <1>2, <1>3, <1>4, <1>5, ClientInvariant, PTL DEF Spec, LintIsFresh

=============================================================================
