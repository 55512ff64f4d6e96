------------------------- MODULE LintaiClientProofs -------------------------
(* Theorems about LintaiClient, for every value of its constants.          *)
EXTENDS LintaiClient, TLAPS

-----------------------------------------------------------------------------
(* Which state and which process go with each point of a call.  A response *)
(* that has arrived ("ok") or may still arrive ("none") finds the client   *)
(* in the state in which it sent the request.                              *)
CallInv ==
  /\ LiveStateHasChild
  /\ state = "idle" => child = NoProc
  /\ pc = "startServe" => child = NoProc
  /\ state = "starting" => pc = "initialize"
  /\ timer => state # "disposed"
  /\ pc \in Waiting /\ call.reply.kind # "error" =>
       \/ pc = "initialize" /\ state = "starting"
       \/ pc = "rule_changed" /\ state = "invalidated"
       \/ pc = "file_saved" /\ state = "ready"

Inv == TypeOK /\ CallInv

LEMMA NoReplyType ==
  /\ NoReply \in Replies /\ FailedReply \in Replies
  /\ NoReply.kind = "none" /\ FailedReply.kind = "error"
BY DEF NoReply, FailedReply, Replies

(* Sending a request keeps the request table and the pipes well-typed.     *)
LEMMA EnqueueRequestType ==
  ASSUME TypeOK, NEW p \in Procs, NEW background \in BOOLEAN,
         EnqueueRequest(p, background)
  PROVE  /\ pending' \subseteq Requests
         /\ nextRequestID' \in Nat
         /\ stdin' \in [Procs -> Seq(Nat)]
<1>1. nextRequestID \in Nat /\ analysisEpoch \in Nat /\ now \in Nat
  BY DEF TypeOK, ClientTypeOK, WorldTypeOK
<1>2. pending' \subseteq Requests
  BY <1>1 DEF TypeOK, ClientTypeOK, EnqueueRequest, Requests
<1>3. stdin[p] \in Seq(Nat) /\ Append(stdin[p], nextRequestID) \in Seq(Nat)
  BY <1>1 DEF TypeOK, ProcTypeOK
<1>4. stdin' \in [Procs -> Seq(Nat)]
  BY <1>3 DEF TypeOK, ProcTypeOK, EnqueueRequest
<1> QED
  BY <1>1, <1>2, <1>4 DEF EnqueueRequest

(* The promises of a set of requests settle as well-typed microtasks.      *)
LEMMA SettledType ==
  ASSUME NEW S, S \subseteq Requests, NEW reply \in Replies
  PROVE  Settled(S, reply) \subseteq [request : Requests, reply : Replies]
BY DEF Settled

LEMMA EndStdinType ==
  ASSUME NEW procs \in [Procs -> {"unborn", "running", "ending", "exited", "reaped"}],
         NEW p
  PROVE  EndStdin(procs, p) \in [Procs -> {"unborn", "running", "ending", "exited", "reaped"}]
BY DEF EndStdin

(* What handleServeFailure leaves behind, in either of its branches.       *)
LEMMA HandleServeFailureType ==
  ASSUME TypeOK,
         NEW procs \in [Procs -> {"unborn", "running", "ending", "exited", "reaped"}],
         HandleServeFailure(procs)
  PROVE  /\ state' \in {"fallback", "disposed"}
         /\ child' \in Procs \cup {NoProc} /\ attached' \in BOOLEAN
         /\ pending' \subseteq Requests /\ refreshInFlight' \in BOOLEAN
         /\ diagnostics' \in Replies /\ serveFailure' \in BOOLEAN
         /\ microtasks' \subseteq [request : Requests, reply : Replies]
         /\ proc' \in [Procs -> {"unborn", "running", "ending", "exited", "reaped"}]
<1>1. Settled(pending, FailedReply) \subseteq [request : Requests, reply : Replies]
  BY NoReplyType, SettledType DEF TypeOK, ClientTypeOK
<1>2. CASE state \in {"disposed", "fallback"}
  BY <1>2 DEF HandleServeFailure, TypeOK, ClientTypeOK, CallTypeOK
<1>3. CASE state \notin {"disposed", "fallback"}
  <2>1. EndStdin(procs, child) \in
          [Procs -> {"unborn", "running", "ending", "exited", "reaped"}]
    BY EndStdinType
  <2> QED
    BY <1>1, <1>3, <2>1, NoReplyType
    DEF HandleServeFailure, TypeOK, ClientTypeOK, CallTypeOK
<1> QED
  BY <1>2, <1>3

(* A frame read from a pipe keeps the types.                               *)
LEMMA ReadFrameType ==
  ASSUME TypeOK, NEW p \in Procs, ReadFrame(p)
  PROVE  TypeOK'
<1> DEFINE frame == Head(stdout[p])
           hits  == {r \in pending : r.id = frame.id}
<1>1. /\ frame \in Replies /\ Tail(stdout[p]) \in Seq(Replies)
      /\ stdout' = [stdout EXCEPT ![p] = Tail(@)]
  BY DEF ReadFrame, TypeOK, ProcTypeOK
<1>2. stdout' \in [Procs -> Seq(Replies)]
  BY <1>1 DEF TypeOK, ProcTypeOK
<1>3. CASE frame.kind = "garbled"
  <2>1. /\ HandleServeFailure(proc)
        /\ call' = IF Awaiting THEN [call EXCEPT !.reply = FailedReply] ELSE call
    BY <1>3 DEF ReadFrame
  <2>2. /\ state' \in {"fallback", "disposed"}
        /\ child' \in Procs \cup {NoProc} /\ attached' \in BOOLEAN
        /\ pending' \subseteq Requests /\ refreshInFlight' \in BOOLEAN
        /\ diagnostics' \in Replies /\ serveFailure' \in BOOLEAN
        /\ microtasks' \subseteq [request : Requests, reply : Replies]
        /\ proc' \in [Procs -> {"unborn", "running", "ending", "exited", "reaped"}]
    BY <2>1, HandleServeFailureType DEF TypeOK, ProcTypeOK
  <2>3. ClientTypeOK'
    BY <2>2 DEF ReadFrame, TypeOK, ClientTypeOK, States, watch, lintings
  <2>4. CallTypeOK'
    BY <2>1, <2>2, NoReplyType DEF ReadFrame, TypeOK, CallTypeOK
  <2>5. ProcTypeOK'
    BY <1>2, <2>2 DEF ReadFrame, TypeOK, ProcTypeOK
  <2> QED
    BY <1>2, <2>3, <2>4, <2>5 DEF ReadFrame, TypeOK, WorldTypeOK, world, watch
<1>4. CASE frame.kind # "garbled"
  <2>1. /\ pending' = pending \ hits
        /\ microtasks' = microtasks \cup Settled(hits, frame)
        /\ call' = IF Awaiting /\ frame.id = call.id
                   THEN [call EXCEPT !.reply = frame] ELSE call
        /\ UNCHANGED <<state, child, attached, refreshInFlight, diagnostics,
                       serveFailure, proc>>
    BY <1>4 DEF ReadFrame
  <2>2. Settled(hits, frame) \subseteq [request : Requests, reply : Replies]
    BY <1>1, SettledType DEF TypeOK, ClientTypeOK
  <2>3. ClientTypeOK'
    BY <2>1 DEF ReadFrame, TypeOK, ClientTypeOK, watch, lintings
  <2>4. CallTypeOK'
    BY <1>1, <2>1, <2>2 DEF ReadFrame, TypeOK, CallTypeOK
  <2>5. ProcTypeOK'
    BY <1>2, <2>1 DEF ReadFrame, TypeOK, ProcTypeOK
  <2> QED
    BY <1>2, <2>3, <2>4, <2>5 DEF ReadFrame, TypeOK, WorldTypeOK, world, watch
<1> QED
  BY <1>3, <1>4

LEMMA InitInv == Init => Inv
<1> SUFFICES ASSUME Init PROVE Inv
  OBVIOUS
<1>1. ClientTypeOK
  BY NoReplyType DEF Init, ClientTypeOK, NoProc, States
<1>2. CallTypeOK
  BY NoReplyType DEF Init, CallTypeOK, PCs
<1>3. ProcTypeOK
  BY DEF Init, ProcTypeOK
<1>4. WorldTypeOK
  <2>1. now \in Nat
    BY ClockAssumption DEF Init, ClockAssumption
  <2>2. /\ content \in [Files -> Nat] /\ mtime \in [Files -> Nat]
        /\ restamped \in [Files -> BOOLEAN]
    BY DEF Init
  <2> QED
    BY <2>1, <2>2 DEF Init, WorldTypeOK
<1>5. CallInv
  BY DEF Init, CallInv, LiveStateHasChild, Waiting
<1> QED
  BY <1>1, <1>2, <1>3, <1>4, <1>5 DEF Inv, TypeOK

LEMMA GetDiagnosticsInv ==
  ASSUME Inv, NEW f \in Files, GetDiagnostics(f)
  PROVE  Inv'
<1> USE DEF GetDiagnostics, requests, results, watch, lintings, world
<1>1. ClientTypeOK'
  BY DEF Inv, TypeOK, ClientTypeOK, States
<1>2. CallTypeOK'
  BY DEF Inv, TypeOK, ClientTypeOK, CallTypeOK, WorldTypeOK, PCs, Waiting
<1>3. ProcTypeOK'
  BY DEF Inv, TypeOK, ProcTypeOK, ClientTypeOK
<1>4. WorldTypeOK'
  BY DEF Inv, TypeOK, WorldTypeOK
<1>5. CallInv'
  BY DEF Inv, TypeOK, ClientTypeOK, CallTypeOK, CallInv, LiveStateHasChild,
     NoProc, Waiting
<1> QED
  BY <1>1, <1>2, <1>3, <1>4, <1>5 DEF Inv, TypeOK

LEMMA StartServeInv ==
  ASSUME Inv, StartServe
  PROVE  Inv'
<1>1. PICK p \in Procs :
        /\ proc' = [proc EXCEPT ![p] = "running"]
        /\ child' = p
        /\ state' = "starting"
        /\ RequestSync(p, "initialize")
  BY DEF StartServe
<1>2. /\ pending' \subseteq Requests /\ nextRequestID' \in Nat
      /\ stdin' \in [Procs -> Seq(Nat)]
  BY <1>1, EnqueueRequestType DEF RequestSync, Inv
<1>3. ClientTypeOK'
  BY <1>1, <1>2 DEF Inv, TypeOK, ClientTypeOK, StartServe, results, watch, lintings,
     States
<1>4. CallTypeOK'
  BY <1>1, NoReplyType DEF Inv, TypeOK, ClientTypeOK, CallTypeOK, WorldTypeOK, StartServe,
     RequestSync, PCs, Waiting
<1>5. ProcTypeOK'
  BY <1>1, <1>2 DEF Inv, TypeOK, ProcTypeOK, StartServe
<1>6. WorldTypeOK'
  BY DEF Inv, TypeOK, WorldTypeOK, StartServe, world, watch
<1>7. CallInv'
  BY <1>1 DEF CallInv, LiveStateHasChild, RequestSync
<1> QED
  BY <1>3, <1>4, <1>5, <1>6, <1>7 DEF Inv, TypeOK

LEMMA SpawnFailsInv ==
  ASSUME Inv, SpawnFails
  PROVE  Inv'
<1> USE DEF SpawnFails, Fault, Settled, watch, lintings, pipes, world
<1>1. ClientTypeOK'
  BY NoReplyType
  DEF Inv, TypeOK, ClientTypeOK, CallTypeOK, WorldTypeOK, States, Requests,
     NoProc
<1>2. CallTypeOK'
  BY NoReplyType
  DEF Inv, TypeOK, ClientTypeOK, CallTypeOK, WorldTypeOK, PCs, Waiting
<1>3. ProcTypeOK'
  BY DEF Inv, TypeOK, ProcTypeOK, ClientTypeOK
<1>4. WorldTypeOK'
  BY DEF Inv, TypeOK, WorldTypeOK
<1>5. CallInv'
  BY NoReplyType
  DEF Inv, TypeOK, ClientTypeOK, CallTypeOK, CallInv, LiveStateHasChild,
     NoProc, Waiting
<1> QED
  BY <1>1, <1>2, <1>3, <1>4, <1>5 DEF Inv, TypeOK

LEMMA SyncReadInv ==
  ASSUME Inv, SyncRead
  PROVE  Inv'
<1>1. TypeOK'
  BY ReadFrameType DEF SyncRead, Inv
<1>2. CallInv'
  BY NoReplyType DEF SyncRead, Awaiting, ReadFrame, HandleServeFailure, Inv, TypeOK,
     CallTypeOK, CallInv, LiveStateHasChild, Waiting
<1> QED
  BY <1>1, <1>2 DEF Inv

LEMMA SyncThrowsInv ==
  ASSUME Inv, SyncThrows
  PROVE  Inv'
<1> USE DEF SyncThrows, Awaiting, NoFault, Fault, client, results, watch, lintings, pipes, world
<1>1. ClientTypeOK'
  BY NoReplyType
  DEF Inv, TypeOK, ClientTypeOK, CallTypeOK, WorldTypeOK, States, Requests,
     NoProc
<1>2. CallTypeOK'
  BY NoReplyType
  DEF Inv, TypeOK, ClientTypeOK, CallTypeOK, WorldTypeOK, PCs, Waiting
<1>3. ProcTypeOK'
  BY DEF Inv, TypeOK, ProcTypeOK, ClientTypeOK
<1>4. WorldTypeOK'
  BY DEF Inv, TypeOK, WorldTypeOK
<1>5. CallInv'
  BY NoReplyType
  DEF Inv, TypeOK, ClientTypeOK, CallTypeOK, CallInv, LiveStateHasChild,
     NoProc, Waiting
<1> QED
  BY <1>1, <1>2, <1>3, <1>4, <1>5 DEF Inv, TypeOK

LEMMA InitializeDoneInv ==
  ASSUME Inv, InitializeDone
  PROVE  Inv'
<1> USE DEF InitializeDone, SetDiagnostics, requests, watch, lintings, world
<1>1. ClientTypeOK'
  BY DEF Inv, TypeOK, ClientTypeOK, CallTypeOK, WorldTypeOK, States, Requests,
     NoProc
<1>2. CallTypeOK'
  BY DEF Inv, TypeOK, ClientTypeOK, CallTypeOK, WorldTypeOK, PCs, Waiting
<1>3. ProcTypeOK'
  BY DEF Inv, TypeOK, ProcTypeOK, ClientTypeOK
<1>4. WorldTypeOK'
  BY DEF Inv, TypeOK, WorldTypeOK
<1>5. CallInv'
  BY DEF Inv, TypeOK, ClientTypeOK, CallTypeOK, CallInv, LiveStateHasChild,
     NoProc, Waiting
<1> QED
  BY <1>1, <1>2, <1>3, <1>4, <1>5 DEF Inv, TypeOK

LEMMA InitializeFailedInv ==
  ASSUME Inv, InitializeFailed
  PROVE  Inv'
<1> USE DEF InitializeFailed, HandleServeFailure, Settled, EndStdin, watch, lintings, world
<1>1. ClientTypeOK'
  BY NoReplyType
  DEF Inv, TypeOK, ClientTypeOK, CallTypeOK, WorldTypeOK, States, Requests,
     NoProc
<1>2. CallTypeOK'
  BY NoReplyType
  DEF Inv, TypeOK, ClientTypeOK, CallTypeOK, WorldTypeOK, PCs, Waiting
<1>3. ProcTypeOK'
  BY DEF Inv, TypeOK, ProcTypeOK, ClientTypeOK
<1>4. WorldTypeOK'
  BY DEF Inv, TypeOK, WorldTypeOK
<1>5. CallInv'
  BY NoReplyType
  DEF Inv, TypeOK, ClientTypeOK, CallTypeOK, CallInv, LiveStateHasChild,
     NoProc, Waiting
<1> QED
  BY <1>1, <1>2, <1>3, <1>4, <1>5 DEF Inv, TypeOK

LEMMA RefreshInvalidatedInv ==
  ASSUME Inv, RefreshInvalidated
  PROVE  Inv'
<1>1. /\ pending' \subseteq Requests /\ nextRequestID' \in Nat
      /\ stdin' \in [Procs -> Seq(Nat)]
  <2>1. CASE RequestSync(child, "rule_changed") /\ child # NoProc
    <3>1. child \in Procs
      BY <2>1 DEF Inv, TypeOK, ClientTypeOK
    <3> QED
      BY <2>1, <3>1, EnqueueRequestType DEF RequestSync, Inv
  <2>2. CASE UNCHANGED requests
    BY <2>2 DEF requests, Inv, TypeOK, ClientTypeOK, ProcTypeOK
  <2> QED
    BY <2>1, <2>2 DEF RefreshInvalidated
<1>2. ClientTypeOK'
  BY <1>1 DEF Inv, TypeOK, ClientTypeOK, RefreshInvalidated, results, watch, lintings
<1>3. CallTypeOK'
  <2>1. CASE RequestSync(child, "rule_changed")
    BY <2>1, NoReplyType DEF RefreshInvalidated, RequestSync, Inv, TypeOK, ClientTypeOK,
       CallTypeOK, WorldTypeOK, PCs, Waiting
  <2>2. CASE pc' = "branch" /\ UNCHANGED call
    BY <2>2 DEF RefreshInvalidated, Inv, TypeOK, CallTypeOK, PCs
  <2>3. CASE pc' = "startServe" /\ call' = [call EXCEPT !.resume = "branch"]
    BY <2>3 DEF RefreshInvalidated, Inv, TypeOK, CallTypeOK, PCs
  <2> QED
    BY <2>1, <2>2, <2>3 DEF RefreshInvalidated
<1>4. ProcTypeOK'
  BY <1>1 DEF Inv, TypeOK, ProcTypeOK, RefreshInvalidated
<1>5. WorldTypeOK'
  BY DEF Inv, TypeOK, WorldTypeOK, RefreshInvalidated, world, watch
<1>6. CallInv'
  <2>1. CASE state # "invalidated"
    BY <2>1 DEF RefreshInvalidated, Inv, CallInv, LiveStateHasChild, Waiting, watch
  <2>2. CASE state = "invalidated"
    <3>1. child \in Procs
      BY <2>2 DEF RefreshInvalidated, Inv, CallInv, LiveStateHasChild
    <3>2. RequestSync(child, "rule_changed")
      BY <2>2, <3>1 DEF RefreshInvalidated, Procs, NoProc
    <3> QED
      BY <2>2, <3>1, <3>2 DEF RefreshInvalidated, RequestSync, Inv, CallInv,
         LiveStateHasChild, watch
  <2> QED
    BY <2>1, <2>2
<1> QED
  BY <1>2, <1>3, <1>4, <1>5, <1>6 DEF Inv, TypeOK

LEMMA RuleChangedDoneInv ==
  ASSUME Inv, RuleChangedDone
  PROVE  Inv'
<1> USE DEF RuleChangedDone, SetDiagnostics, requests, watch, lintings, world
<1>1. ClientTypeOK'
  BY DEF Inv, TypeOK, ClientTypeOK, CallTypeOK, WorldTypeOK, States, Requests,
     NoProc
<1>2. CallTypeOK'
  BY DEF Inv, TypeOK, ClientTypeOK, CallTypeOK, WorldTypeOK, PCs, Waiting
<1>3. ProcTypeOK'
  BY DEF Inv, TypeOK, ProcTypeOK, ClientTypeOK
<1>4. WorldTypeOK'
  BY DEF Inv, TypeOK, WorldTypeOK
<1>5. CallInv'
  BY DEF Inv, TypeOK, ClientTypeOK, CallTypeOK, CallInv, LiveStateHasChild,
     NoProc, Waiting
<1> QED
  BY <1>1, <1>2, <1>3, <1>4, <1>5 DEF Inv, TypeOK

LEMMA RuleChangedFailedInv ==
  ASSUME Inv, RuleChangedFailed
  PROVE  Inv'
<1> USE DEF RuleChangedFailed, EndStdin, requests, results, watch, lintings, world
<1>1. ClientTypeOK'
  BY DEF Inv, TypeOK, ClientTypeOK, CallTypeOK, WorldTypeOK, States, Requests,
     NoProc
<1>2. CallTypeOK'
  BY DEF Inv, TypeOK, ClientTypeOK, CallTypeOK, WorldTypeOK, PCs, Waiting
<1>3. ProcTypeOK'
  BY DEF Inv, TypeOK, ProcTypeOK, ClientTypeOK
<1>4. WorldTypeOK'
  BY DEF Inv, TypeOK, WorldTypeOK
<1>5. CallInv'
  BY DEF Inv, TypeOK, ClientTypeOK, CallTypeOK, CallInv, LiveStateHasChild,
     NoProc, Waiting
<1> QED
  BY <1>1, <1>2, <1>3, <1>4, <1>5 DEF Inv, TypeOK

LEMMA LintSavedInv ==
  ASSUME Inv, LintSaved
  PROVE  Inv'
<1>1. child \in Procs
  BY DEF LintSaved, Inv, CallInv, LiveStateHasChild
<1>2. /\ pending' \subseteq Requests /\ nextRequestID' \in Nat
      /\ stdin' \in [Procs -> Seq(Nat)]
  BY <1>1, EnqueueRequestType DEF LintSaved, RequestSync, Inv
<1>3. savedAnalyzed' \in [Files -> Nat \cup {-1}] /\ lastRequestAt' \in Nat
  BY DEF LintSaved, Inv, TypeOK, ClientTypeOK, CallTypeOK, WorldTypeOK
<1>4. ClientTypeOK'
  BY <1>2, <1>3 DEF LintSaved, Inv, TypeOK, ClientTypeOK, results, watch
<1>5. CallTypeOK'
  BY NoReplyType DEF LintSaved, RequestSync, Inv, TypeOK, ClientTypeOK, CallTypeOK,
     WorldTypeOK, PCs, Waiting
<1>6. ProcTypeOK'
  BY <1>2 DEF LintSaved, Inv, TypeOK, ProcTypeOK
<1>7. WorldTypeOK'
  BY DEF LintSaved, Inv, TypeOK, WorldTypeOK, world, watch
<1>8. CallInv'
  BY <1>1 DEF LintSaved, RequestSync, Inv, CallInv, LiveStateHasChild
<1> QED
  BY <1>4, <1>5, <1>6, <1>7, <1>8 DEF Inv, TypeOK

LEMMA LintUnchangedInv ==
  ASSUME Inv, LintUnchanged
  PROVE  Inv'
<1>1. child \in Procs
  BY DEF LintUnchanged, Inv, CallInv, LiveStateHasChild
<1>2. /\ pending' \subseteq Requests /\ nextRequestID' \in Nat
      /\ stdin' \in [Procs -> Seq(Nat)] /\ refreshInFlight' \in BOOLEAN
  <2>1. CASE EnqueueRequest(child, TRUE) /\ refreshInFlight' = TRUE
    BY <1>1, <2>1, EnqueueRequestType DEF Inv
  <2>2. CASE UNCHANGED <<requests, refreshInFlight>>
    BY <2>2 DEF requests, Inv, TypeOK, ClientTypeOK, ProcTypeOK
  <2> QED
    BY <2>1, <2>2 DEF LintUnchanged
<1>3. ClientTypeOK'
  BY <1>2 DEF LintUnchanged, Inv, TypeOK, ClientTypeOK, WorldTypeOK, results, watch
<1>4. CallTypeOK'
  BY NoReplyType DEF LintUnchanged, Return, Inv, TypeOK, CallTypeOK, PCs
<1>5. ProcTypeOK'
  BY <1>2 DEF LintUnchanged, Inv, TypeOK, ProcTypeOK
<1>6. WorldTypeOK'
  BY DEF LintUnchanged, Inv, TypeOK, WorldTypeOK, world, watch
<1>7. CallInv'
  BY <1>1 DEF LintUnchanged, Return, Inv, CallInv, LiveStateHasChild, Waiting
<1> QED
  BY <1>3, <1>4, <1>5, <1>6, <1>7 DEF Inv, TypeOK

LEMMA FileSavedDoneInv ==
  ASSUME Inv, FileSavedDone
  PROVE  Inv'
<1> USE DEF FileSavedDone, SetDiagnostics, Return, requests, watch, lintings, world
<1>1. ClientTypeOK'
  BY NoReplyType
  DEF Inv, TypeOK, ClientTypeOK, CallTypeOK, WorldTypeOK, States, Requests,
     NoProc
<1>2. CallTypeOK'
  BY NoReplyType
  DEF Inv, TypeOK, ClientTypeOK, CallTypeOK, WorldTypeOK, PCs, Waiting
<1>3. ProcTypeOK'
  BY DEF Inv, TypeOK, ProcTypeOK, ClientTypeOK
<1>4. WorldTypeOK'
  BY DEF Inv, TypeOK, WorldTypeOK
<1>5. CallInv'
  BY NoReplyType
  DEF Inv, TypeOK, ClientTypeOK, CallTypeOK, CallInv, LiveStateHasChild,
     NoProc, Waiting
<1> QED
  BY <1>1, <1>2, <1>3, <1>4, <1>5 DEF Inv, TypeOK

LEMMA FileSavedFailedInv ==
  ASSUME Inv, FileSavedFailed
  PROVE  Inv'
<1> USE DEF FileSavedFailed, SetReanalyzeFailure, Return, results, requests, watch, lintings, world
<1>1. ClientTypeOK'
  BY NoReplyType
  DEF Inv, TypeOK, ClientTypeOK, CallTypeOK, WorldTypeOK, States, Requests,
     NoProc
<1>2. CallTypeOK'
  BY NoReplyType
  DEF Inv, TypeOK, ClientTypeOK, CallTypeOK, WorldTypeOK, PCs, Waiting
<1>3. ProcTypeOK'
  BY DEF Inv, TypeOK, ProcTypeOK, ClientTypeOK
<1>4. WorldTypeOK'
  BY DEF Inv, TypeOK, WorldTypeOK
<1>5. CallInv'
  BY NoReplyType
  DEF Inv, TypeOK, ClientTypeOK, CallTypeOK, CallInv, LiveStateHasChild,
     NoProc, Waiting
<1> QED
  BY <1>1, <1>2, <1>3, <1>4, <1>5 DEF Inv, TypeOK

LEMMA LintFallbackInv ==
  ASSUME Inv, LintFallback
  PROVE  Inv'
<1> USE DEF LintFallback, OneshotRun, NoFault, Fault, Return, requests, watch, lintings, world
<1>1. ClientTypeOK'
  <2>1. oneshotCache' \in Replies
    BY NoReplyType DEF Inv, TypeOK, ClientTypeOK, WorldTypeOK, Replies
  <2>2. analysisFailure' \in BOOLEAN
    BY DEF Inv, TypeOK, ClientTypeOK
  <2> QED
    BY <2>1, <2>2 DEF Inv, TypeOK, ClientTypeOK
<1>2. CallTypeOK'
  BY NoReplyType
  DEF Inv, TypeOK, ClientTypeOK, CallTypeOK, WorldTypeOK, PCs, Waiting
<1>3. ProcTypeOK'
  BY DEF Inv, TypeOK, ProcTypeOK, ClientTypeOK
<1>4. WorldTypeOK'
  BY DEF Inv, TypeOK, WorldTypeOK
<1>5. CallInv'
  BY NoReplyType
  DEF Inv, TypeOK, ClientTypeOK, CallTypeOK, CallInv, LiveStateHasChild,
     NoProc, Waiting
<1> QED
  BY <1>1, <1>2, <1>3, <1>4, <1>5 DEF Inv, TypeOK

LEMMA LintNothingInv ==
  ASSUME Inv, LintNothing
  PROVE  Inv'
<1> USE DEF LintNothing, Return, client, results, watch, lintings, pipes, world
<1>1. ClientTypeOK'
  BY NoReplyType
  DEF Inv, TypeOK, ClientTypeOK, CallTypeOK, WorldTypeOK, States, Requests,
     NoProc
<1>2. CallTypeOK'
  BY NoReplyType
  DEF Inv, TypeOK, ClientTypeOK, CallTypeOK, WorldTypeOK, PCs, Waiting
<1>3. ProcTypeOK'
  BY DEF Inv, TypeOK, ProcTypeOK, ClientTypeOK
<1>4. WorldTypeOK'
  BY DEF Inv, TypeOK, WorldTypeOK
<1>5. CallInv'
  BY NoReplyType
  DEF Inv, TypeOK, ClientTypeOK, CallTypeOK, CallInv, LiveStateHasChild,
     NoProc, Waiting
<1> QED
  BY <1>1, <1>2, <1>3, <1>4, <1>5 DEF Inv, TypeOK

LEMMA RefreshSettlesInv ==
  ASSUME Inv, NEW m \in microtasks, RefreshSettles(m)
  PROVE  Inv'
<1> USE DEF RefreshSettles, SetDiagnostics, SetReanalyzeFailure, results, requests, watch,
    lintings, world
<1>1. ClientTypeOK'
  BY NoReplyType
  DEF Inv, TypeOK, ClientTypeOK, CallTypeOK, WorldTypeOK, States, Requests,
     NoProc
<1>2. CallTypeOK'
  BY NoReplyType
  DEF Inv, TypeOK, ClientTypeOK, CallTypeOK, WorldTypeOK, PCs, Waiting
<1>3. ProcTypeOK'
  BY DEF Inv, TypeOK, ProcTypeOK, ClientTypeOK
<1>4. WorldTypeOK'
  BY DEF Inv, TypeOK, WorldTypeOK
<1>5. CallInv'
  BY NoReplyType
  DEF Inv, TypeOK, ClientTypeOK, CallTypeOK, CallInv, LiveStateHasChild,
     NoProc, Waiting
<1> QED
  BY <1>1, <1>2, <1>3, <1>4, <1>5 DEF Inv, TypeOK

LEMMA DataEventInv ==
  ASSUME Inv, NEW p \in Procs, DataEvent(p)
  PROVE  Inv'
<1>1. TypeOK'
  BY ReadFrameType DEF DataEvent, Inv
<1>2. pc = "idle" /\ pc' = "idle" /\ timer' = timer
  BY DEF DataEvent, Quiet, ReadFrame, watch
<1>3. \/ UNCHANGED <<state, child>>
      \/ state \notin {"disposed", "fallback"} /\ state' = "fallback" /\ child' = NoProc
  BY DEF DataEvent, ReadFrame, HandleServeFailure
<1>4. CallInv'
  BY <1>2, <1>3 DEF Inv, CallInv, LiveStateHasChild, Waiting
<1> QED
  BY <1>1, <1>4 DEF Inv

LEMMA ExitEventInv ==
  ASSUME Inv, NEW p \in Procs, ExitEvent(p)
  PROVE  Inv'
<1> USE DEF ExitEvent, HandleServeFailure, Settled, EndStdin, watch, lintings, world
<1>1. ClientTypeOK'
  BY NoReplyType
  DEF Inv, TypeOK, ClientTypeOK, CallTypeOK, WorldTypeOK, States, Requests,
     NoProc
<1>2. CallTypeOK'
  BY NoReplyType
  DEF Inv, TypeOK, ClientTypeOK, CallTypeOK, WorldTypeOK, PCs, Waiting
<1>3. ProcTypeOK'
  BY DEF Inv, TypeOK, ProcTypeOK, ClientTypeOK
<1>4. WorldTypeOK'
  BY DEF Inv, TypeOK, WorldTypeOK
<1>5. CallInv'
  BY NoReplyType
  DEF Inv, TypeOK, ClientTypeOK, CallTypeOK, CallInv, LiveStateHasChild,
     NoProc, Waiting, Quiet
<1> QED
  BY <1>1, <1>2, <1>3, <1>4, <1>5 DEF Inv, TypeOK

LEMMA WriteErrorInv ==
  ASSUME Inv, NEW r \in pending, WriteError(r)
  PROVE  Inv'
<1> USE DEF WriteError, Settled, results, watch, lintings, pipes, world
<1>1. ClientTypeOK'
  BY NoReplyType
  DEF Inv, TypeOK, ClientTypeOK, CallTypeOK, WorldTypeOK, States, Requests,
     NoProc
<1>2. CallTypeOK'
  BY NoReplyType
  DEF Inv, TypeOK, ClientTypeOK, CallTypeOK, WorldTypeOK, PCs, Waiting
<1>3. ProcTypeOK'
  BY DEF Inv, TypeOK, ProcTypeOK, ClientTypeOK
<1>4. WorldTypeOK'
  BY DEF Inv, TypeOK, WorldTypeOK
<1>5. CallInv'
  BY NoReplyType
  DEF Inv, TypeOK, ClientTypeOK, CallTypeOK, CallInv, LiveStateHasChild,
     NoProc, Waiting, Quiet
<1> QED
  BY <1>1, <1>2, <1>3, <1>4, <1>5 DEF Inv, TypeOK

LEMMA RuleEventInv ==
  ASSUME Inv, RuleEvent
  PROVE  Inv'
<1> USE DEF RuleEvent, results, lintings, pipes
<1>1. ClientTypeOK'
  BY DEF Inv, TypeOK, ClientTypeOK, CallTypeOK, WorldTypeOK, States, Requests,
     NoProc
<1>2. CallTypeOK'
  BY DEF Inv, TypeOK, ClientTypeOK, CallTypeOK, WorldTypeOK, PCs, Waiting
<1>3. ProcTypeOK'
  BY DEF Inv, TypeOK, ProcTypeOK, ClientTypeOK
<1>4. WorldTypeOK'
  BY DEF Inv, TypeOK, WorldTypeOK
<1>5. CallInv'
  BY DEF Inv, TypeOK, ClientTypeOK, CallTypeOK, CallInv, LiveStateHasChild,
     NoProc, Waiting, Quiet
<1> QED
  BY <1>1, <1>2, <1>3, <1>4, <1>5 DEF Inv, TypeOK

LEMMA TimerFiresInv ==
  ASSUME Inv, TimerFires
  PROVE  Inv'
<1> USE DEF TimerFires, ApplyRuleInvalidation, requests, lintings, world
<1>1. ClientTypeOK'
  <2>1. state' \in States /\ analysisEpoch' \in Nat
    BY DEF Inv, TypeOK, ClientTypeOK, States
  <2>2. diagnostics' \in Replies /\ oneshotCache' \in Replies
    BY NoReplyType
  <2> QED
    BY <2>1, <2>2 DEF Inv, TypeOK, ClientTypeOK
<1>2. CallTypeOK'
  BY NoReplyType
  DEF Inv, TypeOK, ClientTypeOK, CallTypeOK, WorldTypeOK, PCs, Waiting
<1>3. ProcTypeOK'
  BY DEF Inv, TypeOK, ProcTypeOK, ClientTypeOK
<1>4. WorldTypeOK'
  BY DEF Inv, TypeOK, WorldTypeOK
<1>5. CallInv'
  <2>1. pc' = "idle" /\ pc = "idle" /\ timer' = FALSE
    BY DEF Quiet
  <2>2. state' \in {"starting", "ready", "invalidated"} =>
          state \in {"starting", "ready", "invalidated"}
    BY DEF Inv, TypeOK, ClientTypeOK, CallInv, States
  <2>3. state' = "idle" => state = "idle"
    OBVIOUS
  <2> QED
    BY <2>1, <2>2, <2>3 DEF Inv, CallInv, LiveStateHasChild, Waiting
<1> QED
  BY <1>1, <1>2, <1>3, <1>4, <1>5 DEF Inv, TypeOK

LEMMA DisposeInv ==
  ASSUME Inv, Dispose
  PROVE  Inv'
<1> USE DEF Dispose, EndStdin, requests, results, lintings, world
<1>1. ClientTypeOK'
  BY DEF Inv, TypeOK, ClientTypeOK, CallTypeOK, WorldTypeOK, States, Requests,
     NoProc
<1>2. CallTypeOK'
  BY DEF Inv, TypeOK, ClientTypeOK, CallTypeOK, WorldTypeOK, PCs, Waiting
<1>3. ProcTypeOK'
  BY DEF Inv, TypeOK, ProcTypeOK, ClientTypeOK
<1>4. WorldTypeOK'
  BY DEF Inv, TypeOK, WorldTypeOK
<1>5. CallInv'
  BY DEF Inv, TypeOK, ClientTypeOK, CallTypeOK, CallInv, LiveStateHasChild,
     NoProc, Waiting
<1> QED
  BY <1>1, <1>2, <1>3, <1>4, <1>5 DEF Inv, TypeOK

LEMMA ServeAnswersInv ==
  ASSUME Inv, NEW p \in Procs, ServeAnswers(p)
  PROVE  Inv'
<1> USE DEF ServeAnswers, Alive, NoFault, Fault, results, watch, lintings, world
<1>1. ClientTypeOK'
  BY DEF Inv, TypeOK, ClientTypeOK, CallTypeOK, WorldTypeOK, States, Requests,
     NoProc
<1>2. CallTypeOK'
  BY DEF Inv, TypeOK, ClientTypeOK, CallTypeOK, WorldTypeOK, PCs, Waiting
<1>3. ProcTypeOK'
  <2>1. /\ Head(stdin[p]) \in Nat /\ Tail(stdin[p]) \in Seq(Nat)
        /\ stdout[p] \in Seq(Replies)
    BY DEF Inv, TypeOK, ProcTypeOK
  <2>2. PICK kind \in {"ok", "error", "garbled"} :
          stdout' = [stdout EXCEPT ![p] =
            Append(@, [kind |-> kind, id |-> Head(stdin[p]),
                       rules |-> rules, seen |-> content])]
    BY Zenon
  <2>3. [kind |-> kind, id |-> Head(stdin[p]), rules |-> rules, seen |-> content]
          \in Replies
    BY <2>1 DEF Inv, TypeOK, WorldTypeOK, Replies
  <2>4. stdout' \in [Procs -> Seq(Replies)]
    BY <2>1, <2>2, <2>3 DEF Inv, TypeOK, ProcTypeOK
  <2>5. stdin' \in [Procs -> Seq(Nat)]
    BY <2>1 DEF Inv, TypeOK, ProcTypeOK
  <2> QED
    BY <2>4, <2>5 DEF Inv, TypeOK, ProcTypeOK
<1>4. WorldTypeOK'
  BY DEF Inv, TypeOK, WorldTypeOK
<1>5. CallInv'
  BY DEF Inv, TypeOK, ClientTypeOK, CallTypeOK, CallInv, LiveStateHasChild,
     NoProc, Waiting
<1> QED
  BY <1>1, <1>2, <1>3, <1>4, <1>5 DEF Inv, TypeOK

LEMMA ServeExitsInv ==
  ASSUME Inv, NEW p \in Procs, ServeExits(p)
  PROVE  Inv'
<1> USE DEF ServeExits, client, results, watch, lintings, world
<1>1. ClientTypeOK'
  BY DEF Inv, TypeOK, ClientTypeOK, CallTypeOK, WorldTypeOK, States, Requests,
     NoProc
<1>2. CallTypeOK'
  BY DEF Inv, TypeOK, ClientTypeOK, CallTypeOK, WorldTypeOK, PCs, Waiting
<1>3. ProcTypeOK'
  BY DEF Inv, TypeOK, ProcTypeOK, ClientTypeOK
<1>4. WorldTypeOK'
  BY DEF Inv, TypeOK, WorldTypeOK
<1>5. CallInv'
  BY DEF Inv, TypeOK, ClientTypeOK, CallTypeOK, CallInv, LiveStateHasChild,
     NoProc, Waiting
<1> QED
  BY <1>1, <1>2, <1>3, <1>4, <1>5 DEF Inv, TypeOK

LEMMA ServeCrashesInv ==
  ASSUME Inv, NEW p \in Procs, ServeCrashes(p)
  PROVE  Inv'
<1> USE DEF ServeCrashes, Alive, Fault, client, results, watch, lintings, world
<1>1. ClientTypeOK'
  BY DEF Inv, TypeOK, ClientTypeOK, CallTypeOK, WorldTypeOK, States, Requests,
     NoProc
<1>2. CallTypeOK'
  BY DEF Inv, TypeOK, ClientTypeOK, CallTypeOK, WorldTypeOK, PCs, Waiting
<1>3. ProcTypeOK'
  BY DEF Inv, TypeOK, ProcTypeOK, ClientTypeOK
<1>4. WorldTypeOK'
  BY DEF Inv, TypeOK, WorldTypeOK
<1>5. CallInv'
  BY DEF Inv, TypeOK, ClientTypeOK, CallTypeOK, CallInv, LiveStateHasChild,
     NoProc, Waiting
<1> QED
  BY <1>1, <1>2, <1>3, <1>4, <1>5 DEF Inv, TypeOK

LEMMA TickInv ==
  ASSUME Inv, Tick
  PROVE  Inv'
<1> USE DEF Tick, client, results, watch, lintings, pipes
<1>1. ClientTypeOK'
  BY DEF Inv, TypeOK, ClientTypeOK, CallTypeOK, WorldTypeOK, States, Requests,
     NoProc
<1>2. CallTypeOK'
  BY DEF Inv, TypeOK, ClientTypeOK, CallTypeOK, WorldTypeOK, PCs, Waiting
<1>3. ProcTypeOK'
  BY DEF Inv, TypeOK, ProcTypeOK, ClientTypeOK
<1>4. WorldTypeOK'
  BY DEF Inv, TypeOK, WorldTypeOK
<1>5. CallInv'
  BY DEF Inv, TypeOK, ClientTypeOK, CallTypeOK, CallInv, LiveStateHasChild,
     NoProc, Waiting
<1> QED
  BY <1>1, <1>2, <1>3, <1>4, <1>5 DEF Inv, TypeOK

LEMMA SaveInv ==
  ASSUME Inv, NEW f \in Files, Save(f)
  PROVE  Inv'
<1> USE DEF Save, client, results, watch, lintings, pipes
<1>1. ClientTypeOK'
  BY DEF Inv, TypeOK, ClientTypeOK, CallTypeOK, WorldTypeOK, States, Requests,
     NoProc
<1>2. CallTypeOK'
  BY DEF Inv, TypeOK, ClientTypeOK, CallTypeOK, WorldTypeOK, PCs, Waiting
<1>3. ProcTypeOK'
  BY DEF Inv, TypeOK, ProcTypeOK, ClientTypeOK
<1>4. WorldTypeOK'
  <2>1. (now + 1) - ((now + 1) % FsTicks) \in Nat
    BY ClockAssumption DEF Inv, TypeOK, WorldTypeOK, ClockAssumption
  <2>2. mtime' \in [Files -> Nat] /\ content' \in [Files -> Nat]
    BY <2>1 DEF Inv, TypeOK, WorldTypeOK
  <2>3. restamped' \in [Files -> BOOLEAN]
    BY DEF Inv, TypeOK, WorldTypeOK
  <2> QED
    BY <2>2, <2>3 DEF Inv, TypeOK, WorldTypeOK
<1>5. CallInv'
  BY DEF Inv, TypeOK, ClientTypeOK, CallTypeOK, CallInv, LiveStateHasChild,
     NoProc, Waiting
<1> QED
  BY <1>1, <1>2, <1>3, <1>4, <1>5 DEF Inv, TypeOK

LEMMA EditRuleInv ==
  ASSUME Inv, EditRule
  PROVE  Inv'
<1> USE DEF EditRule, client, results, watch, lintings, pipes
<1>1. ClientTypeOK'
  BY DEF Inv, TypeOK, ClientTypeOK, CallTypeOK, WorldTypeOK, States, Requests,
     NoProc
<1>2. CallTypeOK'
  BY DEF Inv, TypeOK, ClientTypeOK, CallTypeOK, WorldTypeOK, PCs, Waiting
<1>3. ProcTypeOK'
  BY DEF Inv, TypeOK, ProcTypeOK, ClientTypeOK
<1>4. WorldTypeOK'
  BY DEF Inv, TypeOK, WorldTypeOK
<1>5. CallInv'
  BY DEF Inv, TypeOK, ClientTypeOK, CallTypeOK, CallInv, LiveStateHasChild,
     NoProc, Waiting
<1> QED
  BY <1>1, <1>2, <1>3, <1>4, <1>5 DEF Inv, TypeOK

-----------------------------------------------------------------------------
LEMMA StutterInv == ASSUME Inv, UNCHANGED vars PROVE Inv'
<1> USE DEF vars, client, results, requests, watch, lintings, pipes, world
<1>1. ClientTypeOK' /\ CallTypeOK'
  BY DEF Inv, TypeOK, ClientTypeOK, CallTypeOK
<1>2. ProcTypeOK' /\ WorldTypeOK'
  BY DEF Inv, TypeOK, ProcTypeOK, WorldTypeOK
<1>3. CallInv'
  BY DEF Inv, CallInv, LiveStateHasChild
<1> QED
  BY <1>1, <1>2, <1>3 DEF Inv, TypeOK

LEMMA NextInv == Inv /\ [Next]_vars => Inv'
<1> SUFFICES ASSUME Inv, [Next]_vars PROVE Inv'
  OBVIOUS
<1>1. ASSUME NEW f \in Files, GetDiagnostics(f) PROVE Inv'
  BY <1>1, GetDiagnosticsInv
<1>2. CASE CallStep
  BY <1>2, StartServeInv, SpawnFailsInv, SyncReadInv, SyncThrowsInv, InitializeDoneInv,
     InitializeFailedInv, RefreshInvalidatedInv, RuleChangedDoneInv, RuleChangedFailedInv,
     LintSavedInv, LintUnchangedInv, LintFallbackInv, LintNothingInv, FileSavedDoneInv,
     FileSavedFailedInv
  DEF CallStep
<1>3. CASE Event
  BY <1>3, RefreshSettlesInv, DataEventInv, ExitEventInv, WriteErrorInv, RuleEventInv,
     TimerFiresInv
  DEF Event
<1>4. CASE Dispose
  BY <1>4, DisposeInv
<1>5. ASSUME NEW p \in Procs, ServeAnswers(p) \/ ServeExits(p) \/ ServeCrashes(p)
      PROVE  Inv'
  BY <1>5, ServeAnswersInv, ServeExitsInv, ServeCrashesInv
<1>6. CASE Tick \/ EditRule \/ \E f \in Files : Save(f)
  BY <1>6, TickInv, EditRuleInv, SaveInv
<1>7. CASE UNCHANGED vars
  BY <1>7, StutterInv
<1> QED
  BY <1>1, <1>2, <1>3, <1>4, <1>5, <1>6, <1>7 DEF Next

(* Every variable of the client, its calls, its processes and the world    *)
(* keeps its type, and at every point of a call the client is in the state *)
(* and has the process that CallInv says.                                  *)
THEOREM ClientInvariant == Spec => []Inv
<1>1. Init => Inv
  BY InitInv
<1>2. Inv /\ [Next]_vars => Inv'
  BY NextInv
<1> QED
  BY <1>1, <1>2, PTL DEF Spec

(* TypeOK, the type invariant of the runs, for every instance.             *)
THEOREM ClientTypeCorrect == Spec => []TypeOK
<1>1. Inv => TypeOK
  BY DEF Inv
<1> QED
  BY <1>1, ClientInvariant, PTL

(* The cast of this.child to a process (client.ts:520) never meets a       *)
(* missing process: LiveStateHasChild, for every instance.                 *)
THEOREM LiveStateAlwaysHasChild == Spec => []LiveStateHasChild
<1>1. Inv => LiveStateHasChild
  BY DEF Inv, CallInv
<1> QED
  BY <1>1, ClientInvariant, PTL

-----------------------------------------------------------------------------
(* No process is left behind.                                              *)

LEMMA EndStdinStops ==
  ASSUME NEW procs \in [Procs -> {"unborn", "running", "ending", "exited", "reaped"}],
         NEW c, \A p \in Procs : procs[p] = "running" => p = c
  PROVE  \A p \in Procs : EndStdin(procs, c)[p] # "running"
BY DEF EndStdin

LEMMA HandleServeFailureLeaksNothing ==
  ASSUME NEW procs \in [Procs -> {"unborn", "running", "ending", "exited", "reaped"}],
         \A p \in Procs : procs[p] = "running" => p = child,
         HandleServeFailure(procs)
  PROVE  NoLeakedServe'
<1>1. CASE state \in {"disposed", "fallback"}
  BY <1>1 DEF HandleServeFailure, NoLeakedServe
<1>2. CASE state \notin {"disposed", "fallback"}
  <2>1. \A p \in Procs : proc'[p] # "running"
    BY <1>2, EndStdinStops DEF HandleServeFailure
  <2> QED
    BY <2>1 DEF NoLeakedServe
<1> QED
  BY <1>1, <1>2

LEMMA ReadFrameLeaksNothing ==
  ASSUME Inv, NoLeakedServe, NEW p \in Procs, ReadFrame(p)
  PROVE  NoLeakedServe'
<1>1. CASE HandleServeFailure(proc)
  BY <1>1, HandleServeFailureLeaksNothing DEF Inv, TypeOK, ProcTypeOK, NoLeakedServe
<1>2. CASE UNCHANGED <<child, proc>>
  BY <1>2 DEF NoLeakedServe
<1> QED
  BY <1>1, <1>2 DEF ReadFrame

LEMMA NoLeakedServeStep ==
  ASSUME Inv, NoLeakedServe, [Next]_vars
  PROVE  NoLeakedServe'
<1>1. CASE StartServe
  BY <1>1 DEF StartServe, Inv, TypeOK, ProcTypeOK, CallInv, NoLeakedServe, NoProc, Procs
<1>2. CASE SyncRead
  BY <1>2, ReadFrameLeaksNothing DEF SyncRead
<1>3. CASE InitializeFailed
  BY <1>3, HandleServeFailureLeaksNothing
  DEF InitializeFailed, Inv, TypeOK, ProcTypeOK, NoLeakedServe
<1>4. CASE RuleChangedFailed
  <2>1. \A p \in Procs : proc'[p] # "running"
    BY <1>4, EndStdinStops DEF RuleChangedFailed, Inv, TypeOK, ProcTypeOK, NoLeakedServe
  <2> QED
    BY <2>1 DEF NoLeakedServe
<1>5. ASSUME NEW p \in Procs, DataEvent(p) PROVE NoLeakedServe'
  BY <1>5, ReadFrameLeaksNothing DEF DataEvent
<1>6. ASSUME NEW p \in Procs, ExitEvent(p) PROVE NoLeakedServe'
  <2> DEFINE procs == [proc EXCEPT ![p] = "reaped"]
  <2>1. /\ procs \in [Procs -> {"unborn", "running", "ending", "exited", "reaped"}]
        /\ \A q \in Procs : procs[q] = "running" => q = child
    BY DEF Inv, TypeOK, ProcTypeOK, NoLeakedServe
  <2>2. HandleServeFailure(procs)
    BY <1>6 DEF ExitEvent
  <2> HIDE DEF procs
  <2> QED
    BY <2>1, <2>2, HandleServeFailureLeaksNothing
<1>7. CASE Dispose
  <2>1. \A p \in Procs : proc'[p] # "running"
    BY <1>7, EndStdinStops DEF Dispose, Inv, TypeOK, ProcTypeOK, NoLeakedServe
  <2> QED
    BY <2>1 DEF NoLeakedServe
<1>8. ASSUME NEW p \in Procs, ServeExits(p) \/ ServeCrashes(p) PROVE NoLeakedServe'
  BY <1>8 DEF ServeExits, ServeCrashes, client, Inv, TypeOK, ProcTypeOK, NoLeakedServe
<1>9. CASE UNCHANGED <<child, proc>>
  BY <1>9 DEF NoLeakedServe
<1>10. \/ \E f \in Files : GetDiagnostics(f)
       \/ SpawnFails \/ SyncThrows \/ InitializeDone \/ RefreshInvalidated
       \/ RuleChangedDone \/ LintSaved \/ LintUnchanged \/ LintFallback \/ LintNothing
       \/ FileSavedDone \/ FileSavedFailed
       \/ \E m \in microtasks : RefreshSettles(m)
       \/ \E r \in pending : WriteError(r)
       \/ RuleEvent \/ TimerFires \/ \E p \in Procs : ServeAnswers(p)
       \/ Tick \/ EditRule \/ (\E f \in Files : Save(f)) \/ UNCHANGED vars
       => UNCHANGED <<child, proc>>
  BY DEF GetDiagnostics, SpawnFails, SyncThrows, InitializeDone, RefreshInvalidated,
     RuleChangedDone, LintSaved, LintUnchanged, LintFallback, LintNothing, FileSavedDone,
     FileSavedFailed, RefreshSettles, WriteError, RuleEvent, TimerFires, ServeAnswers,
     Tick, EditRule, Save, vars, client, pipes
<1> QED
  BY <1>1, <1>2, <1>3, <1>4, <1>5, <1>6, <1>7, <1>8, <1>9, <1>10
  DEF Next, CallStep, Event

(* Restarts, failures and dispose leave no serve process running that the  *)
(* client no longer talks to: NoLeakedServe, for every instance.           *)
THEOREM NothingLeaks == Spec => []NoLeakedServe
<1>1. Init => NoLeakedServe
  BY DEF Init, NoLeakedServe
<1>2. Inv /\ NoLeakedServe /\ [Next]_vars => NoLeakedServe'
  BY NoLeakedServeStep
<1> QED
  BY <1>1, <1>2, ClientInvariant, PTL DEF Spec

-----------------------------------------------------------------------------
(* Falling back settles every request.                                     *)

SettledInv == FallbackSettlesRequests /\ (state = "idle" => pending = {})

LEMMA HandleServeFailureSettles ==
  ASSUME SettledInv, pc # "startServe", NEW procs, HandleServeFailure(procs)
  PROVE  SettledInv'
BY DEF HandleServeFailure, SettledInv, FallbackSettlesRequests

LEMMA SettledStep ==
  ASSUME Inv, SettledInv, [Next]_vars
  PROVE  SettledInv'
<1> USE DEF SettledInv, FallbackSettlesRequests
<1>1. CASE \E f \in Files : GetDiagnostics(f)
  BY <1>1 DEF GetDiagnostics, requests, Inv, CallInv
<1>2. CASE StartServe
  BY <1>2 DEF StartServe, RequestSync
<1>3. CASE SpawnFails
  BY <1>3 DEF SpawnFails
<1>4. ASSUME NEW p \in Procs, ReadFrame(p), pc # "startServe" PROVE SettledInv'
  BY <1>4, HandleServeFailureSettles DEF ReadFrame
<1>5. CASE SyncRead
  BY <1>4, <1>5 DEF SyncRead, Awaiting, Waiting
<1>6. CASE InitializeFailed
  BY <1>6, HandleServeFailureSettles DEF InitializeFailed
<1>7. CASE RuleChangedFailed
  BY <1>7 DEF RuleChangedFailed, requests
<1>8. CASE InitializeDone \/ RuleChangedDone
  BY <1>8 DEF InitializeDone, RuleChangedDone
<1>9. CASE RefreshInvalidated
  BY <1>9 DEF RefreshInvalidated, RequestSync, requests
<1>10. CASE LintSaved \/ LintUnchanged
  BY <1>10 DEF LintSaved, LintUnchanged, Return
<1>11. ASSUME NEW p \in Procs, DataEvent(p) PROVE SettledInv'
  BY <1>4, <1>11 DEF DataEvent, Quiet
<1>12. ASSUME NEW p \in Procs, ExitEvent(p) PROVE SettledInv'
  BY <1>12, HandleServeFailureSettles DEF ExitEvent, Quiet
<1>13. ASSUME NEW r \in pending, WriteError(r) PROVE SettledInv'
  BY <1>13 DEF WriteError, Quiet
<1>14. CASE TimerFires
  BY <1>14 DEF TimerFires, ApplyRuleInvalidation, Quiet, requests
<1>15. CASE Dispose
  BY <1>15 DEF Dispose
<1>16. CASE UNCHANGED <<state, pending>> /\ pc # "startServe"
  BY <1>16
<1>17. CASE UNCHANGED <<state, pending, pc>>
  BY <1>17
<1>18. \/ SyncThrows \/ LintFallback \/ LintNothing \/ FileSavedDone \/ FileSavedFailed
       \/ \E m \in microtasks : RefreshSettles(m)
       \/ RuleEvent
       => UNCHANGED <<state, pending>> /\ pc # "startServe"
  BY DEF SyncThrows, LintFallback, LintNothing, FileSavedDone, FileSavedFailed,
     RefreshSettles, RuleEvent, Quiet, Awaiting, Waiting, client, requests
<1>19. \/ \E p \in Procs : ServeAnswers(p) \/ ServeExits(p) \/ ServeCrashes(p)
       \/ Tick \/ EditRule \/ (\E f \in Files : Save(f)) \/ UNCHANGED vars
       => UNCHANGED <<state, pending, pc>>
  BY DEF ServeAnswers, ServeExits, ServeCrashes, Tick, EditRule, Save, vars, client,
     requests
<1> HIDE DEF SettledInv
<1> QED
  BY <1>1, <1>2, <1>3, <1>5, <1>6, <1>7, <1>8, <1>9, <1>10, <1>11, <1>12, <1>13, <1>14,
     <1>15, <1>16, <1>17, <1>18, <1>19
  DEF Next, CallStep, Event

(* A client in fallback waits for no answer of a process it has dropped:   *)
(* FallbackSettlesRequests, for every instance.                            *)
THEOREM FallbackAlwaysSettles == Spec => []FallbackSettlesRequests
<1>1. Init => SettledInv
  BY DEF Init, SettledInv, FallbackSettlesRequests
<1>2. Inv /\ SettledInv /\ [Next]_vars => SettledInv'
  BY SettledStep
<1>3. SettledInv => FallbackSettlesRequests
  BY DEF SettledInv
<1> QED
  BY <1>1, <1>2, <1>3, ClientInvariant, PTL DEF Spec

-----------------------------------------------------------------------------
(* No call waits for a response that cannot come.                          *)

(* The process in use has not been told to stop, and its exit has not been *)
(* handled.                                                                *)
ChildInv ==
  /\ state \in {"idle", "fallback", "disposed"} => child = NoProc
  /\ child \in Procs => proc[child] \in {"running", "exited"}

FramesInv == \A p \in Procs : \A i \in 1..Len(stdout[p]) : stdout[p][i].kind # "none"

WaitInv == ChildInv /\ FramesInv /\ AnswerIsOnItsWay

(* The answer to the request that a call waits for is in the pipes of p.   *)
InPipes(p) ==
  \/ \E i \in 1..Len(stdin[p]) : stdin[p][i] = call.id
  \/ \E i \in 1..Len(stdout[p]) : stdout[p][i].id = call.id

LEMMA PipeTypes ==
  ASSUME Inv, NEW p \in Procs
  PROVE  stdin[p] \in Seq(Nat) /\ stdout[p] \in Seq(Replies)
BY DEF Inv, TypeOK, ProcTypeOK

LEMMA HandleServeFailureDrops ==
  ASSUME ChildInv, NEW procs, HandleServeFailure(procs)
  PROVE  child' = NoProc
BY DEF HandleServeFailure, ChildInv

(* A request that is sent is in the pipe of the process it is sent to.     *)
LEMMA RequestIsInPipe ==
  ASSUME Inv, NEW p \in Procs, NEW method, RequestSync(p, method)
  PROVE  InPipes(p)'
<1> DEFINE n == Len(stdin[p]) + 1
<1>1. stdin' = [stdin EXCEPT ![p] = Append(@, nextRequestID)]
      /\ call'.id = nextRequestID
  BY DEF RequestSync, EnqueueRequest, Inv, TypeOK, CallTypeOK
<1>2. stdin'[p] = Append(stdin[p], nextRequestID)
  BY <1>1 DEF Inv, TypeOK, ProcTypeOK
<1>3. n \in 1..Len(stdin'[p]) /\ stdin'[p][n] = nextRequestID
  BY <1>2, PipeTypes
<1> QED
  BY <1>1, <1>3 DEF InPipes

LEMMA FramesStay ==
  ASSUME FramesInv, UNCHANGED stdout
  PROVE  FramesInv'
BY DEF FramesInv

(* Reading takes the first frame: it is the answer, or the answer is still *)
(* behind it.                                                              *)
LEMMA ReadFrameWaits ==
  ASSUME Inv, WaitInv, NEW p \in Procs, ReadFrame(p)
  PROVE  WaitInv'
<1> DEFINE frame == Head(stdout[p])
<1>1. /\ stdout[p] \in Seq(Replies) /\ stdout[p] # <<>>
      /\ stdout' = [stdout EXCEPT ![p] = Tail(@)] /\ stdout \in [Procs -> Seq(Replies)]
      /\ UNCHANGED <<pc, stdin>>
  BY PipeTypes DEF ReadFrame, Inv, TypeOK, ProcTypeOK
<1>2. \A q \in Procs : stdout'[q] = IF q = p THEN Tail(stdout[q]) ELSE stdout[q]
  BY <1>1
<1>3. /\ frame = stdout[p][1] /\ 1 \in 1..Len(stdout[p])
      /\ \A i \in 1..Len(Tail(stdout[p])) :
           i + 1 \in 1..Len(stdout[p]) /\ Tail(stdout[p])[i] = stdout[p][i + 1]
      /\ \A i \in 1..Len(stdout[p]) :
           i = 1 \/ (i - 1 \in 1..Len(Tail(stdout[p])) /\ Tail(stdout[p])[i - 1] = stdout[p][i])
  BY <1>1
<1>4. FramesInv'
  <2>1. \A q \in Procs : \A i \in 1..Len(stdout'[q]) :
          \E j \in 1..Len(stdout[q]) : stdout'[q][i] = stdout[q][j]
    <3> TAKE q \in Procs
    <3>1. CASE q = p
      <4> TAKE i \in 1..Len(stdout'[q])
      <4>1. i + 1 \in 1..Len(stdout[q]) /\ stdout'[q][i] = stdout[q][i + 1]
        BY <1>2, <1>3, <3>1
      <4> QED
        BY <4>1
    <3>2. CASE q # p
      BY <1>2, <3>2
    <3> QED
      BY <3>1, <3>2
  <2> QED
    BY <2>1 DEF WaitInv, FramesInv
<1>5. call \in [file : Files, asked : Nat, resume : {"refreshInvalidated", "branch"},
                id : Nat, startedAt : Nat, reply : Replies]
  BY DEF Inv, TypeOK, CallTypeOK
<1>6. CASE frame.kind = "garbled"
  <2>1. child' = NoProc
    BY <1>6, HandleServeFailureDrops DEF ReadFrame, WaitInv
  <2>2. ~Awaiting'
    <3>1. CASE Awaiting
      BY <1>5, <1>6, <3>1, NoReplyType DEF ReadFrame, Awaiting
    <3>2. CASE ~Awaiting
      BY <1>1, <1>6, <3>2 DEF ReadFrame, Awaiting
    <3> QED
      BY <3>1, <3>2
  <2> QED
    BY <1>4, <2>1, <2>2 DEF WaitInv, ChildInv, AnswerIsOnItsWay, NoProc, Procs
<1>7. CASE frame.kind # "garbled"
  <2>1. /\ call' = IF Awaiting /\ frame.id = call.id
                   THEN [call EXCEPT !.reply = frame] ELSE call
        /\ UNCHANGED <<state, child, proc>>
    BY <1>7 DEF ReadFrame
  <2>2. frame.kind # "none"
    BY <1>3 DEF WaitInv, FramesInv
  <2>3. Awaiting' => Awaiting /\ frame.id # call.id /\ call' = call
    BY <1>1, <1>5, <2>1, <2>2 DEF Awaiting
  <2>4. ChildInv'
    BY <2>1 DEF WaitInv, ChildInv
  <2>5. ASSUME Awaiting' PROVE child \in Procs /\ InPipes(child)'
    <3>1. child \in Procs /\ InPipes(child)
      BY <2>3, <2>5 DEF WaitInv, AnswerIsOnItsWay, InPipes
    <3>2. CASE \E i \in 1..Len(stdin[child]) : stdin[child][i] = call.id
      BY <1>1, <2>1, <2>3, <2>5, <3>1, <3>2 DEF InPipes
    <3>3. CASE \E i \in 1..Len(stdout[child]) : stdout[child][i].id = call.id
      <4>1. PICK i \in 1..Len(stdout[child]) : stdout[child][i].id = call.id
        BY <3>3
      <4>2. CASE child # p
        BY <1>2, <2>1, <2>3, <2>5, <3>1, <4>1, <4>2 DEF InPipes
      <4>3. CASE child = p
        <5>1. i # 1
          BY <1>3, <2>3, <2>5, <4>1, <4>3
        <5>2. i - 1 \in 1..Len(stdout'[p]) /\ stdout'[p][i - 1].id = call.id
          BY <1>2, <1>3, <4>1, <4>3, <5>1
        <5> QED
          BY <2>1, <2>3, <2>5, <3>1, <4>3, <5>2 DEF InPipes
      <4> QED
        BY <4>2, <4>3
    <3> QED
      BY <3>1, <3>2, <3>3 DEF InPipes
  <2>6. AnswerIsOnItsWay'
    BY <2>1, <2>3, <2>5 DEF WaitInv, AnswerIsOnItsWay, InPipes
  <2> QED
    BY <1>4, <2>4, <2>6 DEF WaitInv
<1> QED
  BY <1>6, <1>7

(* A process that answers moves the id from one pipe to the other.         *)
LEMMA ServeAnswersWaits ==
  ASSUME Inv, WaitInv, NEW p \in Procs, ServeAnswers(p)
  PROVE  WaitInv'
<1>1. PICK kind \in {"ok", "error", "garbled"} :
        stdout' = [stdout EXCEPT ![p] =
          Append(@, [kind |-> kind, id |-> Head(stdin[p]), rules |-> rules, seen |-> content])]
  BY DEF ServeAnswers
<1> DEFINE frame == [kind |-> kind, id |-> Head(stdin[p]), rules |-> rules, seen |-> content]
<1>2. /\ stdin' = [stdin EXCEPT ![p] = Tail(@)] /\ stdin[p] # <<>>
      /\ UNCHANGED <<state, child, pc, call, proc>>
  BY DEF ServeAnswers
<1>3. /\ \A q \in Procs : stdin[q] \in Seq(Nat) /\ stdout[q] \in Seq(Replies)
      /\ \A q \in Procs : stdin'[q] = IF q = p THEN Tail(stdin[q]) ELSE stdin[q]
      /\ \A q \in Procs : stdout'[q] = IF q = p THEN Append(stdout[q], frame) ELSE stdout[q]
  BY <1>1, <1>2, PipeTypes DEF Inv, TypeOK, ProcTypeOK
<1>4. frame \in Replies /\ frame.kind # "none" /\ frame.id = stdin[p][1]
  BY <1>2, <1>3 DEF Replies, Inv, TypeOK, WorldTypeOK
<1> HIDE DEF frame
<1>5. /\ \A i \in 1..Len(stdout[p]) :
           i \in 1..Len(Append(stdout[p], frame)) /\ Append(stdout[p], frame)[i] = stdout[p][i]
      /\ Len(stdout[p]) + 1 \in 1..Len(Append(stdout[p], frame))
      /\ Append(stdout[p], frame)[Len(stdout[p]) + 1] = frame
      /\ \A i \in 1..Len(Append(stdout[p], frame)) : i \in 1..Len(stdout[p]) \/ i = Len(stdout[p]) + 1
  BY <1>3, <1>4
<1>6. \A i \in 1..Len(stdin[p]) :
        i = 1 \/ (i - 1 \in 1..Len(Tail(stdin[p])) /\ Tail(stdin[p])[i - 1] = stdin[p][i])
  BY <1>2, <1>3
<1>7. FramesInv'
  <2>1. \A q \in Procs : \A i \in 1..Len(stdout'[q]) :
          stdout'[q][i] = frame \/ \E j \in 1..Len(stdout[q]) : stdout'[q][i] = stdout[q][j]
    <3> TAKE q \in Procs
    <3>1. CASE q = p
      BY <1>3, <1>5, <3>1
    <3>2. CASE q # p
      BY <1>3, <3>2
    <3> QED
      BY <3>1, <3>2
  <2> QED
    BY <1>4, <2>1 DEF WaitInv, FramesInv
<1>8. ChildInv'
  BY <1>2 DEF WaitInv, ChildInv
<1>9. ASSUME Awaiting' PROVE child \in Procs /\ InPipes(child)'
  <2>1. child \in Procs /\ InPipes(child)
    BY <1>2, <1>9 DEF WaitInv, AnswerIsOnItsWay, InPipes, Awaiting
  <2>2. CASE child # p
    BY <1>2, <1>3, <2>1, <2>2 DEF InPipes
  <2>3. CASE child = p
    <3>1. CASE \E i \in 1..Len(stdout[p]) : stdout[p][i].id = call.id
      <4>1. PICK i \in 1..Len(stdout[p]) : stdout[p][i].id = call.id
        BY <3>1
      <4>2. i \in 1..Len(stdout'[p]) /\ stdout'[p][i].id = call.id
        BY <1>3, <1>5, <4>1
      <4> QED
        BY <1>2, <2>3, <4>2 DEF InPipes
    <3>2. CASE \E i \in 1..Len(stdin[p]) : stdin[p][i] = call.id
      <4>1. PICK i \in 1..Len(stdin[p]) : stdin[p][i] = call.id
        BY <3>2
      <4>2. CASE i = 1
        <5>1. stdout'[p][Len(stdout[p]) + 1].id = call.id
          BY <1>3, <1>4, <1>5, <4>1, <4>2
        <5> QED
          BY <1>2, <1>3, <1>5, <2>3, <5>1 DEF InPipes
      <4>3. CASE i # 1
        <5>1. i - 1 \in 1..Len(stdin'[p]) /\ stdin'[p][i - 1] = call.id
          BY <1>3, <1>6, <4>1, <4>3
        <5> QED
          BY <1>2, <2>3, <5>1 DEF InPipes
      <4> QED
        BY <4>2, <4>3
    <3> QED
      BY <2>1, <2>3, <3>1, <3>2 DEF InPipes
  <2> QED
    BY <2>1, <2>2, <2>3
<1>10. AnswerIsOnItsWay'
  BY <1>2, <1>9 DEF WaitInv, AnswerIsOnItsWay, InPipes, Awaiting
<1> QED
  BY <1>7, <1>8, <1>10 DEF WaitInv

LEMMA WaitStep ==
  ASSUME Inv, WaitInv, [Next]_vars
  PROVE  WaitInv'
<1>1. FramesInv /\ ChildInv /\ AnswerIsOnItsWay
  BY DEF WaitInv
<1>2. CASE StartServe
  <2>1. PICK p \in Procs : /\ proc' = [proc EXCEPT ![p] = "running"] /\ child' = p
                           /\ state' = "starting" /\ RequestSync(p, "initialize")
    BY <1>2 DEF StartServe
  <2>2. InPipes(p)'
    BY <2>1, RequestIsInPipe
  <2>3. proc'[p] = "running"
    BY <2>1 DEF Inv, TypeOK, ProcTypeOK
  <2> QED
    BY <1>1, <1>2, <2>1, <2>2, <2>3, FramesStay
    DEF StartServe, WaitInv, ChildInv, AnswerIsOnItsWay, InPipes
<1>3. CASE RefreshInvalidated \/ LintSaved
  <2>1. UNCHANGED <<state, child, proc, stdout>>
    BY <1>3 DEF RefreshInvalidated, LintSaved
  <2>2. CASE \E p \in Procs, method \in Waiting : p = child /\ RequestSync(p, method)
    <3>1. PICK p \in Procs, method \in Waiting : p = child /\ RequestSync(p, method)
      BY <2>2
    <3>2. InPipes(p)'
      BY <3>1, RequestIsInPipe
    <3> QED
      BY <1>1, <2>1, <3>1, <3>2, FramesStay DEF WaitInv, ChildInv, AnswerIsOnItsWay, InPipes
  <2>3. CASE pc' \notin Waiting
    BY <1>1, <2>1, <2>3, FramesStay DEF WaitInv, ChildInv, AnswerIsOnItsWay, Awaiting
  <2>4. \/ \E p \in Procs, method \in Waiting : p = child /\ RequestSync(p, method)
        \/ pc' \notin Waiting
    BY <1>3 DEF RefreshInvalidated, LintSaved, Waiting, Inv, CallInv, LiveStateHasChild, TypeOK, ClientTypeOK
  <2> QED
    BY <2>2, <2>3, <2>4
<1>4. CASE SyncRead
  BY <1>4, ReadFrameWaits DEF SyncRead
<1>5. ASSUME NEW p \in Procs, DataEvent(p) PROVE WaitInv'
  BY <1>5, ReadFrameWaits DEF DataEvent
<1>6. ASSUME NEW p \in Procs, ServeAnswers(p) PROVE WaitInv'
  BY <1>6, ServeAnswersWaits
<1>7. ASSUME NEW p \in Procs, ServeExits(p) \/ ServeCrashes(p) PROVE WaitInv'
  <2>1. /\ proc' = [proc EXCEPT ![p] = "exited"]
        /\ UNCHANGED <<state, child, pc, call, stdin, stdout>>
    BY <1>7 DEF ServeExits, ServeCrashes, client, requests
  <2>2. \A q \in Procs : proc'[q] = IF q = p THEN "exited" ELSE proc[q]
    BY <2>1 DEF Inv, TypeOK, ProcTypeOK
  <2>3. ChildInv'
    BY <1>1, <2>1, <2>2 DEF ChildInv
  <2>4. AnswerIsOnItsWay'
    BY <1>1, <2>1, <2>2 DEF AnswerIsOnItsWay, Awaiting
  <2> QED
    BY <1>1, <2>1, <2>3, <2>4, FramesStay DEF WaitInv
<1>8. CASE child' = NoProc /\ pc' \notin Waiting /\ UNCHANGED stdout
  BY <1>1, <1>8, FramesStay DEF WaitInv, ChildInv, AnswerIsOnItsWay, Awaiting, NoProc, Procs
<1>9. InitializeFailed \/ RuleChangedFailed \/ (\E p \in Procs : ExitEvent(p)) \/ Dispose
        => child' = NoProc /\ pc' \notin Waiting /\ UNCHANGED stdout
  <2>1. InitializeFailed => child' = NoProc
    BY <1>1, HandleServeFailureDrops DEF InitializeFailed
  <2>2. \A p \in Procs : ExitEvent(p) => child' = NoProc
    BY <1>1, HandleServeFailureDrops DEF ExitEvent
  <2> QED
    BY <2>1, <2>2
    DEF InitializeFailed, RuleChangedFailed, ExitEvent, Dispose, Quiet, Waiting,
        Inv, TypeOK, CallTypeOK
<1>10. CASE SpawnFails
  <2>1. child = NoProc /\ child' = NoProc /\ pc' \notin Waiting /\ UNCHANGED stdout
    BY <1>10 DEF SpawnFails, Inv, CallInv, TypeOK, CallTypeOK, Waiting, pipes
  <2> QED
    BY <1>8, <2>1
<1>11. CASE UNCHANGED <<child, proc, stdout>> /\ pc' \notin Waiting
              /\ (state' = state \/ state' \in {"starting", "ready", "invalidated"})
  BY <1>1, <1>11, FramesStay DEF WaitInv, ChildInv, AnswerIsOnItsWay, Awaiting
<1>12. \/ InitializeDone \/ RuleChangedDone \/ LintUnchanged
       \/ LintFallback \/ LintNothing \/ FileSavedDone \/ FileSavedFailed
       \/ \E m \in microtasks : RefreshSettles(m)
       \/ \E r \in pending : WriteError(r)
       \/ RuleEvent \/ TimerFires
       => /\ UNCHANGED <<child, proc, stdout>> /\ pc' \notin Waiting
          /\ state' = state \/ state' \in {"starting", "ready", "invalidated"}
  BY DEF InitializeDone, RuleChangedDone, LintUnchanged, LintFallback, LintNothing,
     FileSavedDone, FileSavedFailed, RefreshSettles, WriteError, RuleEvent, TimerFires,
     ApplyRuleInvalidation, Return, Quiet, Waiting, client, pipes, requests,
     Inv, TypeOK, CallTypeOK
<1>13. CASE \E f \in Files : GetDiagnostics(f)
  <2>1. UNCHANGED <<child, proc, stdout>> /\ pc' \notin Waiting
    BY <1>13 DEF GetDiagnostics, Waiting
  <2>2. state' = state \/ (state \in {"idle", "starting"} /\ state' = "fallback" /\ pc = "idle")
    BY <1>13 DEF GetDiagnostics
  <2>3. pc = "idle" => state # "starting"
    BY DEF Inv, CallInv
  <2> QED
    BY <1>1, <2>1, <2>2, <2>3, FramesStay DEF WaitInv, ChildInv, AnswerIsOnItsWay, Awaiting
<1>14. CASE SyncThrows
  <2>1. ~Awaiting' /\ UNCHANGED <<state, child, proc, stdout>>
    BY <1>14, NoReplyType
    DEF SyncThrows, Awaiting, client, pipes, Inv, TypeOK, CallTypeOK
  <2> QED
    BY <1>1, <2>1, FramesStay DEF WaitInv, ChildInv, AnswerIsOnItsWay
<1>15. CASE UNCHANGED <<state, child, pc, call, proc, stdin, stdout>>
  BY <1>1, <1>15 DEF WaitInv, ChildInv, FramesInv, AnswerIsOnItsWay, Awaiting
<1>16. Tick \/ EditRule \/ (\E f \in Files : Save(f)) \/ UNCHANGED vars
         => UNCHANGED <<state, child, pc, call, proc, stdin, stdout>>
  BY DEF Tick, EditRule, Save, vars, client, requests, pipes
<1> QED
  BY <1>2, <1>3, <1>4, <1>5, <1>6, <1>7, <1>8, <1>9, <1>10, <1>11, <1>12, <1>13, <1>14,
     <1>15, <1>16
  DEF Next, CallStep, Event

LEMMA WaitInvariance == Spec => []WaitInv
<1>1. Init => WaitInv
  BY DEF Init, WaitInv, ChildInv, FramesInv, AnswerIsOnItsWay, Awaiting, Waiting, NoProc, Procs
<1>2. Inv /\ WaitInv /\ [Next]_vars => WaitInv'
  BY WaitStep
<1> QED
  BY <1>1, <1>2, ClientInvariant, PTL DEF Spec

(* No call waits for a response that another read has taken, or of a       *)
(* process that was given up: AnswerIsOnItsWay, for every instance.        *)
THEOREM AnswersAreOnTheirWay == Spec => []AnswerIsOnItsWay
<1>1. WaitInv => AnswerIsOnItsWay
  BY DEF WaitInv
<1> QED
  BY <1>1, WaitInvariance, PTL

-----------------------------------------------------------------------------
(* Every step of a call brings it nearer to its return.                    *)

StageIs(stage) ==
  /\ pc = "startServe"         => stage = IF call.resume = "branch" THEN 4 ELSE 8
  /\ pc = "initialize"         => stage = IF call.resume = "branch" THEN 3 ELSE 7
  /\ pc = "refreshInvalidated" => stage = 6
  /\ pc = "rule_changed"       => stage = 5
  /\ pc = "branch"             => stage = 2
  /\ pc = "file_saved"         => stage = 1
  /\ pc = "idle"               => stage = 0

LEMMA StageValues == ASSUME pc \in PCs PROVE StageIs(Stage)
<1>1. CASE pc \in {"startServe", "initialize"}
  BY <1>1 DEF Stage, StageIs
<1>2. CASE pc \in {"refreshInvalidated", "rule_changed"}
  BY <1>2 DEF Stage, StageIs
<1>3. CASE pc \in {"branch", "file_saved", "idle"}
  BY <1>3 DEF Stage, StageIs
<1> QED
  BY <1>1, <1>2, <1>3 DEF PCs, Waiting

(* What a call has to read, as numbers that know nothing of sequences.     *)
LEMMA UnreadIs ==
  ASSUME Inv, WaitInv, Awaiting
  PROVE  \E c \in Procs, in, out \in Nat :
           /\ c = child /\ in = Len(stdin[c]) /\ out = Len(stdout[c])
           /\ Unread = 1 + in + out
<1>1. PICK c \in Procs : c = child
  BY DEF WaitInv, AnswerIsOnItsWay
<1>2. Len(stdin[c]) \in Nat /\ Len(stdout[c]) \in Nat
  BY PipeTypes
<1>3. Unread = 1 + Len(stdin[c]) + Len(stdout[c])
  BY <1>1 DEF Unread
<1> QED
  BY <1>1, <1>2, <1>3

(* The steps that go from one method to another.                           *)
LEMMA StagesFall ==
  ASSUME Inv, Inv', CallStep, ~SyncRead, ~SyncThrows
  PROVE  Stage' < Stage
<1>1. /\ call \in [file : Files, asked : Nat, resume : {"refreshInvalidated", "branch"},
                    id : Nat, startedAt : Nat, reply : Replies]
      /\ pc \in PCs /\ pc' \in PCs
  BY DEF Inv, TypeOK, CallTypeOK
<1>2. StageIs(Stage) /\ StageIs(Stage)'
  <2>1. StageIs(Stage)
    BY <1>1, StageValues
  <2>2. (pc \in PCs => StageIs(Stage))'
    BY StageValues, PTL
  <2> QED
    BY <1>1, <2>1, <2>2
<1> HIDE DEF Stage
<1>3. CASE StartServe
  <2>1. pc = "startServe" /\ pc' = "initialize" /\ call'.resume = call.resume
    BY <1>1, <1>3 DEF StartServe, RequestSync
  <2> QED
    BY <1>1, <1>2, <2>1 DEF StageIs
<1>4. CASE SpawnFails \/ InitializeDone \/ InitializeFailed
  <2>1. pc \in {"startServe", "initialize"} /\ pc' = call.resume
    BY <1>4 DEF SpawnFails, InitializeDone, InitializeFailed
  <2> QED
    BY <1>1, <1>2, <2>1 DEF StageIs
<1>5. CASE RefreshInvalidated
  <2>1. /\ pc = "refreshInvalidated"
        /\ pc' \in {"branch", "rule_changed"} \/ (pc' = "startServe" /\ call'.resume = "branch")
    BY <1>1, <1>5 DEF RefreshInvalidated, RequestSync
  <2> QED
    BY <1>2, <2>1 DEF StageIs
<1>6. CASE RuleChangedDone \/ RuleChangedFailed
  <2>1. /\ pc = "rule_changed"
        /\ pc' = "branch" \/ (pc' = "startServe" /\ call'.resume = "branch")
    BY <1>1, <1>6 DEF RuleChangedDone, RuleChangedFailed
  <2> QED
    BY <1>2, <2>1 DEF StageIs
<1>7. CASE LintSaved
  <2>1. pc = "branch" /\ pc' = "file_saved"
    BY <1>7 DEF LintSaved, RequestSync
  <2> QED
    BY <1>2, <2>1 DEF StageIs
<1>8. CASE LintUnchanged \/ LintFallback \/ LintNothing \/ FileSavedDone \/ FileSavedFailed
  <2>1. pc \in {"branch", "file_saved"} /\ pc' = "idle"
    BY <1>8 DEF LintUnchanged, LintFallback, LintNothing, FileSavedDone, FileSavedFailed, Return
  <2> QED
    BY <1>2, <2>1 DEF StageIs
<1> QED
  BY <1>3, <1>4, <1>5, <1>6, <1>7, <1>8 DEF CallStep

(* A read takes a frame, and with the response the wait is over.           *)
LEMMA ReadsComeNearer ==
  ASSUME Inv, WaitInv, SyncRead \/ SyncThrows
  PROVE  Stage' = Stage /\ Unread' < Unread
<1>1. Awaiting
  BY DEF SyncRead, SyncThrows
<1>2. PICK c \in Procs, in \in Nat, out \in Nat :
        /\ c = child /\ in = Len(stdin[c]) /\ out = Len(stdout[c])
        /\ Unread = 1 + in + out
  BY <1>1, UnreadIs
<1>3. UNCHANGED pc /\ call'.resume = call.resume
  BY DEF SyncRead, SyncThrows, ReadFrame, Inv, TypeOK, CallTypeOK
<1>4. Stage' = Stage
  BY <1>3 DEF Stage
<1>5. CASE ~Awaiting'
  <2>1. 0 < 1 + in + out
    OBVIOUS
  <2>2. Unread' = 0
    BY <1>5 DEF Unread
  <2> QED
    BY <1>2, <1>4, <2>1, <2>2
<1>6. CASE Awaiting'
  <2>1. ~SyncThrows
    BY <1>6, NoReplyType DEF SyncThrows, Awaiting, Inv, TypeOK, CallTypeOK
  <2>2. ReadFrame(c)
    BY <1>2, <2>1 DEF SyncRead
  <2>3. Head(stdout[c]).kind # "garbled"
    BY <1>1, <1>6, <2>2, NoReplyType DEF ReadFrame, Awaiting, Inv, TypeOK, CallTypeOK
  <2>4. UNCHANGED <<child, stdin>>
    BY <2>2, <2>3 DEF ReadFrame
  <2>5. stdout[c] # <<>> /\ stdout'[c] = Tail(stdout[c])
    BY <2>2 DEF ReadFrame, Inv, TypeOK, ProcTypeOK
  <2>6. Len(stdout'[c]) = out - 1
    BY <1>2, <2>5, PipeTypes
  <2>7. Unread' = 1 + Len(stdin[c]) + Len(stdout'[c])
    BY <1>2, <1>6, <2>4 DEF Unread
  <2>8. Unread' = 1 + in + (out - 1)
    BY <1>2, <2>6, <2>7
  <2>9. 1 + in + (out - 1) < 1 + in + out
    OBVIOUS
  <2> QED
    BY <1>2, <1>4, <2>8, <2>9
<1> QED
  BY <1>5, <1>6

(* Meanwhile the processes move what is to be read, and change nothing     *)
(* else of it.                                                             *)
LEMMA OthersKeepDistance ==
  ASSUME Inv, WaitInv, [Next]_vars, ~CallStep, pc # "idle"
  PROVE  UNCHANGED <<pc, call, Unread>>
<1>1. CASE UNCHANGED <<pc, call, child, stdin, stdout>>
  BY <1>1 DEF Unread, Awaiting
<1>2. ASSUME NEW p \in Procs, ServeAnswers(p) PROVE UNCHANGED <<pc, call, Unread>>
  <2>1. PICK kind \in {"ok", "error", "garbled"} :
          stdout' = [stdout EXCEPT ![p] =
            Append(@, [kind |-> kind, id |-> Head(stdin[p]), rules |-> rules, seen |-> content])]
    BY <1>2 DEF ServeAnswers
  <2> DEFINE frame == [kind |-> kind, id |-> Head(stdin[p]), rules |-> rules, seen |-> content]
  <2>2. stdin' = [stdin EXCEPT ![p] = Tail(@)] /\ stdin[p] # <<>> /\ UNCHANGED <<pc, call, child>>
    BY <1>2 DEF ServeAnswers
  <2>3. Head(stdin[p]) \in Nat
    BY <2>2, PipeTypes
  <2>4. frame \in Replies
    BY <2>3 DEF Replies, Inv, TypeOK, WorldTypeOK
  <2>5. stdout' = [stdout EXCEPT ![p] = Append(@, frame)]
    BY <2>1
  <2> HIDE DEF frame
  <2>6. /\ stdin' = [stdin EXCEPT ![p] = Tail(@)] /\ stdin[p] # <<>>
        /\ stdout' = [stdout EXCEPT ![p] = Append(@, frame)] /\ frame \in Replies
        /\ UNCHANGED <<pc, call, child>>
    BY <2>2, <2>4, <2>5
  <2>7. Awaiting' <=> Awaiting
    BY <2>6 DEF Awaiting
  <2>8. CASE Awaiting
    <3>1. PICK c \in Procs, in \in Nat, out \in Nat :
            /\ c = child /\ in = Len(stdin[c]) /\ out = Len(stdout[c])
            /\ Unread = 1 + in + out
      BY <2>8, UnreadIs
    <3>2. Unread' = 1 + Len(stdin'[c]) + Len(stdout'[c])
      BY <2>6, <2>7, <2>8, <3>1 DEF Unread
    <3>3. CASE c = p
      <4>1. stdin'[c] = Tail(stdin[c]) /\ stdout'[c] = Append(stdout[c], frame)
        BY <2>6, <3>3 DEF Inv, TypeOK, ProcTypeOK
      <4>2. Len(stdin'[c]) = in - 1 /\ Len(stdout'[c]) = out + 1
        <5>1. stdin[c] \in Seq(Nat) /\ stdin[c] # <<>> /\ stdout[c] \in Seq(Replies)
          BY <2>6, <3>3, PipeTypes
        <5>2. Len(Tail(stdin[c])) = Len(stdin[c]) - 1
          BY <5>1
        <5>3. Len(Append(stdout[c], frame)) = Len(stdout[c]) + 1
          BY <2>6, <5>1
        <5> QED
          BY <3>1, <4>1, <5>2, <5>3
      <4>3. Unread' = 1 + (in - 1) + (out + 1)
        BY <3>2, <4>2
      <4>4. 1 + (in - 1) + (out + 1) = 1 + in + out
        OBVIOUS
      <4> QED
        BY <2>6, <3>1, <4>3, <4>4
    <3>4. CASE c # p
      <4>1. stdin'[c] = stdin[c] /\ stdout'[c] = stdout[c]
        BY <2>6, <3>4 DEF Inv, TypeOK, ProcTypeOK
      <4> QED
        BY <2>6, <3>1, <3>2, <4>1
    <3> QED
      BY <3>3, <3>4
  <2>9. CASE ~Awaiting
    BY <2>6, <2>7, <2>9 DEF Unread
  <2> QED
    BY <2>8, <2>9
<1>3. ~Event
  BY DEF Event, RefreshSettles, DataEvent, ExitEvent, WriteError, RuleEvent, TimerFires, Quiet
<1>4. ~Dispose
  BY DEF Dispose
<1>5. ASSUME NEW f \in Files, GetDiagnostics(f) PROVE FALSE
  BY <1>5 DEF GetDiagnostics
<1>6. \/ \E p \in Procs : ServeAnswers(p)
      \/ \E p \in Procs : ServeExits(p) \/ ServeCrashes(p)
      \/ Tick \/ EditRule \/ (\E f \in Files : Save(f)) \/ UNCHANGED vars
  BY <1>3, <1>4, <1>5 DEF Next
<1>7. CASE \E p \in Procs : ServeAnswers(p)
  BY <1>2, <1>7
<1>8. CASE ~\E p \in Procs : ServeAnswers(p)
  <2>1. UNCHANGED <<pc, call, child, stdin, stdout>>
    BY <1>6, <1>8
    DEF ServeExits, ServeCrashes, Tick, EditRule, Save, vars, client, requests, pipes
  <2> QED
    BY <1>1, <2>1
<1> QED
  BY <1>7, <1>8

(* Restarts, failed requests and stale output do not keep a lint going:    *)
(* CallsGoForward, for every instance.                                     *)
THEOREM CallsAlwaysGoForward == Spec => CallsGoForward
<1>1. ASSUME Inv, Inv', WaitInv, [Next]_vars
      PROVE  /\ CallStep => Nearer
             /\ pc # "idle" => Nearer \/ UNCHANGED <<pc, call, Unread>>
  <2>1. CallStep => Nearer
    BY <1>1, StagesFall, ReadsComeNearer DEF Nearer
  <2>2. ~CallStep /\ pc # "idle" => UNCHANGED <<pc, call, Unread>>
    BY <1>1, OthersKeepDistance
  <2> QED
    BY <2>1, <2>2
<1> QED
  BY <1>1, ClientInvariant, WaitInvariance, PTL DEF Spec, CallsGoForward

=============================================================================
