---------------------------- MODULE LintaiServer ----------------------------
(***************************************************************************)
(* `lintai serve` (server/server.go over jsonrpc/jsonrpc.go): the loop     *)
(* that reads a request, handles it and writes its response, with the      *)
(* options and the newest analysis that it keeps between requests.         *)
(***************************************************************************)
EXTENDS Naturals, Sequences

CONSTANTS
  Configs,      \* the params of initialize that are accepted
  NoId,         \* the id of a request that wants no response
  Nothing,      \* no options, no result, no response
  MaxRequests,  \* bound on the frames a client writes
  MaxPipe,      \* bound on those not read yet
  MaxWorld      \* bound on the changes of workspace and rules

(* What an analysis sees: the options it runs with and the workspace. *)
Results == [options : Configs, world : Nat]

Responses == [id : Nat \cup {NoId}, kind : {"ok", "error"}, seen : Results \cup {Nothing}]

ASSUME ServerAssumption ==
  /\ MaxRequests \in Nat /\ MaxPipe \in Nat /\ MaxWorld \in Nat
  /\ NoId \notin Nat
  /\ "bad" \notin Configs /\ Nothing \notin Configs \cup Results \cup Responses

VARIABLES
  input, inputEnd, broken, output,  \* the pipes: frames, how input ends, output not read
  pc, request, response, exit,      \* the loop
  options, initialized,             \* the fields of Server
  analysisValid, diagnostics,
  world,                            \* version of the workspace and its rules
  sent,                             \* frames written so far
  asked,                            \* history: ids of the frames written
  newest, accepted                  \* history: newest analysis, newest accepted params

pipes == <<input, inputEnd, broken, sent, asked>>
fields == <<options, initialized, analysisValid, diagnostics>>
history == <<newest, accepted>>
vars == <<pipes, output, pc, request, response, exit, fields, world, history>>

(* A request as ReadRequest returns it.  Params that a method does not     *)
(* accept are "bad", absent ones where it needs some among them.  A frame  *)
(* of another version is refused whatever it says.  Garbage is a frame     *)
(* that is no request.                                                     *)
Calls ==
  ({"initialize"} \X (Configs \cup {"bad"})) \cup ({"reanalyze"} \X {"absent", "bad"})
    \cup ({"diagnostics/file"} \X {"file", "bad"}) \cup ({"shutdown", "unknown"} \X {"absent"})

Frame(id, version, call) ==
  [id |-> id, version |-> version, method |-> call[1], params |-> call[2]]
NoRequest == Frame(NoId, "none", <<"garbage", "absent">>)

Frames(id) ==
  {Frame(i, "2.0", call) : i \in {id, NoId}, call \in Calls}
    \cup {Frame(id, "other", call) : call \in Calls}
    \cup {NoRequest}

AllFrames == UNION {Frames(n) : n \in 1..MaxRequests}

Init ==
  /\ input = <<>> /\ inputEnd = "open" /\ broken = FALSE /\ sent = 0 /\ asked = {}
  /\ output = <<>>
  /\ pc = "read" /\ request = NoRequest /\ response = Nothing /\ exit = "none"
  /\ options = Nothing /\ initialized = FALSE
  /\ analysisValid = FALSE /\ diagnostics = Nothing
  /\ world = 0
  /\ newest = Nothing /\ accepted = Nothing

-----------------------------------------------------------------------------
(* The client and the workspace. *)
WriteFrame ==
  /\ inputEnd = "open" /\ sent < MaxRequests /\ Len(input) < MaxPipe
  /\ sent' = sent + 1
  /\ \E frame \in Frames(sent + 1) :
       /\ input' = Append(input, frame)
       /\ asked' = asked \cup ({frame.id} \ {NoId})
  /\ UNCHANGED <<inputEnd, broken, output, pc, request, response, exit, fields, world, history>>

(* The input ends after a frame or, if the client dies, inside one. *)
CloseInput ==
  /\ inputEnd = "open"
  /\ inputEnd' \in {"whole", "cut"}
  /\ UNCHANGED <<input, broken, sent, asked, output, pc, request, response, exit, fields, world, history>>

CloseOutput ==
  /\ ~broken
  /\ broken' = TRUE
  /\ UNCHANGED <<input, inputEnd, sent, asked, output, pc, request, response, exit, fields, world, history>>

ChangeWorld ==
  /\ world < MaxWorld
  /\ world' = world + 1
  /\ UNCHANGED <<pipes, output, pc, request, response, exit, fields, history>>

-----------------------------------------------------------------------------
(* Serve: what happens to the request it has read. *)
(* Mutant: an error is not reported to the client. *)
RespondsResults(r, kind, seen) ==
  /\ request' = r
  /\ IF kind = "ok"
     THEN pc' = "respond" /\ response' = [id |-> r.id, kind |-> kind, seen |-> seen]
     ELSE pc' = "read" /\ UNCHANGED response

Responds(r, kind, seen) ==
  /\ pc' = "respond"
  /\ request' = r
  /\ response' = [id |-> r.id, kind |-> kind, seen |-> seen]

Refuses(r) == Responds(r, "error", Nothing) /\ UNCHANGED <<fields, history>>

Analyzes(r) ==
  /\ pc' = "analyze"
  /\ request' = r
  /\ UNCHANGED response

(* Mutant: what the server has stays until the new analysis is there. *)
HandleInitializeKeepingAnalysis(r) ==
  IF r.params = "bad"
  THEN Refuses(r)
  ELSE /\ options' = r.params /\ initialized' = TRUE /\ accepted' = r.params
       /\ Analyzes(r)
       /\ UNCHANGED <<analysisValid, diagnostics, newest>>

(* Mutant: initialize leaves the options to applyAnalysis. *)
HandleInitializeOnce(r) ==
  IF r.params = "bad"
  THEN Refuses(r)
  ELSE /\ options' = (IF initialized THEN options ELSE r.params) /\ initialized' = TRUE
       /\ analysisValid' = FALSE /\ diagnostics' = Nothing
       /\ accepted' = options'
       /\ Analyzes(r)
       /\ UNCHANGED newest

HandleInitialize(r) ==
  IF r.params = "bad"
  THEN Refuses(r)
  ELSE /\ options' = r.params /\ initialized' = TRUE
       /\ analysisValid' = FALSE /\ diagnostics' = Nothing
       /\ accepted' = r.params
       /\ Analyzes(r)
       /\ UNCHANGED newest

(* Mutant: reanalyze does not ask for an initialize before it. *)
HandleReanalyzeAlways(r) ==
  IF r.params = "bad"
  THEN Refuses(r)
  ELSE Analyzes(r) /\ UNCHANGED <<fields, history>>

(* reanalyze takes no params, or params that decode. *)
HandleReanalyze(r) ==
  IF ~initialized \/ r.params = "bad"
  THEN Refuses(r)
  ELSE Analyzes(r) /\ UNCHANGED <<fields, history>>

HandleFileDiagnostics(r) ==
  IF r.params # "bad" /\ initialized /\ analysisValid
  THEN Responds(r, "ok", diagnostics) /\ UNCHANGED <<fields, history>>
  ELSE Refuses(r)

HandleRequest(r) ==
  IF r.version # "2.0" THEN Refuses(r)
  ELSE \/ r.method = "initialize" /\ HandleInitialize(r)
       \/ r.method = "reanalyze" /\ HandleReanalyze(r)
       \/ r.method = "diagnostics/file" /\ HandleFileDiagnostics(r)
       \/ r.method = "shutdown" /\ Responds(r, "ok", Nothing) /\ UNCHANGED <<fields, history>>
       \/ r.method = "unknown" /\ Refuses(r)

Ends(how) ==
  /\ pc' = "ended"
  /\ exit' = how

(* Mutant: a frame is taken from the input when its analysis begins, and   *)
(* stays there when it is answered at once.                                *)
ReadRequestTwice ==
  /\ pc = "read"
  /\ input # <<>> /\ Head(input).method # "garbage"
  /\ HandleRequest(Head(input))
  /\ input' = IF pc' = "analyze" THEN Tail(input) ELSE input
  /\ UNCHANGED <<inputEnd, broken, sent, asked, output, exit, world>>

ReadRequest ==
  /\ pc = "read"
  /\ input # <<>> /\ Head(input).method # "garbage"
  /\ input' = Tail(input)
  /\ HandleRequest(Head(input))
  /\ UNCHANGED <<inputEnd, broken, sent, asked, output, exit, world>>

(* A malformed header, no content length, or a payload that is no JSON. *)
ReadFails ==
  /\ pc = "read"
  /\ input # <<>> /\ Head(input).method = "garbage"
  /\ Ends("failed")
  /\ UNCHANGED <<pipes, output, request, response, fields, world, history>>

(* Mutant: an end of input inside a frame is waited out. *)
ReadEndsAfterFrame ==
  /\ pc = "read"
  /\ input = <<>> /\ inputEnd = "whole"
  /\ Ends("clean")
  /\ UNCHANGED <<pipes, output, request, response, fields, world, history>>

(* io.EOF also comes from an end inside a header line or right before the  *)
(* payload; only an end inside the payload is an error.                    *)
ReadEnds ==
  /\ pc = "read"
  /\ input = <<>> /\ inputEnd # "open"
  /\ \/ Ends("clean")
     \/ inputEnd = "cut" /\ Ends("failed")
  /\ UNCHANGED <<pipes, output, request, response, fields, world, history>>

(* engine.Analyze for initialize and reanalyze. *)
AnalyzeSucceeds ==
  /\ pc = "analyze"
  /\ diagnostics' = [options |-> options, world |-> world]
  /\ analysisValid' = TRUE /\ initialized' = TRUE
  /\ newest' = diagnostics'
  /\ Responds(request, "ok", diagnostics')
  /\ UNCHANGED <<pipes, output, exit, options, world, accepted>>

(* initialize has cleared the analysis already, reanalyze does so now. *)
InvalidateAnalysis ==
  /\ analysisValid' = FALSE
  /\ diagnostics' = Nothing

AnalyzeFails ==
  /\ pc = "analyze"
  /\ IF request.method = "reanalyze" THEN InvalidateAnalysis
     ELSE UNCHANGED <<analysisValid, diagnostics>>
  /\ newest' = Nothing
  /\ Responds(request, "error", Nothing)
  /\ UNCHANGED <<pipes, output, exit, options, initialized, world, accepted>>

NextRequest ==
  IF request.method = "shutdown" /\ request.version = "2.0" THEN Ends("clean")
  ELSE pc' = "read" /\ UNCHANGED exit

WriteResponse ==
  /\ pc = "respond"
  /\ \/ request.id = NoId
     \/ ~broken
  /\ output' = IF request.id = NoId THEN output ELSE Append(output, response)
  /\ response' = Nothing
  /\ NextRequest
  /\ UNCHANGED <<pipes, request, fields, world, history>>

WriteFails ==
  /\ pc = "respond"
  /\ request.id # NoId /\ broken
  /\ Ends("failed")
  /\ UNCHANGED <<pipes, output, request, response, fields, world, history>>

Serve == ReadRequest \/ ReadFails \/ ReadEnds \/ AnalyzeSucceeds \/ AnalyzeFails
           \/ WriteResponse \/ WriteFails

Next == WriteFrame \/ CloseInput \/ CloseOutput \/ ChangeWorld \/ Serve

Spec == Init /\ [][Next]_vars

(* The process is scheduled, and an analysis ends. *)
FairSpec == Spec /\ WF_vars(Serve)

-----------------------------------------------------------------------------
(* What a client has been told so far, and the response being written. *)
Answered == IF response = Nothing \/ response.id = NoId THEN output ELSE Append(output, response)

Unhandled == IF pc = "analyze" THEN <<request>> \o input ELSE input

(* The server keeps what ServeContract promises: an analysis is answered   *)
(* with what the workspace was while it ran, a file with what the newest   *)
(* analysis found if that succeeded, in the order of the requests          *)
(* (server.go:97-271).                                                     *)
Contract == INSTANCE ServeContract WITH
  Requests <- AllFrames,
  requests <- Unhandled,
  answers  <- Answered,
  params   <- options,
  latest   <- diagnostics,
  serving  <- (pc # "ended")

ImplementsContract == Contract!Spec

(* Every variable has a value of its kind. *)
TypeOK ==
  /\ input \in Seq(AllFrames) /\ request \in AllFrames \cup {NoRequest}
  /\ inputEnd \in {"open", "whole", "cut"} /\ broken \in BOOLEAN
  /\ pc \in {"read", "analyze", "respond", "ended"} /\ exit \in {"none", "clean", "failed"}
  /\ options \in Configs \cup {Nothing}
  /\ initialized \in BOOLEAN /\ analysisValid \in BOOLEAN
  /\ diagnostics \in Results \cup {Nothing}
  /\ response \in Responses \cup {Nothing}
  /\ world \in 0..MaxWorld /\ sent \in 0..MaxRequests /\ asked \subseteq 1..sent
  /\ pc = "respond" => response # Nothing /\ response.id = request.id

(* What a file is answered comes from the newest analysis, which did not   *)
(* fail and was made with the params of the newest initialize              *)
(* (server.go:210-247, 264-269).                                           *)
FileAnswersAreNewest ==
  pc = "respond" /\ request.method = "diagnostics/file" /\ response.kind = "ok" =>
    /\ newest # Nothing
    /\ response.seen = newest
    /\ newest.options = accepted

Ids(frames) == {frames[i].id : i \in DOMAIN frames} \ {NoId}

(* A request with an id has one response or is still to be handled, one    *)
(* without has none, in the order of the requests, however analyses fail   *)
(* (server.go:101-122).                                                    *)
OneResponseInOrder ==
  LET line == Answered \o Unhandled
  IN  /\ asked = Ids(line)
      /\ \A i \in DOMAIN Answered : Answered[i].id # NoId
      /\ \A i, j \in DOMAIN line :
           i < j /\ line[i].id # NoId /\ line[j].id # NoId => line[i].id < line[j].id

(* A request that a client writes is answered or the process ends, also    *)
(* when the requests before it cannot be served (server.go:101-122).       *)
RequestsAreAnswered ==
  \A n \in 1..MaxRequests :
    n \in Ids(input) ~> n \in Ids(output) \/ pc = "ended"

(* The process ends once its input has ended, wherever that happened:      *)
(* what a client relies on that drops its process (server.go:103-107).     *)
EndOfInputEnds == inputEnd # "open" ~> pc = "ended"
=============================================================================
