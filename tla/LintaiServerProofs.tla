------------------------- MODULE LintaiServerProofs -------------------------
(***************************************************************************)
(* For every set of options, number of requests and changes of the         *)
(* workspace: LintaiServer is type correct, answers a file from the newest *)
(* analysis only, implements ServeContract, and answers each request once  *)
(* and in order.                                                           *)
(***************************************************************************)
EXTENDS LintaiServer, TLAPS

(* What the fields of the server have to do with the history and the loop. *)
FieldsAgree ==
  /\ options = accepted
  /\ initialized <=> accepted # Nothing
  /\ analysisValid <=> diagnostics # Nothing
  /\ analysisValid => initialized /\ diagnostics = newest /\ diagnostics.options = accepted

LoopAgrees ==
  /\ pc \in {"read", "analyze"} => response = Nothing
  /\ pc = "analyze" =>
       /\ initialized
       /\ request.method \in {"initialize", "reanalyze"}
       /\ request.method = "initialize" =>
            request.params = options /\ diagnostics = Nothing
  /\ pc = "respond" /\ request.method = "diagnostics/file" /\ response.kind = "ok" =>
       analysisValid /\ response.seen = diagnostics

Inv == TypeOK /\ FieldsAgree /\ LoopAgrees

(* Every action: what it may do to the variables that Inv is about. *)
LEMMA FrameKinds ==
  ASSUME NEW f \in AllFrames \cup {NoRequest}
  PROVE  /\ f.id \in Nat \cup {NoId}
         /\ f.method = "initialize" /\ f.params # "bad" => f.params \in Configs
  BY ServerAssumption DEF AllFrames, Frames, Frame, Calls, NoRequest

LEMMA InitInv == Init => Inv
  <1> SUFFICES ASSUME Init PROVE Inv
    OBVIOUS
  <1>1. TypeOK
    <2>1. input \in Seq(AllFrames)
      BY DEF Init
    <2>2. request \in AllFrames \cup {NoRequest}
      BY DEF Init
    <2>3. world \in 0..MaxWorld /\ sent \in 0..MaxRequests
      BY ServerAssumption DEF Init
    <2>4. diagnostics \in Results \cup {Nothing} /\ response \in Responses \cup {Nothing}
            /\ options \in Configs \cup {Nothing}
      BY DEF Init
    <2> QED BY <2>1, <2>2, <2>3, <2>4 DEF Init, TypeOK
  <1>2. FieldsAgree
    BY DEF Init, FieldsAgree
  <1>3. LoopAgrees
    BY DEF Init, LoopAgrees
  <1> QED BY <1>1, <1>2, <1>3 DEF Inv

LEMMA EnvironmentInv ==
  Inv /\ (WriteFrame \/ CloseInput \/ CloseOutput \/ ChangeWorld) => Inv'
  <1> SUFFICES ASSUME Inv, WriteFrame \/ CloseInput \/ CloseOutput \/ ChangeWorld PROVE Inv'
    OBVIOUS
  <1> USE ServerAssumption
  <1>1. CASE WriteFrame
    <2>1. PICK frame \in Frames(sent + 1) :
            input' = Append(input, frame) /\ asked' = asked \cup ({frame.id} \ {NoId})
      BY <1>1 DEF WriteFrame
    <2>2. sent' \in 0..MaxRequests /\ sent + 1 \in 1..MaxRequests
      BY <1>1 DEF WriteFrame, Inv, TypeOK
    <2>3. frame \in AllFrames
      BY <2>2 DEF AllFrames
    <2>4. asked' \subseteq 1..sent'
      <3>1. frame.id \in {sent + 1, NoId} /\ asked' = asked \cup ({frame.id} \ {NoId})
        BY <1>1, <2>1 DEF Frames, Frame, NoRequest
      <3>2. sent' = sent + 1 /\ sent \in Nat /\ asked \subseteq 1..sent
        BY <1>1 DEF WriteFrame, Inv, TypeOK
      <3>3. 1..sent \subseteq 1..(sent + 1) /\ sent + 1 \in 1..(sent + 1)
        BY <3>2
      <3>4. asked' \subseteq 1..(sent + 1)
        BY <3>1, <3>2, <3>3, Zenon
      <3> QED BY <3>2, <3>4
    <2> QED BY <1>1, <2>1, <2>2, <2>3, <2>4 DEF WriteFrame, fields, history, Inv, TypeOK, FieldsAgree, LoopAgrees
  <1>2. CASE CloseInput
    BY <1>2 DEF CloseInput, fields, history, Inv, TypeOK, FieldsAgree, LoopAgrees
  <1>3. CASE CloseOutput
    BY <1>3 DEF CloseOutput, fields, history, Inv, TypeOK, FieldsAgree, LoopAgrees
  <1>4. CASE ChangeWorld
    BY <1>4 DEF ChangeWorld, pipes, fields, history, Inv, TypeOK, FieldsAgree, LoopAgrees
  <1> QED BY <1>1, <1>2, <1>3, <1>4

LEMMA ResponseKinds ==
  ASSUME NEW r \in AllFrames \cup {NoRequest}, NEW kind \in {"ok", "error"},
         NEW seen \in Results \cup {Nothing}
  PROVE  /\ [id |-> r.id, kind |-> kind, seen |-> seen] \in Responses
         /\ [id |-> r.id, kind |-> kind, seen |-> seen] # Nothing
  BY FrameKinds, ServerAssumption DEF Responses

(* Handling of a request, by method. *)
LEMMA HandleInv ==
  ASSUME Inv, pc = "read", NEW r \in AllFrames, HandleRequest(r),
         UNCHANGED <<inputEnd, broken, sent, asked, output, exit, world>>,
         input' \in Seq(AllFrames)
  PROVE  Inv'
  <1> USE ServerAssumption DEF Inv
  <1>1. CASE Refuses(r)
    <2>1. response' \in Responses /\ response' # Nothing /\ response'.kind = "error"
            /\ response'.id = r.id
      BY <1>1, ResponseKinds DEF Refuses, Responds
    <2> QED BY <1>1, <2>1 DEF Refuses, Responds, fields, history, TypeOK, FieldsAgree, LoopAgrees
  <1>2. CASE r.method = "initialize" /\ HandleInitialize(r) /\ r.params # "bad"
    <2>1. r.params \in Configs /\ r.params # Nothing
      BY <1>2, FrameKinds
    <2> QED BY <1>2, <2>1 DEF HandleInitialize, Analyzes, fields, history, TypeOK, FieldsAgree, LoopAgrees
  <1>3. CASE r.method = "reanalyze" /\ HandleReanalyze(r) /\ ~Refuses(r)
    BY <1>3 DEF HandleReanalyze, Analyzes, fields, history, TypeOK, FieldsAgree, LoopAgrees
  <1>4. CASE r.method = "diagnostics/file" /\ HandleFileDiagnostics(r) /\ ~Refuses(r)
    <2>1. Responds(r, "ok", diagnostics) /\ analysisValid /\ UNCHANGED <<fields, history>>
      BY <1>4 DEF HandleFileDiagnostics
    <2>2. response' \in Responses /\ response' # Nothing /\ response'.id = r.id
      BY <2>1, ResponseKinds DEF Responds, TypeOK
    <2> QED BY <1>4, <2>1, <2>2 DEF Responds, fields, history, TypeOK, FieldsAgree, LoopAgrees
  <1>5. CASE r.method = "shutdown" /\ Responds(r, "ok", Nothing) /\ UNCHANGED <<fields, history>>
    <2>1. response' \in Responses /\ response' # Nothing /\ response'.id = r.id
      BY <1>5, ResponseKinds DEF Responds
    <2> QED BY <1>5, <2>1 DEF Responds, fields, history, TypeOK, FieldsAgree, LoopAgrees
  <1> QED BY <1>1, <1>2, <1>3, <1>4, <1>5 DEF HandleRequest, HandleInitialize

LEMMA ServeInv == Inv /\ Serve => Inv'
  <1> SUFFICES ASSUME Inv, Serve PROVE Inv'
    OBVIOUS
  <1> USE ServerAssumption DEF Inv
  <1>1. CASE ReadRequest
    <2>1. Head(input) \in AllFrames /\ Tail(input) \in Seq(AllFrames)
      BY <1>1 DEF ReadRequest, TypeOK
    <2> QED BY <1>1, <2>1, HandleInv DEF ReadRequest
  <1>2. CASE ReadFails
    BY <1>2 DEF ReadFails, Ends, pipes, fields, history, TypeOK, FieldsAgree, LoopAgrees
  <1>3. CASE ReadEnds
    BY <1>3 DEF ReadEnds, Ends, pipes, fields, history, TypeOK, FieldsAgree, LoopAgrees
  <1>4. CASE AnalyzeSucceeds
    <2>1. diagnostics' \in Results /\ diagnostics' # Nothing /\ diagnostics'.options = options
      BY <1>4 DEF AnalyzeSucceeds, Results, TypeOK, FieldsAgree, LoopAgrees
    <2>2. response' \in Responses /\ response' # Nothing /\ response'.id = request.id
      BY <1>4, <2>1, ResponseKinds DEF AnalyzeSucceeds, Responds, TypeOK
    <2> QED BY <1>4, <2>1, <2>2 DEF AnalyzeSucceeds, Responds, pipes, TypeOK, FieldsAgree, LoopAgrees
  <1>5. CASE AnalyzeFails
    <2>1. response' \in Responses /\ response' # Nothing /\ response'.id = request.id
      BY <1>5, ResponseKinds DEF AnalyzeFails, Responds, TypeOK
    <2>2. diagnostics' = Nothing /\ analysisValid' = FALSE
      <3>1. CASE request.method = "reanalyze"
        BY <1>5, <3>1 DEF AnalyzeFails, InvalidateAnalysis
      <3>2. CASE request.method = "initialize"
        <4>1. diagnostics = Nothing /\ analysisValid = FALSE
          BY <1>5, <3>2 DEF AnalyzeFails, TypeOK, FieldsAgree, LoopAgrees
        <4> QED BY <1>5, <3>2, <4>1 DEF AnalyzeFails
      <3> QED BY <1>5, <3>1, <3>2 DEF AnalyzeFails, LoopAgrees
    <2> QED BY <1>5, <2>1, <2>2 DEF AnalyzeFails, Responds, pipes, TypeOK, FieldsAgree, LoopAgrees
  <1>6. CASE WriteResponse
    BY <1>6 DEF WriteResponse, NextRequest, Ends, pipes, fields, history, TypeOK, FieldsAgree, LoopAgrees
  <1>7. CASE WriteFails
    BY <1>7 DEF WriteFails, Ends, pipes, fields, history, TypeOK, FieldsAgree, LoopAgrees
  <1> QED BY <1>1, <1>2, <1>3, <1>4, <1>5, <1>6, <1>7 DEF Serve

LEMMA Invariance == Spec => []Inv
  <1>1. Inv /\ UNCHANGED vars => Inv'
    BY DEF vars, pipes, fields, history, Inv, TypeOK, FieldsAgree, LoopAgrees
  <1>2. Inv /\ [Next]_vars => Inv'
    BY <1>1, EnvironmentInv, ServeInv DEF Next
  <1> QED BY InitInv, <1>2, PTL DEF Spec

-----------------------------------------------------------------------------
(* Every variable has a value of its kind, whatever is written to the      *)
(* server and however its analyses fail.                                   *)
THEOREM ServerTypeCorrect == Spec => []TypeOK
  <1>1. Inv => TypeOK
    BY DEF Inv
  <1> QED BY <1>1, Invariance, PTL

(* A file is answered from the newest analysis, made with the params of    *)
(* the newest initialize, and never after it has failed                    *)
(* (server.go:210-247, 264-269).                                           *)
THEOREM FilesAreNewest == Spec => []FileAnswersAreNewest
  <1>1. Inv => FileAnswersAreNewest
    BY DEF Inv, FieldsAgree, LoopAgrees, FileAnswersAreNewest
  <1> QED BY <1>1, Invariance, PTL

-----------------------------------------------------------------------------
(* Refinement.  Sequences of requests: *)
LEMMA Prefixed ==
  ASSUME NEW S, NEW e \in S, NEW s \in Seq(S)
  PROVE  /\ <<e>> \o s \in Seq(S) /\ <<e>> \o s # <<>>
         /\ Head(<<e>> \o s) = e /\ Tail(<<e>> \o s) = s
         /\ s # <<>> => <<Head(s)>> \o Tail(s) = s
         /\ \A x \in S : Append(<<e>> \o s, x) = <<e>> \o Append(s, x)
  OBVIOUS

LEMMA InitRefines == Init => Contract!Init
  BY DEF Init, Contract!Init, Unhandled, Answered

LEMMA EnvironmentRefines ==
  ASSUME Inv, WriteFrame \/ CloseInput \/ CloseOutput \/ ChangeWorld
  PROVE  [Contract!Next]_Contract!vars
  <1>1. CASE WriteFrame
    <2>1. PICK frame \in Frames(sent + 1) : input' = Append(input, frame)
      BY <1>1 DEF WriteFrame
    <2>2. frame \in AllFrames
      BY <1>1, ServerAssumption DEF WriteFrame, Inv, TypeOK, AllFrames
    <2>3. Unhandled' = Append(Unhandled, frame)
      <3>1. CASE pc = "analyze"
        <4>1. request \in AllFrames \cup {NoRequest} /\ input \in Seq(AllFrames \cup {NoRequest})
          BY DEF Inv, TypeOK
        <4> QED BY <1>1, <2>1, <2>2, <3>1, <4>1, Prefixed DEF WriteFrame, Unhandled
      <3> QED BY <1>1, <2>1, <3>1 DEF WriteFrame, Unhandled
    <2>4. Contract!Ask
      BY <1>1, <2>2, <2>3 DEF Contract!Ask, WriteFrame, fields, history, Answered
    <2> QED BY <2>4 DEF Contract!Next
  <1>2. CASE CloseInput
    BY <1>2 DEF CloseInput, fields, Contract!vars, Unhandled, Answered
  <1>3. CASE CloseOutput
    BY <1>3 DEF CloseOutput, fields, Contract!vars, Unhandled, Answered
  <1>4. CASE ChangeWorld
    <2>1. Contract!Change
      BY <1>4 DEF ChangeWorld, pipes, fields, Contract!Change, Unhandled, Answered
    <2> QED BY <2>1 DEF Contract!Next
  <1> QED BY <1>1, <1>2, <1>3, <1>4

(* A response that is ready is in the answers at once. *)
LEMMA RespondingAnswers ==
  ASSUME NEW r, NEW kind, NEW seen, response = Nothing, Responds(r, kind, seen),
         [id |-> r.id, kind |-> kind, seen |-> seen] # Nothing, UNCHANGED output
  PROVE  Answered' = IF r.id = NoId THEN Answered
                     ELSE Append(Answered, [id |-> r.id, kind |-> kind, seen |-> seen])
  BY DEF Responds, Answered

LEMMA ReadRefines ==
  ASSUME Inv, ReadRequest
  PROVE  [Contract!Serves]_Contract!vars
  <1> DEFINE r == Head(input)
  <1>1. /\ r \in AllFrames /\ Tail(input) \in Seq(AllFrames) /\ input # <<>>
        /\ input = <<r>> \o Tail(input)
    BY Prefixed DEF ReadRequest, Inv, TypeOK
  <1>2. pc = "read" /\ response = Nothing /\ Unhandled = input
          /\ UNCHANGED <<output, world>> /\ input' = Tail(input)
    BY DEF ReadRequest, Inv, LoopAgrees, Unhandled
  <1>3. ASSUME Refuses(r) PROVE Contract!Refuse
    <2>1. Unhandled' = Tail(Unhandled) /\ pc' # "ended" /\ UNCHANGED <<options, diagnostics>>
      BY <1>2, <1>3 DEF Refuses, Responds, fields, Unhandled
    <2>2. Contract!Answers("error", Nothing)
      BY <1>1, <1>2, <1>3, RespondingAnswers, ResponseKinds DEF Refuses, Contract!Answers
    <2> QED BY <1>1, <1>2, <2>1, <2>2 DEF Contract!Refuse, Contract!Handles
  <1>4. CASE r.method = "initialize" /\ HandleInitialize(r) /\ r.params # "bad"
    <2>1. Contract!Begin
      BY <1>1, <1>2, <1>4 DEF HandleInitialize, Analyzes, Contract!Begin, Unhandled, Answered
    <2> QED BY <2>1 DEF Contract!Serves
  <1>5. CASE r.method = "reanalyze" /\ HandleReanalyze(r) /\ ~Refuses(r)
    BY <1>1, <1>2, <1>5 DEF HandleReanalyze, Analyzes, fields, Contract!vars, Unhandled, Answered
  <1>6. CASE r.method = "diagnostics/file" /\ HandleFileDiagnostics(r) /\ ~Refuses(r)
    <2>1. Responds(r, "ok", diagnostics) /\ analysisValid /\ UNCHANGED <<fields, history>>
      BY <1>6 DEF HandleFileDiagnostics
    <2>2. diagnostics \in Results /\ diagnostics # Nothing
      BY <2>1 DEF Inv, TypeOK, FieldsAgree
    <2>3. Unhandled' = Tail(Unhandled) /\ pc' # "ended"
      BY <1>2, <2>1 DEF Responds, Unhandled
    <2>4. Contract!Answers("ok", diagnostics)
      BY <1>1, <1>2, <2>1, <2>2, RespondingAnswers, ResponseKinds DEF Contract!Answers
    <2>5. Contract!ShowFile
      BY <1>1, <1>2, <1>6, <2>1, <2>2, <2>3, <2>4 DEF Contract!ShowFile, Contract!Handles, fields
    <2> QED BY <2>5 DEF Contract!Serves
  <1>7. CASE r.method = "shutdown" /\ Responds(r, "ok", Nothing) /\ UNCHANGED <<fields, history>>
    <2>1. Unhandled' = Tail(Unhandled) /\ pc' # "ended"
      BY <1>2, <1>7 DEF Responds, Unhandled
    <2>2. Contract!Answers("ok", Nothing)
      BY <1>1, <1>2, <1>7, RespondingAnswers, ResponseKinds DEF Contract!Answers
    <2>3. Contract!Acknowledge
      BY <1>1, <1>2, <1>7, <2>1, <2>2 DEF Contract!Acknowledge, Contract!Handles, fields
    <2> QED BY <2>3 DEF Contract!Serves
  <1>8. HandleRequest(r)
    BY DEF ReadRequest
  <1> QED BY <1>3, <1>4, <1>5, <1>6, <1>7, <1>8 DEF HandleRequest, HandleInitialize, Contract!Serves

LEMMA ServeRefines ==
  ASSUME Inv, Serve
  PROVE  [Contract!Serves]_Contract!vars
  <1>1. CASE ReadRequest
    BY <1>1, ReadRefines
  <1>2. CASE ReadFails \/ ReadEnds \/ WriteFails
    <2>1. Contract!End
      BY <1>2 DEF ReadFails, ReadEnds, WriteFails, Ends, pipes, fields, Contract!End, Unhandled, Answered
    <2> QED BY <2>1 DEF Contract!Serves
  <1>3. ASSUME AnalyzeSucceeds \/ AnalyzeFails
        PROVE  /\ Unhandled # <<>> /\ Head(Unhandled) = request /\ Unhandled' = Tail(Unhandled)
               /\ response = Nothing /\ pc # "ended" /\ pc' # "ended"
               /\ request \in AllFrames \cup {NoRequest}
    <2>1. request \in AllFrames \cup {NoRequest} /\ input \in Seq(AllFrames \cup {NoRequest})
      BY DEF Inv, TypeOK
    <2>2. pc = "analyze" /\ pc' = "respond" /\ input' = input
      BY <1>3 DEF AnalyzeSucceeds, AnalyzeFails, Responds, pipes
    <2> QED BY <2>1, <2>2, Prefixed DEF Unhandled, Inv, LoopAgrees
  <1>4. CASE AnalyzeSucceeds
    <2>1. /\ diagnostics' = [options |-> options, world |-> world]
          /\ diagnostics' \in Results
          /\ request.method \in {"initialize", "reanalyze"}
          /\ request.method = "initialize" => request.params = options
      BY <1>4, ServerAssumption DEF AnalyzeSucceeds, Results, Inv, TypeOK, FieldsAgree, LoopAgrees
    <2>2. Contract!Answers("ok", diagnostics')
      BY <1>3, <1>4, <2>1, RespondingAnswers, ResponseKinds DEF AnalyzeSucceeds, Contract!Answers
    <2>3. Contract!Analyze
      BY <1>3, <1>4, <2>1, <2>2 DEF AnalyzeSucceeds, Contract!Analyze, Contract!Analyses, Contract!Handles
    <2> QED BY <2>3 DEF Contract!Serves
  <1>5. CASE AnalyzeFails
    <2>1. diagnostics' \in {diagnostics, Nothing}
      BY <1>5 DEF AnalyzeFails, InvalidateAnalysis
    <2>2. Contract!Answers("error", Nothing)
      BY <1>3, <1>5, RespondingAnswers, ResponseKinds DEF AnalyzeFails, Contract!Answers
    <2>3. Contract!Refuse
      BY <1>3, <1>5, <2>1, <2>2 DEF AnalyzeFails, Contract!Refuse, Contract!Handles
    <2> QED BY <2>3 DEF Contract!Serves
  <1>6. CASE WriteResponse
    <2>1. Answered' = Answered /\ Unhandled' = Unhandled /\ UNCHANGED <<options, diagnostics, world>>
      BY <1>6 DEF WriteResponse, NextRequest, Ends, pipes, fields, Answered, Unhandled, Inv, TypeOK
    <2>2. CASE pc' = "ended"
      BY <2>1, <2>2 DEF Contract!End, Contract!Serves
    <2>3. CASE pc' # "ended"
      BY <1>6, <2>1, <2>3 DEF WriteResponse, Contract!vars
    <2> QED BY <2>2, <2>3
  <1> QED BY <1>1, <1>2, <1>4, <1>5, <1>6 DEF Serve

(* The server implements what a client relies on: answers in order, an     *)
(* analysis that shows the workspace while it ran, and files that show the *)
(* newest analysis (server.go:97-271).                                     *)
THEOREM ServerImplementsContract == Spec => ImplementsContract
  <1>1. Inv /\ [Next]_vars => [Contract!Next]_Contract!vars
    <2>1. ASSUME UNCHANGED vars PROVE UNCHANGED Contract!vars
      BY <2>1 DEF vars, pipes, fields, Contract!vars, Unhandled, Answered
    <2> QED BY <2>1, EnvironmentRefines, ServeRefines DEF Next, Contract!Next
  <1> QED BY <1>1, InitRefines, Invariance, PTL DEF Spec, ImplementsContract, Contract!Spec

-----------------------------------------------------------------------------
(* The order of the responses.  An id is the number of the frame that      *)
(* brought it, so what is answered and what is not handled yet together    *)
(* have increasing ids, none beyond the frames sent.                       *)
Increasing(frames) ==
  \A i, j \in DOMAIN frames :
    i < j /\ frames[i].id # NoId /\ frames[j].id # NoId => frames[i].id < frames[j].id

InOrder(answers, requests, n) ==
  /\ answers \in Seq(Responses) /\ requests \in Seq(AllFrames \cup {NoRequest})
  /\ \A i \in DOMAIN answers : answers[i].id \in 1..n
  /\ \A i \in DOMAIN requests : requests[i].id # NoId => requests[i].id \in 1..n
  /\ Increasing(answers) /\ Increasing(requests)
  /\ \A i \in DOMAIN answers, j \in DOMAIN requests :
       requests[j].id # NoId => answers[i].id < requests[j].id

LineInv == InOrder(Answered, Unhandled, sent) /\ asked = Ids(Answered) \cup Ids(Unhandled)

LEMMA IdsOf ==
  ASSUME NEW S, NEW s \in Seq(S), NEW T, NEW t \in Seq(T), NEW e \in S
  PROVE  /\ Ids(Append(s, e)) = Ids(s) \cup ({e.id} \ {NoId})
         /\ s # <<>> => Ids(s) = Ids(Tail(s)) \cup ({Head(s).id} \ {NoId})
         /\ Ids(s \o t) = Ids(s) \cup Ids(t)
  <1>1. Ids(Append(s, e)) = Ids(s) \cup ({e.id} \ {NoId})
    <2>1. /\ DOMAIN Append(s, e) = DOMAIN s \cup {Len(s) + 1}
          /\ Append(s, e)[Len(s) + 1] = e /\ \A i \in DOMAIN s : Append(s, e)[i] = s[i]
      OBVIOUS
    <2> QED BY <2>1 DEF Ids
  <1>2. ASSUME s # <<>> PROVE Ids(s) = Ids(Tail(s)) \cup ({Head(s).id} \ {NoId})
    <2>1. /\ 1 \in DOMAIN s /\ Head(s) = s[1]
          /\ \A i \in DOMAIN Tail(s) : i + 1 \in DOMAIN s /\ Tail(s)[i] = s[i + 1]
          /\ \A i \in DOMAIN s : i = 1 \/ (i - 1 \in DOMAIN Tail(s) /\ Tail(s)[i - 1] = s[i])
      BY <1>2
    <2> QED BY <2>1 DEF Ids
  <1>3. Ids(s \o t) = Ids(s) \cup Ids(t)
    <2>1. /\ \A i \in DOMAIN s : i \in DOMAIN (s \o t) /\ (s \o t)[i] = s[i]
          /\ \A i \in DOMAIN t : Len(s) + i \in DOMAIN (s \o t) /\ (s \o t)[Len(s) + i] = t[i]
          /\ \A i \in DOMAIN (s \o t) :
               \/ i \in DOMAIN s /\ (s \o t)[i] = s[i]
               \/ i - Len(s) \in DOMAIN t /\ (s \o t)[i] = t[i - Len(s)]
      OBVIOUS
    <2> DEFINE all == s \o t
    <2> HIDE DEF all
    <2>2. Ids(s) \subseteq Ids(all)
      BY <2>1 DEF Ids, all
    <2>3. Ids(t) \subseteq Ids(all)
      <3>1. ASSUME NEW i \in DOMAIN t PROVE t[i].id \in {all[j].id : j \in DOMAIN all}
        <4>1. Len(s) + i \in DOMAIN all /\ all[Len(s) + i] = t[i]
          BY <2>1 DEF all
        <4> QED BY <4>1
      <3> QED BY <3>1 DEF Ids
    <2>4. Ids(all) \subseteq Ids(s) \cup Ids(t)
      BY <2>1 DEF Ids, all
    <2> QED BY <2>2, <2>3, <2>4 DEF all
  <1> QED BY <1>1, <1>2, <1>3

(* A new frame has the next id or none. *)
LEMMA AskKeepsOrder ==
  ASSUME NEW answers, NEW requests, NEW n \in Nat, InOrder(answers, requests, n),
         NEW frame \in AllFrames, frame.id \in {n + 1, NoId}
  PROVE  InOrder(answers, Append(requests, frame), n + 1)
  <1> USE ServerAssumption
  <1> DEFINE more == Append(requests, frame)
  <1>1. /\ more \in Seq(AllFrames \cup {NoRequest})
        /\ DOMAIN more = 1..Len(requests) + 1
        /\ \A i \in DOMAIN requests : i \in 1..Len(requests) /\ more[i] = requests[i]
        /\ more[Len(requests) + 1] = frame
        /\ \A i \in DOMAIN more : i \in DOMAIN requests \/ i = Len(requests) + 1
        /\ Len(requests) \in Nat
    BY DEF InOrder
  <1> HIDE DEF more
  <1>2. \A i \in DOMAIN answers : answers[i].id \in 1..n + 1
    BY DEF InOrder
  <1>3. \A i \in DOMAIN more : more[i].id # NoId => more[i].id \in 1..n + 1
    BY <1>1 DEF InOrder
  <1>4. Increasing(more)
    <2> SUFFICES ASSUME NEW i \in DOMAIN more, NEW j \in DOMAIN more, i < j,
                        more[i].id # NoId, more[j].id # NoId
                 PROVE  more[i].id < more[j].id
      BY DEF Increasing
    <2>1. i \in DOMAIN requests
      BY <1>1
    <2>2. CASE j \in DOMAIN requests
      BY <1>1, <2>1, <2>2 DEF InOrder, Increasing
    <2>3. CASE j = Len(requests) + 1
      BY <1>1, <2>1, <2>3 DEF InOrder
    <2> QED BY <1>1, <2>2, <2>3
  <1>5. \A i \in DOMAIN answers, j \in DOMAIN more : more[j].id # NoId => answers[i].id < more[j].id
    <2> SUFFICES ASSUME NEW i \in DOMAIN answers, NEW j \in DOMAIN more, more[j].id # NoId
                 PROVE  answers[i].id < more[j].id
      OBVIOUS
    <2>1. CASE j \in DOMAIN requests
      BY <1>1, <2>1 DEF InOrder
    <2>2. CASE j = Len(requests) + 1
      BY <1>1, <2>2 DEF InOrder
    <2> QED BY <1>1, <2>1, <2>2
  <1>6. InOrder(answers, more, n + 1)
    BY <1>1, <1>2, <1>3, <1>4, <1>5 DEF InOrder
  <1> QED BY <1>6 DEF more

(* A request leaves the line at its head. *)
LEMMA DropKeepsOrder ==
  ASSUME NEW answers, NEW requests, NEW n \in Nat, InOrder(answers, requests, n),
         requests # <<>>
  PROVE  InOrder(answers, Tail(requests), n)
  <1> DEFINE rest == Tail(requests)
  <1>1. /\ rest \in Seq(AllFrames \cup {NoRequest})
        /\ \A i \in DOMAIN rest : i \in Nat /\ i + 1 \in DOMAIN requests /\ rest[i] = requests[i + 1]
    BY DEF InOrder
  <1> HIDE DEF rest
  <1>2. Increasing(rest)
    <2> SUFFICES ASSUME NEW i \in DOMAIN rest, NEW j \in DOMAIN rest, i < j,
                        rest[i].id # NoId, rest[j].id # NoId
                 PROVE  rest[i].id < rest[j].id
      BY DEF Increasing
    <2>1. /\ i + 1 \in DOMAIN requests /\ rest[i] = requests[i + 1]
          /\ j + 1 \in DOMAIN requests /\ rest[j] = requests[j + 1]
          /\ i + 1 < j + 1
      BY <1>1
    <2> QED BY <2>1 DEF InOrder, Increasing
  <1>3. InOrder(answers, rest, n)
    BY <1>1, <1>2 DEF InOrder
  <1> QED BY <1>3 DEF rest

(* Its answer goes behind those before it. *)
LEMMA AnswerKeepsOrder ==
  ASSUME NEW answers, NEW requests, NEW n \in Nat, InOrder(answers, requests, n),
         requests # <<>>, NEW answer \in Responses,
         answer.id = Head(requests).id, answer.id # NoId
  PROVE  InOrder(Append(answers, answer), Tail(requests), n)
  <1> DEFINE more == Append(answers, answer)
             rest == Tail(requests)
  <1>1. InOrder(answers, rest, n)
    BY DropKeepsOrder
  <1>2. /\ 1 \in DOMAIN requests /\ requests[1] = Head(requests)
        /\ \A i \in DOMAIN rest : i \in 1..Len(rest) /\ i + 1 \in DOMAIN requests /\ rest[i] = requests[i + 1]
    BY DEF InOrder
  <1>3. /\ more \in Seq(Responses)
        /\ \A i \in DOMAIN answers : i \in 1..Len(answers) /\ more[i] = answers[i]
        /\ more[Len(answers) + 1] = answer
        /\ \A i \in DOMAIN more : i \in 1..Len(answers) + 1
                                /\ (i \in DOMAIN answers \/ i = Len(answers) + 1)
        /\ Len(answers) \in Nat
    BY DEF InOrder
  <1> HIDE DEF more, rest
  <1>4. answer.id \in 1..n /\ \A i \in DOMAIN answers : answers[i].id < answer.id
    BY <1>2 DEF InOrder
  <1>5. \A j \in DOMAIN rest : rest[j].id # NoId => answer.id < rest[j].id
    <2> SUFFICES ASSUME NEW j \in DOMAIN rest, rest[j].id # NoId
                 PROVE  answer.id < rest[j].id
      OBVIOUS
    <2>1. j \in Nat /\ 1 < j + 1 /\ j + 1 \in DOMAIN requests
      BY <1>2
    <2> QED BY <1>2, <2>1 DEF InOrder, Increasing
  <1>6. \A i \in DOMAIN more : more[i].id \in 1..n
    BY <1>3, <1>4 DEF InOrder
  <1>7. Increasing(more)
    <2> SUFFICES ASSUME NEW i \in DOMAIN more, NEW j \in DOMAIN more, i < j,
                        more[i].id # NoId, more[j].id # NoId
                 PROVE  more[i].id < more[j].id
      BY DEF Increasing
    <2>1. i \in DOMAIN answers
      BY <1>3
    <2>2. CASE j \in DOMAIN answers
      BY <1>3, <2>1, <2>2 DEF InOrder, Increasing
    <2>3. CASE j = Len(answers) + 1
      BY <1>3, <1>4, <2>1, <2>3
    <2> QED BY <1>3, <2>2, <2>3
  <1>8. \A i \in DOMAIN more, j \in DOMAIN rest : rest[j].id # NoId => more[i].id < rest[j].id
    BY <1>1, <1>3, <1>5 DEF InOrder
  <1>9. InOrder(more, rest, n)
    BY <1>1, <1>3, <1>6, <1>7, <1>8 DEF InOrder
  <1> QED BY <1>9 DEF more, rest

LEMMA LineInvariance == Spec => []LineInv
  <1> USE ServerAssumption
  <1>1. Init => LineInv
    BY DEF Init, LineInv, InOrder, Increasing, Answered, Unhandled, Ids
  <1>2. ASSUME LineInv, UNCHANGED <<Answered, Unhandled, sent, asked>> PROVE LineInv'
    BY <1>2 DEF LineInv
  <1>3. ASSUME Inv, LineInv, WriteFrame PROVE LineInv'
    <2>1. PICK frame \in Frames(sent + 1) :
            input' = Append(input, frame) /\ asked' = asked \cup ({frame.id} \ {NoId})
      BY <1>3 DEF WriteFrame
    <2>2. sent \in Nat /\ frame \in AllFrames /\ frame.id \in {sent + 1, NoId}
      BY <1>3 DEF WriteFrame, Inv, TypeOK, AllFrames, Frames, Frame, NoRequest
    <2>3. Unhandled' = Append(Unhandled, frame)
      <3>1. CASE pc = "analyze"
        <4>1. request \in AllFrames \cup {NoRequest} /\ input \in Seq(AllFrames \cup {NoRequest})
          BY <1>3 DEF Inv, TypeOK
        <4> QED BY <1>3, <2>1, <2>2, <3>1, <4>1, Prefixed DEF WriteFrame, Unhandled
      <3> QED BY <1>3, <2>1, <3>1 DEF WriteFrame, Unhandled
    <2>4. Answered' = Answered /\ sent' = sent + 1
      BY <1>3 DEF WriteFrame, Answered
    <2>5. Ids(Unhandled') = Ids(Unhandled) \cup ({frame.id} \ {NoId})
      BY <1>3, <2>2, <2>3, IdsOf DEF LineInv, InOrder
    <2>6. asked' = Ids(Answered') \cup Ids(Unhandled')
      BY <1>3, <2>1, <2>4, <2>5 DEF LineInv
    <2>7. InOrder(Answered, Append(Unhandled, frame), sent + 1)
      BY <1>3, <2>2, AskKeepsOrder DEF LineInv
    <2> QED BY <2>3, <2>4, <2>6, <2>7 DEF LineInv
  <1>4. ASSUME CloseInput \/ CloseOutput \/ ChangeWorld PROVE UNCHANGED <<Answered, Unhandled, sent, asked>>
    BY <1>4 DEF CloseInput, CloseOutput, ChangeWorld, pipes, Answered, Unhandled
  <1>5. ASSUME Inv, LineInv, Serve PROVE LineInv'
    <2>1. sent' = sent /\ asked' = asked /\ sent \in Nat
      BY <1>5 DEF Serve, ReadRequest, ReadFails, ReadEnds, AnalyzeSucceeds, AnalyzeFails,
                  WriteResponse, WriteFails, pipes, Inv, TypeOK
    <2>2. [Contract!Serves]_Contract!vars
      BY <1>5, ServeRefines
    <2>3. CASE UNCHANGED <<Answered, Unhandled>>
      BY <1>2, <1>5, <2>1, <2>3
    <2>4. ASSUME NEW kind \in {"ok", "error"}, NEW seen \in Results \cup {Nothing},
                 Contract!Handles, Contract!Answers(kind, seen)
          PROVE  LineInv'
      <3> DEFINE answer == [id |-> Head(Unhandled).id, kind |-> kind, seen |-> seen]
      <3>1. Unhandled # <<>> /\ Unhandled' = Tail(Unhandled)
        BY <2>4 DEF Contract!Handles
      <3>2. Head(Unhandled) \in AllFrames \cup {NoRequest}
        BY <1>5, <3>1 DEF LineInv, InOrder
      <3>3. answer \in Responses /\ answer.id = Head(Unhandled).id
        BY <3>2, ResponseKinds
      <3>4. Ids(Unhandled) = Ids(Unhandled') \cup ({Head(Unhandled).id} \ {NoId})
        BY <1>5, <3>1, IdsOf DEF LineInv, InOrder
      <3>5. CASE Head(Unhandled).id = NoId
        <4>1. Answered' = Answered
          BY <2>4, <3>5 DEF Contract!Answers
        <4>2. InOrder(Answered, Tail(Unhandled), sent)
          BY <1>5, <2>1, <3>1, DropKeepsOrder DEF LineInv
        <4> QED BY <1>5, <2>1, <3>1, <3>4, <3>5, <4>1, <4>2 DEF LineInv
      <3>6. CASE Head(Unhandled).id # NoId
        <4>1. Answered' = Append(Answered, answer)
          BY <2>4, <3>6 DEF Contract!Answers
        <4> HIDE DEF answer
        <4>2. InOrder(Append(Answered, answer), Tail(Unhandled), sent)
          BY <1>5, <2>1, <3>1, <3>3, <3>6, AnswerKeepsOrder DEF LineInv
        <4>3. Ids(Answered') = Ids(Answered) \cup ({answer.id} \ {NoId})
          BY <1>5, <3>3, <4>1, IdsOf DEF LineInv, InOrder
        <4> QED BY <1>5, <2>1, <3>1, <3>3, <3>4, <4>1, <4>2, <4>3 DEF LineInv
      <3> QED BY <3>5, <3>6
    <2>5. diagnostics \in Results \cup {Nothing} /\ diagnostics' \in Results \cup {Nothing}
      BY <1>5, ServeInv DEF Inv, TypeOK
    <2>6. CASE Contract!Analyze
      BY <2>4, <2>5, <2>6 DEF Contract!Analyze
    <2>7. CASE Contract!ShowFile
      BY <2>4, <2>5, <2>7 DEF Contract!ShowFile
    <2>8. CASE Contract!Acknowledge
      BY <2>4, <2>8 DEF Contract!Acknowledge
    <2>9. CASE Contract!Refuse
      BY <2>4, <2>9 DEF Contract!Refuse
    <2>10. CASE Contract!Begin \/ Contract!End \/ UNCHANGED Contract!vars
      BY <2>3, <2>10 DEF Contract!Begin, Contract!End, Contract!vars
    <2> QED BY <2>2, <2>6, <2>7, <2>8, <2>9, <2>10 DEF Contract!Serves
  <1>6. ASSUME UNCHANGED vars PROVE UNCHANGED <<Answered, Unhandled, sent, asked>>
    BY <1>6 DEF vars, pipes, Answered, Unhandled
  <1>7. Inv /\ LineInv /\ [Next]_vars => LineInv'
    BY <1>2, <1>3, <1>4, <1>5, <1>6 DEF Next
  <1> QED BY <1>1, <1>7, Invariance, PTL DEF Spec

(* A request with an id has one response or is still to be handled, one    *)
(* without has none, in the order of the requests, however analyses fail   *)
(* (server.go:101-122).                                                    *)
THEOREM ResponsesAreInOrder == Spec => []OneResponseInOrder
  <1>1. ASSUME LineInv PROVE OneResponseInOrder
    <2> DEFINE line == Answered \o Unhandled
    <2> USE ServerAssumption
    <2>1. Answered \in Seq(Responses) /\ Unhandled \in Seq(AllFrames \cup {NoRequest})
      BY <1>1 DEF LineInv, InOrder
    <2>2. \A i \in DOMAIN line :
             /\ i \in Nat
             /\ \/ i \in DOMAIN Answered /\ i \in 1..Len(Answered) /\ line[i] = Answered[i]
                \/ /\ i > Len(Answered) /\ i - Len(Answered) \in DOMAIN Unhandled
                   /\ line[i] = Unhandled[i - Len(Answered)]
      BY <2>1
    <2>3. \A i \in DOMAIN Answered : Answered[i].id # NoId
      BY <1>1 DEF LineInv, InOrder
    <2>4. ASSUME NEW i \in DOMAIN line, NEW j \in DOMAIN line, i < j,
                 line[i].id # NoId, line[j].id # NoId
          PROVE  line[i].id < line[j].id
      <3> HIDE DEF line
      <3>0. Len(Answered) \in Nat
        BY <2>1
      <3>1. CASE i \in DOMAIN Answered /\ line[i] = Answered[i]
                 /\ j \in DOMAIN Answered /\ line[j] = Answered[j]
        BY <1>1, <2>4, <3>1 DEF LineInv, InOrder, Increasing
      <3>2. CASE i \in DOMAIN Answered /\ line[i] = Answered[i]
                 /\ j - Len(Answered) \in DOMAIN Unhandled
                 /\ line[j] = Unhandled[j - Len(Answered)]
        BY <1>1, <2>4, <3>2 DEF LineInv, InOrder
      <3>3. CASE /\ i - Len(Answered) \in DOMAIN Unhandled
                 /\ line[i] = Unhandled[i - Len(Answered)]
                 /\ j - Len(Answered) \in DOMAIN Unhandled
                 /\ line[j] = Unhandled[j - Len(Answered)]
        <4>1. i - Len(Answered) < j - Len(Answered)
          BY <2>2, <2>4, <3>0
        <4> QED BY <1>1, <2>4, <3>3, <4>1 DEF LineInv, InOrder, Increasing
      <3> QED BY <2>2, <2>4, <3>0, <3>1, <3>2, <3>3
    <2>5. asked = Ids(line)
      BY <1>1, <2>1, IdsOf DEF LineInv
    <2> QED BY <2>3, <2>4, <2>5 DEF OneResponseInOrder
  <1> QED BY <1>1, LineInvariance, PTL
=============================================================================
