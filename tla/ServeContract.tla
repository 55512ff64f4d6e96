---------------------------- MODULE ServeContract ----------------------------
(***************************************************************************)
(* What a client may rely on when it writes requests to a serve process:   *)
(* they are answered one at a time and in order, the answer to an analysis *)
(* request shows the workspace at one instant between the two, and the     *)
(* answer to a file request shows what the newest analysis showed, under   *)
(* the params of the newest initialize.  LintaiServer implements it; the   *)
(* part of it that the client uses is what LintaiClient assumes of its     *)
(* processes (ServeAnswers, ServeExits, ServeCrashes).                     *)
(***************************************************************************)
EXTENDS Sequences

CONSTANTS Requests, NoId, Nothing

VARIABLES
  requests,  \* written and not answered yet
  answers,   \* all the answers, in order
  params,    \* of the newest initialize
  latest,    \* what the newest analysis saw, or Nothing
  world,     \* the workspace with its rules
  serving    \* whether the process goes on

vars == <<requests, answers, params, latest, world, serving>>

Analyses == {"initialize", "reanalyze"}

Init ==
  /\ requests = <<>> /\ answers = <<>>
  /\ params = Nothing /\ latest = Nothing
  /\ serving = TRUE

Ask ==
  /\ \E request \in Requests : requests' = Append(requests, request)
  /\ UNCHANGED <<answers, params, latest, world, serving>>

Change == UNCHANGED <<requests, answers, params, latest, serving>>

(* A request without an id is handled like any other but not answered. *)
Answers(kind, seen) ==
  LET request == Head(requests)
  IN  answers' = IF request.id = NoId THEN answers
                 ELSE Append(answers, [id |-> request.id, kind |-> kind, seen |-> seen])

Handles ==
  /\ serving /\ requests # <<>>
  /\ requests' = Tail(requests)
  /\ UNCHANGED <<params, world, serving>>

Analyze ==
  /\ Handles
  /\ Head(requests).method \in Analyses
  /\ Head(requests).method = "initialize" => params = Head(requests).params
  /\ latest' = [options |-> params, world |-> world]
  /\ Answers("ok", latest')

ShowFile ==
  /\ Handles
  /\ Head(requests).method = "diagnostics/file"
  /\ latest # Nothing
  /\ Answers("ok", latest)
  /\ UNCHANGED latest

Acknowledge ==
  /\ Handles
  /\ Head(requests).method = "shutdown"
  /\ Answers("ok", Nothing)
  /\ UNCHANGED latest

Refuse ==
  /\ Handles
  /\ latest' \in {latest, Nothing}
  /\ Answers("error", Nothing)

(* While the analysis of an initialize runs there is nothing to show. *)
Begin ==
  /\ serving /\ requests # <<>>
  /\ Head(requests).method = "initialize"
  /\ params' = Head(requests).params
  /\ latest' = Nothing
  /\ UNCHANGED <<requests, answers, world, serving>>

End ==
  /\ serving' = FALSE
  /\ UNCHANGED <<requests, answers, params, latest, world>>

Serves == Analyze \/ ShowFile \/ Acknowledge \/ Refuse \/ Begin \/ End

Next == Ask \/ Change \/ Serves

Spec == Init /\ [][Next]_vars
=============================================================================
