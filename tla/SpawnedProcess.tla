--------------------------- MODULE SpawnedProcess ---------------------------
(***************************************************************************)
(* What a host sees of the processes it starts: the output of each arrives *)
(* in order, and complete before its exit is told.  Only when what carries *)
(* it breaks may the rest be lost, and then the host is told so.  The      *)
(* child processes of Node keep this; Spawner implements it for processes  *)
(* that share the pipes of one spawner process.                            *)
(***************************************************************************)
EXTENDS Naturals, Sequences

CONSTANT Processes

VARIABLES
  written,    \* how many chunks of output each process has written
  delivered,  \* the chunks that the host has received
  over,       \* the processes that have ended
  told,       \* what the host was told of the end: nothing, exit or lost
  broken      \* whether what carries the output is broken

vars == <<written, delivered, over, told, broken>>

Output(n) == [i \in 1..n |-> i]

Init ==
  /\ written = [p \in Processes |-> 0]
  /\ delivered = [p \in Processes |-> <<>>]
  /\ over = {}
  /\ told = [p \in Processes |-> "nothing"]
  /\ broken \in BOOLEAN

Write(p) ==
  /\ p \notin over
  /\ written' = [written EXCEPT ![p] = @ + 1]
  /\ UNCHANGED <<delivered, over, told, broken>>

End(p) ==
  /\ over' = over \cup {p}
  /\ UNCHANGED <<written, delivered, told, broken>>

Deliver(p, n) ==
  /\ told[p] = "nothing"
  /\ n \in Len(delivered[p])..written[p]
  /\ delivered' = [delivered EXCEPT ![p] = Output(n)]
  /\ UNCHANGED <<written, over, broken>>

DeliverSome(p) ==
  /\ \E n \in 0..written[p] : Deliver(p, n)
  /\ UNCHANGED told

TellExit(p) ==
  /\ p \in over
  /\ Deliver(p, written[p])
  /\ told' = [told EXCEPT ![p] = "exit"]

TellLost(p) ==
  /\ broken
  /\ \E n \in 0..written[p] : Deliver(p, n)
  /\ told' = [told EXCEPT ![p] = "lost"]

Break ==
  /\ broken' = TRUE
  /\ UNCHANGED <<written, delivered, over, told>>

Next ==
  \/ \E p \in Processes : Write(p) \/ End(p) \/ DeliverSome(p) \/ TellExit(p) \/ TellLost(p)
  \/ Break

Spec == Init /\ [][Next]_vars
=============================================================================
