------------------------------ MODULE Spawner ------------------------------
(***************************************************************************)
(* The spawner (packages/client/src/spawner.ts in the host process,        *)
(* spawner-child.ts in the spawner process): a linter that cannot fork     *)
(* starts its processes through a helper, which relays their output as     *)
(* frames over one pipe.  The host is one thread: a call that waits for    *)
(* output (spawnSync, readSync) keeps its events from running.             *)
(***************************************************************************)
EXTENDS Naturals, Sequences

CONSTANTS
  Channels,   \* the ids of processes started with spawn
  Runs,       \* the ids of processes run with spawnSync
  Nobody,     \* no id
  MaxChunks,  \* bound on the chunks of output of a process
  MaxCalls    \* bound on the calls of the host, spawns and runs aside

ASSUME SpawnerAssumption ==
  /\ Channels \cap Runs = {} /\ Nobody \notin Channels \cup Runs
  /\ MaxChunks \in Nat /\ MaxCalls \in Nat

VARIABLES
  host, waitsFor,           \* idle, in readSync, in spawnSync, dead; for which id
  failure,                  \* Spawner.failure is set
  channels,                 \* the keys of Spawner.channels
  pending, exit, exitEmitted, flushScheduled,  \* the fields of each Channel
  listening,                \* the stdout of a channel has a data listener
  results, outcome,         \* results that wait for spawnSync; what it returned
  calls,
  toSpawner, toHost, half,  \* the pipes; the decoder holds half of the next frame
  spawner,                  \* running, dead
  hostGone, stdinOver,      \* in the spawner: stopAll has run; stdin has ended
  process,                  \* unborn, running, exited, closed (all its output read)
  stopping,                 \* the processes whose stdin has ended or that were killed
  written, relayed,         \* chunks that a process has written, and the spawner read
  delivered                 \* history: the chunks that reached the caller

Ids == Channels \cup Runs

channelVars == <<channels, pending, exit, exitEmitted, flushScheduled, listening, delivered>>
hostVars == <<host, waitsFor, failure, channelVars, results, outcome, calls>>
pipeVars == <<toSpawner, toHost, half>>
spawnerVars == <<spawner, hostGone, stdinOver>>
processVars == <<process, stopping, written, relayed>>
vars == <<hostVars, pipeVars, spawnerVars, processVars>>

Message(type, id, chunk) == [type |-> type, id |-> id, chunk |-> chunk]

(* The constructor may fail at once, or the process later. *)
Init ==
  /\ host = "idle" /\ waitsFor = Nobody
  /\ failure \in BOOLEAN
  /\ channels = {}
  /\ pending = [c \in Channels |-> <<>>]
  /\ exit = [c \in Channels |-> "none"]
  /\ exitEmitted = [c \in Channels |-> FALSE]
  /\ flushScheduled = [c \in Channels |-> FALSE]
  /\ listening = [c \in Channels |-> FALSE]
  /\ results = {} /\ outcome = [r \in Runs |-> "nothing"]
  /\ calls = 0
  /\ toSpawner = <<>> /\ toHost = <<>> /\ half = FALSE
  /\ spawner = (IF failure THEN "dead" ELSE "running")
  /\ hostGone = FALSE /\ stdinOver = FALSE
  /\ process = [p \in Ids |-> "unborn"]
  /\ stopping = {}
  /\ written = [c \in Channels |-> 0]
  /\ relayed = [c \in Channels |-> 0]
  /\ delivered = [c \in Channels |-> <<>>]

-----------------------------------------------------------------------------
(* The host. *)
Spawned == channels \cup {c \in Channels : exit[c] # "none"}

ScheduleFlush(cs) ==
  flushScheduled' = [c \in Channels |-> flushScheduled[c] \/ c \in cs]

(* Mutant: only the process of the call that failed hears of the failure.  *)
FailsAlone(new) ==
  /\ failure' = TRUE
  /\ channels' = channels \cup new
  /\ exit' = [c \in Channels |-> IF c \in new THEN "lost" ELSE exit[c]]
  /\ ScheduleFlush(new)

(* fail, in a call that adds the channels in new. *)
Fails(new) ==
  LET lost == IF failure THEN new ELSE channels \cup new
  IN  /\ failure' = TRUE
      /\ channels' = IF failure THEN channels \cup new ELSE {}
      /\ exit' = [c \in Channels |-> IF c \in lost THEN "lost" ELSE exit[c]]
      /\ ScheduleFlush(lost)

CanSend == ~failure /\ spawner = "running"

Sends(type, id) == toSpawner' = Append(toSpawner, Message(type, id, 0))

Spawn(c) ==
  /\ host = "idle"
  /\ c \notin Spawned
  /\ \/ /\ CanSend
        /\ channels' = channels \cup {c}
        /\ Sends("start", c)
        /\ UNCHANGED <<failure, exit, flushScheduled>>
     \/ /\ ~CanSend
        /\ Fails({c})
        /\ UNCHANGED toSpawner
  /\ UNCHANGED <<host, waitsFor, pending, exitEmitted, listening, delivered, results, outcome,
                 calls, toHost, half, spawnerVars, processVars>>

(* stdin.write and stdin.end; kill goes the way of end, and stops the      *)
(* process like it.                                                        *)
Call(type, c) ==
  /\ host = "idle"
  /\ c \in Spawned
  /\ calls < MaxCalls
  /\ calls' = calls + 1
  /\ \/ /\ CanSend
        /\ Sends(type, c)
        /\ UNCHANGED <<failure, channels, exit, flushScheduled>>
     \/ /\ ~CanSend
        /\ Fails({})
        /\ UNCHANGED toSpawner
  /\ UNCHANGED <<host, waitsFor, pending, exitEmitted, listening, delivered, results, outcome,
                 toHost, half, spawnerVars, processVars>>

SpawnSync(r) ==
  /\ host = "idle"
  /\ process[r] = "unborn" /\ outcome[r] = "nothing"
  /\ \/ /\ CanSend
        /\ Sends("run", r)
        /\ host' = "running" /\ waitsFor' = r
        /\ UNCHANGED <<failure, channels, exit, flushScheduled, outcome>>
     \/ /\ ~CanSend
        /\ Fails({})
        /\ outcome' = [outcome EXCEPT ![r] = "lost"]
        /\ UNCHANGED <<host, waitsFor, toSpawner>>
  /\ UNCHANGED <<pending, exitEmitted, listening, delivered, results, calls,
                 toHost, half, spawnerVars, processVars>>

ReadSync(c) ==
  /\ host = "idle"
  /\ c \in Spawned
  /\ calls < MaxCalls
  /\ calls' = calls + 1
  /\ host' = "reading" /\ waitsFor' = c
  /\ UNCHANGED <<failure, channelVars, results, outcome, pipeVars, spawnerVars, processVars>>

(* The decoder takes the bytes of a frame in two parts. *)
DecodeHalf ==
  /\ toHost # <<>> /\ ~half
  /\ half' = TRUE
  /\ UNCHANGED <<toSpawner, toHost, host, waitsFor, failure, channelVars, results, outcome,
                 calls, spawnerVars, processVars>>

Receive ==
  /\ toHost # <<>> /\ half
  /\ toHost' = Tail(toHost) /\ half' = FALSE
  /\ LET m == Head(toHost)
     IN  \/ /\ m.type = "result"
            /\ results' = results \cup {m.id}
            /\ UNCHANGED channelVars
         \/ /\ m.type = "stdout" /\ m.id \in channels
            /\ pending' = [pending EXCEPT ![m.id] = Append(@, m.chunk)]
            /\ ScheduleFlush({m.id})
            /\ UNCHANGED <<channels, exit, exitEmitted, listening, delivered, results>>
         \/ /\ m.type = "exit" /\ m.id \in channels
            /\ exit' = [exit EXCEPT ![m.id] = "exit"]
            /\ channels' = channels \ {m.id}
            /\ ScheduleFlush({m.id})
            /\ UNCHANGED <<pending, exitEmitted, listening, delivered, results>>
         \/ /\ m.type \in {"stdout", "exit"} /\ m.id \notin channels
            /\ UNCHANGED <<channelVars, results>>
  /\ UNCHANGED <<toSpawner, host, waitsFor, failure, outcome, calls, spawnerVars, processVars>>

DataEvent == host = "idle" /\ (DecodeHalf \/ Receive)

(* readOnce in readSync or spawnSync; all the frames of one read are       *)
(* received before the caller looks at them.                               *)
ReadOnce == host \in {"reading", "running"} /\ ~failure /\ (DecodeHalf \/ Receive)

Resumes == host' = "idle" /\ waitsFor' = Nobody

(* Mutant: a read that takes the last output does not schedule the exit.   *)
ReadReturnsQuietly ==
  /\ host = "reading" /\ pending[waitsFor] # <<>>
  /\ Resumes
  /\ delivered' = [delivered EXCEPT ![waitsFor] = @ \o pending[waitsFor]]
  /\ pending' = [pending EXCEPT ![waitsFor] = <<>>]
  /\ listening' \in {listening, [listening EXCEPT ![waitsFor] = TRUE]}
  /\ UNCHANGED <<failure, channels, exit, exitEmitted, flushScheduled, results, outcome, calls,
                 pipeVars, spawnerVars, processVars>>

(* The client attaches its stdout listener right after such a read. *)
ReadReturns ==
  /\ host = "reading" /\ pending[waitsFor] # <<>>
  /\ Resumes
  /\ delivered' = [delivered EXCEPT ![waitsFor] = @ \o pending[waitsFor]]
  /\ pending' = [pending EXCEPT ![waitsFor] = <<>>]
  /\ listening' \in {listening, [listening EXCEPT ![waitsFor] = TRUE]}
  /\ IF exit[waitsFor] # "none" THEN ScheduleFlush({waitsFor}) ELSE UNCHANGED flushScheduled
  /\ UNCHANGED <<failure, channels, exit, exitEmitted, results, outcome, calls,
                 pipeVars, spawnerVars, processVars>>

(* Mutant: each read has a decoder of its own. *)
ReadThrowsAway ==
  /\ host = "reading" /\ pending[waitsFor] = <<>>
  /\ Resumes
  /\ half' = FALSE
  /\ toHost' = IF half /\ toHost # <<>> THEN Tail(toHost) ELSE toHost
  /\ UNCHANGED <<failure, channelVars, results, outcome, calls, toSpawner, spawnerVars, processVars>>

ReadThrows ==
  /\ host = "reading" /\ pending[waitsFor] = <<>>
  /\ Resumes
  /\ UNCHANGED <<failure, channelVars, results, outcome, calls, pipeVars, spawnerVars, processVars>>

RunReturns ==
  /\ host = "running" /\ waitsFor \in results
  /\ Resumes
  /\ results' = results \ {waitsFor}
  /\ outcome' = [outcome EXCEPT ![waitsFor] = "exit"]
  /\ UNCHANGED <<failure, channelVars, calls, pipeVars, spawnerVars, processVars>>

(* Mutant: spawnSync reads on at the end of the spawner's output. *)
ReadsEndForever ==
  /\ spawner = "dead" /\ toHost = <<>>
  /\ host = "reading" /\ pending[waitsFor] = <<>> /\ exit[waitsFor] = "none"
  /\ Resumes
  /\ Fails({})
  /\ UNCHANGED <<pending, exitEmitted, listening, delivered, results, outcome, calls,
                 pipeVars, spawnerVars, processVars>>

(* The end of the spawner's output, met in a read that waits for more. *)
ReadsEnd ==
  /\ spawner = "dead" /\ toHost = <<>>
  /\ \/ host = "reading" /\ pending[waitsFor] = <<>> /\ exit[waitsFor] = "none"
     \/ host = "running" /\ waitsFor \notin results
  /\ Resumes
  /\ Fails({})
  /\ outcome' = IF waitsFor \in Runs THEN [outcome EXCEPT ![waitsFor] = "lost"] ELSE outcome
  /\ UNCHANGED <<pending, exitEmitted, listening, delivered, results, calls,
                 pipeVars, spawnerVars, processVars>>

ExitEvent ==
  /\ host = "idle" /\ spawner = "dead" /\ ~failure
  /\ Fails({})
  /\ UNCHANGED <<host, waitsFor, pending, exitEmitted, listening, delivered, results, outcome,
                 calls, pipeVars, spawnerVars, processVars>>

(* Mutant: output is flushed with the exit. *)
FlushAtExit(c) ==
  /\ host = "idle" /\ flushScheduled[c]
  /\ flushScheduled' = [flushScheduled EXCEPT ![c] = FALSE]
  /\ IF listening[c] /\ exit[c] # "none"
     THEN /\ delivered' = [delivered EXCEPT ![c] = @ \o pending[c]]
          /\ pending' = [pending EXCEPT ![c] = <<>>]
     ELSE UNCHANGED <<delivered, pending>>
  /\ exitEmitted' = [exitEmitted EXCEPT ![c] = @ \/ (exit[c] # "none" /\ pending'[c] = <<>>)]
  /\ UNCHANGED <<host, waitsFor, failure, channels, exit, listening, results, outcome, calls,
                 pipeVars, spawnerVars, processVars>>

Flush(c) ==
  /\ host = "idle" /\ flushScheduled[c]
  /\ flushScheduled' = [flushScheduled EXCEPT ![c] = FALSE]
  /\ IF listening[c]
     THEN /\ delivered' = [delivered EXCEPT ![c] = @ \o pending[c]]
          /\ pending' = [pending EXCEPT ![c] = <<>>]
     ELSE UNCHANGED <<delivered, pending>>
  /\ exitEmitted' = [exitEmitted EXCEPT ![c] = @ \/ (exit[c] # "none" /\ pending'[c] = <<>>)]
  /\ UNCHANGED <<host, waitsFor, failure, channels, exit, listening, results, outcome, calls,
                 pipeVars, spawnerVars, processVars>>

HostDies ==
  /\ host # "dead"
  /\ host' = "dead" /\ waitsFor' = Nobody
  /\ toHost' = <<>> /\ half' = FALSE
  /\ UNCHANGED <<failure, channelVars, results, outcome, calls, toSpawner, spawnerVars, processVars>>

HostSteps ==
  \/ DataEvent \/ ExitEvent \/ \E c \in Channels : Flush(c)
  \/ ReadOnce \/ ReadReturns \/ ReadThrows \/ RunReturns \/ ReadsEnd

-----------------------------------------------------------------------------
(* The spawner process. *)
children == {c \in Channels : process[c] \in {"running", "exited"}}

(* A process that cannot be started is closed like one that has exited. *)
Handle ==
  /\ spawner = "running" /\ toSpawner # <<>>
  /\ toSpawner' = Tail(toSpawner)
  /\ LET m == Head(toSpawner)
     IN  \/ /\ m.type \in {"run", "start"}
            /\ \E s \in {"running", "exited"} : process' = [process EXCEPT ![m.id] = s]
            /\ UNCHANGED stopping
         \/ /\ m.type = "end"
            /\ stopping' = stopping \cup ({m.id} \cap children)
            /\ UNCHANGED process
         \/ /\ m.type = "stdin"
            /\ UNCHANGED <<process, stopping>>
  /\ UNCHANGED <<hostVars, toHost, half, spawnerVars, written, relayed>>

Say(m) == toHost' = IF hostGone \/ host = "dead" THEN toHost ELSE Append(toHost, m)

(* Mutant: one chunk more is read than was written. *)
RelayOneMore(c) ==
  /\ spawner = "running" /\ process[c] = "running"
  /\ relayed[c] <= written[c]
  /\ relayed' = [relayed EXCEPT ![c] = @ + 1]
  /\ Say(Message("stdout", c, relayed[c] + 1))
  /\ UNCHANGED <<hostVars, toSpawner, half, spawnerVars, process, stopping, written>>

Relay(c) ==
  /\ spawner = "running" /\ relayed[c] < written[c]
  /\ relayed' = [relayed EXCEPT ![c] = @ + 1]
  /\ Say(Message("stdout", c, relayed[c] + 1))
  /\ UNCHANGED <<hostVars, toSpawner, half, spawnerVars, process, stopping, written>>

(* close comes when the process has exited and all its output is read. *)
Close(p) ==
  /\ spawner = "running" /\ process[p] = "exited"
  /\ p \in Channels => relayed[p] = written[p]
  /\ process' = [process EXCEPT ![p] = "closed"]
  /\ Say(Message(IF p \in Runs THEN "result" ELSE "exit", p, 0))
  /\ UNCHANGED <<hostVars, toSpawner, half, spawnerVars, stopping, written, relayed>>

StopAll ==
  /\ hostGone' = TRUE
  /\ stopping' = stopping \cup children
  /\ UNCHANGED <<hostVars, pipeVars, spawner, process, written, relayed>>

(* A write to the host's pipe may fail before the end of stdin is read. *)
StdoutBreaks ==
  /\ spawner = "running" /\ host = "dead" /\ ~hostGone
  /\ StopAll
  /\ UNCHANGED stdinOver

(* Mutant: the processes are stopped once. *)
StdinEndsOnce ==
  /\ spawner = "running" /\ host = "dead" /\ toSpawner = <<>> /\ ~stdinOver
  /\ IF hostGone THEN UNCHANGED <<hostVars, pipeVars, spawner, hostGone, processVars>> ELSE StopAll
  /\ stdinOver' = TRUE

StdinEnds ==
  /\ spawner = "running" /\ host = "dead" /\ toSpawner = <<>> /\ ~stdinOver
  /\ StopAll
  /\ stdinOver' = TRUE

(* Its end of the host's pipe and all its processes are closed: nothing is *)
(* left for the event loop.                                                *)
Exits ==
  /\ spawner = "running" /\ stdinOver
  /\ \A p \in Ids : process[p] \in {"unborn", "closed"}
  /\ spawner' = "dead"
  /\ UNCHANGED <<hostVars, pipeVars, hostGone, stdinOver, processVars>>

(* What it has not written is lost; its ends of the children's pipes close. *)
SpawnerDies ==
  /\ spawner = "running"
  /\ spawner' = "dead"
  /\ toSpawner' = <<>>
  /\ \E n \in 0..Len(toHost) : toHost' = SubSeq(toHost, 1, n)
  /\ stopping' = stopping \cup children
  /\ UNCHANGED <<hostVars, half, hostGone, stdinOver, process, written, relayed>>

SpawnerSteps ==
  \/ Handle \/ StdinEnds \/ Exits
  \/ \E c \in Channels : Relay(c)
  \/ \E p \in Ids : Close(p)

-----------------------------------------------------------------------------
(* The processes. *)
Write(c) ==
  /\ process[c] = "running" /\ spawner = "running"
  /\ written[c] < MaxChunks
  /\ written' = [written EXCEPT ![c] = @ + 1]
  /\ UNCHANGED <<hostVars, pipeVars, spawnerVars, process, stopping, relayed>>

End(p) ==
  /\ process[p] = "running"
  /\ process' = [process EXCEPT ![p] = "exited"]
  /\ UNCHANGED <<hostVars, pipeVars, spawnerVars, stopping, written, relayed>>

Next ==
  \/ HostSteps
  \/ \E c \in Channels : Spawn(c) \/ ReadSync(c) \/ \E t \in {"stdin", "end"} : Call(t, c)
  \/ \E r \in Runs : SpawnSync(r)
  \/ HostDies
  \/ SpawnerSteps \/ StdoutBreaks \/ SpawnerDies
  \/ \E c \in Channels : Write(c)
  \/ \E p \in Ids : End(p)

Spec == Init /\ [][Next]_vars

(* Both event loops run, a process ends when it is told to, and a run ends. *)
FairSpec ==
  /\ Spec
  /\ WF_vars(HostSteps)
  /\ WF_vars(SpawnerSteps)
  /\ WF_vars(\E p \in stopping \cup Runs : End(p))

-----------------------------------------------------------------------------
(* Every process keeps, over the shared pipe, what SpawnedProcess promises *)
(* of one: output in order, all of it before the exit, and an exit that is *)
(* made up only when the spawner has failed (spawner.ts:205-343,           *)
(* spawner-child.ts:36-87).                                                *)
Contract == INSTANCE SpawnedProcess WITH
  Processes <- Ids,
  written   <- [p \in Ids |-> IF p \in Channels THEN written[p] ELSE 0],
  delivered <- [p \in Ids |-> IF p \in Channels THEN delivered[p] ELSE <<>>],
  over      <- {p \in Ids : process[p] \in {"exited", "closed"}},
  told      <- [p \in Ids |-> IF p \in Runs THEN outcome[p]
                              ELSE IF exitEmitted[p] THEN exit[p] ELSE "nothing"],
  broken    <- (failure \/ spawner = "dead")

ImplementsContract == Contract!Spec

(* Every variable has a value of its kind. *)
Messages ==
  [type : {"start", "run", "stdin", "end", "stdout", "exit", "result"},
   id : Ids, chunk : 0..MaxChunks]

HostTypes ==
  /\ host \in {"idle", "reading", "running", "dead"}
  /\ host = "reading" => waitsFor \in Channels
  /\ host = "running" => waitsFor \in Runs
  /\ failure \in BOOLEAN /\ calls \in 0..MaxCalls
  /\ results \subseteq Runs /\ outcome \in [Runs -> {"nothing", "exit", "lost"}]

ChannelTypes ==
  /\ channels \subseteq Channels
  /\ pending \in [Channels -> Seq(1..MaxChunks)]
  /\ delivered \in [Channels -> Seq(1..MaxChunks)]
  /\ exit \in [Channels -> {"none", "exit", "lost"}]
  /\ exitEmitted \in [Channels -> BOOLEAN]
  /\ flushScheduled \in [Channels -> BOOLEAN]
  /\ listening \in [Channels -> BOOLEAN]

PipeTypes ==
  /\ toSpawner \in Seq(Messages) /\ toHost \in Seq(Messages)
  /\ half \in BOOLEAN

ProcessTypes ==
  /\ spawner \in {"running", "dead"} /\ hostGone \in BOOLEAN /\ stdinOver \in BOOLEAN
  /\ process \in [Ids -> {"unborn", "running", "exited", "closed"}]
  /\ stopping \subseteq Channels
  /\ written \in [Channels -> 0..MaxChunks] /\ relayed \in [Channels -> 0..MaxChunks]

TypeOK == HostTypes /\ ChannelTypes /\ PipeTypes /\ ProcessTypes

(* Output that has a listener, and an exit that is not held back by output *)
(* without one, always has a flush to come: neither a flush that found     *)
(* nothing to do, a read that took the output nor a failure leaves it      *)
(* behind (spawner.ts:217-220, 307, 314-342).                              *)
WaitingIsScheduled ==
  \A c \in Channels :
    \/ pending[c] # <<>> /\ listening[c]
    \/ exit[c] # "none" /\ ~exitEmitted[c] /\ (pending[c] = <<>> \/ listening[c])
    => flushScheduled[c]

(* spawnSync, which has no time limit, returns: with the result or because *)
(* the spawner has gone (spawner.ts:119-137).                              *)
RunsReturn == host = "running" ~> host # "running"

(* The host hears of the end of every process, also when the spawner dies  *)
(* before, unless output is left that nobody listens to                    *)
(* (spawner.ts:107-111, 193-198, 314-342).                                 *)
EndsAreTold ==
  \A c \in Channels :
    <>[](c \in Spawned /\ (spawner = "dead" \/ process[c] \in {"exited", "closed"}) =>
           exitEmitted[c] \/ host = "dead" \/ (pending[c] # <<>> /\ ~listening[c]))

(* A listener gets all the output while the spawner lives: no read takes   *)
(* part of a frame away from the next (spawner.ts:113, 284-309,            *)
(* frames.ts:8-30).                                                        *)
OutputArrives ==
  \A c \in Channels :
    <>[](listening[c] =>
           Len(delivered[c]) = written[c] \/ spawner = "dead" \/ host = "dead")

(* When the host is gone every process ends, also one whose start was      *)
(* still in the pipe (spawner-child.ts:19-36).                             *)
OrphansEnd == <>[](host = "dead" => \A p \in Ids : process[p] # "running")
=============================================================================
