--------------------------- MODULE SpawnerProofs ---------------------------
(***************************************************************************)
(* For every number of processes, chunks and calls: Spawner is type        *)
(* correct, leaves nothing waiting without a flush, and implements         *)
(* SpawnedProcess.                                                         *)
(***************************************************************************)
EXTENDS Spawner, Integers, TLAPS

Received(c) == Len(delivered[c]) + Len(pending[c])

(* What waits in the pipes is about processes in the state it says. *)
Births == {"start", "run"}
ToSpawnerOK ==
  /\ \A i \in DOMAIN toSpawner :
       LET m == toSpawner[i]
       IN  /\ m.type \in Births \cup {"stdin", "end"}
           /\ m.type \in Births => process[m.id] = "unborn"
           /\ m.type = "start" => m.id \in Spawned
           /\ m.type = "run" => m.id \in Runs /\ (waitsFor = m.id \/ host = "dead")
  /\ \A i, j \in DOMAIN toSpawner :
       i # j /\ toSpawner[i].type \in Births /\ toSpawner[j].type \in Births =>
         toSpawner[i].id # toSpawner[j].id

ToHostOK ==
  \A i \in DOMAIN toHost :
    LET m == toHost[i]
    IN  /\ m.type \in {"stdout", "exit", "result"}
        /\ m.type = "result" => m.id \in Runs /\ process[m.id] = "closed"
        /\ m.type = "exit" => m.id \in Channels /\ process[m.id] = "closed"
        /\ m.type = "stdout" => m.id \in Channels /\ m.chunk >= 1 /\ process[m.id] # "unborn"

(* The ends of the pipes, and what each process has come to. *)
LifeOK ==
  /\ failure => spawner = "dead"
  /\ spawner = "dead" \/ stdinOver => toSpawner = <<>>
  /\ hostGone \/ stdinOver => host = "dead"
  /\ host = "idle" => waitsFor = Nobody
  /\ \A r \in results : process[r] = "closed"
  /\ \A r \in Runs : waitsFor = r => outcome[r] = "nothing"
  /\ \A c \in Channels :
       /\ relayed[c] <= written[c]
       /\ process[c] = "closed" => relayed[c] = written[c]
       /\ c \notin Spawned => process[c] = "unborn"
       /\ process[c] = "unborn" => written[c] = 0

(* The fields of a channel. *)
ChannelOK ==
  \A c \in Channels :
    /\ exit[c] = "lost" => failure
    /\ exit[c] = "exit" => c \notin channels /\ process[c] = "closed" /\ Received(c) = written[c]
    /\ failure /\ c \in channels => process[c] = "unborn"
    /\ exitEmitted[c] => exit[c] # "none" /\ pending[c] = <<>>

(* The output of a channel that is open is what the caller and the channel *)
(* have, and then what is in the pipe, in order; an exit comes after it.   *)
Before(i, c, n) ==
  \A k \in Received(c) + 1..n : \E j \in 1..i - 1 : toHost[j] = Message("stdout", c, k)

Arrived(c) ==
  /\ \A k \in 1..Len(delivered[c]) : delivered[c][k] = k
  /\ \A k \in 1..Len(pending[c]) : pending[c][k] = Len(delivered[c]) + k
  /\ Received(c) <= relayed[c]

Fits(i, c, m) ==
  /\ m.type = "stdout" /\ m.id = c =>
       /\ Received(c) < m.chunk /\ m.chunk <= relayed[c]
       /\ Before(i, c, m.chunk - 1)
       /\ \A j \in 1..i - 1 :
            toHost[j].type = "stdout" /\ toHost[j].id = c => toHost[j].chunk < m.chunk
  /\ m.type = "exit" /\ m.id = c => Before(i, c, written[c])

OnTheWay(c) == \A i \in DOMAIN toHost : Fits(i, c, toHost[i])

NothingLost(c) ==
  spawner = "running" /\ host # "dead" => Before(Len(toHost) + 1, c, relayed[c])

OutputOK ==
  \A c \in Channels : Arrived(c) /\ (c \in channels => OnTheWay(c) /\ NothingLost(c))

Inv == TypeOK /\ ToSpawnerOK /\ ToHostOK /\ LifeOK /\ ChannelOK /\ OutputOK

-----------------------------------------------------------------------------
(* Sequences. *)
LEMMA AppendFacts ==
  ASSUME NEW S, NEW s \in Seq(S), NEW e \in S
  PROVE  /\ Append(s, e) \in Seq(S)
         /\ DOMAIN Append(s, e) = 1..Len(s) + 1 /\ DOMAIN s = 1..Len(s)
         /\ Len(Append(s, e)) = Len(s) + 1 /\ Len(s) \in Nat
         /\ \A i \in 1..Len(s) : Append(s, e)[i] = s[i]
         /\ Append(s, e)[Len(s) + 1] = e
  OBVIOUS

LEMMA TailFacts ==
  ASSUME NEW S, NEW s \in Seq(S), s # <<>>
  PROVE  /\ Head(s) \in S /\ Head(s) = s[1] /\ 1 \in DOMAIN s
         /\ Tail(s) \in Seq(S)
         /\ DOMAIN Tail(s) = 1..Len(s) - 1 /\ DOMAIN s = 1..Len(s)
         /\ Len(Tail(s)) = Len(s) - 1 /\ Len(s) \in Nat
         /\ \A i \in 1..Len(s) - 1 : Tail(s)[i] = s[i + 1]
  OBVIOUS

(* A call of the host sends its message or fails. *)
LEMMA SendsFacts ==
  ASSUME TypeOK, NEW type \in {"start", "run", "stdin", "end"}, NEW id \in Ids, Sends(type, id)
  PROVE  /\ toSpawner' \in Seq(Messages)
         /\ DOMAIN toSpawner' = 1..Len(toSpawner) + 1 /\ DOMAIN toSpawner = 1..Len(toSpawner)
         /\ Len(toSpawner) \in Nat
         /\ \A i \in 1..Len(toSpawner) : toSpawner'[i] = toSpawner[i]
         /\ toSpawner'[Len(toSpawner) + 1].type = type
         /\ toSpawner'[Len(toSpawner) + 1].id = id
  <1>1. Message(type, id, 0) \in Messages
    BY SpawnerAssumption DEF Messages, Message
  <1>2. toSpawner' = Append(toSpawner, Message(type, id, 0)) /\ toSpawner \in Seq(Messages)
    BY DEF Sends, TypeOK, PipeTypes
  <1> QED BY <1>1, <1>2, AppendFacts DEF Message

FailsTo(new) ==
  /\ failure' = TRUE
  /\ channels' = IF failure THEN channels \cup new ELSE {}
  /\ exit' \in [Channels -> {"none", "exit", "lost"}]
  /\ flushScheduled' \in [Channels -> BOOLEAN]
  /\ \A c \in Channels : exit'[c] = exit[c] \/ (exit'[c] = "lost" /\ c \in channels \cup new)
  /\ \A c \in Channels : exit'[c] # exit[c] => flushScheduled'[c]
  /\ \A c \in Channels : flushScheduled[c] => flushScheduled'[c]
  /\ \A c \in new : exit'[c] = "lost"
  /\ Spawned' = Spawned \cup new

LEMMA FailsFacts ==
  ASSUME TypeOK, NEW new \in SUBSET Channels, Fails(new)
  PROVE  FailsTo(new)
  <1>1. failure' = TRUE /\ channels' = IF failure THEN channels \cup new ELSE {}
    BY DEF Fails
  <1>2. exit' = [c \in Channels |-> IF c \in (IF failure THEN new ELSE channels \cup new)
                                   THEN "lost" ELSE exit[c]]
    BY DEF Fails
  <1>3. flushScheduled' = [c \in Channels |-> flushScheduled[c] \/ c \in (IF failure THEN new ELSE channels \cup new)]
    BY DEF Fails, ScheduleFlush
  <1>4. Spawned' = Spawned \cup new
    BY <1>1, <1>2 DEF Spawned, TypeOK, ChannelTypes
  <1>5. exit \in [Channels -> {"none", "exit", "lost"}] /\ channels \subseteq Channels
    BY DEF TypeOK, ChannelTypes
  <1>6. flushScheduled' \in [Channels -> BOOLEAN]
    BY <1>3
  <1>7. exit' \in [Channels -> {"none", "exit", "lost"}]
    BY <1>2, <1>5
  <1> QED BY <1>1, <1>2, <1>3, <1>4, <1>5, <1>6, <1>7 DEF FailsTo

(* Steps that leave output where it is, or take it to the caller. *)
LEMMA OutputMoved ==
  ASSUME UNCHANGED <<relayed, written, toHost>>, NEW c \in Channels, Received(c)' = Received(c)
  PROVE  /\ OnTheWay(c) => OnTheWay(c)'
         /\ (spawner' = "running" /\ host' # "dead" => spawner = "running" /\ host # "dead") =>
              (NothingLost(c) => NothingLost(c)')
  <1>1. ASSUME NEW i, NEW n PROVE Before(i, c, n)' <=> Before(i, c, n)
    BY DEF Before
  <1>2. OnTheWay(c) => OnTheWay(c)'
    BY <1>1 DEF OnTheWay, Fits
  <1>3. Len(toHost)' = Len(toHost) /\ relayed[c]' = relayed[c]
    OBVIOUS
  <1>4. Before(Len(toHost) + 1, c, relayed[c])' <=> Before(Len(toHost) + 1, c, relayed[c])
    BY <1>3 DEF Before
  <1> QED BY <1>2, <1>4 DEF NothingLost

LEMMA OutputSame ==
  ASSUME UNCHANGED <<delivered, pending, relayed, written, toHost>>, NEW c \in Channels
  PROVE  /\ Arrived(c) => Arrived(c)'
         /\ OnTheWay(c) => OnTheWay(c)'
         /\ (spawner' = "running" /\ host' # "dead" => spawner = "running" /\ host # "dead") =>
              (NothingLost(c) => NothingLost(c)')
  <1>1. Received(c)' = Received(c)
    BY DEF Received
  <1>2. Arrived(c) => Arrived(c)'
    BY <1>1 DEF Arrived
  <1> QED BY <1>1, <1>2, OutputMoved

LEMMA OutputStays ==
  ASSUME OutputOK, UNCHANGED <<delivered, pending, relayed, written, toHost>>,
         channels' \subseteq channels,
         spawner' = "running" /\ host' # "dead" => spawner = "running" /\ host # "dead"
  PROVE  OutputOK'
  BY OutputSame DEF OutputOK

LEMMA InPipe ==
  ASSUME TypeOK, NEW i \in DOMAIN toHost
  PROVE  toHost[i] \in Messages /\ toHost[i].chunk \in Nat /\ toHost[i].id \in Ids
  <1>1. toHost[i] \in Messages
    BY DEF TypeOK, PipeTypes
  <1> QED BY <1>1, SpawnerAssumption DEF Messages

LEMMA InitInv == Init => Inv
  <1> SUFFICES ASSUME Init PROVE Inv
    OBVIOUS
  <1> USE SpawnerAssumption
  <1>1. TypeOK
    <2>1. HostTypes
      BY DEF Init, HostTypes
    <2>2. ChannelTypes
      <3>1. pending \in [Channels -> Seq(1..MaxChunks)] /\ delivered \in [Channels -> Seq(1..MaxChunks)]
        BY DEF Init
      <3>2. exitEmitted \in [Channels -> BOOLEAN] /\ flushScheduled \in [Channels -> BOOLEAN]
              /\ listening \in [Channels -> BOOLEAN]
        BY DEF Init
      <3> QED BY <3>1, <3>2 DEF Init, ChannelTypes
    <2>3. PipeTypes
      <3>1. toSpawner \in Seq(Messages) /\ toHost \in Seq(Messages)
        BY DEF Init
      <3> QED BY <3>1 DEF Init, PipeTypes
    <2>4. ProcessTypes
      <3>1. written \in [Channels -> 0..MaxChunks] /\ relayed \in [Channels -> 0..MaxChunks]
        BY DEF Init
      <3> QED BY <3>1 DEF Init, ProcessTypes
    <2> QED BY <2>1, <2>2, <2>3, <2>4 DEF TypeOK
  <1>2. ToSpawnerOK /\ ToHostOK
    BY DEF Init, ToSpawnerOK, ToHostOK
  <1>3. LifeOK
    BY DEF Init, LifeOK, Ids
  <1>4. ChannelOK
    BY DEF Init, ChannelOK
  <1>5. OutputOK
    <2> SUFFICES ASSUME NEW c \in Channels
                 PROVE  Arrived(c) /\ c \notin channels
      BY DEF OutputOK
    <2>1. delivered[c] = <<>> /\ pending[c] = <<>> /\ relayed[c] = 0 /\ channels = {}
      BY DEF Init
    <2> QED BY <2>1 DEF Arrived, Received
  <1> QED BY <1>1, <1>2, <1>3, <1>4, <1>5 DEF Inv

LEMMA SpawnInv ==
  ASSUME Inv, NEW c \in Channels, Spawn(c)
  PROVE  Inv'
  <1> USE SpawnerAssumption DEF Inv
  <1>1. process[c] = "unborn" /\ exit[c] = "none" /\ c \notin channels /\ c \in Ids /\ c \notin Runs
    BY DEF Spawn, Spawned, LifeOK, TypeOK, ChannelTypes, Ids
  <1>2. CASE CanSend
    <2>1. /\ Sends("start", c) /\ channels' = channels \cup {c}
          /\ UNCHANGED <<failure, exit, flushScheduled>>
      BY <1>2 DEF Spawn
    <2>2. Spawned' = Spawned \cup {c}
      BY <2>1 DEF Spawned
    <2>3. HostTypes' /\ ChannelTypes' /\ ProcessTypes'
      BY <2>1 DEF Spawn, spawnerVars, processVars, TypeOK, HostTypes, ChannelTypes, ProcessTypes
    <2>4. PipeTypes'
      BY <1>1, <2>1, SendsFacts DEF Spawn, TypeOK, PipeTypes
    <2>5. ToSpawnerOK'
      BY <1>1, <2>1, <2>2, SendsFacts DEF Spawn, spawnerVars, processVars, ToSpawnerOK, LifeOK, Births
    <2>6. LifeOK'
      BY <1>2, <2>1, <2>2 DEF Spawn, CanSend, spawnerVars, processVars, LifeOK
    <2>7. ChannelOK'
      BY <1>1, <1>2, <2>1 DEF Spawn, CanSend, processVars, ChannelOK, Received
    <2>8. OutputOK'
      <3>1. UNCHANGED <<delivered, pending, relayed, written, toHost, spawner, host>>
        BY DEF Spawn, spawnerVars, processVars
      <3>2. relayed[c] = 0
        BY <1>1 DEF LifeOK, TypeOK, ProcessTypes
      <3>3. Received(c) \in Nat
        BY DEF Received, TypeOK, ChannelTypes
      <3>4. OnTheWay(c)
        BY <1>1 DEF ToHostOK, OnTheWay, Fits
      <3>5. NothingLost(c)
        BY <3>2, <3>3 DEF NothingLost, Before
      <3> QED BY <2>1, <3>1, <3>4, <3>5, OutputSame DEF OutputOK
    <2> QED BY <2>3, <2>4, <2>5, <2>6, <2>7, <2>8 DEF Spawn, processVars, ToHostOK, TypeOK
  <1>3. CASE ~CanSend
    <2>1. FailsTo({c}) /\ UNCHANGED toSpawner /\ spawner = "dead" /\ toSpawner = <<>>
      BY <1>3, FailsFacts DEF Spawn, CanSend, LifeOK, TypeOK, ProcessTypes
    <2>2. ChannelTypes'
      BY <2>1 DEF FailsTo, Spawn, TypeOK, ChannelTypes
    <2>3. HostTypes' /\ PipeTypes' /\ ProcessTypes'
      BY <2>1 DEF FailsTo, Spawn, spawnerVars, processVars, TypeOK, HostTypes, PipeTypes, ProcessTypes
    <2>4. LifeOK'
      BY <2>1 DEF FailsTo, Spawn, spawnerVars, processVars, LifeOK
    <2>5. ChannelOK'
      BY <1>1, <2>1 DEF FailsTo, Spawn, spawnerVars, processVars, ChannelOK, Received
    <2>6. OutputOK'
      <3>1. UNCHANGED <<delivered, pending, relayed, written, toHost, spawner, host>>
        BY DEF Spawn, spawnerVars, processVars
      <3>2. OnTheWay(c)
        BY <1>1 DEF ToHostOK, OnTheWay, Fits
      <3> QED BY <2>1, <3>1, <3>2, OutputSame DEF FailsTo, OutputOK, NothingLost
    <2> QED BY <2>1, <2>2, <2>3, <2>4, <2>5, <2>6 DEF Spawn, processVars, ToHostOK, ToSpawnerOK, TypeOK
  <1> QED BY <1>2, <1>3

(* A step in which the failure of the spawner reaches the host. *)
LEMMA FailingInv ==
  ASSUME Inv, Fails({}), spawner = "dead",
         UNCHANGED <<pending, exitEmitted, listening, delivered, pipeVars, spawnerVars, processVars>>
  PROVE  ChannelTypes' /\ PipeTypes' /\ ProcessTypes' /\ ToSpawnerOK' /\ ToHostOK' /\ ChannelOK'
           /\ OutputOK' /\ failure' = TRUE /\ Spawned' = Spawned
  <1> USE DEF Inv
  <1>1. FailsTo({}) /\ toSpawner = <<>>
    BY FailsFacts DEF LifeOK
  <1>2. ChannelTypes'
    BY <1>1 DEF FailsTo, TypeOK, ChannelTypes
  <1>3. PipeTypes' /\ ProcessTypes'
    BY DEF pipeVars, spawnerVars, processVars, TypeOK, PipeTypes, ProcessTypes
  <1>4. ToSpawnerOK' /\ ToHostOK'
    BY <1>1 DEF pipeVars, processVars, ToSpawnerOK, ToHostOK
  <1>5. ChannelOK'
    BY <1>1 DEF FailsTo, processVars, ChannelOK, Received
  <1>6. OutputOK'
    BY <1>1, OutputStays DEF FailsTo, pipeVars, spawnerVars, processVars
  <1> QED BY <1>1, <1>2, <1>3, <1>4, <1>5, <1>6 DEF FailsTo

LEMMA CallInv ==
  ASSUME Inv, NEW c \in Channels, NEW type \in {"stdin", "end"}, Call(type, c)
  PROVE  Inv'
  <1> USE SpawnerAssumption DEF Inv
  <1>1. HostTypes'
    <2>1. calls' \in 0..MaxCalls
      BY DEF Call, TypeOK, HostTypes
    <2>2. failure' \in BOOLEAN /\ UNCHANGED <<host, waitsFor, results, outcome>>
      BY DEF Call, Fails, TypeOK, HostTypes
    <2> QED BY <2>1, <2>2 DEF TypeOK, HostTypes
  <1>2. CASE CanSend
    <2>1. Sends(type, c) /\ UNCHANGED <<failure, channels, exit, flushScheduled>> /\ c \in Ids
      BY <1>2 DEF Call, Ids
    <2>2. ChannelTypes' /\ ProcessTypes'
      BY <2>1 DEF Call, spawnerVars, processVars, TypeOK, ChannelTypes, ProcessTypes
    <2>3. PipeTypes'
      BY <2>1, SendsFacts DEF Call, TypeOK, PipeTypes
    <2>4. ToSpawnerOK'
      <3>1. type \notin Births /\ Spawned' = Spawned /\ UNCHANGED <<host, waitsFor, process>>
        BY <2>1 DEF Call, processVars, Births, Spawned
      <3>2. \A i \in DOMAIN toSpawner' :
              \/ i \in DOMAIN toSpawner /\ toSpawner'[i] = toSpawner[i]
              \/ toSpawner'[i].type = type
        BY <2>1, SendsFacts
      <3> QED BY <3>1, <3>2 DEF ToSpawnerOK, Births
    <2>5. LifeOK'
      BY <1>2, <2>1 DEF Call, CanSend, spawnerVars, processVars, LifeOK, Spawned
    <2>6. ChannelOK'
      BY <2>1 DEF Call, processVars, ChannelOK, Received
    <2>7. OutputOK'
      BY <2>1, OutputStays DEF Call, spawnerVars, processVars
    <2> QED BY <1>1, <2>2, <2>3, <2>4, <2>5, <2>6, <2>7 DEF Call, processVars, ToHostOK, TypeOK
  <1>3. CASE ~CanSend
    <2>1. Fails({}) /\ spawner = "dead" /\ toSpawner = <<>>
            /\ UNCHANGED <<pending, exitEmitted, listening, delivered, pipeVars, spawnerVars, processVars>>
      BY <1>3 DEF Call, CanSend, LifeOK, TypeOK, ProcessTypes, pipeVars
    <2>2. LifeOK'
      <3>1. failure' = TRUE /\ Spawned' = Spawned
        BY <2>1, FailingInv
      <3> QED BY <2>1, <3>1 DEF Call, pipeVars, spawnerVars, processVars, LifeOK
    <2> QED BY <1>1, <2>1, <2>2, FailingInv DEF TypeOK
  <1> QED BY <1>2, <1>3

LEMMA SpawnSyncInv ==
  ASSUME Inv, NEW r \in Runs, SpawnSync(r)
  PROVE  Inv'
  <1> USE SpawnerAssumption DEF Inv
  <1>1. process[r] = "unborn" /\ host = "idle" /\ waitsFor = Nobody /\ r \in Ids /\ r # Nobody
    BY DEF SpawnSync, LifeOK, Ids
  <1>2. HostTypes'
    BY DEF SpawnSync, Fails, TypeOK, HostTypes
  <1>3. CASE CanSend
    <2>1. Sends("run", r) /\ UNCHANGED <<failure, channels, exit, flushScheduled, outcome>>
            /\ host' = "running" /\ waitsFor' = r
      BY <1>3 DEF SpawnSync
    <2>2. ChannelTypes' /\ ProcessTypes'
      BY <2>1 DEF SpawnSync, spawnerVars, processVars, TypeOK, ChannelTypes, ProcessTypes
    <2>3. PipeTypes'
      BY <1>1, <2>1, SendsFacts DEF SpawnSync, TypeOK, PipeTypes
    <2>4. \A i \in DOMAIN toSpawner : toSpawner[i].type # "run"
      BY <1>1 DEF ToSpawnerOK
    <2>5. \A i \in DOMAIN toSpawner : toSpawner[i].type \in Births => toSpawner[i].id # r
      BY <2>4, SpawnerAssumption DEF ToSpawnerOK, Births, Spawned, TypeOK, ChannelTypes
    <2>6. ToSpawnerOK'
      BY <1>1, <2>1, <2>4, <2>5, SendsFacts DEF SpawnSync, processVars, ToSpawnerOK, Births, Spawned
    <2>7. LifeOK'
      BY <1>3, <2>1 DEF SpawnSync, CanSend, spawnerVars, processVars, LifeOK, Spawned
    <2>8. ChannelOK'
      BY <2>1 DEF SpawnSync, processVars, ChannelOK, Received
    <2>9. OutputOK'
      BY <1>1, <2>1, OutputStays DEF SpawnSync, spawnerVars, processVars
    <2> QED BY <1>2, <2>2, <2>3, <2>6, <2>7, <2>8, <2>9 DEF SpawnSync, processVars, ToHostOK, TypeOK
  <1>4. CASE ~CanSend
    <2>1. Fails({}) /\ spawner = "dead" /\ toSpawner = <<>>
            /\ UNCHANGED <<pending, exitEmitted, listening, delivered, pipeVars, spawnerVars, processVars>>
      BY <1>4 DEF SpawnSync, CanSend, LifeOK, TypeOK, ProcessTypes, pipeVars
    <2>2. waitsFor' = Nobody /\ host' = host
      BY <1>1, <1>4 DEF SpawnSync
    <2>3. LifeOK'
      <3>1. failure' = TRUE /\ Spawned' = Spawned
        BY <2>1, FailingInv
      <3> QED BY <1>1, <2>1, <2>2, <3>1 DEF SpawnSync, pipeVars, spawnerVars, processVars, LifeOK
    <2> QED BY <1>2, <2>1, <2>3, FailingInv DEF TypeOK
  <1> QED BY <1>3, <1>4

LEMMA ExitEventInv ==
  ASSUME Inv, ExitEvent
  PROVE  Inv'
  <1> USE DEF Inv
  <1>1. HostTypes'
    BY DEF ExitEvent, Fails, TypeOK, HostTypes
  <1>2. LifeOK'
    BY FailingInv DEF ExitEvent, pipeVars, spawnerVars, processVars, LifeOK
  <1> QED BY <1>1, <1>2, FailingInv DEF ExitEvent, TypeOK

LEMMA ReadsEndInv ==
  ASSUME Inv, ReadsEnd
  PROVE  Inv'
  <1> USE SpawnerAssumption DEF Inv
  <1>1. HostTypes'
    BY DEF ReadsEnd, Resumes, Fails, TypeOK, HostTypes
  <1>2. LifeOK'
    BY FailingInv DEF ReadsEnd, Resumes, pipeVars, spawnerVars, processVars, LifeOK
  <1> QED BY <1>1, <1>2, FailingInv DEF ReadsEnd, TypeOK

(* Steps of the host that take nothing from the pipes. *)
LEMMA WaitingInv ==
  ASSUME Inv, RunReturns \/ ReadThrows \/ \E c \in Channels : ReadSync(c)
  PROVE  Inv'
  <1> USE SpawnerAssumption DEF Inv
  <1>1. /\ UNCHANGED <<failure, channelVars, pipeVars, spawnerVars, processVars>>
        /\ host # "dead" /\ host' # "dead" /\ (waitsFor \in Runs => waitsFor' = Nobody /\ process[waitsFor] = "closed")
        /\ (waitsFor' = Nobody \/ waitsFor' \in Channels)
        /\ (host' = "idle" => waitsFor' = Nobody)
    BY DEF RunReturns, ReadThrows, ReadSync, Resumes, LifeOK, TypeOK, HostTypes
  <1>2. HostTypes'
    BY <1>1 DEF RunReturns, ReadThrows, ReadSync, Resumes, TypeOK, HostTypes
  <1>3. ChannelTypes' /\ PipeTypes' /\ ProcessTypes'
    BY <1>1 DEF channelVars, pipeVars, spawnerVars, processVars, TypeOK, ChannelTypes, PipeTypes, ProcessTypes
  <1>4. ToSpawnerOK'
    BY <1>1 DEF channelVars, pipeVars, processVars, ToSpawnerOK, Births, Spawned
  <1>5. LifeOK'
    BY <1>1 DEF RunReturns, ReadThrows, ReadSync, channelVars, pipeVars, spawnerVars, processVars, LifeOK, Spawned
  <1>6. ChannelOK'
    BY <1>1 DEF channelVars, processVars, ChannelOK, Received
  <1>7. OutputOK'
    BY <1>1, OutputStays DEF channelVars, pipeVars, spawnerVars, processVars
  <1> QED BY <1>1, <1>2, <1>3, <1>4, <1>5, <1>6, <1>7 DEF pipeVars, processVars, ToHostOK, TypeOK

(* Output reaches the caller. *)
LEMMA ConcatOutput ==
  ASSUME NEW a \in Seq(1..MaxChunks), NEW b \in Seq(1..MaxChunks),
         \A k \in 1..Len(a) : a[k] = k, \A k \in 1..Len(b) : b[k] = Len(a) + k
  PROVE  /\ a \o b \in Seq(1..MaxChunks) /\ Len(a \o b) = Len(a) + Len(b)
         /\ \A k \in 1..Len(a \o b) : (a \o b)[k] = k
  <1>1. a \o b \in Seq(1..MaxChunks) /\ Len(a \o b) = Len(a) + Len(b) /\ Len(a) \in Nat /\ Len(b) \in Nat
    OBVIOUS
  <1>2. \A k \in 1..Len(a) + Len(b) : (a \o b)[k] = IF k <= Len(a) THEN a[k] ELSE b[k - Len(a)]
    OBVIOUS
  <1> QED BY <1>1, <1>2

LEMMA TakesOutput ==
  ASSUME Inv, NEW c \in Channels,
         delivered' = [delivered EXCEPT ![c] = @ \o pending[c]],
         pending' = [pending EXCEPT ![c] = <<>>],
         UNCHANGED <<relayed, written, toHost, channels, spawner>>, host # "dead"
  PROVE  /\ delivered' \in [Channels -> Seq(1..MaxChunks)]
         /\ pending' \in [Channels -> Seq(1..MaxChunks)]
         /\ \A d \in Channels : Received(d)' = Received(d)
         /\ OutputOK'
  <1> USE DEF Inv
  <1>1. delivered[c] \in Seq(1..MaxChunks) /\ pending[c] \in Seq(1..MaxChunks)
    BY DEF TypeOK, ChannelTypes
  <1>2. Arrived(c)
    BY DEF OutputOK
  <1>3. /\ delivered'[c] = delivered[c] \o pending[c] /\ pending'[c] = <<>>
        /\ \A d \in Channels \ {c} : delivered'[d] = delivered[d] /\ pending'[d] = pending[d]
    BY DEF TypeOK, ChannelTypes
  <1>4. /\ delivered'[c] \in Seq(1..MaxChunks) /\ Len(delivered'[c]) = Len(delivered[c]) + Len(pending[c])
        /\ \A k \in 1..Len(delivered'[c]) : delivered'[c][k] = k
    <2>1. /\ \A k \in 1..Len(delivered[c]) : delivered[c][k] = k
          /\ \A k \in 1..Len(pending[c]) : pending[c][k] = Len(delivered[c]) + k
      BY <1>2 DEF Arrived
    <2>2. /\ delivered[c] \o pending[c] \in Seq(1..MaxChunks)
          /\ Len(delivered[c] \o pending[c]) = Len(delivered[c]) + Len(pending[c])
          /\ \A k \in 1..Len(delivered[c] \o pending[c]) : (delivered[c] \o pending[c])[k] = k
      BY ONLY <1>1, <2>1, ConcatOutput
    <2> QED BY ONLY <1>3, <2>2
  <1>5. ASSUME NEW d \in Channels PROVE Received(d)' = Received(d)
    <2>1. Len(pending'[c]) = 0 /\ Len(delivered[c]) \in Nat /\ Len(pending[c]) \in Nat
      BY <1>1, <1>3
    <2>2. Received(c)' = Received(c)
      BY ONLY <1>4, <2>1 DEF Received
    <2>3. CASE d # c
      BY <1>3, <2>3 DEF Received
    <2> QED BY <2>2, <2>3
  <1>6. Arrived(c)'
    BY <1>2, <1>3, <1>4, <1>5 DEF Arrived
  <1>7. \A d \in Channels \ {c} : Arrived(d)'
    BY <1>3, <1>5 DEF Arrived, OutputOK
  <1>8. OutputOK'
    BY <1>5, <1>6, <1>7, OutputMoved DEF OutputOK
  <1>9. delivered' \in [Channels -> Seq(1..MaxChunks)] /\ pending' \in [Channels -> Seq(1..MaxChunks)]
    BY <1>1, <1>4, <1>3 DEF TypeOK, ChannelTypes
  <1> QED BY <1>5, <1>8, <1>9

LEMMA ReadReturnsInv ==
  ASSUME Inv, ReadReturns
  PROVE  Inv'
  <1> USE SpawnerAssumption DEF Inv
  <1> DEFINE c == waitsFor
  <1>1. c \in Channels /\ c \notin Runs /\ pending[c] # <<>> /\ ~exitEmitted[c]
    BY DEF ReadReturns, TypeOK, HostTypes, ChannelOK
  <1>2. /\ delivered' = [delivered EXCEPT ![c] = @ \o pending[c]]
        /\ pending' = [pending EXCEPT ![c] = <<>>]
        /\ UNCHANGED <<failure, channels, exit, exitEmitted, results, outcome, calls,
                       pipeVars, spawnerVars, processVars>>
        /\ host = "reading" /\ host' = "idle" /\ waitsFor' = Nobody
    BY DEF ReadReturns, Resumes
  <1>3. UNCHANGED <<relayed, written, toHost, channels, spawner>>
    BY <1>2 DEF pipeVars, spawnerVars, processVars
  <1>4. /\ delivered' \in [Channels -> Seq(1..MaxChunks)] /\ pending' \in [Channels -> Seq(1..MaxChunks)]
        /\ \A d \in Channels : Received(d)' = Received(d)
        /\ OutputOK'
    BY <1>1, <1>2, <1>3, TakesOutput
  <1>5. HostTypes' /\ PipeTypes' /\ ProcessTypes'
    BY <1>2 DEF pipeVars, spawnerVars, processVars, TypeOK, HostTypes, PipeTypes, ProcessTypes
  <1>6. ChannelTypes'
    <2>1. listening' \in [Channels -> BOOLEAN]
      BY <1>1 DEF ReadReturns, TypeOK, ChannelTypes
    <2>2. flushScheduled' \in [Channels -> BOOLEAN]
      BY DEF ReadReturns, ScheduleFlush, TypeOK, ChannelTypes
    <2> QED BY <1>2, <1>4, <2>1, <2>2 DEF TypeOK, ChannelTypes
  <1>7. ToSpawnerOK'
    BY <1>1, <1>2 DEF pipeVars, processVars, ToSpawnerOK, Births, Spawned
  <1>8. LifeOK'
    BY <1>2 DEF pipeVars, spawnerVars, processVars, LifeOK, Spawned
  <1>9. ChannelOK'
    BY <1>1, <1>2, <1>4 DEF processVars, ChannelOK, TypeOK, ChannelTypes
  <1> QED BY <1>2, <1>4, <1>5, <1>6, <1>7, <1>8, <1>9 DEF pipeVars, processVars, ToHostOK, TypeOK

LEMMA FlushInv ==
  ASSUME Inv, NEW c \in Channels, Flush(c)
  PROVE  Inv'
  <1> USE SpawnerAssumption DEF Inv
  <1>1. UNCHANGED <<host, waitsFor, failure, channels, exit, listening, results, outcome, calls,
                   pipeVars, spawnerVars, processVars>> /\ host = "idle"
    BY DEF Flush
  <1>2. UNCHANGED <<relayed, written, toHost, channels, spawner, host>>
    BY <1>1 DEF pipeVars, spawnerVars, processVars
  <1>3. /\ delivered' \in [Channels -> Seq(1..MaxChunks)] /\ pending' \in [Channels -> Seq(1..MaxChunks)]
        /\ \A d \in Channels : Received(d)' = Received(d)
        /\ \A d \in Channels : pending[d] = <<>> => pending'[d] = <<>>
        /\ OutputOK'
    <2>1. CASE listening[c]
      <3>1. delivered' = [delivered EXCEPT ![c] = @ \o pending[c]] /\ pending' = [pending EXCEPT ![c] = <<>>]
        BY <2>1 DEF Flush
      <3> QED BY <1>1, <1>2, <3>1, TakesOutput DEF TypeOK, ChannelTypes
    <2>2. CASE ~listening[c]
      <3>1. UNCHANGED <<delivered, pending>>
        BY <2>2 DEF Flush
      <3> QED BY <1>2, <3>1, OutputStays DEF Received, TypeOK, ChannelTypes
    <2> QED BY <2>1, <2>2
  <1>4. HostTypes' /\ PipeTypes' /\ ProcessTypes'
    BY <1>1 DEF pipeVars, spawnerVars, processVars, TypeOK, HostTypes, PipeTypes, ProcessTypes
  <1>5. /\ exitEmitted' \in [Channels -> BOOLEAN]
        /\ \A d \in Channels : exitEmitted'[d] => exitEmitted[d] \/ (exit[d] # "none" /\ pending'[d] = <<>>)
    BY DEF Flush, TypeOK, ChannelTypes
  <1>6. ChannelTypes'
    BY <1>1, <1>3, <1>5 DEF Flush, TypeOK, ChannelTypes
  <1>7. ToSpawnerOK'
    BY <1>1 DEF pipeVars, processVars, ToSpawnerOK, Births, Spawned
  <1>8. LifeOK'
    BY <1>1 DEF pipeVars, spawnerVars, processVars, LifeOK, Spawned
  <1>9. ChannelOK'
    BY <1>1, <1>3, <1>5 DEF processVars, ChannelOK
  <1> QED BY <1>1, <1>3, <1>4, <1>6, <1>7, <1>8, <1>9 DEF pipeVars, processVars, ToHostOK, TypeOK

(* The ends: of the host, of the spawner, of processes. *)
LEMMA HostDiesInv ==
  ASSUME Inv, HostDies
  PROVE  Inv'
  <1> USE SpawnerAssumption DEF Inv
  <1>1. HostTypes' /\ ChannelTypes' /\ ProcessTypes'
    BY DEF HostDies, channelVars, spawnerVars, processVars, TypeOK, HostTypes, ChannelTypes, ProcessTypes
  <1>2. PipeTypes'
    <2>1. toHost' \in Seq(Messages)
      BY DEF HostDies
    <2> QED BY <2>1 DEF HostDies, TypeOK, PipeTypes
  <1>3. ToSpawnerOK'
    BY DEF HostDies, channelVars, processVars, ToSpawnerOK, Births, Spawned
  <1>4. LifeOK'
    BY DEF HostDies, channelVars, spawnerVars, processVars, LifeOK, Spawned
  <1>5. ChannelOK'
    BY DEF HostDies, channelVars, processVars, ChannelOK, Received
  <1>6. toHost' = <<>> /\ host' = "dead"
    BY DEF HostDies
  <1>7. OutputOK'
    <2>1. \A c \in Channels : OnTheWay(c)' /\ NothingLost(c)'
      BY <1>6 DEF OnTheWay, NothingLost
    <2>2. \A c \in Channels : Arrived(c)'
      BY DEF HostDies, channelVars, processVars, OutputOK, Arrived, Received
    <2> QED BY <2>1, <2>2 DEF OutputOK
  <1> QED BY <1>1, <1>2, <1>3, <1>4, <1>5, <1>6, <1>7 DEF ToHostOK, TypeOK

LEMMA DecodeHalfInv ==
  ASSUME Inv, DecodeHalf
  PROVE  Inv'
  <1> USE DEF Inv
  <1>1. HostTypes' /\ ChannelTypes' /\ PipeTypes' /\ ProcessTypes'
    BY DEF DecodeHalf, channelVars, spawnerVars, processVars, TypeOK, HostTypes, ChannelTypes, PipeTypes, ProcessTypes
  <1>2. ToSpawnerOK' /\ ToHostOK'
    BY DEF DecodeHalf, channelVars, processVars, ToSpawnerOK, ToHostOK, Births, Spawned
  <1>3. LifeOK'
    BY DEF DecodeHalf, channelVars, spawnerVars, processVars, LifeOK, Spawned
  <1>4. ChannelOK'
    BY DEF DecodeHalf, channelVars, processVars, ChannelOK, Received
  <1>5. OutputOK'
    BY OutputStays DEF DecodeHalf, channelVars, spawnerVars, processVars
  <1> QED BY <1>1, <1>2, <1>3, <1>4, <1>5 DEF TypeOK

LEMMA StopsInv ==
  ASSUME Inv, StdoutBreaks \/ StdinEnds \/ Exits
  PROVE  Inv'
  <1> USE DEF Inv
  <1>1. UNCHANGED <<hostVars, pipeVars, process, written, relayed>>
    BY DEF StdoutBreaks, StdinEnds, Exits, StopAll, processVars
  <1>2. HostTypes' /\ ChannelTypes' /\ PipeTypes'
    BY <1>1 DEF hostVars, channelVars, pipeVars, TypeOK, HostTypes, ChannelTypes, PipeTypes
  <1>3. stopping' \subseteq Channels
    BY DEF StdoutBreaks, StdinEnds, Exits, StopAll, children, processVars, TypeOK, ProcessTypes
  <1>4. ProcessTypes'
    BY <1>1, <1>3 DEF StdoutBreaks, StdinEnds, Exits, StopAll, TypeOK, ProcessTypes
  <1>5. ToSpawnerOK' /\ ToHostOK'
    BY <1>1 DEF hostVars, channelVars, pipeVars, ToSpawnerOK, ToHostOK, Births, Spawned
  <1>6. LifeOK'
    BY <1>1 DEF StdoutBreaks, StdinEnds, Exits, StopAll, hostVars, channelVars, pipeVars, LifeOK, Spawned
  <1>7. ChannelOK'
    BY <1>1 DEF hostVars, channelVars, ChannelOK, Received
  <1>8. OutputOK'
    BY <1>1, OutputStays DEF StdoutBreaks, StdinEnds, Exits, StopAll, hostVars, channelVars, pipeVars
  <1> QED BY <1>2, <1>4, <1>5, <1>6, <1>7, <1>8 DEF TypeOK

LEMMA SpawnerDiesInv ==
  ASSUME Inv, SpawnerDies
  PROVE  Inv'
  <1> USE DEF Inv
  <1>1. UNCHANGED <<hostVars, half, process, written, relayed>> /\ spawner' = "dead" /\ toSpawner' = <<>>
    BY DEF SpawnerDies
  <1>2. PICK n \in 0..Len(toHost) : toHost' = SubSeq(toHost, 1, n)
    BY DEF SpawnerDies
  <1>3. toHost \in Seq(Messages) /\ Len(toHost) \in Nat
    BY DEF TypeOK, PipeTypes
  <1>4. /\ toHost' \in Seq(Messages) /\ Len(toHost') = n
        /\ DOMAIN toHost' = 1..n /\ DOMAIN toHost = 1..Len(toHost)
        /\ \A i \in 1..n : toHost'[i] = toHost[i]
    BY <1>2, <1>3
  <1>5. HostTypes' /\ ChannelTypes'
    BY <1>1 DEF hostVars, channelVars, TypeOK, HostTypes, ChannelTypes
  <1>6. PipeTypes'
    BY <1>1, <1>4 DEF TypeOK, PipeTypes
  <1>7. ProcessTypes'
    BY <1>1 DEF SpawnerDies, children, TypeOK, ProcessTypes
  <1>8. ToSpawnerOK'
    BY <1>1 DEF ToSpawnerOK
  <1>9. ToHostOK'
    BY <1>1, <1>4 DEF ToHostOK
  <1>10. LifeOK'
    BY <1>1 DEF SpawnerDies, hostVars, channelVars, LifeOK, Spawned
  <1>11. ChannelOK'
    BY <1>1 DEF hostVars, channelVars, ChannelOK, Received
  <1>12. OutputOK'
    <2>1. UNCHANGED <<delivered, pending, channels, relayed, written>>
      BY <1>1 DEF hostVars, channelVars
    <2>2. \A c \in Channels : Received(c)' = Received(c) /\ Arrived(c)'
      BY <2>1 DEF OutputOK, Arrived, Received
    <2>3. ASSUME NEW c \in Channels, NEW i \in 1..n, NEW m, Before(i, c, m) PROVE Before(i, c, m)'
      <3>1. \A j \in 1..i - 1 : toHost'[j] = toHost[j]
        BY <1>3, <1>4
      <3> QED BY <2>2, <2>3, <3>1 DEF Before
    <2>4. ASSUME NEW c \in Channels, OnTheWay(c) PROVE OnTheWay(c)'
      <3>1. ASSUME NEW i \in 1..n, NEW m, Fits(i, c, m) PROVE Fits(i, c, m)'
        <4>1. \A j \in 1..i - 1 : toHost'[j] = toHost[j]
          BY <1>3, <1>4
        <4> QED BY <2>1, <2>2, <2>3, <3>1, <4>1 DEF Fits
      <3> QED BY <1>3, <1>4, <2>4, <3>1 DEF OnTheWay
    <2> QED BY <1>1, <2>1, <2>2, <2>4 DEF OutputOK, NothingLost
  <1> QED BY <1>5, <1>6, <1>7, <1>8, <1>9, <1>10, <1>11, <1>12 DEF TypeOK

LEMMA EndInv ==
  ASSUME Inv, NEW p \in Ids, End(p)
  PROVE  Inv'
  <1> USE DEF Inv
  <1>1. /\ UNCHANGED <<hostVars, pipeVars, spawnerVars, stopping, written, relayed>>
        /\ process' = [process EXCEPT ![p] = "exited"] /\ process[p] = "running"
    BY DEF End
  <1>2. HostTypes' /\ ChannelTypes' /\ PipeTypes' /\ ProcessTypes'
    BY <1>1 DEF hostVars, channelVars, pipeVars, spawnerVars, TypeOK, HostTypes, ChannelTypes, PipeTypes, ProcessTypes
  <1>3. \A q \in Ids : process'[q] = process[q] \/ (process[q] = "running" /\ process'[q] = "exited")
    BY <1>1 DEF TypeOK, ProcessTypes
  <1>4. ToSpawnerOK'
    BY <1>1, <1>3 DEF hostVars, channelVars, pipeVars, ToSpawnerOK, Births, Spawned, TypeOK, PipeTypes, Messages
  <1>5. ToHostOK'
    BY <1>1, <1>3 DEF pipeVars, ToHostOK, Ids
  <1>6. LifeOK'
    BY <1>1, <1>3 DEF hostVars, channelVars, pipeVars, spawnerVars, LifeOK, Spawned, Ids, TypeOK, HostTypes
  <1>7. ChannelOK'
    BY <1>1, <1>3 DEF hostVars, channelVars, ChannelOK, Received, Ids
  <1>8. OutputOK'
    BY <1>1, OutputStays DEF hostVars, channelVars, pipeVars, spawnerVars
  <1> QED BY <1>2, <1>4, <1>5, <1>6, <1>7, <1>8 DEF TypeOK

(* The spawner process and the processes it has started. *)
LEMMA HandleInv ==
  ASSUME Inv, Handle
  PROVE  Inv'
  <1> USE SpawnerAssumption DEF Inv
  <1> DEFINE m == Head(toSpawner)
  <1>1. /\ UNCHANGED <<hostVars, toHost, half, spawnerVars, written, relayed>>
        /\ spawner = "running" /\ toSpawner # <<>> /\ toSpawner' = Tail(toSpawner)
    BY DEF Handle
  <1>2. /\ m \in Messages /\ m = toSpawner[1] /\ 1 \in DOMAIN toSpawner
        /\ toSpawner' \in Seq(Messages) /\ Len(toSpawner) \in Nat
        /\ DOMAIN toSpawner' = 1..Len(toSpawner) - 1 /\ DOMAIN toSpawner = 1..Len(toSpawner)
        /\ \A i \in 1..Len(toSpawner) - 1 : toSpawner'[i] = toSpawner[i + 1]
    BY <1>1, TailFacts DEF TypeOK, PipeTypes
  <1>3. m.id \in Ids
    BY <1>2 DEF Messages
  <1>4. /\ process' \in [Ids -> {"unborn", "running", "exited", "closed"}]
        /\ \A p \in Ids : \/ process'[p] = process[p]
                          \/ p = m.id /\ m.type \in Births /\ process[p] = "unborn"
                                /\ process'[p] \in {"running", "exited"}
        /\ stopping' \subseteq Channels
    <2>1. m.type \in Births => process[m.id] = "unborn"
      BY <1>2 DEF ToSpawnerOK
    <2>2. CASE m.type \in Births
      <3>1. PICK s \in {"running", "exited"} : process' = [process EXCEPT ![m.id] = s]
        BY <2>2 DEF Handle, Births
      <3>2. stopping' = stopping
        BY <2>2 DEF Handle, Births
      <3> QED BY <1>3, <2>1, <2>2, <3>1, <3>2 DEF TypeOK, ProcessTypes
    <2>3. CASE m.type \notin Births
      <3>1. process' = process /\ stopping' \subseteq stopping \cup children
        BY <2>3 DEF Handle, Births
      <3> QED BY <3>1 DEF children, TypeOK, ProcessTypes
    <2> QED BY <2>2, <2>3
  <1>5. HostTypes' /\ ChannelTypes' /\ PipeTypes' /\ ProcessTypes'
    BY <1>1, <1>2, <1>4 DEF hostVars, channelVars, spawnerVars, TypeOK, HostTypes, ChannelTypes, PipeTypes, ProcessTypes
  <1>6. ToSpawnerOK'
    <2>1. \A i \in DOMAIN toSpawner' : i + 1 \in DOMAIN toSpawner /\ toSpawner'[i] = toSpawner[i + 1]
                                        /\ i + 1 # 1 /\ i \in Nat
      BY <1>2
    <2>2. \A i \in DOMAIN toSpawner' : toSpawner[i + 1].type \in Births =>
            (m.type \in Births => toSpawner[i + 1].id # m.id) /\ toSpawner[i + 1].id \in Ids
      <3> SUFFICES ASSUME NEW i \in DOMAIN toSpawner', toSpawner[i + 1].type \in Births
                   PROVE  (m.type \in Births => toSpawner[i + 1].id # m.id) /\ toSpawner[i + 1].id \in Ids
        OBVIOUS
      <3>1. i + 1 \in DOMAIN toSpawner /\ i + 1 # 1
        BY <2>1
      <3>2. toSpawner[i + 1] \in Messages
        BY <3>1 DEF TypeOK, PipeTypes
      <3>3. toSpawner[i + 1].id \in Ids
        BY <3>2 DEF Messages
      <3>4. m.type \in Births => toSpawner[i + 1].id # m.id
        BY <1>2, <3>1 DEF ToSpawnerOK
      <3> QED BY <3>3, <3>4
    <2>3. \A i \in DOMAIN toSpawner' : toSpawner'[i].type \in Births => process'[toSpawner'[i].id] = "unborn"
      BY <1>4, <2>1, <2>2 DEF ToSpawnerOK
    <2>4. \A i, j \in DOMAIN toSpawner' :
            i # j /\ toSpawner'[i].type \in Births /\ toSpawner'[j].type \in Births =>
              toSpawner'[i].id # toSpawner'[j].id
      BY <2>1 DEF ToSpawnerOK
    <2>5. Spawned' = Spawned /\ waitsFor' = waitsFor /\ host' = host
      BY <1>1 DEF hostVars, channelVars, Spawned
    <2> QED BY <2>1, <2>3, <2>4, <2>5 DEF ToSpawnerOK
  <1>7. ToHostOK'
    BY <1>1, <1>4 DEF ToHostOK, Ids
  <1>8. LifeOK'
    <2>1. m.type \in Births /\ m.id \in Channels => m.id \in Spawned
      BY <1>2 DEF ToSpawnerOK, Births
    <2>2. stdinOver' = FALSE /\ spawner' = "running"
      BY <1>1 DEF spawnerVars, LifeOK, TypeOK, ProcessTypes
    <2>3. results' \subseteq Runs
      BY <1>5 DEF HostTypes
    <2> QED BY <1>1, <1>4, <2>1, <2>2, <2>3 DEF hostVars, channelVars, spawnerVars, LifeOK, Spawned, Ids
  <1>9. ChannelOK'
    BY <1>1, <1>4 DEF hostVars, channelVars, ChannelOK, LifeOK, Received, Ids
  <1>10. OutputOK'
    BY <1>1, OutputStays DEF hostVars, channelVars, spawnerVars
  <1> QED BY <1>5, <1>6, <1>7, <1>8, <1>9, <1>10 DEF TypeOK

LEMMA WriteInv ==
  ASSUME Inv, NEW c \in Channels, Write(c)
  PROVE  Inv'
  <1> USE SpawnerAssumption DEF Inv
  <1>1. /\ UNCHANGED <<hostVars, pipeVars, spawnerVars, process, stopping, relayed>>
        /\ process[c] = "running" /\ written[c] < MaxChunks
        /\ written' = [written EXCEPT ![c] = @ + 1]
    BY DEF Write
  <1>2. /\ written' \in [Channels -> 0..MaxChunks]
        /\ \A d \in Channels \ {c} : written'[d] = written[d]
        /\ written'[c] = written[c] + 1 /\ written[c] \in Nat
    BY <1>1 DEF TypeOK, ProcessTypes
  <1>3. HostTypes' /\ ChannelTypes' /\ PipeTypes' /\ ProcessTypes'
    BY <1>1, <1>2 DEF hostVars, channelVars, pipeVars, spawnerVars, TypeOK, HostTypes, ChannelTypes, PipeTypes, ProcessTypes
  <1>4. ToSpawnerOK' /\ ToHostOK'
    BY <1>1 DEF hostVars, channelVars, pipeVars, ToSpawnerOK, ToHostOK, Births, Spawned
  <1>5. LifeOK'
    <2>1. /\ UNCHANGED <<failure, spawner, hostGone, stdinOver, toSpawner, host, waitsFor, results, outcome>>
          /\ UNCHANGED <<process, relayed>> /\ Spawned' = Spawned
      BY <1>1 DEF hostVars, channelVars, pipeVars, spawnerVars, Spawned
    <2>2. ASSUME NEW d \in Channels
          PROVE  /\ relayed'[d] <= written'[d]
                 /\ process'[d] = "closed" => relayed'[d] = written'[d]
                 /\ d \notin Spawned' => process'[d] = "unborn"
                 /\ process'[d] = "unborn" => written'[d] = 0
      <3>1. relayed'[d] = relayed[d] /\ process'[d] = process[d]
        BY <2>1
      <3>2. relayed[d] \in Nat /\ written[d] \in Nat
        BY DEF TypeOK, ProcessTypes
      <3> QED BY <1>1, <1>2, <2>1, <3>1, <3>2 DEF LifeOK
    <2>3. \A r \in results' : process'[r] = "closed"
      BY <2>1 DEF LifeOK
    <2> QED BY <2>1, <2>2, <2>3 DEF LifeOK
  <1>6. ChannelOK'
    BY <1>1, <1>2 DEF hostVars, channelVars, ChannelOK, Received
  <1>7. OutputOK'
    <2>1. UNCHANGED <<delivered, pending, relayed, toHost, channels, spawner, host>>
      BY <1>1 DEF hostVars, channelVars, pipeVars, spawnerVars
    <2>2. ASSUME NEW d \in Channels PROVE Received(d)' = Received(d)
      BY <2>1 DEF Received
    <2>3. ASSUME NEW d \in Channels, NEW i, NEW n PROVE Before(i, d, n)' <=> Before(i, d, n)
      BY <2>1, <2>2 DEF Before
    <2>4. ASSUME NEW d \in Channels, OnTheWay(d) PROVE OnTheWay(d)'
      <3>1. d = c => \A i \in DOMAIN toHost : ~(toHost[i].type = "exit" /\ toHost[i].id = d)
        BY <1>1 DEF ToHostOK
      <3> QED BY <1>2, <2>1, <2>2, <2>3, <2>4, <3>1 DEF OnTheWay, Fits
    <2>5. ASSUME NEW d \in Channels, NothingLost(d) PROVE NothingLost(d)'
      <3>1. Len(toHost)' = Len(toHost) /\ relayed[d]' = relayed[d]
        BY <2>1
      <3>2. Before(Len(toHost) + 1, d, relayed[d])' <=> Before(Len(toHost) + 1, d, relayed[d])
        BY <2>1, <2>2, <3>1 DEF Before
      <3> QED BY <2>1, <2>5, <3>2 DEF NothingLost
    <2>6. \A d \in Channels : Arrived(d)'
      BY <2>1, <2>2 DEF OutputOK, Arrived
    <2> QED BY <2>1, <2>4, <2>5, <2>6 DEF OutputOK
  <1> QED BY <1>3, <1>4, <1>5, <1>6, <1>7 DEF TypeOK

(* The spawner process writes a message to the host. *)
LEMMA Said ==
  ASSUME Inv, NEW m \in Messages, toHost' = Append(toHost, m), UNCHANGED <<delivered, pending, written>>,
         NEW c \in Channels, relayed[c] <= relayed'[c], relayed'[c] \in Nat
  PROVE  /\ toHost' \in Seq(Messages) /\ Len(toHost) \in Nat /\ Len(toHost') = Len(toHost) + 1
         /\ DOMAIN toHost' = 1..Len(toHost) + 1 /\ toHost'[Len(toHost) + 1] = m
         /\ \A i \in 1..Len(toHost) : i \in DOMAIN toHost /\ toHost'[i] = toHost[i]
         /\ Received(c)' = Received(c) /\ Received(c) \in Nat
         /\ \A i \in 1..Len(toHost) + 1, n \in Int : Before(i, c, n) => Before(i, c, n)'
         /\ OnTheWay(c) => \A i \in 1..Len(toHost) : Fits(i, c, toHost[i])'
  <1> USE DEF Inv
  <1>1. toHost \in Seq(Messages) /\ relayed[c] \in Nat
    BY DEF TypeOK, PipeTypes, ProcessTypes
  <1>2. /\ toHost' \in Seq(Messages) /\ Len(toHost) \in Nat /\ Len(toHost') = Len(toHost) + 1
        /\ DOMAIN toHost' = 1..Len(toHost) + 1 /\ toHost'[Len(toHost) + 1] = m
        /\ \A i \in 1..Len(toHost) : i \in DOMAIN toHost /\ toHost'[i] = toHost[i]
    BY <1>1, AppendFacts
  <1>3. Received(c)' = Received(c) /\ Received(c) \in Nat
    BY DEF Received, TypeOK, ChannelTypes
  <1>4. ASSUME NEW i \in 1..Len(toHost) + 1, NEW n \in Int, Before(i, c, n) PROVE Before(i, c, n)'
    <2>1. \A j \in 1..i - 1 : toHost'[j] = toHost[j]
      BY <1>2
    <2> QED BY <1>3, <1>4, <2>1 DEF Before
  <1>5. ASSUME NEW i \in 1..Len(toHost), NEW x \in Messages, Fits(i, c, x) PROVE Fits(i, c, x)'
    <2>1. \A j \in 1..i - 1 : toHost'[j] = toHost[j]
      BY <1>2
    <2>2. x.chunk \in Int /\ written[c] \in Int /\ i \in 1..Len(toHost) + 1 /\ x.chunk - 1 \in Int
      BY <1>2, SpawnerAssumption DEF Messages, TypeOK, ProcessTypes
    <2>3. Before(i, c, x.chunk - 1) => Before(i, c, x.chunk - 1)'
      BY <1>4, <2>2
    <2>4. Before(i, c, written[c]) => Before(i, c, written[c])'
      BY <1>4, <2>2
    <2>5. x.chunk <= relayed[c] => x.chunk <= relayed'[c]
      BY <1>1, <2>2
    <2> QED BY <1>3, <1>5, <2>1, <2>3, <2>4, <2>5 DEF Fits
  <1>6. ASSUME OnTheWay(c), NEW i \in 1..Len(toHost) PROVE Fits(i, c, toHost[i])'
    <2>1. toHost[i] \in Messages /\ Fits(i, c, toHost[i]) /\ toHost'[i] = toHost[i]
      BY <1>1, <1>2, <1>6 DEF OnTheWay
    <2> QED BY <1>5, <2>1
  <1> QED BY <1>2, <1>3, <1>4, <1>6

LEMMA RelayInv ==
  ASSUME Inv, NEW c \in Channels, Relay(c)
  PROVE  Inv'
  <1> USE SpawnerAssumption DEF Inv
  <1>a. PICK m \in Messages : m = Message("stdout", c, relayed[c] + 1)
    BY DEF Relay, TypeOK, ProcessTypes, Messages, Message, Ids
  <1>1. /\ UNCHANGED <<hostVars, toSpawner, half, spawnerVars, process, stopping, written>>
        /\ spawner = "running" /\ relayed[c] < written[c]
        /\ relayed' = [relayed EXCEPT ![c] = @ + 1]
        /\ toHost' = IF hostGone \/ host = "dead" THEN toHost ELSE Append(toHost, m)
    BY <1>a DEF Relay, Say
  <1>2. /\ relayed[c] \in Nat /\ written[c] \in Nat /\ written[c] <= MaxChunks
        /\ m.type = "stdout" /\ m.id = c /\ m.chunk = relayed[c] + 1
    BY <1>1, <1>a DEF TypeOK, ProcessTypes, Message
  <1>3. /\ relayed' \in [Channels -> 0..MaxChunks] /\ relayed'[c] = relayed[c] + 1
        /\ \A d \in Channels \ {c} : relayed'[d] = relayed[d]
        /\ \A d \in Channels : relayed[d] <= relayed'[d] /\ relayed'[d] \in Nat
    BY <1>1, <1>2 DEF TypeOK, ProcessTypes
  <1>4. process[c] \notin {"unborn", "closed"}
    BY <1>1, <1>2 DEF LifeOK
  <1>5. HostTypes' /\ ChannelTypes' /\ ProcessTypes'
    BY <1>1, <1>3 DEF hostVars, channelVars, spawnerVars, TypeOK, HostTypes, ChannelTypes, ProcessTypes
  <1>6. UNCHANGED <<delivered, pending, written, channels, spawner, host, process>>
    BY <1>1 DEF hostVars, channelVars, spawnerVars
  <1>7. PipeTypes' /\ ToHostOK'
    <2>1. CASE toHost' = toHost
      BY <1>1, <1>6, <2>1 DEF TypeOK, PipeTypes, ToHostOK
    <2>2. CASE toHost' = Append(toHost, m)
      <3>1. /\ toHost' \in Seq(Messages) /\ DOMAIN toHost' = 1..Len(toHost) + 1
            /\ toHost'[Len(toHost) + 1] = m /\ Len(toHost) \in Nat
            /\ \A i \in 1..Len(toHost) : i \in DOMAIN toHost /\ toHost'[i] = toHost[i]
        BY <1>2, <2>2, AppendFacts DEF TypeOK, PipeTypes
      <3>2. m.chunk >= 1
        BY <1>2
      <3>3. \A i \in DOMAIN toHost' : toHost'[i] = m \/ (i \in DOMAIN toHost /\ toHost'[i] = toHost[i])
        BY <3>1
      <3>4. ToHostOK'
        BY <1>2, <1>4, <1>6, <3>2, <3>3 DEF ToHostOK
      <3> QED BY <1>1, <3>1, <3>4 DEF TypeOK, PipeTypes
    <2> QED BY <1>1, <2>1, <2>2
  <1>8. ToSpawnerOK'
    BY <1>1 DEF hostVars, channelVars, ToSpawnerOK, Births, Spawned
  <1>9. LifeOK'
    <2>1. /\ UNCHANGED <<failure, spawner, hostGone, stdinOver, toSpawner, host, waitsFor, results, outcome>>
          /\ UNCHANGED <<process, written>> /\ Spawned' = Spawned
      BY <1>1 DEF hostVars, channelVars, spawnerVars, Spawned
    <2>2. ASSUME NEW d \in Channels
          PROVE  /\ relayed'[d] <= written[d]
                 /\ process[d] = "closed" => relayed'[d] = written[d]
      BY <1>1, <1>2, <1>3, <1>4 DEF LifeOK
    <2>3. \A r \in results' : process'[r] = "closed"
      BY <2>1 DEF LifeOK
    <2> QED BY <2>1, <2>2, <2>3 DEF LifeOK
  <1>10. ChannelOK'
    BY <1>1 DEF hostVars, channelVars, ChannelOK, Received
  <1>11. OutputOK'
    <2>1. ASSUME NEW d \in Channels
          PROVE  Arrived(d)'
      <3>1. Received(d)' = Received(d) /\ Received(d) \in Nat /\ relayed[d] \in Nat
        BY <1>6 DEF Received, TypeOK, ChannelTypes, ProcessTypes
      <3>2. Received(d)' <= relayed'[d]
        BY <1>3, <3>1 DEF OutputOK, Arrived
      <3> QED BY <1>6, <3>2 DEF OutputOK, Arrived
    <2>2. CASE hostGone \/ host = "dead"
      <3>1. host = "dead" /\ toHost' = toHost
        BY <1>1, <2>2 DEF LifeOK
      <3>2. ASSUME NEW d \in Channels, OnTheWay(d) PROVE OnTheWay(d)'
        <4>1. Received(d)' = Received(d)
          BY <1>6 DEF Received
        <4>2. ASSUME NEW i, NEW n PROVE Before(i, d, n)' <=> Before(i, d, n)
          BY <3>1, <4>1 DEF Before
        <4>3. relayed[d] \in Nat /\ \A i \in DOMAIN toHost : toHost[i].chunk \in Nat
          BY InPipe DEF TypeOK, ProcessTypes
        <4>4. \A i \in DOMAIN toHost : toHost[i].chunk <= relayed[d] => toHost[i].chunk <= relayed'[d]
          BY <1>3, <4>3
        <4> QED BY <1>6, <3>1, <3>2, <4>1, <4>2, <4>4 DEF OnTheWay, Fits
      <3> QED BY <1>6, <2>1, <3>1, <3>2 DEF OutputOK, NothingLost
    <2>3. CASE ~(hostGone \/ host = "dead")
      <3>1. toHost' = Append(toHost, m)
        BY <1>1, <2>3
      <3>2. ASSUME NEW d \in channels PROVE OnTheWay(d)' /\ NothingLost(d)'
        <4>1. d \in Channels /\ OnTheWay(d) /\ Before(Len(toHost) + 1, d, relayed[d])
          BY <1>1, <2>3, <3>2 DEF OutputOK, NothingLost, TypeOK, ChannelTypes
        <4>2. /\ DOMAIN toHost' = 1..Len(toHost) + 1 /\ toHost'[Len(toHost) + 1] = m /\ Len(toHost) \in Nat
              /\ Len(toHost') = Len(toHost) + 1
              /\ \A i \in 1..Len(toHost) : i \in DOMAIN toHost /\ toHost'[i] = toHost[i]
              /\ Received(d)' = Received(d) /\ Received(d) \in Nat
              /\ \A i \in 1..Len(toHost) + 1, n \in Int : Before(i, d, n) => Before(i, d, n)'
              /\ \A i \in 1..Len(toHost) : Fits(i, d, toHost[i])'
          BY <1>2, <1>3, <1>6, <3>1, <4>1, Said
        <4>3. PICK l \in Nat, r \in Nat : l = Len(toHost) /\ r = relayed[d]
          BY <4>1, <4>2 DEF TypeOK, ProcessTypes
        <4>4. Before(l + 1, d, r)'
          BY <4>1, <4>2, <4>3
        <4>5. Fits(l + 1, d, m)'
          <5>1. CASE d # c
            BY <1>2, <5>1 DEF Fits
          <5>2. CASE d = c
            <6>1. /\ Received(c) <= r
                  /\ \A j \in 1..l :
                       toHost[j].type = "stdout" /\ toHost[j].id = c => toHost[j].chunk <= r
              BY <4>1, <4>2, <4>3, <5>2 DEF OutputOK, Arrived, OnTheWay, Fits
            <6>2. \A j \in 1..l :
                    toHost'[j].type = "stdout" /\ toHost'[j].id = c => toHost'[j].chunk < m.chunk
              <7>1. \A j \in 1..l : toHost[j].chunk \in Nat
                BY <4>2, <4>3, InPipe
              <7> QED BY <1>2, <4>2, <4>3, <5>2, <6>1, <7>1
            <6>3. Received(c)' < m.chunk /\ m.chunk <= relayed'[c] /\ m.chunk - 1 = r
              BY <1>2, <1>3, <4>2, <4>3, <5>2, <6>1
            <6> QED BY <1>2, <4>3, <4>4, <5>2, <6>2, <6>3 DEF Fits
          <5> QED BY <5>1, <5>2
        <4>6. OnTheWay(d)'
          <5>1. \A i \in 1..l : Fits(i, d, toHost[i])'
            BY <4>2, <4>3
          <5>2. toHost'[l + 1] = m /\ DOMAIN toHost' = 1..l + 1
            BY <4>2, <4>3
          <5> QED BY <4>5, <5>1, <5>2, <4>3 DEF OnTheWay
        <4>7. NothingLost(d)'
          <5>1. PICK q \in Nat : q = relayed'[d]
            BY <1>3, <4>1
          <5>2. Before(l + 2, d, q)'
            <6>1. d = c => q = r + 1 /\ m = Message("stdout", d, q)
              BY <1>a, <1>3, <4>3, <5>1
            <6>2. d # c => q = r
              BY <1>3, <4>1, <4>3, <5>1
            <6>3. toHost'[l + 1] = m
              BY <4>2, <4>3
            <6> QED BY <4>2, <4>3, <4>4, <6>1, <6>2, <6>3 DEF Before
          <5>3. l + 2 = Len(toHost') + 1
            BY <4>2, <4>3
          <5> QED BY <5>1, <5>2, <5>3 DEF NothingLost
        <4> QED BY <4>6, <4>7
      <3> QED BY <1>6, <2>1, <3>2 DEF OutputOK
    <2> QED BY <1>6, <2>1, <2>2, <2>3 DEF OutputOK
  <1> QED BY <1>5, <1>7, <1>8, <1>9, <1>10, <1>11 DEF TypeOK

LEMMA CloseInv ==
  ASSUME Inv, NEW p \in Ids, Close(p)
  PROVE  Inv'
  <1> USE SpawnerAssumption DEF Inv
  <1>1. PICK m \in Messages : m = Message(IF p \in Runs THEN "result" ELSE "exit", p, 0)
    <2>1. Message("result", p, 0) \in Messages /\ Message("exit", p, 0) \in Messages
      BY DEF Messages, Message
    <2> QED BY <2>1
  <1>2. /\ UNCHANGED <<hostVars, toSpawner, half, spawnerVars, stopping, written, relayed>>
        /\ spawner = "running" /\ process[p] = "exited" /\ (p \in Channels => relayed[p] = written[p])
        /\ process' = [process EXCEPT ![p] = "closed"]
        /\ toHost' = IF hostGone \/ host = "dead" THEN toHost ELSE Append(toHost, m)
    BY <1>1 DEF Close, Say
  <1>3. m.id = p /\ m.type = (IF p \in Runs THEN "result" ELSE "exit") /\ (p \in Channels <=> p \notin Runs)
    BY <1>1 DEF Message, Ids
  <1>4. /\ process' \in [Ids -> {"unborn", "running", "exited", "closed"}] /\ process'[p] = "closed"
        /\ \A q \in Ids \ {p} : process'[q] = process[q]
        /\ \A q \in Ids : process'[q] = "unborn" <=> process[q] = "unborn"
        /\ \A q \in Ids : process[q] = "closed" => process'[q] = "closed"
    BY <1>2 DEF TypeOK, ProcessTypes
  <1>5. HostTypes' /\ ChannelTypes' /\ ProcessTypes'
    BY <1>2, <1>4 DEF hostVars, channelVars, spawnerVars, TypeOK, HostTypes, ChannelTypes, ProcessTypes
  <1>6. UNCHANGED <<delivered, pending, written, relayed, channels, spawner, host>>
    BY <1>2 DEF hostVars, channelVars, spawnerVars
  <1>7. PipeTypes' /\ ToHostOK'
    <2>1. CASE toHost' = toHost
      BY <1>2, <1>4, <2>1, InPipe DEF TypeOK, PipeTypes, ToHostOK
    <2>2. CASE toHost' = Append(toHost, m)
      <3>1. /\ toHost' \in Seq(Messages)
            /\ \A i \in DOMAIN toHost' : toHost'[i] = m \/ (i \in DOMAIN toHost /\ toHost'[i] = toHost[i])
        <4>1. toHost \in Seq(Messages)
          BY DEF TypeOK, PipeTypes
        <4> QED BY <2>2, <4>1, AppendFacts
      <3>2. ToHostOK'
        BY <1>3, <1>4, <3>1, InPipe DEF ToHostOK
      <3> QED BY <1>2, <3>1, <3>2 DEF TypeOK, PipeTypes
    <2> QED BY <1>2, <2>1, <2>2
  <1>8. ToSpawnerOK'
    <2>1. UNCHANGED <<toSpawner, waitsFor, host>> /\ Spawned' = Spawned
      BY <1>2 DEF hostVars, channelVars, Spawned
    <2>2. \A i \in DOMAIN toSpawner : toSpawner[i].id \in Ids
      <3>1. \A i \in DOMAIN toSpawner : toSpawner[i] \in Messages
        BY DEF TypeOK, PipeTypes
      <3> QED BY <3>1 DEF Messages
    <2> QED BY <1>4, <2>1, <2>2 DEF ToSpawnerOK
  <1>9. LifeOK'
    <2>1. /\ UNCHANGED <<failure, spawner, hostGone, stdinOver, toSpawner, host, waitsFor, results, outcome>>
          /\ UNCHANGED <<relayed, written>> /\ Spawned' = Spawned
      BY <1>2 DEF hostVars, channelVars, spawnerVars, Spawned
    <2>2. ASSUME NEW d \in Channels
          PROVE  /\ process'[d] = "closed" => relayed[d] = written[d]
                 /\ d \notin Spawned => process'[d] = "unborn"
                 /\ process'[d] = "unborn" => written[d] = 0
      BY <1>2, <1>4 DEF LifeOK, Ids
    <2>3. \A r \in results' : process'[r] = "closed"
      BY <1>4, <2>1 DEF LifeOK, TypeOK, HostTypes, Ids
    <2> QED BY <2>1, <2>2, <2>3 DEF LifeOK
  <1>10. ChannelOK'
    BY <1>2, <1>4 DEF hostVars, channelVars, ChannelOK, Received, Ids
  <1>11. OutputOK'
    <2>1. CASE hostGone \/ host = "dead"
      <3>1. toHost' = toHost /\ channels' = channels
        BY <1>2, <1>6, <2>1 DEF LifeOK
      <3> QED BY <1>6, <3>1, OutputStays
    <2>2. CASE ~(hostGone \/ host = "dead")
      <3>1. toHost' = Append(toHost, m)
        BY <1>2, <2>2
      <3>2. \A d \in Channels : Arrived(d)'
        BY <1>6 DEF OutputOK, Arrived, Received
      <3>3. ASSUME NEW d \in channels PROVE OnTheWay(d)' /\ NothingLost(d)'
        <4>1. /\ d \in Channels /\ OnTheWay(d) /\ Before(Len(toHost) + 1, d, relayed[d])
              /\ relayed[d] \in Nat /\ relayed'[d] = relayed[d]
          BY <1>2, <1>6, <2>2, <3>3 DEF OutputOK, NothingLost, TypeOK, ChannelTypes, ProcessTypes
        <4>2. /\ DOMAIN toHost' = 1..Len(toHost) + 1 /\ toHost'[Len(toHost) + 1] = m /\ Len(toHost) \in Nat
              /\ Len(toHost') = Len(toHost) + 1
              /\ Received(d)' = Received(d) /\ Received(d) \in Nat
              /\ \A i \in 1..Len(toHost) + 1, n \in Int : Before(i, d, n) => Before(i, d, n)'
              /\ \A i \in 1..Len(toHost) : Fits(i, d, toHost[i])'
          BY <1>6, <3>1, <4>1, Said
        <4>3. PICK l \in Nat, r \in Nat : l = Len(toHost) /\ r = relayed[d]
          BY <4>1, <4>2
        <4>4. Before(l + 1, d, r)'
          BY <4>1, <4>2, <4>3
        <4>5. Fits(l + 1, d, m)'
          <5>1. CASE d # p
            BY <1>3, <5>1 DEF Fits
          <5>2. CASE d = p
            <6>1. written'[d] = r /\ m.type # "stdout"
              BY <1>2, <1>3, <1>6, <4>1, <4>3, <5>2
            <6> QED BY <4>4, <6>1 DEF Fits
          <5> QED BY <5>1, <5>2
        <4>6. OnTheWay(d)'
          <5>1. \A i \in 1..l : Fits(i, d, toHost[i])'
            BY <4>2, <4>3
          <5>2. toHost'[l + 1] = m /\ DOMAIN toHost' = 1..l + 1
            BY <4>2, <4>3
          <5> QED BY <4>5, <5>1, <5>2, <4>3 DEF OnTheWay
        <4>7. NothingLost(d)'
          <5>1. Before(l + 2, d, r)'
            BY <4>2, <4>3, <4>4 DEF Before
          <5>2. l + 2 = Len(toHost') + 1 /\ r = relayed'[d]
            BY <4>1, <4>2, <4>3
          <5> QED BY <5>1, <5>2 DEF NothingLost
        <4> QED BY <4>6, <4>7
      <3> QED BY <1>6, <3>2, <3>3 DEF OutputOK
    <2> QED BY <2>1, <2>2
  <1> QED BY <1>5, <1>7, <1>8, <1>9, <1>10, <1>11 DEF TypeOK

(* The host receives a message. *)
LEMMA TakesMessage ==
  ASSUME Inv, toHost # <<>>, toHost' = Tail(toHost), UNCHANGED <<relayed, written>>,
         NEW c \in Channels, OnTheWay(c), NEW r \in Nat, Received(c)' = r, Received(c) <= r,
         NEW m, m = Head(toHost),
         \A k \in Nat : k > r => m # Message("stdout", c, k),
         \A i \in 2..Len(toHost) : toHost[i].type = "stdout" /\ toHost[i].id = c => toHost[i].chunk > r
  PROVE  /\ OnTheWay(c)'
         /\ Before(Len(toHost) + 1, c, relayed[c]) => Before(Len(toHost) + 1, c, relayed[c])'
  <1> USE DEF Inv
  <1>1. /\ m = toHost[1] /\ DOMAIN toHost' = 1..Len(toHost) - 1 /\ DOMAIN toHost = 1..Len(toHost)
        /\ Len(toHost') = Len(toHost) - 1 /\ Len(toHost) \in Nat
        /\ \A i \in 1..Len(toHost) - 1 : toHost'[i] = toHost[i + 1]
    BY TailFacts DEF TypeOK, PipeTypes
  <1>2. Received(c) \in Nat /\ relayed[c] \in Nat /\ written[c] \in Nat
    BY DEF Received, TypeOK, ChannelTypes, ProcessTypes
  <1>3. PICK l \in Nat : l = Len(toHost)
    BY <1>1
  <1>4. ASSUME NEW i \in 1..l, NEW n \in Int, Before(i + 1, c, n) PROVE Before(i, c, n)'
    <2> SUFFICES ASSUME NEW k \in r + 1..n
                 PROVE  \E j \in 1..i - 1 : toHost'[j] = Message("stdout", c, k)
      BY DEF Before
    <2>1. k \in Received(c) + 1..n /\ k \in Nat /\ k > r
      BY <1>2
    <2>2. PICK j \in 1..i : toHost[j] = Message("stdout", c, k)
      BY <1>4, <2>1 DEF Before
    <2>3. j # 1
      BY <1>1, <2>1, <2>2
    <2>4. j - 1 \in 1..i - 1 /\ j - 1 \in 1..l - 1 /\ (j - 1) + 1 = j
      BY <2>3
    <2>5. toHost'[j - 1] = toHost[j]
      BY <1>1, <1>3, <2>4
    <2> QED BY <2>2, <2>4, <2>5
  <1>5. ASSUME NEW i \in 1..l - 1, NEW x, x = toHost[i + 1] PROVE Fits(i, c, x)'
    <2>1. Fits(i + 1, c, x) /\ x.chunk \in Nat /\ i + 1 \in 2..Len(toHost) /\ i \in 1..l
      BY <1>1, <1>3, <1>5, InPipe DEF OnTheWay
    <2>2. Before(i + 1, c, x.chunk - 1) => Before(i, c, x.chunk - 1)'
      BY <1>4, <2>1
    <2>3. Before(i + 1, c, written[c]) => Before(i, c, written[c])'
      BY <1>2, <1>4, <2>1
    <2>4. x.type = "stdout" /\ x.id = c => r < x.chunk
      BY <1>5, <2>1
    <2>5. \A j \in 1..i - 1 : j + 1 \in 1..(i + 1) - 1 /\ toHost'[j] = toHost[j + 1]
      BY <1>1, <1>3
    <2> QED BY <2>1, <2>2, <2>3, <2>4, <2>5 DEF Fits
  <1>6. OnTheWay(c)'
    BY <1>1, <1>3, <1>5 DEF OnTheWay
  <1>7. ASSUME Before(Len(toHost) + 1, c, relayed[c]) PROVE Before(Len(toHost) + 1, c, relayed[c])'
    <2>1. PICK n \in Int : n = relayed[c] /\ n = relayed'[c]
      BY <1>2
    <2>2. Before(l, c, n)'
      BY <1>1, <1>3, <1>4, <1>7, <2>1
    <2>3. l = Len(toHost') + 1
      BY <1>1, <1>3
    <2> QED BY <2>1, <2>2, <2>3
  <1> QED BY <1>6, <1>7

LEMMA ReceiveInv ==
  ASSUME Inv, Receive
  PROVE  Inv'
  <1> USE SpawnerAssumption DEF Inv
  <1>1. /\ toHost # <<>> /\ toHost' = Tail(toHost) /\ half' = FALSE
        /\ UNCHANGED <<toSpawner, host, waitsFor, failure, outcome, calls, spawnerVars, processVars>>
    BY DEF Receive
  <1>2. /\ Head(toHost) = toHost[1] /\ DOMAIN toHost' = 1..Len(toHost) - 1 /\ DOMAIN toHost = 1..Len(toHost)
        /\ toHost' \in Seq(Messages) /\ Head(toHost) \in Messages /\ 1 \in DOMAIN toHost
        /\ Len(toHost) \in Nat
        /\ \A i \in 1..Len(toHost) - 1 : toHost'[i] = toHost[i + 1]
    BY <1>1, TailFacts DEF TypeOK, PipeTypes
  <1>3. PICK m \in Messages : m = Head(toHost)
    BY <1>2
  <1>4. /\ m = toHost[1] /\ m.type \in {"stdout", "exit", "result"}
        /\ m.type = "result" => m.id \in Runs /\ process[m.id] = "closed"
        /\ m.type = "exit" => m.id \in Channels /\ process[m.id] = "closed"
        /\ m.type = "stdout" => m.id \in Channels /\ m.chunk \in 1..MaxChunks /\ process[m.id] # "unborn"
    BY <1>2, <1>3 DEF ToHostOK, Messages
  <1>5. UNCHANGED <<relayed, written, process, spawner, hostGone, stdinOver, stopping>>
    BY <1>1 DEF spawnerVars, processVars
  <1>6. PipeTypes' /\ ProcessTypes' /\ ToHostOK'
    <2>1. \A i \in DOMAIN toHost' : i + 1 \in DOMAIN toHost /\ toHost'[i] = toHost[i + 1]
      BY <1>2
    <2>2. PipeTypes'
      BY <1>1, <1>2 DEF TypeOK, PipeTypes
    <2>3. ProcessTypes'
      BY <1>5 DEF TypeOK, ProcessTypes
    <2>4. ToHostOK'
      BY <1>5, <2>1 DEF ToHostOK
    <2> QED BY <2>2, <2>3, <2>4
  <1>7. ASSUME NEW d \in channels, d # m.id \/ m.type # "stdout", Received(d)' = Received(d)
        PROVE  OnTheWay(d)' /\ (NothingLost(d) => NothingLost(d)')
    <2>1. d \in Channels /\ OnTheWay(d)
      BY DEF OutputOK, TypeOK, ChannelTypes
    <2>2. PICK r \in Nat : r = Received(d)
      BY <2>1 DEF Received, TypeOK, ChannelTypes
    <2>3. \A k \in Nat : m # Message("stdout", d, k)
      BY <1>7 DEF Message
    <2>4. \A i \in 2..Len(toHost) : toHost[i].type = "stdout" /\ toHost[i].id = d => toHost[i].chunk > r
      <3> SUFFICES ASSUME NEW i \in 2..Len(toHost), toHost[i].type = "stdout", toHost[i].id = d
                   PROVE  toHost[i].chunk > r
        OBVIOUS
      <3>1. i \in DOMAIN toHost
        BY <1>2
      <3> QED BY <2>1, <2>2, <3>1, InPipe DEF OnTheWay, Fits
    <2>5. /\ OnTheWay(d)'
          /\ Before(Len(toHost) + 1, d, relayed[d]) => Before(Len(toHost) + 1, d, relayed[d])'
      BY <1>1, <1>3, <1>5, <1>7, <2>1, <2>2, <2>3, <2>4, TakesMessage
    <2> QED BY <1>1, <1>5, <2>5 DEF NothingLost
  <1>8. LifeOK' /\ ToSpawnerOK' /\ HostTypes'
    <2>1. results' \subseteq Runs /\ \A r \in results' : process[r] = "closed"
      BY <1>3, <1>4 DEF Receive, channelVars, LifeOK, TypeOK, HostTypes
    <2>2. Spawned' = Spawned
      <3>1. CASE UNCHANGED <<channels, exit>>
        BY <3>1 DEF Spawned
      <3>2. CASE m.id \in channels /\ channels' = channels \ {m.id} /\ exit' = [exit EXCEPT ![m.id] = "exit"]
        BY <3>2 DEF Spawned, TypeOK, ChannelTypes
      <3> QED BY <1>3, <3>1, <3>2 DEF Receive, channelVars
    <2>3. LifeOK'
      BY <1>1, <1>5, <2>1, <2>2 DEF LifeOK
    <2> QED BY <1>1, <1>5, <2>1, <2>2, <2>3 DEF TypeOK, HostTypes, ToSpawnerOK
  <1>9. CASE UNCHANGED channelVars /\ (m.type = "result" \/ m.id \notin channels)
    <2>1. UNCHANGED <<channels, pending, exit, exitEmitted, flushScheduled, listening, delivered>>
      BY <1>9 DEF channelVars
    <2>2. ChannelTypes' /\ ChannelOK'
      BY <1>1, <1>5, <2>1 DEF TypeOK, ChannelTypes, ChannelOK, Received
    <2>3. OutputOK'
      <3>1. \A d \in Channels : Received(d)' = Received(d) /\ Arrived(d)'
        BY <1>5, <2>1 DEF OutputOK, Arrived, Received
      <3>2. \A d \in channels : d \in Channels /\ (d # m.id \/ m.type # "stdout")
        BY <1>9 DEF TypeOK, ChannelTypes
      <3>3. \A d \in channels : OnTheWay(d)' /\ NothingLost(d)'
        BY <1>7, <3>1, <3>2 DEF OutputOK
      <3> QED BY <2>1, <3>1, <3>3 DEF OutputOK
    <2> QED BY <1>6, <1>8, <2>2, <2>3 DEF TypeOK
  <1>10. CASE /\ m.type = "stdout" /\ m.id \in channels
              /\ pending' = [pending EXCEPT ![m.id] = Append(@, m.chunk)] /\ ScheduleFlush({m.id})
              /\ UNCHANGED <<channels, exit, exitEmitted, listening, delivered, results>>
    <2>1. PICK c \in Channels : c = m.id /\ c \in channels
      BY <1>10 DEF TypeOK, ChannelTypes
    <2>2. PICK p \in Seq(1..MaxChunks) : p = pending[c]
      BY DEF TypeOK, ChannelTypes
    <2>3. /\ pending'[c] = Append(p, m.chunk) /\ \A d \in Channels \ {c} : pending'[d] = pending[d]
          /\ Append(p, m.chunk) \in Seq(1..MaxChunks) /\ m.chunk \in 1..MaxChunks
          /\ Len(pending'[c]) = Len(p) + 1 /\ Len(p) \in Nat
          /\ pending'[c][Len(p) + 1] = m.chunk
          /\ \A k \in 1..Len(p) : pending'[c][k] = p[k]
      <3>1. m.chunk \in 1..MaxChunks
        BY <1>4, <1>10
      <3>2. pending'[c] = Append(p, m.chunk) /\ \A d \in Channels \ {c} : pending'[d] = pending[d]
        BY <1>10, <2>1, <2>2 DEF TypeOK, ChannelTypes
      <3> QED BY <2>2, <3>1, <3>2, AppendFacts
    <2>4. ChannelTypes'
      <3>1. pending' \in [Channels -> Seq(1..MaxChunks)]
        BY <1>10, <2>1, <2>2, <2>3 DEF TypeOK, ChannelTypes
      <3>2. flushScheduled' \in [Channels -> BOOLEAN]
        BY <1>10 DEF ScheduleFlush, TypeOK, ChannelTypes
      <3> QED BY <1>10, <3>1, <3>2 DEF TypeOK, ChannelTypes
    <2>5. ~failure /\ ~exitEmitted[c] /\ exit[c] = "none"
      BY <1>4, <1>10, <2>1 DEF ChannelOK, TypeOK, ChannelTypes
    <2>6. /\ Len(delivered[c]) \in Nat /\ relayed[c] \in Nat /\ Received(c) = Len(delivered[c]) + Len(p)
          /\ OnTheWay(c) /\ Arrived(c)
      BY <2>1, <2>2 DEF Received, OutputOK, TypeOK, ChannelTypes, ProcessTypes
    <2>7. m.chunk = Received(c) + 1 /\ m.chunk <= relayed[c]
      <3>1. Fits(1, c, m)
        BY <1>2, <1>4, <2>6 DEF OnTheWay
      <3>2. Received(c) < m.chunk /\ m.chunk <= relayed[c] /\ Before(1, c, m.chunk - 1)
        BY <1>10, <2>1, <3>1 DEF Fits
      <3>3. ~(Received(c) + 1 <= m.chunk - 1)
        <4>1. (Received(c) + 1..m.chunk - 1) = {}
          BY <3>2 DEF Before
        <4> QED BY <2>3, <2>6, <4>1
      <3> QED BY <2>3, <2>6, <3>2, <3>3
    <2>8. Received(c)' = Received(c) + 1
      <3>1. PICK n \in Nat : n = Len(p) /\ Len(pending'[c]) = n + 1
        BY <2>3
      <3>2. PICK k \in Nat : k = Len(delivered[c]) /\ k = Len(delivered'[c])
        BY <1>10, <2>6
      <3>3. Received(c)' = k + (n + 1)
        BY <3>1, <3>2 DEF Received
      <3>4. Received(c) = k + n
        BY <2>6, <3>1, <3>2
      <3> QED BY <3>3, <3>4
    <2>9. Arrived(c)'
      <3>1. ASSUME NEW k \in 1..Len(p) + 1 PROVE pending'[c][k] = Len(delivered[c]) + k
        <4>1. CASE k \in 1..Len(p)
          BY <2>2, <2>3, <2>6, <4>1 DEF Arrived
        <4>2. CASE k = Len(p) + 1
          <5>1. pending'[c][k] = m.chunk /\ m.chunk = Received(c) + 1 /\ Received(c) = Len(delivered[c]) + Len(p)
            BY <2>3, <2>6, <2>7, <4>2
          <5>2. PICK a \in Nat, b \in Nat : a = Len(delivered[c]) /\ b = Len(p)
            BY <2>3, <2>6
          <5>3. pending'[c][k] = a + b + 1 /\ k = b + 1
            BY <4>2, <5>1, <5>2
          <5>4. pending'[c][k] = a + k
            BY ONLY <5>3, a \in Nat, b \in Nat
          <5> QED BY <5>2, <5>4
        <4> QED BY <2>3, <4>1, <4>2
      <3>2. Received(c)' <= relayed'[c]
        BY <1>5, <2>6, <2>7, <2>8
      <3> QED BY <1>10, <2>3, <2>6, <3>1, <3>2 DEF Arrived
    <2>10. OnTheWay(c)' /\ (NothingLost(c) => NothingLost(c)')
      <3>1. PICK r \in Nat : r = Received(c) + 1
        BY <2>3, <2>6
      <3>2. \A k \in Nat : k > r => m # Message("stdout", c, k)
        BY <2>7, <3>1 DEF Message
      <3>3. \A i \in 2..Len(toHost) : toHost[i].type = "stdout" /\ toHost[i].id = c => toHost[i].chunk > r
        <4> SUFFICES ASSUME NEW i \in 2..Len(toHost), toHost[i].type = "stdout", toHost[i].id = c
                     PROVE  toHost[i].chunk > r
          OBVIOUS
        <4>1. i \in DOMAIN toHost /\ 1 \in 1..i - 1
          BY <1>2
        <4>2. toHost[1].chunk < toHost[i].chunk
          BY <1>4, <1>10, <2>1, <2>6, <4>1 DEF OnTheWay, Fits
        <4>3. toHost[i].chunk \in Nat
          BY <4>1, InPipe
        <4> QED BY <1>4, <2>7, <3>1, <4>2, <4>3
      <3>4. Received(c)' = r /\ Received(c) <= r
        BY <2>3, <2>6, <2>8, <3>1
      <3>5. /\ OnTheWay(c)'
            /\ Before(Len(toHost) + 1, c, relayed[c]) => Before(Len(toHost) + 1, c, relayed[c])'
        BY <1>1, <1>3, <1>5, <2>6, <3>2, <3>3, <3>4, TakesMessage
      <3> QED BY <1>1, <1>5, <3>5 DEF NothingLost
    <2>11. ChannelOK'
      <3>1. \A d \in Channels \ {c} : Received(d)' = Received(d)
        BY <1>10, <2>3 DEF Received
      <3> QED BY <1>1, <1>5, <1>10, <2>1, <2>3, <2>5, <3>1 DEF ChannelOK
    <2>12. OutputOK'
      <3>1. ASSUME NEW d \in Channels, d # c
            PROVE  Arrived(d)' /\ (d \in channels => OnTheWay(d)' /\ NothingLost(d)')
        <4>1. Received(d)' = Received(d) /\ pending'[d] = pending[d]
          BY <1>10, <2>3, <3>1 DEF Received
        <4>2. Arrived(d)'
          BY <1>5, <1>10, <4>1 DEF OutputOK, Arrived
        <4> QED BY <1>7, <2>1, <3>1, <4>1, <4>2 DEF OutputOK
      <3> QED BY <1>10, <2>1, <2>9, <2>10, <3>1 DEF OutputOK
    <2> QED BY <1>6, <1>8, <2>4, <2>11, <2>12 DEF TypeOK
  <1>11. CASE /\ m.type = "exit" /\ m.id \in channels
              /\ exit' = [exit EXCEPT ![m.id] = "exit"] /\ channels' = channels \ {m.id}
              /\ ScheduleFlush({m.id})
              /\ UNCHANGED <<pending, exitEmitted, listening, delivered, results>>
    <2>1. PICK c \in Channels : c = m.id /\ c \in channels
      BY <1>11 DEF TypeOK, ChannelTypes
    <2>2. ChannelTypes'
      <3>1. flushScheduled' \in [Channels -> BOOLEAN]
        BY <1>11 DEF ScheduleFlush, TypeOK, ChannelTypes
      <3>2. exit' \in [Channels -> {"none", "exit", "lost"}]
        BY <1>11 DEF TypeOK, ChannelTypes
      <3> QED BY <1>11, <3>1, <3>2 DEF TypeOK, ChannelTypes
    <2>3. \A d \in Channels : Received(d)' = Received(d) /\ Arrived(d)'
      BY <1>5, <1>11 DEF OutputOK, Arrived, Received
    <2>4. Received(c) = written[c]
      <3>1. Received(c) \in Nat /\ relayed[c] \in Nat /\ written[c] \in Nat
        BY DEF Received, TypeOK, ChannelTypes, ProcessTypes
      <3>2. Received(c) <= relayed[c] /\ relayed[c] <= written[c] /\ OnTheWay(c)
        BY <2>1 DEF OutputOK, Arrived, LifeOK
      <3>3. Before(1, c, written[c])
        BY <1>2, <1>4, <1>11, <2>1, <3>2 DEF OnTheWay, Fits
      <3>4. (Received(c) + 1..written[c]) = {}
        BY <3>3 DEF Before
      <3> QED BY <3>1, <3>2, <3>4
    <2>5. ChannelOK'
      <3>1. process'[c] = "closed" /\ exit'[c] = "exit" /\ c \notin channels' /\ exit[c] # "exit"
        BY <1>4, <1>5, <1>11, <2>1 DEF ChannelOK, TypeOK, ChannelTypes
      <3>2. \A d \in Channels \ {c} : exit'[d] = exit[d] /\ (d \in channels' <=> d \in channels)
        BY <1>11, <2>1 DEF TypeOK, ChannelTypes
      <3> QED BY <1>1, <1>5, <1>11, <2>1, <2>3, <2>4, <3>1, <3>2 DEF ChannelOK
    <2>6. OutputOK'
      <3>1. ASSUME NEW d \in channels' PROVE OnTheWay(d)' /\ NothingLost(d)'
        <4>1. d \in channels /\ d \in Channels
          BY <1>11 DEF TypeOK, ChannelTypes
        <4> QED BY <1>7, <1>11, <2>3, <4>1 DEF OutputOK
      <3> QED BY <2>3, <3>1 DEF OutputOK
    <2> QED BY <1>6, <1>8, <2>2, <2>5, <2>6 DEF TypeOK
  <1> QED BY <1>3, <1>4, <1>9, <1>10, <1>11 DEF Receive

LEMMA NextInv == Inv /\ [Next]_vars => Inv'
  <1> SUFFICES ASSUME Inv, [Next]_vars PROVE Inv'
    OBVIOUS
  <1>1. CASE HostSteps
    BY <1>1, DecodeHalfInv, ReceiveInv, ExitEventInv, FlushInv, ReadReturnsInv, WaitingInv, ReadsEndInv
    DEF HostSteps, DataEvent, ReadOnce
  <1>2. CASE \E c \in Channels : Spawn(c) \/ ReadSync(c) \/ \E t \in {"stdin", "end"} : Call(t, c)
    BY <1>2, SpawnInv, WaitingInv, CallInv
  <1>3. CASE (\E r \in Runs : SpawnSync(r)) \/ HostDies
    BY <1>3, SpawnSyncInv, HostDiesInv
  <1>4. CASE SpawnerSteps \/ StdoutBreaks \/ SpawnerDies
    BY <1>4, HandleInv, StopsInv, RelayInv, CloseInv, SpawnerDiesInv DEF SpawnerSteps
  <1>5. CASE (\E c \in Channels : Write(c)) \/ (\E p \in Ids : End(p))
    BY <1>5, WriteInv, EndInv
  <1>6. CASE UNCHANGED vars
    <2> USE <1>6 DEF vars, hostVars, channelVars, pipeVars, spawnerVars, processVars
    <2>1. TypeOK'
      BY DEF Inv, TypeOK, HostTypes, ChannelTypes, PipeTypes, ProcessTypes
    <2>2. ToSpawnerOK' /\ ToHostOK'
      BY DEF Inv, ToSpawnerOK, ToHostOK, Spawned
    <2>3. LifeOK' /\ ChannelOK'
      BY DEF Inv, LifeOK, ChannelOK, Received, Spawned
    <2>4. OutputOK'
      BY OutputStays DEF Inv
    <2> QED BY <2>1, <2>2, <2>3, <2>4 DEF Inv
  <1> QED BY <1>1, <1>2, <1>3, <1>4, <1>5, <1>6 DEF Next

LEMMA Invariance == Spec => []Inv
  BY InitInv, NextInv, PTL DEF Spec

(* Spawner keeps its types, the relations between them and the order of    *)
(* the output aside (spawner.ts, spawner-child.ts).                        *)
THEOREM SpawnerTypeCorrect == Spec => []TypeOK
  <1>1. Inv => TypeOK
    BY DEF Inv
  <1> QED BY <1>1, Invariance, PTL

-----------------------------------------------------------------------------
(* Nothing waits without a flush. *)
LEMMA FieldsWait ==
  ASSUME WaitingIsScheduled, UNCHANGED channelVars
  PROVE  WaitingIsScheduled'
  BY DEF WaitingIsScheduled, channelVars

LEMMA FailureWaits ==
  ASSUME TypeOK, WaitingIsScheduled, NEW new \in SUBSET Channels, Fails(new),
         UNCHANGED <<pending, exitEmitted, listening, delivered>>
  PROVE  WaitingIsScheduled'
  <1>1. FailsTo(new)
    BY FailsFacts
  <1> QED BY <1>1 DEF FailsTo, WaitingIsScheduled

LEMMA CallsWait ==
  ASSUME Inv, WaitingIsScheduled,
         \/ \E c \in Channels : Spawn(c) \/ ReadSync(c) \/ \E t \in {"stdin", "end"} : Call(t, c)
         \/ \E r \in Runs : SpawnSync(r)
         \/ ExitEvent \/ ReadsEnd
  PROVE  WaitingIsScheduled'
  <1>1. ASSUME NEW c \in Channels, Spawn(c) PROVE WaitingIsScheduled'
    <2>1. CASE CanSend
      BY <1>1, <2>1 DEF Spawn, WaitingIsScheduled
    <2>2. CASE ~CanSend
      BY <1>1, <2>2, FailureWaits DEF Spawn, Inv
    <2> QED BY <2>1, <2>2
  <1>2. ASSUME NEW c \in Channels, ReadSync(c) PROVE WaitingIsScheduled'
    BY <1>2, FieldsWait DEF ReadSync
  <1>3. ASSUME NEW c \in Channels, NEW t \in {"stdin", "end"}, Call(t, c) PROVE WaitingIsScheduled'
    <2>1. CASE CanSend
      BY <1>3, <2>1 DEF Call, WaitingIsScheduled
    <2>2. CASE ~CanSend
      BY <1>3, <2>2, FailureWaits DEF Call, Inv
    <2> QED BY <2>1, <2>2
  <1>4. ASSUME NEW r \in Runs, SpawnSync(r) PROVE WaitingIsScheduled'
    <2>1. CASE CanSend
      BY <1>4, <2>1 DEF SpawnSync, WaitingIsScheduled
    <2>2. CASE ~CanSend
      BY <1>4, <2>2, FailureWaits DEF SpawnSync, Inv
    <2> QED BY <2>1, <2>2
  <1>5. CASE ExitEvent
    BY <1>5, FailureWaits DEF ExitEvent, Inv
  <1>6. CASE ReadsEnd
    BY <1>6, FailureWaits DEF ReadsEnd, Inv
  <1> QED BY <1>1, <1>2, <1>3, <1>4, <1>5, <1>6

LEMMA ReceiveWaits ==
  ASSUME Inv, WaitingIsScheduled, Receive
  PROVE  WaitingIsScheduled'
  <1> USE DEF Inv, TypeOK, ChannelTypes
  <1>1. ASSUME NEW c \in Channels, ScheduleFlush({c}),
               UNCHANGED <<exitEmitted, listening>>,
               \A d \in Channels \ {c} : pending'[d] = pending[d] /\ exit'[d] = exit[d]
        PROVE  WaitingIsScheduled'
    BY <1>1 DEF ScheduleFlush, WaitingIsScheduled
  <1>2. CASE UNCHANGED channelVars
    BY <1>2, FieldsWait
  <1>3. ASSUME NEW c \in channels, pending' = [pending EXCEPT ![c] = Append(@, Head(toHost).chunk)],
               ScheduleFlush({c}), UNCHANGED <<exit, exitEmitted, listening>>
        PROVE  WaitingIsScheduled'
    BY <1>1, <1>3
  <1>4. ASSUME NEW c \in channels, exit' = [exit EXCEPT ![c] = "exit"],
               ScheduleFlush({c}), UNCHANGED <<pending, exitEmitted, listening>>
        PROVE  WaitingIsScheduled'
    BY <1>1, <1>4
  <1> QED BY <1>2, <1>3, <1>4 DEF Receive

LEMMA TakesWait ==
  ASSUME Inv, WaitingIsScheduled, ReadReturns \/ \E c \in Channels : Flush(c)
  PROVE  WaitingIsScheduled'
  <1> USE DEF Inv, TypeOK, HostTypes, ChannelTypes
  <1>1. CASE ReadReturns
    <2>1. PICK c \in Channels : c = waitsFor
      BY <1>1 DEF ReadReturns
    <2>2. /\ pending' = [pending EXCEPT ![c] = <<>>] /\ UNCHANGED <<exit, exitEmitted>>
          /\ listening' \in {listening, [listening EXCEPT ![c] = TRUE]}
          /\ IF exit[c] # "none" THEN ScheduleFlush({c}) ELSE UNCHANGED flushScheduled
      BY <1>1, <2>1 DEF ReadReturns
    <2>3. pending'[c] = <<>> /\ (exit[c] # "none" => flushScheduled'[c])
      BY <2>2 DEF ScheduleFlush
    <2>4. ASSUME NEW d \in Channels \ {c}
          PROVE  /\ pending'[d] = pending[d] /\ listening'[d] = listening[d]
                 /\ flushScheduled[d] => flushScheduled'[d]
      BY <2>2 DEF ScheduleFlush
    <2> QED BY <2>2, <2>3, <2>4 DEF WaitingIsScheduled
  <1>2. ASSUME NEW c \in Channels, Flush(c) PROVE WaitingIsScheduled'
    <2>1. /\ UNCHANGED <<exit, listening>>
          /\ flushScheduled' = [flushScheduled EXCEPT ![c] = FALSE]
          /\ exitEmitted' = [exitEmitted EXCEPT ![c] = @ \/ (exit[c] # "none" /\ pending'[c] = <<>>)]
      BY <1>2 DEF Flush
    <2>2. /\ listening[c] => pending'[c] = <<>>
          /\ ~listening[c] => pending'[c] = pending[c]
          /\ \A d \in Channels \ {c} : pending'[d] = pending[d]
      BY <1>2 DEF Flush
    <2>3. ASSUME NEW d \in Channels \ {c}
          PROVE  /\ pending'[d] = pending[d] /\ listening'[d] = listening[d] /\ exit'[d] = exit[d]
                 /\ exitEmitted'[d] = exitEmitted[d] /\ flushScheduled'[d] = flushScheduled[d]
      BY <2>1, <2>2
    <2>4. pending'[c] = <<>> => exitEmitted'[c] \/ exit'[c] = "none"
      BY <2>1
    <2> QED BY <2>1, <2>2, <2>3, <2>4 DEF WaitingIsScheduled
  <1> QED BY <1>1, <1>2

(* No step leaves output, or an exit that may be told, without a flush     *)
(* (spawner.ts:217-220, 307, 314-342).                                     *)
THEOREM NothingWaits == Spec => []WaitingIsScheduled
  <1>1. Init => WaitingIsScheduled
    BY DEF Init, WaitingIsScheduled
  <1>2. Inv /\ WaitingIsScheduled /\ [Next]_vars => WaitingIsScheduled'
    <2> SUFFICES ASSUME Inv, WaitingIsScheduled, [Next]_vars PROVE WaitingIsScheduled'
      OBVIOUS
    <2>1. CASE HostSteps
      <3>1. DecodeHalf \/ ReadThrows \/ RunReturns => UNCHANGED channelVars
        BY DEF DecodeHalf, ReadThrows, RunReturns
      <3> QED BY <2>1, <3>1, FieldsWait, ReceiveWaits, TakesWait, CallsWait
          DEF HostSteps, DataEvent, ReadOnce
    <2>2. CASE \/ \E c \in Channels : Spawn(c) \/ ReadSync(c) \/ \E t \in {"stdin", "end"} : Call(t, c)
               \/ \E r \in Runs : SpawnSync(r)
      BY <2>2, CallsWait
    <2>3. CASE \/ HostDies \/ SpawnerSteps \/ StdoutBreaks \/ SpawnerDies
               \/ \E c \in Channels : Write(c)
               \/ \E p \in Ids : End(p)
      <3>1. UNCHANGED channelVars
        BY <2>3 DEF HostDies, SpawnerSteps, Handle, StdinEnds, StdoutBreaks, StopAll, Exits, Relay, Close,
                    SpawnerDies, Write, End, hostVars
      <3> QED BY <3>1, FieldsWait
    <2>4. CASE UNCHANGED vars
      BY <2>4, FieldsWait DEF vars, hostVars
    <2> QED BY <2>1, <2>2, <2>3, <2>4 DEF Next
  <1> QED BY <1>1, <1>2, Invariance, PTL DEF Spec

-----------------------------------------------------------------------------
(* The implementation of SpawnedProcess. *)
Over(p) == process[p] \in {"exited", "closed"}
Broken == failure \/ spawner = "dead"
Told(p) == IF p \in Runs THEN outcome[p] ELSE IF exitEmitted[p] THEN exit[p] ELSE "nothing"

LEMMA BrokenIsDead == Inv => (Broken <=> spawner = "dead")
  BY DEF Inv, LifeOK, Broken

LEMMA Stutters ==
  ASSUME UNCHANGED <<written, delivered, outcome, exitEmitted>>, Broken' <=> Broken,
         \A p \in Ids : Over(p)' <=> Over(p),
         \A c \in Channels : exitEmitted[c] => exit'[c] = exit[c]
  PROVE  UNCHANGED Contract!vars
  <1>1. \A p \in Ids : Told(p)' = Told(p)
    BY SpawnerAssumption DEF Told, Ids
  <1>2. UNCHANGED [p \in Ids |-> IF p \in Runs THEN outcome[p]
                                 ELSE IF exitEmitted[p] THEN exit[p] ELSE "nothing"]
    BY <1>1 DEF Told
  <1>3. UNCHANGED {p \in Ids : process[p] \in {"exited", "closed"}}
    BY DEF Over
  <1> QED BY <1>2, <1>3 DEF Contract!vars, Broken

(* A failure does not change what the host was told. *)
LEMMA FailureTellsNothing ==
  ASSUME Inv, NEW new \in SUBSET Channels, Fails(new), \A c \in new : ~exitEmitted[c],
         NEW d \in Channels, exitEmitted[d]
  PROVE  exit'[d] = exit[d]
  <1>1. FailsTo(new)
    BY FailsFacts DEF Inv
  <1>2. exit[d] \in {"exit", "lost"} /\ (exit[d] = "exit" => d \notin channels)
    BY DEF Inv, ChannelOK, TypeOK, ChannelTypes
  <1> QED BY <1>1, <1>2 DEF FailsTo

LEMMA QuietSteps ==
  ASSUME Inv,
         \/ UNCHANGED vars \/ DecodeHalf \/ ReadThrows \/ HostDies \/ StdoutBreaks \/ StdinEnds
         \/ \E c \in Channels : ReadSync(c) \/ Relay(c)
         \/ \E p \in Ids : Close(p)
  PROVE  UNCHANGED Contract!vars
  <1>1. ASSUME NEW p \in Ids, Close(p) PROVE UNCHANGED Contract!vars
    <2>1. process[p] = "exited" /\ process' = [process EXCEPT ![p] = "closed"]
      BY <1>1 DEF Close
    <2>2. \A q \in Ids : Over(q)' <=> Over(q)
      BY <2>1 DEF Over, Inv, TypeOK, ProcessTypes
    <2> QED BY <1>1, <2>2, Stutters DEF Close, hostVars, channelVars, spawnerVars, Broken
  <1>2. CASE ~\E p \in Ids : Close(p)
    <2>1. UNCHANGED <<written, delivered, outcome, exitEmitted, exit, failure, spawner, process>>
      BY <1>2 DEF vars, DecodeHalf, ReadThrows, HostDies, StdoutBreaks, StdinEnds, StopAll, ReadSync, Relay,
                  hostVars, channelVars, pipeVars, spawnerVars, processVars
    <2> QED BY <2>1, Stutters DEF Over, Broken
  <1> QED BY <1>1, <1>2

LEMMA QuietCalls ==
  ASSUME Inv, ExitEvent \/ \E c \in Channels : Spawn(c) \/ \E t \in {"stdin", "end"} : Call(t, c)
  PROVE  UNCHANGED Contract!vars
  <1>1. UNCHANGED <<written, delivered, outcome, exitEmitted, process, spawner>>
    BY DEF ExitEvent, Spawn, Call, spawnerVars, processVars
  <1>2. Broken' <=> Broken
    <2>1. ~CanSend => spawner = "dead"
      BY BrokenIsDead DEF CanSend, Broken, Inv, TypeOK, ProcessTypes
    <2>2. UNCHANGED failure \/ (failure' = TRUE /\ spawner = "dead")
      BY <2>1 DEF ExitEvent, Spawn, Call, Fails
    <2> QED BY <1>1, <2>2 DEF Broken
  <1>3. ASSUME NEW d \in Channels, exitEmitted[d] PROVE exit'[d] = exit[d]
    <2>1. CASE ExitEvent
      BY <1>3, <2>1, FailureTellsNothing DEF ExitEvent
    <2>2. ASSUME NEW c \in Channels, Spawn(c) PROVE exit'[d] = exit[d]
      <3>1. ~exitEmitted[c]
        BY <2>2 DEF Spawn, Spawned, Inv, ChannelOK
      <3> QED BY <1>3, <2>2, <3>1, FailureTellsNothing DEF Spawn
    <2>3. ASSUME NEW c \in Channels, NEW t \in {"stdin", "end"}, Call(t, c) PROVE exit'[d] = exit[d]
      BY <1>3, <2>3, FailureTellsNothing DEF Call
    <2> QED BY <2>1, <2>2, <2>3
  <1> QED BY <1>1, <1>2, <1>3, Stutters DEF Over

LEMMA QuietReceive ==
  ASSUME Inv, Receive
  PROVE  UNCHANGED Contract!vars
  <1>1. UNCHANGED <<written, delivered, outcome, exitEmitted, process, spawner, failure>>
    BY DEF Receive, channelVars, spawnerVars, processVars
  <1>2. ASSUME NEW d \in Channels, exitEmitted[d] PROVE exit'[d] = exit[d]
    <2>1. toHost # <<>> /\ 1 \in DOMAIN toHost /\ Head(toHost) = toHost[1]
      BY TailFacts DEF Receive, Inv, TypeOK, PipeTypes
    <2>2. PICK m : m = Head(toHost)
      OBVIOUS
    <2>3. CASE UNCHANGED exit
      BY <2>3
    <2>4. CASE m.type = "exit" /\ m.id \in channels /\ exit' = [exit EXCEPT ![m.id] = "exit"]
      <3>1. process[m.id] = "closed"
        BY <2>1, <2>2, <2>4 DEF Inv, ToHostOK
      <3>2. exit[m.id] = "none" /\ ~exitEmitted[m.id]
        BY <2>4, <3>1 DEF Inv, ChannelOK, TypeOK, ChannelTypes
      <3> QED BY <1>2, <2>4, <3>2 DEF Inv, TypeOK, ChannelTypes
    <2> QED BY <2>2, <2>3, <2>4 DEF Receive, channelVars
  <1> QED BY <1>1, <1>2, Stutters DEF Over, Broken

(* Steps that tell of an end, or take output to the caller. *)
LEMMA TellsRun ==
  ASSUME Inv, NEW r \in Runs, outcome[r] = "nothing", spawner = "dead",
         outcome' = [outcome EXCEPT ![r] = "lost"],
         UNCHANGED <<written, delivered, process, spawner>>,
         \A d \in Channels : exitEmitted'[d] = exitEmitted[d] /\ (exitEmitted[d] => exit'[d] = exit[d])
  PROVE  Contract!TellLost(r)
  <1>1. r \in Ids /\ r \notin Channels
    BY SpawnerAssumption DEF Ids
  <1>2. Contract!Output(0) = <<>>
    BY DEF Contract!Output
  <1>3. \A p \in Ids : Told(p)' = IF p = r THEN "lost" ELSE Told(p)
    BY <1>1, SpawnerAssumption DEF Told, Ids, Inv, TypeOK, HostTypes
  <1>4. [p \in Ids |-> IF p \in Runs THEN outcome'[p]
                       ELSE IF exitEmitted'[p] THEN exit'[p] ELSE "nothing"]
          = [[p \in Ids |-> IF p \in Runs THEN outcome[p]
                             ELSE IF exitEmitted[p] THEN exit[p] ELSE "nothing"] EXCEPT ![r] = "lost"]
    BY <1>1, <1>3 DEF Told
  <1>5. Contract!Deliver(r, 0)
    <2>1. [p \in Ids |-> IF p \in Channels THEN delivered'[p] ELSE <<>>]
            = [[p \in Ids |-> IF p \in Channels THEN delivered[p] ELSE <<>>]
                 EXCEPT ![r] = Contract!Output(0)]
      BY <1>1, <1>2
    <2> QED BY <1>1, <2>1 DEF Contract!Deliver
  <1> QED BY <1>1, <1>4, <1>5 DEF Contract!TellLost

LEMMA Delivers ==
  ASSUME Inv, NEW c \in Channels, ~exitEmitted[c],
         delivered' \in [Channels -> Seq(1..MaxChunks)],
         \A d \in Channels \ {c} : delivered'[d] = delivered[d],
         NEW n \in Nat, Len(delivered'[c]) = n, \A k \in 1..n : delivered'[c][k] = k,
         Len(delivered[c]) <= n, n <= written[c],
         UNCHANGED <<written, process, spawner, failure>>
  PROVE  Contract!Deliver(c, n)
  <1>1. c \in Ids /\ c \notin Runs
    BY SpawnerAssumption DEF Ids
  <1>2. delivered'[c] = Contract!Output(n)
    BY DEF Contract!Output
  <1>3. [p \in Ids |-> IF p \in Channels THEN delivered'[p] ELSE <<>>]
          = [[p \in Ids |-> IF p \in Channels THEN delivered[p] ELSE <<>>]
               EXCEPT ![c] = Contract!Output(n)]
    BY <1>1, <1>2
  <1>4. n \in Len(delivered[c])..written[c]
    BY DEF Inv, TypeOK, ChannelTypes, ProcessTypes
  <1> QED BY <1>1, <1>3, <1>4 DEF Contract!Deliver

LEMMA TakesDelivers ==
  ASSUME Inv, NEW c \in Channels, ~exitEmitted[c],
         delivered' = [delivered EXCEPT ![c] = @ \o pending[c]],
         pending' = [pending EXCEPT ![c] = <<>>],
         UNCHANGED <<relayed, written, toHost, channels, process, spawner, failure>>, host # "dead"
  PROVE  \E n \in 0..written[c] : n = Received(c) /\ Contract!Deliver(c, n)
  <1>1. /\ delivered' \in [Channels -> Seq(1..MaxChunks)] /\ pending'[c] = <<>>
        /\ Received(c)' = Received(c) /\ Arrived(c)'
    BY TakesOutput DEF Inv, OutputOK, TypeOK, ChannelTypes
  <1>2. PICK n \in Nat, k \in Nat : n = Received(c) /\ k = Len(delivered[c]) /\ k <= n
    BY DEF Received, Inv, TypeOK, ChannelTypes
  <1>3. Len(delivered'[c]) = n
    <2>1. Len(delivered'[c]) \in Nat /\ Len(pending'[c]) = 0
      BY <1>1
    <2> QED BY <1>1, <1>2, <2>1 DEF Received
  <1>4. n <= written[c]
    BY <1>2 DEF Inv, OutputOK, Arrived, LifeOK, TypeOK, ProcessTypes
  <1>5. \A i \in 1..n : delivered'[c][i] = i
    BY <1>1, <1>3 DEF Arrived
  <1>6. Contract!Deliver(c, n)
    <2>1. \A d \in Channels \ {c} : delivered'[d] = delivered[d]
      BY DEF Inv, TypeOK, ChannelTypes
    <2> QED BY <1>1, <1>2, <1>3, <1>4, <1>5, <2>1, Delivers
  <1> QED BY <1>2, <1>4, <1>6 DEF Inv, TypeOK, ProcessTypes

LEMMA LostRefines ==
  ASSUME Inv, ReadsEnd \/ \E r \in Runs : SpawnSync(r)
  PROVE  [Contract!Next]_Contract!vars
  <1>1. UNCHANGED <<written, delivered, exitEmitted, process, spawner>>
    BY DEF ReadsEnd, SpawnSync, spawnerVars, processVars
  <1>2. UNCHANGED outcome /\ UNCHANGED <<failure, exit>> => UNCHANGED Contract!vars
    BY <1>1, Stutters DEF Over, Broken
  <1>3. ASSUME Fails({}), NEW d \in Channels, exitEmitted[d] PROVE exit'[d] = exit[d]
    BY <1>3, FailureTellsNothing
  <1>4. ASSUME NEW r \in Runs, SpawnSync(r) PROVE [Contract!Next]_Contract!vars
    <2>1. CASE CanSend
      BY <1>2, <1>4, <2>1 DEF SpawnSync
    <2>2. CASE ~CanSend
      <3>1. spawner = "dead" /\ r \in Ids
        BY <2>2, BrokenIsDead DEF CanSend, Broken, Inv, TypeOK, ProcessTypes, Ids
      <3>2. Contract!TellLost(r)
        BY <1>1, <1>3, <1>4, <2>2, <3>1, TellsRun DEF SpawnSync
      <3> QED BY <3>1, <3>2 DEF Contract!Next
    <2> QED BY <2>1, <2>2
  <1>5. CASE ReadsEnd
    <2>1. Fails({}) /\ spawner = "dead"
      BY <1>5 DEF ReadsEnd
    <2>2. ASSUME NEW r \in Runs, r = waitsFor PROVE [Contract!Next]_Contract!vars
      <3>1. outcome[r] = "nothing" /\ r \in Ids /\ outcome' = [outcome EXCEPT ![r] = "lost"]
        BY <1>5, <2>2 DEF ReadsEnd, Inv, LifeOK, Ids
      <3>2. Contract!TellLost(r)
        BY <1>1, <1>3, <2>1, <3>1, TellsRun
      <3> QED BY <3>1, <3>2 DEF Contract!Next
    <2>3. CASE waitsFor \notin Runs
      <3>1. UNCHANGED outcome /\ (Broken' <=> Broken)
        BY <1>1, <1>5, <2>1, <2>3 DEF ReadsEnd, Broken
      <3> QED BY <1>1, <1>3, <2>1, <3>1, Stutters DEF Over
    <2> QED BY <2>2, <2>3
  <1> QED BY <1>4, <1>5

LEMMA ResultRefines ==
  ASSUME Inv, RunReturns
  PROVE  [Contract!Next]_Contract!vars
  <1>1. PICK r \in Runs : r = waitsFor
    BY DEF RunReturns, Inv, TypeOK, HostTypes
  <1>2. /\ r \in Ids /\ r \notin Channels /\ Over(r) /\ outcome[r] = "nothing"
        /\ outcome' = [outcome EXCEPT ![r] = "exit"]
        /\ UNCHANGED <<written, delivered, exit, exitEmitted, process, spawner, failure>>
    BY <1>1, SpawnerAssumption DEF RunReturns, Over, Inv, LifeOK, Ids, channelVars, spawnerVars, processVars
  <1>3. \A p \in Ids : Told(p)' = IF p = r THEN "exit" ELSE Told(p)
    BY <1>2, SpawnerAssumption DEF Told, Ids, Inv, TypeOK, HostTypes
  <1>4. [p \in Ids |-> IF p \in Runs THEN outcome'[p]
                       ELSE IF exitEmitted'[p] THEN exit'[p] ELSE "nothing"]
          = [[p \in Ids |-> IF p \in Runs THEN outcome[p]
                             ELSE IF exitEmitted[p] THEN exit[p] ELSE "nothing"] EXCEPT ![r] = "exit"]
    BY <1>1, <1>2, <1>3 DEF Told
  <1>5. Contract!Deliver(r, 0)
    <2>1. Contract!Output(0) = <<>>
      BY DEF Contract!Output
    <2>2. [p \in Ids |-> IF p \in Channels THEN delivered'[p] ELSE <<>>]
            = [[p \in Ids |-> IF p \in Channels THEN delivered[p] ELSE <<>>]
                 EXCEPT ![r] = Contract!Output(0)]
      BY <1>2, <2>1
    <2> QED BY <1>1, <1>2, <2>2 DEF Contract!Deliver
  <1>6. Contract!TellExit(r)
    <2>1. [p \in Ids |-> IF p \in Channels THEN written[p] ELSE 0][r] = 0
      BY <1>2
    <2>2. r \in {p \in Ids : process[p] \in {"exited", "closed"}}
      BY <1>2 DEF Over
    <2> QED BY <1>4, <1>5, <2>1, <2>2 DEF Contract!TellExit, Contract!Deliver
  <1> QED BY <1>2, <1>6 DEF Contract!Next

LEMMA ReadRefines ==
  ASSUME Inv, ReadReturns
  PROVE  [Contract!Next]_Contract!vars
  <1>1. PICK c \in Channels : c = waitsFor
    BY DEF ReadReturns, Inv, TypeOK, HostTypes
  <1>2. /\ delivered' = [delivered EXCEPT ![c] = @ \o pending[c]] /\ pending[c] # <<>>
        /\ pending' = [pending EXCEPT ![c] = <<>>]
        /\ UNCHANGED <<written, relayed, toHost, channels, outcome, exit, exitEmitted, process, spawner, failure>>
    BY <1>1 DEF ReadReturns, pipeVars, spawnerVars, processVars
  <1>3. ~exitEmitted[c] /\ c \in Ids
    BY <1>2 DEF Inv, ChannelOK, Ids
  <1>4. UNCHANGED [p \in Ids |-> IF p \in Runs THEN outcome[p]
                                 ELSE IF exitEmitted[p] THEN exit[p] ELSE "nothing"]
    BY <1>2
  <1>5. PICK n \in 0..written[c] : Contract!Deliver(c, n)
    BY <1>2, <1>3, TakesDelivers DEF ReadReturns
  <1>6. Contract!DeliverSome(c)
    BY <1>3, <1>4, <1>5 DEF Contract!DeliverSome
  <1> QED BY <1>3, <1>6 DEF Contract!Next

LEMMA ProcessRefines ==
  ASSUME Inv, \/ Handle \/ Exits \/ SpawnerDies
              \/ \E c \in Channels : Write(c)
              \/ \E p \in Ids : End(p)
  PROVE  [Contract!Next]_Contract!vars
  <1>1. UNCHANGED <<delivered, outcome, exit, exitEmitted, failure>>
    BY DEF Handle, Exits, SpawnerDies, Write, End, hostVars, channelVars
  <1>2. ASSUME UNCHANGED <<written, spawner>>, NEW p \in Ids, process' = [process EXCEPT ![p] = "exited"]
        PROVE  Contract!End(p)
    <2>1. {q \in Ids : process'[q] \in {"exited", "closed"}}
            = {q \in Ids : process[q] \in {"exited", "closed"}} \cup {p}
      BY <1>2 DEF Inv, TypeOK, ProcessTypes
    <2> QED BY <1>1, <1>2, <2>1 DEF Contract!End
  <1>3. CASE Handle
    <2>1. UNCHANGED <<written, spawner>>
      BY <1>3 DEF Handle, spawnerVars
    <2>2. /\ toSpawner # <<>> /\ 1 \in DOMAIN toSpawner /\ Head(toSpawner) = toSpawner[1]
          /\ Head(toSpawner) \in Messages
      BY <1>3, TailFacts DEF Handle, Inv, TypeOK, PipeTypes
    <2>3. PICK m \in Messages : m = Head(toSpawner)
      BY <2>2
    <2>4. CASE UNCHANGED process
      BY <1>1, <2>1, <2>4, Stutters DEF Over, Broken
    <2>5. CASE m.type \in {"run", "start"} /\ process' = [process EXCEPT ![m.id] = "exited"]
      <3>1. m.id \in Ids
        BY DEF Messages
      <3>2. Contract!End(m.id)
        BY <1>2, <2>1, <2>5, <3>1
      <3> QED BY <3>1, <3>2 DEF Contract!Next
    <2>6. CASE m.type \in {"run", "start"} /\ process' = [process EXCEPT ![m.id] = "running"]
      <3>1. process[m.id] = "unborn"
        BY <2>2, <2>3, <2>6 DEF Inv, ToSpawnerOK, Births
      <3>2. \A q \in Ids : Over(q)' <=> Over(q)
        BY <2>6, <3>1 DEF Over, Inv, TypeOK, ProcessTypes
      <3> QED BY <1>1, <2>1, <3>2, Stutters DEF Broken
    <2> QED BY <1>3, <2>3, <2>4, <2>5, <2>6 DEF Handle
  <1>4. CASE Exits \/ SpawnerDies
    <2>1. UNCHANGED <<written, process>> /\ spawner' = "dead"
      BY <1>4 DEF Exits, SpawnerDies, processVars
    <2>2. Contract!Break
      BY <1>1, <2>1 DEF Contract!Break
    <2> QED BY <2>2 DEF Contract!Next
  <1>5. ASSUME NEW c \in Channels, Write(c) PROVE [Contract!Next]_Contract!vars
    <2>1. /\ written' = [written EXCEPT ![c] = @ + 1] /\ UNCHANGED <<process, spawner>>
          /\ process[c] = "running" /\ c \in Ids
      BY <1>5 DEF Write, spawnerVars, Ids
    <2>2. [p \in Ids |-> IF p \in Channels THEN written'[p] ELSE 0]
            = [[p \in Ids |-> IF p \in Channels THEN written[p] ELSE 0] EXCEPT ![c] = @ + 1]
      BY <2>1 DEF Inv, TypeOK, ProcessTypes
    <2>3. Contract!Write(c)
      BY <1>1, <2>1, <2>2 DEF Contract!Write
    <2> QED BY <2>1, <2>3 DEF Contract!Next
  <1>6. ASSUME NEW p \in Ids, End(p) PROVE [Contract!Next]_Contract!vars
    <2>1. Contract!End(p)
      BY <1>2, <1>6 DEF End, spawnerVars
    <2> QED BY <2>1 DEF Contract!Next
  <1> QED BY <1>3, <1>4, <1>5, <1>6

LEMMA FlushRefines ==
  ASSUME Inv, NEW c \in Channels, Flush(c)
  PROVE  [Contract!Next]_Contract!vars
  <1>1. /\ UNCHANGED <<written, relayed, toHost, channels, outcome, exit, process, spawner, failure>>
        /\ host # "dead"
        /\ exitEmitted' = [exitEmitted EXCEPT ![c] = @ \/ (exit[c] # "none" /\ pending'[c] = <<>>)]
    BY DEF Flush, pipeVars, spawnerVars, processVars
  <1>2. c \in Ids /\ c \notin Runs
    BY SpawnerAssumption DEF Ids
  <1>3. /\ listening[c] => /\ delivered' = [delivered EXCEPT ![c] = @ \o pending[c]]
                          /\ pending' = [pending EXCEPT ![c] = <<>>]
        /\ ~listening[c] => UNCHANGED <<delivered, pending>>
    BY DEF Flush
  <1>4. CASE exitEmitted[c]
    <2>1. pending[c] = <<>> /\ delivered[c] \in Seq(1..MaxChunks)
      BY <1>4 DEF Inv, ChannelOK, TypeOK, ChannelTypes
    <2>2. delivered' = delivered
      <3>1. delivered[c] \o pending[c] = delivered[c]
        BY <2>1
      <3> QED BY <1>3, <3>1 DEF Inv, TypeOK, ChannelTypes
    <2>3. exitEmitted' = exitEmitted
      BY <1>1, <1>4 DEF Inv, TypeOK, ChannelTypes
    <2> QED BY <1>1, <2>2, <2>3, Stutters DEF Over, Broken
  <1>5. CASE ~exitEmitted[c]
    <2>1. PICK n \in 0..written[c] :
            Contract!Deliver(c, n) /\ (pending'[c] = <<>> => n = Received(c))
      <3>1. CASE listening[c]
        BY <1>1, <1>3, <1>5, <3>1, TakesDelivers
      <3>2. CASE ~listening[c]
        <4>1. PICK n \in Nat : n = Len(delivered[c]) /\ (pending[c] = <<>> => n = Received(c))
          BY DEF Received, Inv, TypeOK, ChannelTypes
        <4>2. n <= written[c]
          BY <4>1 DEF Received, Inv, OutputOK, Arrived, LifeOK, TypeOK, ChannelTypes, ProcessTypes
        <4>3. \A k \in 1..n : delivered'[c][k] = k
          BY <1>3, <3>2, <4>1 DEF Inv, OutputOK, Arrived
        <4>4. delivered' \in [Channels -> Seq(1..MaxChunks)] /\ UNCHANGED <<delivered, pending>>
          BY <1>3, <3>2 DEF Inv, TypeOK, ChannelTypes
        <4>5. Contract!Deliver(c, n)
          <5>1. Len(delivered'[c]) = n /\ Len(delivered[c]) <= n
            BY <4>1, <4>4
          <5>2. \A d \in Channels \ {c} : delivered'[d] = delivered[d]
            BY <4>4
          <5> QED BY <1>1, <1>5, <4>2, <4>3, <4>4, <5>1, <5>2, Delivers
        <4>6. n \in 0..written[c]
          BY <4>2 DEF Inv, TypeOK, ProcessTypes
        <4> QED BY <4>1, <4>4, <4>5, <4>6
      <3> QED BY <3>1, <3>2
    <2>2. \A p \in Ids \ {c} : Told(p)' = Told(p)
      BY <1>1 DEF Told, Ids, Inv, TypeOK, ChannelTypes
    <2>3. [p \in Ids |-> IF p \in Channels THEN written[p] ELSE 0][c] = written[c]
      BY <1>2
    <2>4. CASE exitEmitted'[c] = FALSE
      <3>1. Told(c)' = Told(c)
        BY <1>1, <1>2, <1>5, <2>4 DEF Told
      <3>2. UNCHANGED [p \in Ids |-> IF p \in Runs THEN outcome[p]
                                     ELSE IF exitEmitted[p] THEN exit[p] ELSE "nothing"]
        BY <2>2, <3>1 DEF Told
      <3>3. Contract!DeliverSome(c)
        BY <2>1, <2>3, <3>2 DEF Contract!DeliverSome
      <3> QED BY <1>2, <3>3 DEF Contract!Next
    <2>5. CASE exitEmitted'[c] = TRUE
      <3>1. exit[c] \in {"exit", "lost"} /\ n = Received(c)
        BY <1>1, <1>5, <2>1, <2>5 DEF Inv, TypeOK, ChannelTypes
      <3>2. Told(c)' = exit[c]
        BY <1>1, <1>2, <2>5 DEF Told
      <3>3. [p \in Ids |-> IF p \in Runs THEN outcome'[p]
                           ELSE IF exitEmitted'[p] THEN exit'[p] ELSE "nothing"]
              = [[p \in Ids |-> IF p \in Runs THEN outcome[p]
                                 ELSE IF exitEmitted[p] THEN exit[p] ELSE "nothing"] EXCEPT ![c] = exit[c]]
        BY <1>2, <2>2, <3>2 DEF Told
      <3>4. CASE exit[c] = "exit"
        <4>1. n = written[c] /\ c \in {p \in Ids : process[p] \in {"exited", "closed"}}
          BY <1>2, <3>1, <3>4 DEF Inv, ChannelOK
        <4>2. Contract!TellExit(c)
          BY <2>1, <2>3, <3>3, <3>4, <4>1 DEF Contract!TellExit, Contract!Deliver
        <4> QED BY <1>2, <4>2 DEF Contract!Next
      <3>5. CASE exit[c] = "lost"
        <4>1. failure
          BY <3>5 DEF Inv, ChannelOK
        <4>2. Contract!TellLost(c)
          BY <2>1, <2>3, <3>3, <3>5, <4>1 DEF Contract!TellLost
        <4> QED BY <1>2, <4>2 DEF Contract!Next
      <3> QED BY <3>1, <3>4, <3>5
    <2> QED BY <1>1, <1>5, <2>4, <2>5 DEF Inv, TypeOK, ChannelTypes
  <1> QED BY <1>4, <1>5

LEMMA InitRefines == Init => Contract!Init
  <1> SUFFICES ASSUME Init PROVE Contract!Init
    OBVIOUS
  <1>1. [p \in Ids |-> IF p \in Channels THEN written[p] ELSE 0] = [p \in Ids |-> 0]
    BY DEF Init
  <1>2. [p \in Ids |-> IF p \in Channels THEN delivered[p] ELSE <<>>] = [p \in Ids |-> <<>>]
    BY DEF Init
  <1>3. [p \in Ids |-> IF p \in Runs THEN outcome[p]
                       ELSE IF exitEmitted[p] THEN exit[p] ELSE "nothing"] = [p \in Ids |-> "nothing"]
    BY DEF Init, Ids
  <1>4. {p \in Ids : process[p] \in {"exited", "closed"}} = {}
    BY DEF Init
  <1> QED BY <1>1, <1>2, <1>3, <1>4 DEF Contract!Init, Init

(* Whatever the pipe carries for other processes, the host gets the output *)
(* of each in order and before its exit, and hears of a made-up end only   *)
(* when the spawner has gone (spawner.ts:205-343, spawner-child.ts:36-87). *)
THEOREM SpawnerImplementsContract == Spec => ImplementsContract
  <1>1. Inv /\ [Next]_vars => [Contract!Next]_Contract!vars
    <2> SUFFICES ASSUME Inv, [Next]_vars PROVE [Contract!Next]_Contract!vars
      OBVIOUS
    <2>1. CASE HostSteps
      BY <2>1, QuietSteps, QuietReceive, QuietCalls, FlushRefines, ReadRefines, ResultRefines, LostRefines
      DEF HostSteps, DataEvent, ReadOnce
    <2>2. CASE \/ \E c \in Channels : Spawn(c) \/ ReadSync(c) \/ \E t \in {"stdin", "end"} : Call(t, c)
               \/ \E r \in Runs : SpawnSync(r)
      BY <2>2, QuietSteps, QuietCalls, LostRefines
    <2>3. CASE HostDies \/ SpawnerSteps \/ StdoutBreaks \/ SpawnerDies
      BY <2>3, QuietSteps, ProcessRefines DEF SpawnerSteps
    <2>4. CASE (\E c \in Channels : Write(c)) \/ (\E p \in Ids : End(p)) \/ UNCHANGED vars
      BY <2>4, QuietSteps, ProcessRefines
    <2> QED BY <2>1, <2>2, <2>3, <2>4 DEF Next
  <1> QED BY <1>1, InitRefines, Invariance, PTL DEF Spec, ImplementsContract, Contract!Spec
=============================================================================
