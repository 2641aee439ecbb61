------------------------ MODULE RuntimeBrokerProofs ------------------------
(***************************************************************************)
(* One child at a time and no caller forgotten, for any number of callers, *)
(* requests and faults.  The invariant follows the lifecycle mutex, the    *)
(* generation that is current and the entry of each caller in the table.   *)
(***************************************************************************)
EXTENDS RuntimeBroker, SequenceTheorems, TLAPS

(* TypeOK in the pieces that the steps change one by one. *)
ThreadType == thread \in [Threads -> [pc : Pcs, request : Requests \cup {Nobody}, pipe : Nat]]
ReaderType == reader \in [Gens -> [pc : {"none", "read", "ready", "exit", "take", "drain",
                                         "report", "done"}, pid : Nat]]
ChildType  == child \in [Gens -> [alive : BOOLEAN, announced : BOOLEAN, inbox : SUBSET Requests,
                                  out : Seq(Requests \cup {"ready", "garbled"})]]
TableType  == /\ pending \in [Requests -> Callers \cup {Nobody}]
              /\ reply \in [Callers -> {"none", "ok", "failed", "error"}]
StatusType == status \in [state : {"disconnected", "starting", "connecting", "ready"},
                          pid : Nat, restarts : Nat]
SpentType  == spent \in [exits : Nat, garbled : Nat, restarts : Nat, spawns : Nat, kills : Nat]
PlainType  == /\ process \in Nat /\ generation \in Nat
              /\ lifecycle \in Threads \cup {Nobody}
              /\ app \in BOOLEAN /\ shutdown \in BOOLEAN

At(t, pcs) == thread[t].pc \in pcs
Some(pc)   == \E t \in Threads : thread[t].pc = pc

(* One thread is in a section of the lifecycle mutex, and nobody else      *)
(* moves the generation.                                                   *)
HolderOK == \A t \in Threads : At(t, Locked) <=> lifecycle = t
RangeOK  == generation \in 0 .. MaxGeneration
RolesOK  == \A g \in Gens : At(g, {"idle", "sleep", "start", "recheck", "starting", "spawn",
                                   "register", "connect"})

(* While a thread spawns there is no process but the one it registered.    *)
SpawnOK ==
  /\ \A t \in Threads : At(t, {"starting", "spawn", "register", "fail", "stopped"}) => process = 0
  /\ \A t \in Threads : At(t, {"register", "connect"}) =>
       thread[t].pipe = generation /\ generation \in Gens
  /\ \A t \in Threads : At(t, {"connect"}) => process = generation

(* A process is the current generation until it is stopped, and its reader *)
(* is on its way.                                                          *)
ProcessOK ==
  /\ process \in 0 .. generation
  /\ process # 0 /\ process # generation => Some("kill")
  /\ process # 0 /\ process = generation =>
       reader[process].pc \in {"read", "ready", "exit", "take"} \/ Some("connect")
  /\ \A g \in Gens : reader[g].pc \in {"read", "ready", "exit"} /\ generation = g => process = g

(* A generation that has not come has no reader and no child, one that is  *)
(* being made no reader; its own thread works when the reader has left.    *)
FreshOK == \A g \in Gens : g > generation => reader[g].pc = "none" /\ ~child[g].alive
MakingOK == \A t \in Threads : At(t, {"kill", "register", "connect"}) =>
              generation \in Gens /\ reader[generation].pc = "none"
TurnsOK == \A g \in Gens : thread[g].pc # "idle" => reader[g].pc = "done"

(* Without a garbled line and a failed kill a live child is the process,   *)
(* or about to be registered.                                              *)
CleanOK == spent.garbled = 0 =>
  \A g \in Gens : \A i \in DOMAIN child[g].out : child[g].out[i] # "garbled"
LeftOK == spent.garbled = 0 =>
  \A g \in Gens : reader[g].pc \in {"exit", "take"} => ~child[g].alive
AliveOK == spent.garbled = 0 /\ spent.kills = 0 =>
  \A g \in Gens : child[g].alive => process = g \/ (Some("register") /\ generation = g)

(* Each request has one caller, whose entry is in the table from before    *)
(* the line is written until its channel has a message.                    *)
TableOK ==
  /\ \A c, d \in Callers : thread[c].request = thread[d].request =>
       c = d \/ thread[c].request = Nobody
  /\ \A r \in Requests : pending[r] # Nobody => thread[pending[r]].request = r
  /\ \A c \in Callers : At(c, {"check", "insert", "pipe", "write", "wait"}) =>
       thread[c].request # Nobody
  /\ \A c \in Callers : At(c, {"stop", "kill", "fail", "stopped"}) => thread[c].request = Nobody
  /\ \A c \in Callers : At(c, {"pipe", "write", "wait"}) /\ reply[c] = "none" =>
       pending[thread[c].request] = c

(* The process a caller writes to, or waits for, is watched. *)
WatchOK ==
  spent.kills = 0 => \A c \in Callers :
    At(c, {"write", "wait"}) /\ reply[c] = "none" =>
      thread[c].pipe \in Gens /\ Watched(thread[c].pipe)

IInv ==
  /\ TypeOK /\ HolderOK /\ RangeOK /\ RolesOK /\ SpawnOK /\ ProcessOK /\ FreshOK
  /\ MakingOK /\ TurnsOK /\ CleanOK /\ LeftOK /\ AliveOK /\ TableOK /\ WatchOK

(* Callers, generations and nobody are different threads. *)
LEMMA Apart ==
  /\ MaxGeneration \in Nat
  /\ \A g \in Gens : g \in Nat /\ g # 0 /\ g \notin Callers /\ g # Nobody
  /\ \A c \in Callers : c \notin Gens /\ c \notin Nat /\ c # Nobody
<1>1. MaxGeneration \in Nat  BY BrokerConstantsOK DEF MaxGeneration
<1>. QED  BY <1>1, BrokerConstantsOK DEF Gens

(* What a write changes that matters elsewhere: the caller's place. *)
LEMMA WriteLineMoves ==
  ASSUME ThreadType, PlainType, ChildType, NEW c \in Callers, WriteLine(c)
  PROVE  /\ \A t \in Threads \ {c} : thread'[t] = thread[t]
         /\ thread[c].pc = "write" /\ thread'[c].pc \in {"wait", "idle"}
         /\ thread'[c].request = thread[c].request /\ thread'[c].pipe = thread[c].pipe
         /\ reply' = reply \/ (thread'[c].pc = "idle" /\ reply' = [reply EXCEPT ![c] = "error"])
         /\ \A g \in Gens : child'[g].alive = child[g].alive /\ child'[g].out = child[g].out
         /\ UNCHANGED <<process, generation, lifecycle, reader, spent>>
<1>1. UNCHANGED <<process, generation, lifecycle, reader, spent>> /\ thread[c].pc = "write"
  BY DEF WriteLine
<1>2. \/ thread' = [thread EXCEPT ![c].pc = "wait"] /\ reply' = reply
      \/ thread' = [thread EXCEPT ![c].pc = "idle"] /\ reply' = [reply EXCEPT ![c] = "error"]
  BY DEF WriteLine, GiveUp, Goto
<1>3. \/ child' = [child EXCEPT ![thread[c].pipe].inbox = @ \cup {thread[c].request}]
      \/ child' = child
  BY DEF WriteLine
<1>4. \A g \in Gens : child'[g].alive = child[g].alive /\ child'[g].out = child[g].out
  BY <1>3 DEF ChildType
<1>. QED  BY <1>1, <1>2, <1>4 DEF ThreadType, Threads

(* The thread of a generation is idle when its reader leaves it the exit. *)
LEMMA ExitReportMoves ==
  ASSUME ThreadType, TurnsOK, NEW g \in Gens, ExitReport(g)
  PROVE  /\ \A t \in Threads \ {g} : thread'[t] = thread[t]
         /\ thread[g].pc = "idle" /\ thread'[g].pc \in {"idle", "sleep"}
         /\ thread'[g].pipe = thread[g].pipe /\ thread'[g].request = thread[g].request
         /\ UNCHANGED <<process, generation, lifecycle, pending, reply, child, spent>>
         /\ reader' = [reader EXCEPT ![g].pc = "done"] /\ reader[g].pc = "report"
BY DEF ThreadType, TurnsOK, Threads, ExitReport, Goto, GotoReader, AtReader, SetStatus

(* A caller takes the pipe of the process, or gives up where there is none. *)
LEMMA TakePipeMoves ==
  ASSUME ThreadType, NEW c \in Callers, TakePipe(c)
  PROVE  /\ \A t \in Threads \ {c} : thread'[t] = thread[t]
         /\ thread[c].pc = "pipe" /\ thread'[c].request = thread[c].request
         /\ \/ process # 0 /\ thread'[c].pc = "write" /\ thread'[c].pipe = process
               /\ pending' = pending /\ reply' = reply
            \/ thread'[c].pc = "idle" /\ reply' = [reply EXCEPT ![c] = "error"]
         /\ UNCHANGED <<process, generation, lifecycle, reader, child, spent>>
BY DEF ThreadType, Threads, TakePipe, GiveUp

(* With the mutex a thread starts when there is no process, or lets go. *)
LEMMA RecheckMoves ==
  ASSUME ThreadType, NEW t \in Threads, Recheck(t)
  PROVE  /\ \A u \in Threads \ {t} : thread'[u] = thread[u]
         /\ thread[t].pc = "recheck"
         /\ thread'[t].request = thread[t].request /\ thread'[t].pipe = thread[t].pipe
         /\ \/ process = 0 /\ thread'[t].pc = "starting" /\ lifecycle' = lifecycle
            \/ thread'[t].pc \in {"insert", "idle"} /\ lifecycle' = Nobody
         /\ UNCHANGED <<process, generation, pending, reply, reader, child, spent>>
BY DEF ThreadType, Threads, Recheck, NeedsSpawn, Goto, AfterStart

(* The elements of a sequence with one more. *)
LEMMA AppendElements ==
  ASSUME NEW S, NEW s \in Seq(S), NEW e \in S
  PROVE  \A i \in DOMAIN Append(s, e) :
            Append(s, e)[i] = e \/ (i \in DOMAIN s /\ Append(s, e)[i] = s[i])
OBVIOUS

(* The lifecycle mutex is held by the thread that is in one of its sections. *)
LEMMA HolderStep ==
  ASSUME ThreadType, PlainType, RolesOK, HolderOK, TurnsOK,
         Next
  PROVE  HolderOK'
<1>. USE Apart
    DEF ThreadType, PlainType, RolesOK, HolderOK, TurnsOK, At, Pcs, Locked, Threads,
        IdleThread
<1>1. ASSUME NEW c \in Callers, Call(c) PROVE HolderOK'
  BY <1>1 DEF Call, Request, Fresh, Restart, Spend, Goto
<1>2. ASSUME NEW c \in Callers, Respond(c) PROVE HolderOK'
  BY <1>2 DEF Respond, CheckStarted, Goto, Insert, TakePipe, GiveUp, WriteLine, Receive
<1>3. ASSUME NEW c \in Callers, RequestTimeout(c) PROVE HolderOK'
  BY <1>3 DEF RequestTimeout, GiveUp
<1>4. ASSUME NEW t \in Threads, Spawn(t) PROVE HolderOK'
  BY <1>4 DEF Spawn, AcquireToStart, Goto, Recheck, NeedsSpawn, AfterStart, SpawnStarting,
     Restarted, SpawnChild, SpawnFails, Spend, SetStatus, SpawnRegister, SpawnConnect
<1>5. ASSUME NEW c \in Callers, Stop(c) PROVE HolderOK'
  BY <1>5 DEF Stop, StopGeneration, Goto, StopProcess, StopFails, Spend, StopPending, FailPending,
     StopStatus, SetStatus
<1>6. ASSUME NEW g \in Gens, Read(g) PROVE HolderOK'
  <2>1. CASE ReadResponse(g)
    BY <1>6, <2>1 DEF ReadResponse, NextLine, Consume, AtReader
  <2>2. CASE ReadReady(g)
    BY <1>6, <2>2 DEF ReadReady, NextLine, Consume, AtReader
  <2>3. CASE ReportReady(g)
    BY <1>6, <2>3 DEF ReportReady, SetStatus, AtReader
  <2>4. CASE ReadGarbled(g)
    BY <1>6, <2>4 DEF ReadGarbled, NextLine, Consume, AtReader, SetStatus, GotoReader
  <2>5. CASE ReadEnd(g)
    BY <1>6, <2>5 DEF ReadEnd, AtReader, GotoReader
  <2>6. CASE ExitCheck(g)
    BY <1>6, <2>6 DEF ExitCheck, AtReader, GotoReader, StillCurrent
  <2>7. CASE ExitTake(g)
    BY <1>6, <2>7 DEF ExitTake, AtReader, GotoReader
  <2>8. CASE ExitPending(g)
    BY <1>6, <2>8 DEF ExitPending, AtReader, GotoReader, FailPending
  <2>9. CASE ExitReport(g)
    BY <2>9, ExitReportMoves, Apart DEF HolderOK, At, Threads, Locked, ThreadType
  <2>10. CASE RestartWakes(g)
    BY <1>6, <2>10 DEF RestartWakes, RestartDue, Goto
  <2>. QED  BY <1>6, <2>1, <2>2, <2>3, <2>4, <2>5, <2>6, <2>7, <2>8, <2>9, <2>10 DEF Read
<1>7. ASSUME NEW g \in Gens, Child(g) PROVE HolderOK'
  BY <1>7 DEF Child, ChildAnnounces, ChildAnswers, ChildGarbles, Spend, Say, ChildExits, Unheld
<1>8. ASSUME DropHandle PROVE HolderOK'
  BY <1>8 DEF DropHandle, OtherHandles
<1>. QED  BY <1>1, <1>2, <1>3, <1>4, <1>5, <1>6, <1>7, <1>8 DEF Next

(* The counter stays in its bound. *)
LEMMA RangeStep ==
  ASSUME ThreadType, PlainType, RangeOK,
         Next
  PROVE  RangeOK'
<1>. USE Apart
    DEF ThreadType, PlainType, RangeOK, At, Pcs, Locked, Threads, IdleThread
<1>1. ASSUME NEW c \in Callers, Call(c) PROVE RangeOK'
  BY <1>1 DEF Call, Request, Fresh, Restart, Spend, Goto
<1>2. ASSUME NEW c \in Callers, Respond(c) PROVE RangeOK'
  BY <1>2 DEF Respond, CheckStarted, Goto, Insert, TakePipe, GiveUp, WriteLine, Receive
<1>3. ASSUME NEW c \in Callers, RequestTimeout(c) PROVE RangeOK'
  BY <1>3 DEF RequestTimeout, GiveUp
<1>4. ASSUME NEW t \in Threads, Spawn(t) PROVE RangeOK'
  BY <1>4 DEF Spawn, AcquireToStart, Goto, Recheck, NeedsSpawn, AfterStart, SpawnStarting,
     Restarted, SpawnChild, SpawnFails, Spend, SetStatus, SpawnRegister, SpawnConnect
<1>5. ASSUME NEW c \in Callers, Stop(c) PROVE RangeOK'
  BY <1>5 DEF Stop, StopGeneration, Goto, StopProcess, StopFails, Spend, StopPending, FailPending,
     StopStatus, SetStatus
<1>6. ASSUME NEW g \in Gens, Read(g) PROVE RangeOK'
  BY <1>6 DEF Read, ReadResponse, NextLine, Consume, AtReader, ReadReady, ReportReady, SetStatus,
     ReadGarbled, GotoReader, ReadEnd, ExitCheck, StillCurrent, ExitTake, ExitPending,
     FailPending, ExitReport, Goto, RestartWakes, RestartDue
<1>7. ASSUME NEW g \in Gens, Child(g) PROVE RangeOK'
  BY <1>7 DEF Child, ChildAnnounces, ChildAnswers, ChildGarbles, Spend, Say, ChildExits, Unheld
<1>8. ASSUME DropHandle PROVE RangeOK'
  BY <1>8 DEF DropHandle, OtherHandles
<1>. QED  BY <1>1, <1>2, <1>3, <1>4, <1>5, <1>6, <1>7, <1>8 DEF Next

(* The thread of a generation does nothing but restart. *)
LEMMA RolesStep ==
  ASSUME ThreadType, PlainType, RolesOK, TurnsOK,
         Next
  PROVE  RolesOK'
<1>. USE Apart
    DEF ThreadType, PlainType, RolesOK, TurnsOK, At, Pcs, Locked, Threads, IdleThread
<1>1. ASSUME NEW c \in Callers, Call(c) PROVE RolesOK'
  BY <1>1 DEF Call, Request, Fresh, Restart, Spend, Goto
<1>2. ASSUME NEW c \in Callers, Respond(c) PROVE RolesOK'
  BY <1>2 DEF Respond, CheckStarted, Goto, Insert, TakePipe, GiveUp, WriteLine, Receive
<1>3. ASSUME NEW c \in Callers, RequestTimeout(c) PROVE RolesOK'
  BY <1>3 DEF RequestTimeout, GiveUp
<1>4. ASSUME NEW t \in Threads, Spawn(t) PROVE RolesOK'
  BY <1>4 DEF Spawn, AcquireToStart, Goto, Recheck, NeedsSpawn, AfterStart, SpawnStarting,
     Restarted, SpawnChild, SpawnFails, Spend, SetStatus, SpawnRegister, SpawnConnect
<1>5. ASSUME NEW c \in Callers, Stop(c) PROVE RolesOK'
  BY <1>5 DEF Stop, StopGeneration, Goto, StopProcess, StopFails, Spend, StopPending, FailPending,
     StopStatus, SetStatus
<1>6. ASSUME NEW g \in Gens, Read(g) PROVE RolesOK'
  BY <1>6 DEF Read, ReadResponse, NextLine, Consume, AtReader, ReadReady, ReportReady, SetStatus,
     ReadGarbled, GotoReader, ReadEnd, ExitCheck, StillCurrent, ExitTake, ExitPending,
     FailPending, ExitReport, Goto, RestartWakes, RestartDue
<1>7. ASSUME NEW g \in Gens, Child(g) PROVE RolesOK'
  BY <1>7 DEF Child, ChildAnnounces, ChildAnswers, ChildGarbles, Spend, Say, ChildExits, Unheld
<1>8. ASSUME DropHandle PROVE RolesOK'
  BY <1>8 DEF DropHandle, OtherHandles
<1>. QED  BY <1>1, <1>2, <1>3, <1>4, <1>5, <1>6, <1>7, <1>8 DEF Next

(* SpawnOK when a reader reports the exit. *)
LEMMA SpawnExitReport ==
  ASSUME ThreadType, PlainType, HolderOK, RangeOK, RolesOK, ChildType, SpawnOK, MakingOK,
         ReaderType, TurnsOK,
         NEW g \in Gens, ExitReport(g)
  PROVE  SpawnOK'
BY ExitReportMoves, Apart DEF SpawnOK, At, Threads

(* SpawnOK when a thread looks again. *)
LEMMA SpawnRecheck ==
  ASSUME ThreadType, PlainType, HolderOK, RangeOK, RolesOK, ChildType, SpawnOK, MakingOK,
         ReaderType, TurnsOK,
         NEW t \in Threads, Recheck(t)
  PROVE  SpawnOK'
BY RecheckMoves, Apart DEF SpawnOK, At, Threads

(* SpawnOK when a caller takes the pipe. *)
LEMMA SpawnTakePipe ==
  ASSUME ThreadType, PlainType, HolderOK, RangeOK, RolesOK, ChildType, SpawnOK, MakingOK,
         ReaderType, TurnsOK,
         NEW c \in Callers, TakePipe(c)
  PROVE  SpawnOK'
BY TakePipeMoves, Apart DEF SpawnOK, At, Threads

(* SpawnOK when a caller writes its line. *)
LEMMA SpawnWriteLine ==
  ASSUME ThreadType, PlainType, HolderOK, RangeOK, RolesOK, ChildType, SpawnOK, MakingOK,
         ReaderType, TurnsOK,
         NEW c \in Callers, WriteLine(c)
  PROVE  SpawnOK'
BY WriteLineMoves, Apart DEF SpawnOK, At, Threads

(* Only the holder of the mutex spawns, and it saw that there is no process. *)
LEMMA SpawnStep ==
  ASSUME ThreadType, PlainType, HolderOK, RangeOK, RolesOK, ChildType, SpawnOK, MakingOK,
         ReaderType, TurnsOK,
         Next
  PROVE  SpawnOK'
<1>. USE Apart
    DEF ThreadType, PlainType, HolderOK, RangeOK, RolesOK, ChildType, SpawnOK, MakingOK,
        ReaderType, TurnsOK, At, Pcs, Locked, Threads, IdleThread
<1>1. ASSUME NEW c \in Callers, Call(c) PROVE SpawnOK'
  <2>1. ASSUME NEW r \in Requests, Request(c, r) PROVE SpawnOK'
    BY <1>1, <2>1 DEF Request, Fresh
  <2>2. CASE Restart(c)
    BY <1>1, <2>2 DEF Restart, Spend, Goto
  <2>. QED  BY <1>1, <2>1, <2>2 DEF Call
<1>2. ASSUME NEW c \in Callers, Respond(c) PROVE SpawnOK'
  <2>1. CASE CheckStarted(c)
    BY <1>2, <2>1 DEF CheckStarted, Goto
  <2>2. CASE Insert(c)
    BY <1>2, <2>2 DEF Insert, Goto
  <2>3. CASE TakePipe(c)
    BY <2>3, SpawnTakePipe
  <2>4. CASE WriteLine(c)
    BY <2>4, SpawnWriteLine
  <2>5. CASE Receive(c)
    BY <1>2, <2>5 DEF Receive, Goto
  <2>. QED  BY <1>2, <2>1, <2>2, <2>3, <2>4, <2>5 DEF Respond
<1>3. ASSUME NEW c \in Callers, RequestTimeout(c) PROVE SpawnOK'
  BY <1>3 DEF RequestTimeout, GiveUp
<1>4. ASSUME NEW t \in Threads, Spawn(t) PROVE SpawnOK'
  <2>1. CASE AcquireToStart(t)
    BY <1>4, <2>1 DEF AcquireToStart, Goto
  <2>2. CASE Recheck(t)
    BY <2>2, SpawnRecheck
  <2>3. CASE SpawnStarting(t)
    BY <1>4, <2>3 DEF SpawnStarting, Restarted, Goto
  <2>4. CASE SpawnChild(t)
    BY <1>4, <2>4 DEF Gens, SpawnChild
  <2>5. CASE SpawnFails(t)
    BY <1>4, <2>5 DEF SpawnFails, Spend, SetStatus
  <2>6. CASE SpawnRegister(t)
    BY <1>4, <2>6 DEF SpawnRegister, Goto
  <2>7. CASE SpawnConnect(t)
    BY <1>4, <2>7 DEF SpawnConnect, SetStatus, AfterStart, Goto
  <2>. QED  BY <1>4, <2>1, <2>2, <2>3, <2>4, <2>5, <2>6, <2>7 DEF Spawn
<1>5. ASSUME NEW c \in Callers, Stop(c) PROVE SpawnOK'
  <2>1. CASE StopGeneration(c)
    BY <1>5, <2>1 DEF StopGeneration, Goto
  <2>2. CASE StopProcess(c)
    BY <1>5, <2>2 DEF StopProcess, Goto
  <2>3. CASE StopFails(c)
    BY <1>5, <2>3 DEF StopFails, Spend
  <2>4. CASE StopPending(c)
    BY <1>5, <2>4 DEF StopPending, FailPending, Goto
  <2>5. CASE StopStatus(c)
    BY <1>5, <2>5 DEF StopStatus, SetStatus, Goto
  <2>. QED  BY <1>5, <2>1, <2>2, <2>3, <2>4, <2>5 DEF Stop
<1>6. ASSUME NEW g \in Gens, Read(g) PROVE SpawnOK'
  <2>1. CASE ReadResponse(g)
    BY <1>6, <2>1 DEF ReadResponse, NextLine, Consume, AtReader
  <2>2. CASE ReadReady(g)
    BY <1>6, <2>2 DEF ReadReady, NextLine, Consume, AtReader
  <2>3. CASE ReportReady(g)
    BY <1>6, <2>3 DEF ReportReady, SetStatus, AtReader
  <2>4. CASE ReadGarbled(g)
    BY <1>6, <2>4 DEF ReadGarbled, NextLine, Consume, AtReader, SetStatus, GotoReader
  <2>5. CASE ReadEnd(g)
    BY <1>6, <2>5 DEF ReadEnd, AtReader, GotoReader
  <2>6. CASE ExitCheck(g)
    BY <1>6, <2>6 DEF ExitCheck, AtReader, GotoReader, StillCurrent
  <2>7. CASE ExitTake(g)
    BY <1>6, <2>7 DEF ExitTake, AtReader, GotoReader
  <2>8. CASE ExitPending(g)
    BY <1>6, <2>8 DEF ExitPending, AtReader, GotoReader, FailPending
  <2>9. CASE ExitReport(g)
    BY <2>9, SpawnExitReport
  <2>10. CASE RestartWakes(g)
    BY <1>6, <2>10 DEF RestartWakes, RestartDue, Goto
  <2>. QED  BY <1>6, <2>1, <2>2, <2>3, <2>4, <2>5, <2>6, <2>7, <2>8, <2>9, <2>10 DEF Read
<1>7. ASSUME NEW g \in Gens, Child(g) PROVE SpawnOK'
  <2>1. CASE ChildAnnounces(g)
    BY <1>7, <2>1 DEF ChildAnnounces
  <2>2. ASSUME NEW r \in Requests, ChildAnswers(g, r) PROVE SpawnOK'
    BY <1>7, <2>2 DEF ChildAnswers
  <2>3. CASE ChildGarbles(g)
    BY <1>7, <2>3 DEF ChildGarbles, Spend, Say
  <2>4. CASE ChildExits(g)
    BY <1>7, <2>4 DEF ChildExits, Spend, Unheld
  <2>. QED  BY <1>7, <2>1, <2>2, <2>3, <2>4 DEF Child
<1>8. ASSUME DropHandle PROVE SpawnOK'
  BY <1>8 DEF DropHandle, OtherHandles
<1>. QED  BY <1>1, <1>2, <1>3, <1>4, <1>5, <1>6, <1>7, <1>8 DEF Next

(* A reader takes its process out before it leaves; a stop kills the rest. *)
LEMMA ProcessStep ==
  ASSUME ThreadType, PlainType, HolderOK, RangeOK, RolesOK, ReaderType, SpawnOK, ProcessOK,
         FreshOK, MakingOK, TurnsOK,
         Next
  PROVE  ProcessOK'
<1>. USE Apart
    DEF ThreadType, PlainType, HolderOK, RangeOK, RolesOK, ReaderType, SpawnOK, ProcessOK,
        FreshOK, MakingOK, TurnsOK, At, Some, Pcs, Locked, Threads, IdleThread
<1>1. ASSUME NEW c \in Callers, Call(c) PROVE ProcessOK'
  BY <1>1 DEF Call, Request, Fresh, Restart, Spend, Goto
<1>2. ASSUME NEW c \in Callers, Respond(c) PROVE ProcessOK'
  BY <1>2 DEF Respond, CheckStarted, Goto, Insert, TakePipe, GiveUp, WriteLine, Receive
<1>3. ASSUME NEW c \in Callers, RequestTimeout(c) PROVE ProcessOK'
  BY <1>3 DEF RequestTimeout, GiveUp
<1>4. ASSUME NEW t \in Threads, Spawn(t) PROVE ProcessOK'
  BY <1>4 DEF Spawn, AcquireToStart, Goto, Recheck, NeedsSpawn, AfterStart, SpawnStarting,
     Restarted, SpawnChild, SpawnFails, Spend, SetStatus, SpawnRegister, SpawnConnect
<1>5. ASSUME NEW c \in Callers, Stop(c) PROVE ProcessOK'
  <2>1. CASE StopGeneration(c)
    BY <1>5, <2>1 DEF StopGeneration, Goto
  <2>2. CASE StopProcess(c)
    <3>1. \A g \in Gens : reader[g].pc \in {"read", "ready", "exit"} => generation # g
      BY <2>2, Apart DEF StopProcess, MakingOK, At, Threads
    <3>. QED  BY <2>2, <3>1 DEF StopProcess, ProcessOK, RangeOK
  <2>3. CASE StopFails(c)
    <3>1. \A g \in Gens : reader[g].pc \in {"read", "ready", "exit"} => generation # g
      BY <2>3, Apart DEF StopFails, MakingOK, At, Threads
    <3>. QED  BY <2>3, <3>1 DEF StopFails, ProcessOK, RangeOK
  <2>4. CASE StopPending(c)
    BY <1>5, <2>4 DEF StopPending, FailPending, Goto
  <2>5. CASE StopStatus(c)
    BY <1>5, <2>5 DEF StopStatus, SetStatus, Goto
  <2>. QED  BY <1>5, <2>1, <2>2, <2>3, <2>4, <2>5 DEF Stop
<1>6. ASSUME NEW g \in Gens, Read(g) PROVE ProcessOK'
  <2>1. CASE ReadResponse(g)
    BY <1>6, <2>1 DEF ReadResponse, NextLine, Consume, AtReader
  <2>2. CASE ReadReady(g)
    BY <1>6, <2>2 DEF ReadReady, NextLine, Consume, AtReader
  <2>3. CASE ReportReady(g)
    BY <1>6, <2>3 DEF ReportReady, SetStatus, AtReader
  <2>4. CASE ReadGarbled(g)
    BY <1>6, <2>4 DEF ReadGarbled, NextLine, Consume, AtReader, SetStatus, GotoReader
  <2>5. CASE ReadEnd(g)
    BY <1>6, <2>5 DEF ReadEnd, AtReader, GotoReader
  <2>6. CASE ExitCheck(g)
    BY <1>6, <2>6 DEF ExitCheck, AtReader, GotoReader, StillCurrent
  <2>7. CASE ExitTake(g)
    BY <1>6, <2>7 DEF ExitTake, AtReader, GotoReader
  <2>8. CASE ExitPending(g)
    BY <1>6, <2>8 DEF ExitPending, AtReader, GotoReader, FailPending
  <2>9. CASE ExitReport(g)
    <3>1. \A h \in Gens : h # g => reader'[h] = reader[h]
      BY <2>9, ExitReportMoves DEF ReaderType
    <3>2. Some("kill") => Some("kill")'
      BY <2>9, ExitReportMoves DEF Some, Threads
    <3>3. Some("connect") => Some("connect")'
      BY <2>9, ExitReportMoves DEF Some, Threads
    <3>4. process # 0 => process \in Gens
      BY Apart DEF ProcessOK, RangeOK, PlainType, Gens
    <3>5. process' = process /\ generation' = generation 
          /\ reader[g].pc = "report" /\ reader'[g].pc = "done"
      BY <2>9, ExitReportMoves DEF ReaderType
    <3>6. process' \in 0 .. generation' /\ (process' # 0 /\ process' # generation' => Some("kill")')
      BY <3>2, <3>5 DEF ProcessOK
    <3>7. process' # 0 /\ process' = generation' =>
            reader'[process'].pc \in {"read", "ready", "exit", "take"} \/ Some("connect")'
      BY <3>1, <3>3, <3>4, <3>5 DEF ProcessOK
    <3>8. \A h \in Gens : reader'[h].pc \in {"read", "ready", "exit"} /\ generation' = h =>
            process' = h
      BY <3>1, <3>5 DEF ProcessOK
    <3>. QED  BY <3>6, <3>7, <3>8 DEF ProcessOK
  <2>10. CASE RestartWakes(g)
    BY <1>6, <2>10 DEF RestartWakes, RestartDue, Goto
  <2>. QED  BY <1>6, <2>1, <2>2, <2>3, <2>4, <2>5, <2>6, <2>7, <2>8, <2>9, <2>10 DEF Read
<1>7. ASSUME NEW g \in Gens, Child(g) PROVE ProcessOK'
  BY <1>7, ZenonT(60) DEF Child, ChildAnnounces, ChildAnswers, ChildGarbles, Spend, Say,
     ChildExits, Unheld
<1>8. ASSUME DropHandle PROVE ProcessOK'
  BY <1>8 DEF DropHandle, OtherHandles
<1>. QED  BY <1>1, <1>2, <1>3, <1>4, <1>5, <1>6, <1>7, <1>8 DEF Next

(* FreshOK when the shell lets go. *)
LEMMA FreshDropHandle ==
  ASSUME ThreadType, PlainType, HolderOK, RangeOK, RolesOK, ReaderType, ChildType, SpawnOK,
         ProcessOK, FreshOK, TurnsOK,
         DropHandle
  PROVE  FreshOK'
BY Apart DEF ThreadType, PlainType, HolderOK, RangeOK, RolesOK, ReaderType, ChildType, SpawnOK,
   ProcessOK, FreshOK, TurnsOK, At, Pcs, Locked, Threads, IdleThread, Gens, DropHandle,
   OtherHandles

(* A generation is made once. *)
LEMMA FreshStep ==
  ASSUME ThreadType, PlainType, HolderOK, RangeOK, RolesOK, ReaderType, ChildType, SpawnOK,
         ProcessOK, FreshOK, TurnsOK,
         Next
  PROVE  FreshOK'
<1>. USE Apart
    DEF ThreadType, PlainType, HolderOK, RangeOK, RolesOK, ReaderType, ChildType, SpawnOK,
        ProcessOK, FreshOK, TurnsOK, At, Pcs, Locked, Threads, IdleThread
<1>1. ASSUME NEW c \in Callers, Call(c) PROVE FreshOK'
  BY <1>1 DEF Call, Request, Fresh, Restart, Spend, Goto
<1>2. ASSUME NEW c \in Callers, Respond(c) PROVE FreshOK'
  BY <1>2 DEF Gens, Respond, CheckStarted, Goto, Insert, TakePipe, GiveUp, WriteLine, Receive
<1>3. ASSUME NEW c \in Callers, RequestTimeout(c) PROVE FreshOK'
  BY <1>3 DEF RequestTimeout, GiveUp
<1>4. ASSUME NEW t \in Threads, Spawn(t) PROVE FreshOK'
  <2>1. CASE AcquireToStart(t)
    BY <1>4, <2>1 DEF AcquireToStart, Goto
  <2>2. CASE Recheck(t)
    BY <1>4, <2>2 DEF Recheck, NeedsSpawn, AfterStart, Goto
  <2>3. CASE SpawnStarting(t)
    BY <1>4, <2>3 DEF SpawnStarting, Restarted, Goto
  <2>4. CASE SpawnChild(t)
    BY <1>4, <2>4 DEF SpawnChild
  <2>5. CASE SpawnFails(t)
    BY <1>4, <2>5 DEF SpawnFails, Spend, SetStatus
  <2>6. CASE SpawnRegister(t)
    BY <1>4, <2>6 DEF SpawnRegister, Goto
  <2>7. CASE SpawnConnect(t)
    BY <1>4, <2>7 DEF SpawnConnect, SetStatus, AfterStart, Goto
  <2>. QED  BY <1>4, <2>1, <2>2, <2>3, <2>4, <2>5, <2>6, <2>7 DEF Spawn
<1>5. ASSUME NEW c \in Callers, Stop(c) PROVE FreshOK'
  BY <1>5 DEF Stop, StopGeneration, Goto, StopProcess, StopFails, Spend, StopPending, FailPending,
     StopStatus, SetStatus
<1>6. ASSUME NEW g \in Gens, Read(g) PROVE FreshOK'
  <2>1. CASE ReadResponse(g)
    BY <1>6, <2>1 DEF ReadResponse, NextLine, Consume, AtReader
  <2>2. CASE ReadReady(g)
    BY <1>6, <2>2 DEF ReadReady, NextLine, Consume, AtReader
  <2>3. CASE ReportReady(g)
    BY <1>6, <2>3 DEF ReportReady, SetStatus, AtReader
  <2>4. CASE ReadGarbled(g)
    BY <1>6, <2>4 DEF ReadGarbled, NextLine, Consume, AtReader, SetStatus, GotoReader
  <2>5. CASE ReadEnd(g)
    BY <1>6, <2>5 DEF ReadEnd, AtReader, GotoReader
  <2>6. CASE ExitCheck(g)
    BY <1>6, <2>6 DEF ExitCheck, AtReader, GotoReader, StillCurrent
  <2>7. CASE ExitTake(g)
    BY <1>6, <2>7 DEF ExitTake, AtReader, GotoReader
  <2>8. CASE ExitPending(g)
    BY <1>6, <2>8 DEF ExitPending, AtReader, GotoReader, FailPending
  <2>9. CASE ExitReport(g)
    BY <1>6, <2>9 DEF ExitReport, AtReader, GotoReader, SetStatus, Goto
  <2>10. CASE RestartWakes(g)
    BY <1>6, <2>10 DEF RestartWakes, RestartDue, Goto
  <2>. QED  BY <1>6, <2>1, <2>2, <2>3, <2>4, <2>5, <2>6, <2>7, <2>8, <2>9, <2>10 DEF Read
<1>7. ASSUME NEW g \in Gens, Child(g) PROVE FreshOK'
  <2>1. CASE ChildAnnounces(g)
    BY <1>7, <2>1 DEF ChildAnnounces
  <2>2. ASSUME NEW r \in Requests, ChildAnswers(g, r) PROVE FreshOK'
    BY <1>7, <2>2 DEF ChildAnswers
  <2>3. CASE ChildGarbles(g)
    BY <1>7, <2>3 DEF ChildGarbles, Spend, Say
  <2>4. CASE ChildExits(g)
    BY <1>7, <2>4 DEF ChildExits, Spend, Unheld
  <2>. QED  BY <1>7, <2>1, <2>2, <2>3, <2>4 DEF Child
<1>8. ASSUME DropHandle PROVE FreshOK'
  BY <1>8, FreshDropHandle
<1>. QED  BY <1>1, <1>2, <1>3, <1>4, <1>5, <1>6, <1>7, <1>8 DEF Next

(* MakingOK when a reader reports the exit. *)
LEMMA MakingExitReport ==
  ASSUME ThreadType, PlainType, HolderOK, RangeOK, RolesOK, ChildType, ReaderType, SpawnOK,
         ProcessOK, FreshOK, MakingOK, TurnsOK,
         NEW g \in Gens, ExitReport(g)
  PROVE  MakingOK'
<1>1. \A h \in Gens \ {g} : reader'[h] = reader[h]
  BY ExitReportMoves DEF ReaderType
<1>. QED  BY <1>1, ExitReportMoves DEF MakingOK, At, Threads

(* MakingOK when a thread looks again. *)
LEMMA MakingRecheck ==
  ASSUME ThreadType, PlainType, HolderOK, RangeOK, RolesOK, ChildType, ReaderType, SpawnOK,
         ProcessOK, FreshOK, MakingOK, TurnsOK,
         NEW t \in Threads, Recheck(t)
  PROVE  MakingOK'
BY RecheckMoves, Apart DEF MakingOK, At, Threads

(* MakingOK when a caller takes the pipe. *)
LEMMA MakingTakePipe ==
  ASSUME ThreadType, PlainType, HolderOK, RangeOK, RolesOK, ChildType, ReaderType, SpawnOK,
         ProcessOK, FreshOK, MakingOK, TurnsOK,
         NEW c \in Callers, TakePipe(c)
  PROVE  MakingOK'
BY TakePipeMoves, Apart DEF MakingOK, At, Threads

(* MakingOK when a caller writes its line. *)
LEMMA MakingWriteLine ==
  ASSUME ThreadType, PlainType, HolderOK, RangeOK, RolesOK, ChildType, ReaderType, SpawnOK,
         ProcessOK, FreshOK, MakingOK, TurnsOK,
         NEW c \in Callers, WriteLine(c)
  PROVE  MakingOK'
BY WriteLineMoves, Apart DEF MakingOK, At, Threads

(* The reader of a new generation starts last. *)
LEMMA MakingStep ==
  ASSUME ThreadType, PlainType, HolderOK, RangeOK, RolesOK, ChildType, ReaderType, SpawnOK,
         ProcessOK, FreshOK, MakingOK, TurnsOK,
         Next
  PROVE  MakingOK'
<1>. USE Apart
    DEF ThreadType, PlainType, HolderOK, RangeOK, RolesOK, ChildType, ReaderType, SpawnOK,
        ProcessOK, FreshOK, MakingOK, TurnsOK, At, Pcs, Locked, Threads, IdleThread
<1>1. ASSUME NEW c \in Callers, Call(c) PROVE MakingOK'
  <2>1. ASSUME NEW r \in Requests, Request(c, r) PROVE MakingOK'
    BY <1>1, <2>1 DEF Request, Fresh
  <2>2. CASE Restart(c)
    BY <1>1, <2>2 DEF Restart, Spend, Goto
  <2>. QED  BY <1>1, <2>1, <2>2 DEF Call
<1>2. ASSUME NEW c \in Callers, Respond(c) PROVE MakingOK'
  <2>1. CASE CheckStarted(c)
    BY <1>2, <2>1 DEF CheckStarted, Goto
  <2>2. CASE Insert(c)
    BY <1>2, <2>2 DEF Insert, Goto
  <2>3. CASE TakePipe(c)
    BY <2>3, MakingTakePipe
  <2>4. CASE WriteLine(c)
    BY <2>4, MakingWriteLine
  <2>5. CASE Receive(c)
    BY <1>2, <2>5 DEF Receive, Goto
  <2>. QED  BY <1>2, <2>1, <2>2, <2>3, <2>4, <2>5 DEF Respond
<1>3. ASSUME NEW c \in Callers, RequestTimeout(c) PROVE MakingOK'
  BY <1>3 DEF RequestTimeout, GiveUp
<1>4. ASSUME NEW t \in Threads, Spawn(t) PROVE MakingOK'
  <2>1. CASE AcquireToStart(t)
    BY <1>4, <2>1 DEF AcquireToStart, Goto
  <2>2. CASE Recheck(t)
    BY <2>2, MakingRecheck
  <2>3. CASE SpawnStarting(t)
    BY <1>4, <2>3 DEF SpawnStarting, Restarted, Goto
  <2>4. CASE SpawnChild(t)
    BY <1>4, <2>4 DEF Gens, SpawnChild
  <2>5. CASE SpawnFails(t)
    BY <1>4, <2>5 DEF SpawnFails, Spend, SetStatus
  <2>6. CASE SpawnRegister(t)
    BY <1>4, <2>6 DEF SpawnRegister, Goto
  <2>7. CASE SpawnConnect(t)
    BY <1>4, <2>7 DEF SpawnConnect, SetStatus, AfterStart, Goto
  <2>. QED  BY <1>4, <2>1, <2>2, <2>3, <2>4, <2>5, <2>6, <2>7 DEF Spawn
<1>5. ASSUME NEW c \in Callers, Stop(c) PROVE MakingOK'
  <2>1. CASE StopGeneration(c)
    <3>1. reader[generation + 1].pc = "none"
      BY <2>1, Apart DEF StopGeneration, FreshOK, Gens, PlainType
    <3>2. generation' = generation + 1 /\ generation + 1 \in Gens /\ reader' = reader
      BY <2>1, Apart DEF StopGeneration, Gens, PlainType
    <3>. QED  BY <3>1, <3>2 DEF MakingOK
  <2>2. CASE StopProcess(c)
    BY <1>5, <2>2 DEF StopProcess, Goto
  <2>3. CASE StopFails(c)
    BY <1>5, <2>3 DEF StopFails, Spend
  <2>4. CASE StopPending(c)
    BY <1>5, <2>4 DEF StopPending, FailPending, Goto
  <2>5. CASE StopStatus(c)
    BY <1>5, <2>5 DEF StopStatus, SetStatus, Goto
  <2>. QED  BY <1>5, <2>1, <2>2, <2>3, <2>4, <2>5 DEF Stop
<1>6. ASSUME NEW g \in Gens, Read(g) PROVE MakingOK'
  <2>1. CASE ReadResponse(g)
    BY <1>6, <2>1 DEF ReadResponse, NextLine, Consume, AtReader
  <2>2. CASE ReadReady(g)
    BY <1>6, <2>2 DEF ReadReady, NextLine, Consume, AtReader
  <2>3. CASE ReportReady(g)
    BY <1>6, <2>3 DEF ReportReady, SetStatus, AtReader
  <2>4. CASE ReadGarbled(g)
    BY <1>6, <2>4 DEF ReadGarbled, NextLine, Consume, AtReader, SetStatus, GotoReader
  <2>5. CASE ReadEnd(g)
    BY <1>6, <2>5 DEF ReadEnd, AtReader, GotoReader
  <2>6. CASE ExitCheck(g)
    BY <1>6, <2>6 DEF ExitCheck, AtReader, GotoReader, StillCurrent
  <2>7. CASE ExitTake(g)
    BY <1>6, <2>7 DEF ExitTake, AtReader, GotoReader
  <2>8. CASE ExitPending(g)
    BY <1>6, <2>8 DEF ExitPending, AtReader, GotoReader, FailPending
  <2>9. CASE ExitReport(g)
    BY <2>9, MakingExitReport
  <2>10. CASE RestartWakes(g)
    BY <1>6, <2>10 DEF RestartWakes, RestartDue, Goto
  <2>. QED  BY <1>6, <2>1, <2>2, <2>3, <2>4, <2>5, <2>6, <2>7, <2>8, <2>9, <2>10 DEF Read
<1>7. ASSUME NEW g \in Gens, Child(g) PROVE MakingOK'
  <2>1. CASE ChildAnnounces(g)
    BY <1>7, <2>1 DEF ChildAnnounces
  <2>2. ASSUME NEW r \in Requests, ChildAnswers(g, r) PROVE MakingOK'
    BY <1>7, <2>2 DEF ChildAnswers
  <2>3. CASE ChildGarbles(g)
    BY <1>7, <2>3 DEF ChildGarbles, Spend, Say
  <2>4. CASE ChildExits(g)
    BY <1>7, <2>4 DEF ChildExits, Spend, Unheld
  <2>. QED  BY <1>7, <2>1, <2>2, <2>3, <2>4 DEF Child
<1>8. ASSUME DropHandle PROVE MakingOK'
  BY <1>8 DEF DropHandle, OtherHandles
<1>. QED  BY <1>1, <1>2, <1>3, <1>4, <1>5, <1>6, <1>7, <1>8 DEF Next

(* TurnsOK when a thread looks again. *)
LEMMA TurnsRecheck ==
  ASSUME ThreadType, PlainType, HolderOK, RangeOK, RolesOK, ChildType, ReaderType, SpawnOK,
         MakingOK, TurnsOK,
         NEW t \in Threads, Recheck(t)
  PROVE  TurnsOK'
BY RecheckMoves, Apart DEF TurnsOK, Threads

(* TurnsOK when a caller takes the pipe. *)
LEMMA TurnsTakePipe ==
  ASSUME ThreadType, PlainType, HolderOK, RangeOK, RolesOK, ChildType, ReaderType, SpawnOK,
         MakingOK, TurnsOK,
         NEW c \in Callers, TakePipe(c)
  PROVE  TurnsOK'
BY TakePipeMoves, Apart DEF TurnsOK, Threads

(* TurnsOK when a caller writes its line. *)
LEMMA TurnsWriteLine ==
  ASSUME ThreadType, PlainType, HolderOK, RangeOK, RolesOK, ChildType, ReaderType, SpawnOK,
         MakingOK, TurnsOK,
         NEW c \in Callers, WriteLine(c)
  PROVE  TurnsOK'
BY WriteLineMoves, Apart DEF TurnsOK, Threads

(* A restarting thread starts when its reader has ended. *)
LEMMA TurnsStep ==
  ASSUME ThreadType, PlainType, HolderOK, RangeOK, RolesOK, ChildType, ReaderType, SpawnOK,
         MakingOK, TurnsOK,
         Next
  PROVE  TurnsOK'
<1>. USE Apart
    DEF ThreadType, PlainType, HolderOK, RangeOK, RolesOK, ChildType, ReaderType, SpawnOK,
        MakingOK, TurnsOK, At, Pcs, Locked, Threads, IdleThread
<1>1. ASSUME NEW c \in Callers, Call(c) PROVE TurnsOK'
  <2>1. ASSUME NEW r \in Requests, Request(c, r) PROVE TurnsOK'
    BY <1>1, <2>1 DEF Request, Fresh
  <2>2. CASE Restart(c)
    BY <1>1, <2>2 DEF Restart, Spend, Goto
  <2>. QED  BY <1>1, <2>1, <2>2 DEF Call
<1>2. ASSUME NEW c \in Callers, Respond(c) PROVE TurnsOK'
  <2>1. CASE CheckStarted(c)
    BY <1>2, <2>1 DEF CheckStarted, Goto
  <2>2. CASE Insert(c)
    BY <1>2, <2>2 DEF Insert, Goto
  <2>3. CASE TakePipe(c)
    BY <2>3, TurnsTakePipe
  <2>4. CASE WriteLine(c)
    BY <2>4, TurnsWriteLine
  <2>5. CASE Receive(c)
    BY <1>2, <2>5 DEF Receive, Goto
  <2>. QED  BY <1>2, <2>1, <2>2, <2>3, <2>4, <2>5 DEF Respond
<1>3. ASSUME NEW c \in Callers, RequestTimeout(c) PROVE TurnsOK'
  BY <1>3 DEF RequestTimeout, GiveUp
<1>4. ASSUME NEW t \in Threads, Spawn(t) PROVE TurnsOK'
  <2>1. CASE AcquireToStart(t)
    BY <1>4, <2>1 DEF AcquireToStart, Goto
  <2>2. CASE Recheck(t)
    BY <2>2, TurnsRecheck
  <2>3. CASE SpawnStarting(t)
    BY <1>4, <2>3 DEF SpawnStarting, Restarted, Goto
  <2>4. CASE SpawnChild(t)
    BY <1>4, <2>4 DEF SpawnChild
  <2>5. CASE SpawnFails(t)
    BY <1>4, <2>5 DEF SpawnFails, Spend, SetStatus
  <2>6. CASE SpawnRegister(t)
    BY <1>4, <2>6 DEF SpawnRegister, Goto
  <2>7. CASE SpawnConnect(t)
    BY <1>4, <2>7 DEF SpawnConnect, SetStatus, AfterStart, Goto
  <2>. QED  BY <1>4, <2>1, <2>2, <2>3, <2>4, <2>5, <2>6, <2>7 DEF Spawn
<1>5. ASSUME NEW c \in Callers, Stop(c) PROVE TurnsOK'
  BY <1>5 DEF Stop, StopGeneration, Goto, StopProcess, StopFails, Spend, StopPending, FailPending,
     StopStatus, SetStatus
<1>6. ASSUME NEW g \in Gens, Read(g) PROVE TurnsOK'
  <2>1. CASE ReadResponse(g)
    BY <1>6, <2>1 DEF ReadResponse, NextLine, Consume, AtReader
  <2>2. CASE ReadReady(g)
    BY <1>6, <2>2 DEF ReadReady, NextLine, Consume, AtReader
  <2>3. CASE ReportReady(g)
    BY <1>6, <2>3 DEF ReportReady, SetStatus, AtReader
  <2>4. CASE ReadGarbled(g)
    BY <1>6, <2>4 DEF ReadGarbled, NextLine, Consume, AtReader, SetStatus, GotoReader
  <2>5. CASE ReadEnd(g)
    BY <1>6, <2>5 DEF ReadEnd, AtReader, GotoReader
  <2>6. CASE ExitCheck(g)
    BY <1>6, <2>6 DEF ExitCheck, AtReader, GotoReader, StillCurrent
  <2>7. CASE ExitTake(g)
    BY <1>6, <2>7 DEF ExitTake, AtReader, GotoReader
  <2>8. CASE ExitPending(g)
    BY <1>6, <2>8 DEF ExitPending, AtReader, GotoReader, FailPending
  <2>9. CASE ExitReport(g)
    BY <1>6, <2>9 DEF ExitReport, AtReader, GotoReader, SetStatus, Goto
  <2>10. CASE RestartWakes(g)
    BY <1>6, <2>10 DEF RestartWakes, RestartDue, Goto
  <2>. QED  BY <1>6, <2>1, <2>2, <2>3, <2>4, <2>5, <2>6, <2>7, <2>8, <2>9, <2>10 DEF Read
<1>7. ASSUME NEW g \in Gens, Child(g) PROVE TurnsOK'
  BY <1>7 DEF Child, ChildAnnounces, ChildAnswers, ChildGarbles, Spend, Say, ChildExits, Unheld
<1>8. ASSUME DropHandle PROVE TurnsOK'
  BY <1>8 DEF DropHandle, OtherHandles
<1>. QED  BY <1>1, <1>2, <1>3, <1>4, <1>5, <1>6, <1>7, <1>8 DEF Next

(* CleanOK when a child answers. *)
LEMMA CleanChildAnswers ==
  ASSUME ThreadType, PlainType, ReaderType, ChildType, SpentType, CleanOK,
         NEW g \in Gens, NEW r \in Requests, ChildAnswers(g, r)
  PROVE  CleanOK'
BY BrokerConstantsOK DEF CleanOK, ChildAnswers, ChildType

(* Only a garbled line is garbled. *)
LEMMA CleanStep ==
  ASSUME ThreadType, PlainType, ReaderType, ChildType, SpentType, CleanOK,
         Next
  PROVE  CleanOK'
<1>. USE Apart
    DEF ThreadType, PlainType, ReaderType, ChildType, SpentType, CleanOK, At, Pcs, Locked,
        Threads, IdleThread
<1>1. ASSUME NEW c \in Callers, Call(c) PROVE CleanOK'
  BY <1>1 DEF Call, Request, Fresh, Restart, Spend, Goto
<1>2. ASSUME NEW c \in Callers, Respond(c) PROVE CleanOK'
  <2>1. CASE CheckStarted(c)
    BY <1>2, <2>1 DEF CheckStarted, Goto
  <2>2. CASE Insert(c)
    BY <1>2, <2>2 DEF Insert, Goto
  <2>3. CASE TakePipe(c)
    BY <1>2, <2>3 DEF TakePipe, GiveUp
  <2>4. CASE WriteLine(c)
    BY <2>4, WriteLineMoves, Apart DEF CleanOK
  <2>5. CASE Receive(c)
    BY <1>2, <2>5 DEF Receive, Goto
  <2>. QED  BY <1>2, <2>1, <2>2, <2>3, <2>4, <2>5 DEF Respond
<1>3. ASSUME NEW c \in Callers, RequestTimeout(c) PROVE CleanOK'
  BY <1>3 DEF RequestTimeout, GiveUp
<1>4. ASSUME NEW t \in Threads, Spawn(t) PROVE CleanOK'
  <2>1. CASE AcquireToStart(t)
    BY <1>4, <2>1 DEF AcquireToStart, Goto
  <2>2. CASE Recheck(t)
    BY <1>4, <2>2 DEF Recheck, NeedsSpawn, AfterStart, Goto
  <2>3. CASE SpawnStarting(t)
    BY <1>4, <2>3 DEF SpawnStarting, Restarted, Goto
  <2>4. CASE SpawnChild(t)
    BY <1>4, <2>4 DEF SpawnChild
  <2>5. CASE SpawnFails(t)
    BY <1>4, <2>5 DEF SpawnFails, Spend, SetStatus
  <2>6. CASE SpawnRegister(t)
    BY <1>4, <2>6 DEF SpawnRegister, Goto
  <2>7. CASE SpawnConnect(t)
    BY <1>4, <2>7 DEF SpawnConnect, SetStatus, AfterStart, Goto
  <2>. QED  BY <1>4, <2>1, <2>2, <2>3, <2>4, <2>5, <2>6, <2>7 DEF Spawn
<1>5. ASSUME NEW c \in Callers, Stop(c) PROVE CleanOK'
  <2>1. CASE StopGeneration(c)
    BY <1>5, <2>1 DEF StopGeneration, Goto
  <2>2. CASE StopProcess(c)
    BY <1>5, <2>2 DEF StopProcess, Goto
  <2>3. CASE StopFails(c)
    BY <1>5, <2>3 DEF StopFails, Spend
  <2>4. CASE StopPending(c)
    BY <1>5, <2>4 DEF StopPending, FailPending, Goto
  <2>5. CASE StopStatus(c)
    BY <1>5, <2>5 DEF StopStatus, SetStatus, Goto
  <2>. QED  BY <1>5, <2>1, <2>2, <2>3, <2>4, <2>5 DEF Stop
<1>6. ASSUME NEW g \in Gens, Read(g) PROVE CleanOK'
  <2>1. CASE ReadResponse(g)
    BY <1>6, <2>1 DEF ReadResponse, NextLine, Consume, AtReader
  <2>2. CASE ReadReady(g)
    BY <1>6, <2>2 DEF ReadReady, NextLine, Consume, AtReader
  <2>3. CASE ReportReady(g)
    BY <1>6, <2>3 DEF ReportReady, SetStatus, AtReader
  <2>4. CASE ReadGarbled(g)
    BY <1>6, <2>4 DEF ReadGarbled, NextLine, Consume, AtReader, SetStatus, GotoReader
  <2>5. CASE ReadEnd(g)
    BY <1>6, <2>5 DEF ReadEnd, AtReader, GotoReader
  <2>6. CASE ExitCheck(g)
    BY <1>6, <2>6 DEF ExitCheck, AtReader, GotoReader, StillCurrent
  <2>7. CASE ExitTake(g)
    BY <1>6, <2>7 DEF ExitTake, AtReader, GotoReader
  <2>8. CASE ExitPending(g)
    BY <1>6, <2>8 DEF ExitPending, AtReader, GotoReader, FailPending
  <2>9. CASE ExitReport(g)
    BY <1>6, <2>9 DEF ExitReport, AtReader, GotoReader, SetStatus, Goto
  <2>10. CASE RestartWakes(g)
    BY <1>6, <2>10 DEF RestartWakes, RestartDue, Goto
  <2>. QED  BY <1>6, <2>1, <2>2, <2>3, <2>4, <2>5, <2>6, <2>7, <2>8, <2>9, <2>10 DEF Read
<1>7. ASSUME NEW g \in Gens, Child(g) PROVE CleanOK'
  <2>1. CASE ChildAnnounces(g)
    <3>1. \A h \in Gens : child'[h].out = child[h].out \/
            child'[h].out = Append(child[h].out, "ready")
      BY <2>1 DEF ChildAnnounces, ChildType
    <3>2. \A h \in Gens : child[h].out \in Seq(Requests \cup {"ready", "garbled"})
      BY DEF ChildType
    <3>3. ASSUME NEW h \in Gens, NEW i \in DOMAIN child'[h].out, spent.garbled = 0
          PROVE  child'[h].out[i] # "garbled"
      <4>1. CASE child'[h].out = child[h].out
        BY <4>1, <3>3 DEF CleanOK
      <4>2. CASE child'[h].out = Append(child[h].out, "ready")
        BY <4>2, <3>2, <3>3, AppendElements, SMTT(30) DEF CleanOK
      <4>. QED  BY <3>1, <4>1, <4>2
    <3>. QED  BY <2>1, <3>3 DEF CleanOK, ChildAnnounces
  <2>2. ASSUME NEW r \in Requests, ChildAnswers(g, r) PROVE CleanOK'
    BY <2>2, CleanChildAnswers
  <2>3. CASE ChildGarbles(g)
    BY <1>7, <2>3 DEF ChildGarbles, Spend, Say
  <2>4. CASE ChildExits(g)
    BY <1>7, <2>4, SMTT(30) DEF ChildExits, Spend, Unheld
  <2>. QED  BY <1>7, <2>1, <2>2, <2>3, <2>4 DEF Child
<1>8. ASSUME DropHandle PROVE CleanOK'
  <2>1. \A g \in Gens : child'[g].out = child[g].out
    BY <1>8, SMTT(30) DEF DropHandle, ChildType
  <2>. QED  BY <1>8, <2>1 DEF CleanOK, DropHandle
<1>. QED  BY <1>1, <1>2, <1>3, <1>4, <1>5, <1>6, <1>7, <1>8 DEF Next

(* A reader leaves when its child has exited. *)
LEMMA LeftStep ==
  ASSUME ThreadType, PlainType, HolderOK, RangeOK, RolesOK, ReaderType, ChildType, SpentType,
         SpawnOK, FreshOK, MakingOK, CleanOK, LeftOK,
         Next
  PROVE  LeftOK'
<1>. USE Apart
    DEF ThreadType, PlainType, HolderOK, RangeOK, RolesOK, ReaderType, ChildType, SpentType,
        SpawnOK, FreshOK, MakingOK, CleanOK, LeftOK, At, Pcs, Locked, Threads, IdleThread
<1>1. ASSUME NEW c \in Callers, Call(c) PROVE LeftOK'
  BY <1>1 DEF Call, Request, Fresh, Restart, Spend, Goto
<1>2. ASSUME NEW c \in Callers, Respond(c) PROVE LeftOK'
  BY <1>2, SMTT(30) DEF Gens, Respond, CheckStarted, Goto, Insert, TakePipe, GiveUp, WriteLine,
     Receive
<1>3. ASSUME NEW c \in Callers, RequestTimeout(c) PROVE LeftOK'
  BY <1>3 DEF RequestTimeout, GiveUp
<1>4. ASSUME NEW t \in Threads, Spawn(t) PROVE LeftOK'
  <2>1. CASE AcquireToStart(t)
    BY <1>4, <2>1 DEF AcquireToStart, Goto
  <2>2. CASE Recheck(t)
    BY <1>4, <2>2 DEF Recheck, NeedsSpawn, AfterStart, Goto
  <2>3. CASE SpawnStarting(t)
    BY <1>4, <2>3 DEF SpawnStarting, Restarted, Goto
  <2>4. CASE SpawnChild(t)
    <3>1. \A g \in Gens : g # generation + 1 => child'[g].alive = child[g].alive
      BY <2>4 DEF SpawnChild, ChildType
    <3>2. \A g \in Gens : g = generation + 1 => reader'[g].pc = "none"
      BY <2>4 DEF SpawnChild, FreshOK, RangeOK
    <3>. QED  BY <2>4, <3>1, <3>2 DEF LeftOK, SpawnChild
  <2>5. CASE SpawnFails(t)
    BY <1>4, <2>5 DEF SpawnFails, Spend, SetStatus
  <2>6. CASE SpawnRegister(t)
    BY <1>4, <2>6 DEF SpawnRegister, Goto
  <2>7. CASE SpawnConnect(t)
    BY <1>4, <2>7 DEF SpawnConnect, SetStatus, AfterStart, Goto
  <2>. QED  BY <1>4, <2>1, <2>2, <2>3, <2>4, <2>5, <2>6, <2>7 DEF Spawn
<1>5. ASSUME NEW c \in Callers, Stop(c) PROVE LeftOK'
  <2>1. CASE StopGeneration(c)
    BY <1>5, <2>1 DEF StopGeneration, Goto
  <2>2. CASE StopProcess(c)
    BY <1>5, <2>2 DEF StopProcess, Goto
  <2>3. CASE StopFails(c)
    BY <1>5, <2>3 DEF StopFails, Spend
  <2>4. CASE StopPending(c)
    BY <1>5, <2>4 DEF StopPending, FailPending, Goto
  <2>5. CASE StopStatus(c)
    BY <1>5, <2>5 DEF StopStatus, SetStatus, Goto
  <2>. QED  BY <1>5, <2>1, <2>2, <2>3, <2>4, <2>5 DEF Stop
<1>6. ASSUME NEW g \in Gens, Read(g) PROVE LeftOK'
  <2>1. CASE ReadResponse(g)
    BY <1>6, <2>1 DEF ReadResponse, NextLine, Consume, AtReader
  <2>2. CASE ReadReady(g)
    BY <1>6, <2>2 DEF ReadReady, NextLine, Consume, AtReader
  <2>3. CASE ReportReady(g)
    BY <1>6, <2>3 DEF ReportReady, SetStatus, AtReader
  <2>4. CASE ReadGarbled(g)
    BY <1>6, <2>4 DEF ReadGarbled, NextLine, Consume, AtReader, SetStatus, GotoReader
  <2>5. CASE ReadEnd(g)
    BY <1>6, <2>5 DEF ReadEnd, AtReader, GotoReader
  <2>6. CASE ExitCheck(g)
    BY <1>6, <2>6 DEF ExitCheck, AtReader, GotoReader, StillCurrent
  <2>7. CASE ExitTake(g)
    BY <1>6, <2>7 DEF ExitTake, AtReader, GotoReader
  <2>8. CASE ExitPending(g)
    BY <1>6, <2>8 DEF ExitPending, AtReader, GotoReader, FailPending
  <2>9. CASE ExitReport(g)
    BY <1>6, <2>9 DEF ExitReport, AtReader, GotoReader, SetStatus, Goto
  <2>10. CASE RestartWakes(g)
    BY <1>6, <2>10 DEF RestartWakes, RestartDue, Goto
  <2>. QED  BY <1>6, <2>1, <2>2, <2>3, <2>4, <2>5, <2>6, <2>7, <2>8, <2>9, <2>10 DEF Read
<1>7. ASSUME NEW g \in Gens, Child(g) PROVE LeftOK'
  <2>1. CASE ChildAnnounces(g)
    BY <1>7, <2>1, SMTT(30) DEF ChildAnnounces
  <2>2. ASSUME NEW r \in Requests, ChildAnswers(g, r) PROVE LeftOK'
    BY <1>7, <2>2 DEF ChildAnswers
  <2>3. CASE ChildGarbles(g)
    BY <1>7, <2>3 DEF ChildGarbles, Spend, Say
  <2>4. CASE ChildExits(g)
    BY <1>7, <2>4, SMTT(30) DEF ChildExits, Spend, Unheld
  <2>. QED  BY <1>7, <2>1, <2>2, <2>3, <2>4 DEF Child
<1>8. ASSUME DropHandle PROVE LeftOK'
  BY <1>8 DEF DropHandle, OtherHandles
<1>. QED  BY <1>1, <1>2, <1>3, <1>4, <1>5, <1>6, <1>7, <1>8 DEF Next

(* AliveOK when a reader reports the exit. *)
LEMMA AliveExitReport ==
  ASSUME ThreadType, PlainType, HolderOK, RangeOK, RolesOK, TableType, ReaderType, ChildType,
         SpentType, SpawnOK, ProcessOK, FreshOK, MakingOK, LeftOK, AliveOK, TurnsOK,
         NEW g \in Gens, ExitReport(g)
  PROVE  AliveOK'
BY ExitReportMoves, Apart DEF AliveOK, Some, Threads

(* AliveOK when a caller writes its line. *)
LEMMA AliveWriteLine ==
  ASSUME ThreadType, PlainType, HolderOK, RangeOK, RolesOK, TableType, ReaderType, ChildType,
         SpentType, SpawnOK, ProcessOK, FreshOK, MakingOK, LeftOK, AliveOK, TurnsOK,
         NEW c \in Callers, WriteLine(c)
  PROVE  AliveOK'
BY WriteLineMoves, Apart DEF AliveOK, Some, Threads

(* AliveOK when a caller takes the pipe. *)
LEMMA AliveTakePipe ==
  ASSUME ThreadType, PlainType, HolderOK, RangeOK, RolesOK, TableType, ReaderType, ChildType,
         SpentType, SpawnOK, ProcessOK, FreshOK, MakingOK, LeftOK, AliveOK, TurnsOK,
         NEW c \in Callers, TakePipe(c)
  PROVE  AliveOK'
BY TakePipeMoves, Apart DEF AliveOK, Some, Threads

(* A process is taken out when its child is dead, and one is spawned when there is none. *)
LEMMA AliveStep ==
  ASSUME ThreadType, PlainType, HolderOK, RangeOK, RolesOK, TableType, ReaderType, ChildType,
         SpentType, SpawnOK, ProcessOK, FreshOK, MakingOK, LeftOK, AliveOK, TurnsOK,
         Next
  PROVE  AliveOK'
<1>. USE Apart
    DEF ThreadType, PlainType, HolderOK, RangeOK, RolesOK, TableType, ReaderType, ChildType,
        SpentType, SpawnOK, ProcessOK, FreshOK, MakingOK, LeftOK, AliveOK, TurnsOK, At, Some,
        Pcs, Locked, Threads, IdleThread
<1>1. ASSUME NEW c \in Callers, Call(c) PROVE AliveOK'
  BY <1>1 DEF Call, Request, Fresh, Restart, Spend, Goto
<1>2. ASSUME NEW c \in Callers, Respond(c) PROVE AliveOK'
  <2>1. CASE CheckStarted(c)
    BY <1>2, <2>1 DEF CheckStarted, Goto
  <2>2. CASE Insert(c)
    BY <1>2, <2>2 DEF Insert, Goto
  <2>3. CASE TakePipe(c)
    BY <2>3, AliveTakePipe
  <2>4. CASE WriteLine(c)
    BY <2>4, AliveWriteLine
  <2>5. CASE Receive(c)
    BY <1>2, <2>5 DEF Receive, Goto
  <2>. QED  BY <1>2, <2>1, <2>2, <2>3, <2>4, <2>5 DEF Respond
<1>3. ASSUME NEW c \in Callers, RequestTimeout(c) PROVE AliveOK'
  BY <1>3 DEF RequestTimeout, GiveUp
<1>4. ASSUME NEW t \in Threads, Spawn(t) PROVE AliveOK'
  <2>1. CASE AcquireToStart(t)
    BY <1>4, <2>1 DEF AcquireToStart, Goto
  <2>2. CASE Recheck(t)
    BY <1>4, <2>2 DEF Recheck, NeedsSpawn, AfterStart, Goto
  <2>3. CASE SpawnStarting(t)
    BY <1>4, <2>3 DEF SpawnStarting, Restarted, Goto
  <2>4. CASE SpawnChild(t)
    BY <1>4, <2>4, SMTT(30) DEF SpawnChild
  <2>5. CASE SpawnFails(t)
    BY <1>4, <2>5 DEF SpawnFails, Spend, SetStatus
  <2>6. CASE SpawnRegister(t)
    BY <1>4, <2>6 DEF SpawnRegister, Goto
  <2>7. CASE SpawnConnect(t)
    BY <1>4, <2>7 DEF SpawnConnect, SetStatus, AfterStart, Goto
  <2>. QED  BY <1>4, <2>1, <2>2, <2>3, <2>4, <2>5, <2>6, <2>7 DEF Spawn
<1>5. ASSUME NEW c \in Callers, Stop(c) PROVE AliveOK'
  <2>1. CASE StopGeneration(c)
    BY <1>5, <2>1 DEF StopGeneration, Goto
  <2>2. CASE StopProcess(c)
    BY <1>5, <2>2 DEF StopProcess, Goto
  <2>3. CASE StopFails(c)
    BY <1>5, <2>3 DEF StopFails, Spend
  <2>4. CASE StopPending(c)
    BY <1>5, <2>4 DEF StopPending, FailPending, Goto
  <2>5. CASE StopStatus(c)
    BY <1>5, <2>5 DEF StopStatus, SetStatus, Goto
  <2>. QED  BY <1>5, <2>1, <2>2, <2>3, <2>4, <2>5 DEF Stop
<1>6. ASSUME NEW g \in Gens, Read(g) PROVE AliveOK'
  <2>1. CASE ReadResponse(g)
    BY <1>6, <2>1 DEF ReadResponse, NextLine, Consume, AtReader
  <2>2. CASE ReadReady(g)
    BY <1>6, <2>2 DEF ReadReady, NextLine, Consume, AtReader
  <2>3. CASE ReportReady(g)
    BY <1>6, <2>3 DEF ReportReady, SetStatus, AtReader
  <2>4. CASE ReadGarbled(g)
    BY <1>6, <2>4 DEF ReadGarbled, NextLine, Consume, AtReader, SetStatus, GotoReader
  <2>5. CASE ReadEnd(g)
    BY <1>6, <2>5 DEF ReadEnd, AtReader, GotoReader
  <2>6. CASE ExitCheck(g)
    BY <1>6, <2>6 DEF ExitCheck, AtReader, GotoReader, StillCurrent
  <2>7. CASE ExitTake(g)
    BY <1>6, <2>7 DEF Gens, ExitTake, AtReader, GotoReader
  <2>8. CASE ExitPending(g)
    BY <1>6, <2>8 DEF ExitPending, AtReader, GotoReader, FailPending
  <2>9. CASE ExitReport(g)
    BY <2>9, AliveExitReport
  <2>10. CASE RestartWakes(g)
    BY <1>6, <2>10 DEF RestartWakes, RestartDue, Goto
  <2>. QED  BY <1>6, <2>1, <2>2, <2>3, <2>4, <2>5, <2>6, <2>7, <2>8, <2>9, <2>10 DEF Read
<1>7. ASSUME NEW g \in Gens, Child(g) PROVE AliveOK'
  <2>1. CASE ChildAnnounces(g)
    <3>1. \A h \in Gens : child'[h].alive = child[h].alive
      BY <2>1, SMTT(30) DEF ChildAnnounces, ChildType
    <3>. QED  BY <2>1, <3>1 DEF AliveOK, Some, ChildAnnounces
  <2>2. ASSUME NEW r \in Requests, ChildAnswers(g, r) PROVE AliveOK'
    <3>1. \A h \in Gens : child'[h].alive = child[h].alive
      BY <2>2, SMTT(30) DEF ChildAnswers, ChildType
    <3>. QED  BY <2>2, <3>1 DEF AliveOK, Some, ChildAnswers
  <2>3. CASE ChildGarbles(g)
    BY <1>7, <2>3 DEF ChildGarbles, Spend, Say
  <2>4. CASE ChildExits(g)
    BY <1>7, <2>4, SMTT(30) DEF ChildExits, Spend, Unheld
  <2>. QED  BY <1>7, <2>1, <2>2, <2>3, <2>4 DEF Child
<1>8. ASSUME DropHandle PROVE AliveOK'
  BY <1>8 DEF DropHandle, OtherHandles
<1>. QED  BY <1>1, <1>2, <1>3, <1>4, <1>5, <1>6, <1>7, <1>8 DEF Next

(* Whatever takes an entry out of the table answers its caller. *)
LEMMA TableStep ==
  ASSUME ThreadType, PlainType, TableType, HolderOK, TableOK, RolesOK,
         Next
  PROVE  TableOK'
<1>. USE Apart
    DEF ThreadType, PlainType, TableType, HolderOK, TableOK, RolesOK, At, Pcs, Locked,
        Threads, IdleThread
<1>1. ASSUME NEW c \in Callers, Call(c) PROVE TableOK'
  <2>1. ASSUME NEW r \in Requests, Request(c, r) PROVE TableOK'
    <3>1. thread'[c].request = r /\ thread'[c].pc = "check" /\ reply'[c] = "none"
      BY <2>1 DEF Request, ThreadType, TableType, Threads
    <3>2. \A d \in Callers \ {c} : thread'[d] = thread[d] /\ reply'[d] = reply[d]
                                  /\ thread[d].request # r
      BY <2>1 DEF Request, Fresh, ThreadType, TableType, Threads
    <3>3. pending' = pending /\ thread[c].request = Nobody /\ \A q \in Requests : pending[q] # c
      BY <2>1, BrokerConstantsOK DEF Request, TableOK
    <3>. QED  BY <3>1, <3>2, <3>3, BrokerConstantsOK DEF TableOK, At, TableType
  <2>2. CASE Restart(c)
    BY <1>1, <2>2 DEF Restart, Spend, Goto
  <2>. QED  BY <1>1, <2>1, <2>2 DEF Call
<1>2. ASSUME NEW c \in Callers, Respond(c) PROVE TableOK'
  BY <1>2, SMTT(30) DEF Respond, CheckStarted, Goto, Insert, TakePipe, GiveUp, WriteLine, Receive
<1>3. ASSUME NEW c \in Callers, RequestTimeout(c) PROVE TableOK'
  BY <1>3 DEF RequestTimeout, GiveUp
<1>4. ASSUME NEW t \in Threads, Spawn(t) PROVE TableOK'
  <2>1. CASE AcquireToStart(t)
    BY <1>4, <2>1 DEF AcquireToStart, Goto
  <2>2. CASE Recheck(t)
    BY <1>4, <2>2 DEF Recheck, NeedsSpawn, AfterStart, Goto
  <2>3. CASE SpawnStarting(t)
    BY <1>4, <2>3 DEF SpawnStarting, Restarted, Goto
  <2>4. CASE SpawnChild(t)
    BY <1>4, <2>4 DEF SpawnChild
  <2>5. CASE SpawnFails(t)
    BY <1>4, <2>5 DEF SpawnFails, Spend, SetStatus
  <2>6. CASE SpawnRegister(t)
    BY <1>4, <2>6 DEF SpawnRegister, Goto
  <2>7. CASE SpawnConnect(t)
    BY <1>4, <2>7 DEF SpawnConnect, SetStatus, AfterStart, Goto
  <2>. QED  BY <1>4, <2>1, <2>2, <2>3, <2>4, <2>5, <2>6, <2>7 DEF Spawn
<1>5. ASSUME NEW c \in Callers, Stop(c) PROVE TableOK'
  <2>1. CASE StopGeneration(c)
    BY <1>5, <2>1 DEF StopGeneration, Goto
  <2>2. CASE StopProcess(c)
    BY <1>5, <2>2 DEF StopProcess, Goto
  <2>3. CASE StopFails(c)
    BY <1>5, <2>3 DEF StopFails, Spend
  <2>4. CASE StopPending(c)
    BY <1>5, <2>4 DEF StopPending, FailPending, Goto
  <2>5. CASE StopStatus(c)
    BY <1>5, <2>5 DEF StopStatus, SetStatus, Goto
  <2>. QED  BY <1>5, <2>1, <2>2, <2>3, <2>4, <2>5 DEF Stop
<1>6. ASSUME NEW g \in Gens, Read(g) PROVE TableOK'
  <2>1. CASE ReadResponse(g)
    BY <1>6, <2>1 DEF ReadResponse, NextLine, Consume, AtReader
  <2>2. CASE ReadReady(g)
    BY <1>6, <2>2 DEF ReadReady, NextLine, Consume, AtReader
  <2>3. CASE ReportReady(g)
    BY <1>6, <2>3 DEF ReportReady, SetStatus, AtReader
  <2>4. CASE ReadGarbled(g)
    BY <1>6, <2>4 DEF ReadGarbled, NextLine, Consume, AtReader, SetStatus, GotoReader
  <2>5. CASE ReadEnd(g)
    BY <1>6, <2>5 DEF ReadEnd, AtReader, GotoReader
  <2>6. CASE ExitCheck(g)
    BY <1>6, <2>6 DEF ExitCheck, AtReader, GotoReader, StillCurrent
  <2>7. CASE ExitTake(g)
    BY <1>6, <2>7 DEF ExitTake, AtReader, GotoReader
  <2>8. CASE ExitPending(g)
    BY <1>6, <2>8 DEF ExitPending, AtReader, GotoReader, FailPending
  <2>9. CASE ExitReport(g)
    BY <1>6, <2>9 DEF ExitReport, AtReader, GotoReader, SetStatus, Goto
  <2>10. CASE RestartWakes(g)
    BY <1>6, <2>10 DEF RestartWakes, RestartDue, Goto
  <2>. QED  BY <1>6, <2>1, <2>2, <2>3, <2>4, <2>5, <2>6, <2>7, <2>8, <2>9, <2>10 DEF Read
<1>7. ASSUME NEW g \in Gens, Child(g) PROVE TableOK'
  <2>1. CASE ChildAnnounces(g)
    BY <1>7, <2>1 DEF ChildAnnounces
  <2>2. ASSUME NEW r \in Requests, ChildAnswers(g, r) PROVE TableOK'
    BY <1>7, <2>2 DEF ChildAnswers
  <2>3. CASE ChildGarbles(g)
    BY <1>7, <2>3 DEF ChildGarbles, Spend, Say
  <2>4. CASE ChildExits(g)
    BY <1>7, <2>4 DEF ChildExits, Spend, Unheld
  <2>. QED  BY <1>7, <2>1, <2>2, <2>3, <2>4 DEF Child
<1>8. ASSUME DropHandle PROVE TableOK'
  BY <1>8 DEF DropHandle, OtherHandles
<1>. QED  BY <1>1, <1>2, <1>3, <1>4, <1>5, <1>6, <1>7, <1>8 DEF Next

(* WatchOK when a reader reports the exit. *)
LEMMA WatchExitReport ==
  ASSUME ThreadType, PlainType, HolderOK, RangeOK, RolesOK, ReaderType, ChildType, TableType,
         SpentType, SpawnOK, ProcessOK, MakingOK, TableOK, WatchOK, TurnsOK,
         NEW g \in Gens, ExitReport(g)
  PROVE  WatchOK'
BY ExitReportMoves, Apart DEF WatchOK, Watched, Some, At, Threads, ReaderType

(* WatchOK when a caller writes its line. *)
LEMMA WatchWriteLine ==
  ASSUME ThreadType, PlainType, HolderOK, RangeOK, RolesOK, ReaderType, ChildType, TableType,
         SpentType, SpawnOK, ProcessOK, MakingOK, TableOK, WatchOK, TurnsOK,
         NEW c \in Callers, WriteLine(c)
  PROVE  WatchOK'
<1>1. \A h \in Gens : Watched(h) => Watched(h)'
  <2>1. \A t \in Threads : thread[t].pc \in {"connect", "kill", "fail"} => thread'[t] = thread[t]
    BY WriteLineMoves DEF Threads
  <2>. QED  BY <2>1, WriteLineMoves DEF Watched
<1>2. ASSUME NEW d \in Callers, spent.kills = 0, At(d, {"write", "wait"})', reply'[d] = "none"
      PROVE  At(d, {"write", "wait"}) /\ reply[d] = "none" /\ thread'[d].pipe = thread[d].pipe
  BY <1>2, WriteLineMoves DEF At, Threads, TableType
<1>. QED  BY <1>1, <1>2, WriteLineMoves DEF WatchOK

(* A watch ends when everybody who waits has been failed. *)
LEMMA WatchStep ==
  ASSUME ThreadType, PlainType, HolderOK, RangeOK, RolesOK, ReaderType, ChildType, TableType,
         SpentType, SpawnOK, ProcessOK, MakingOK, TableOK, WatchOK, TurnsOK,
         Next
  PROVE  WatchOK'
<1>. USE Apart
    DEF ThreadType, PlainType, HolderOK, RangeOK, RolesOK, ReaderType, TableType, SpentType,
        SpawnOK, ProcessOK, MakingOK, TableOK, WatchOK, TurnsOK, At, Some, Watched, Pcs,
        Locked, Threads, IdleThread
<1>1. ASSUME NEW c \in Callers, Call(c) PROVE WatchOK'
  BY <1>1 DEF Call, Request, Fresh, Restart, Spend, Goto
<1>2. ASSUME NEW c \in Callers, Respond(c) PROVE WatchOK'
  <2>1. CASE CheckStarted(c)
    BY <1>2, <2>1 DEF CheckStarted, Goto
  <2>2. CASE Insert(c)
    BY <1>2, <2>2 DEF Insert, Goto
  <2>3. CASE TakePipe(c)
    <3>1. process # 0 => process \in Gens
      BY Apart DEF ProcessOK, RangeOK, PlainType, Gens
    <3>2. process # 0 => Watched(process)
      BY DEF ProcessOK, PlainType, Watched, Some
    <3>. QED  BY <2>3, <3>1, <3>2, TakePipeMoves, Apart DEF WatchOK, Watched, At, Threads, TableType
  <2>4. CASE WriteLine(c)
    BY <2>4, WatchWriteLine
  <2>5. CASE Receive(c)
    BY <1>2, <2>5 DEF Receive, Goto
  <2>. QED  BY <1>2, <2>1, <2>2, <2>3, <2>4, <2>5 DEF Respond
<1>3. ASSUME NEW c \in Callers, RequestTimeout(c) PROVE WatchOK'
  BY <1>3 DEF RequestTimeout, GiveUp
<1>4. ASSUME NEW t \in Threads, Spawn(t) PROVE WatchOK'
  <2>1. CASE AcquireToStart(t)
    BY <1>4, <2>1 DEF AcquireToStart, Goto
  <2>2. CASE Recheck(t)
    BY <1>4, <2>2 DEF Recheck, NeedsSpawn, AfterStart, Goto
  <2>3. CASE SpawnStarting(t)
    BY <1>4, <2>3 DEF SpawnStarting, Restarted, Goto
  <2>4. CASE SpawnChild(t)
    BY <1>4, <2>4 DEF SpawnChild
  <2>5. CASE SpawnFails(t)
    BY <1>4, <2>5 DEF SpawnFails, Spend, SetStatus
  <2>6. CASE SpawnRegister(t)
    BY <1>4, <2>6 DEF SpawnRegister, Goto
  <2>7. CASE SpawnConnect(t)
    BY <1>4, <2>7 DEF SpawnConnect, SetStatus, AfterStart, Goto
  <2>. QED  BY <1>4, <2>1, <2>2, <2>3, <2>4, <2>5, <2>6, <2>7 DEF Spawn
<1>5. ASSUME NEW c \in Callers, Stop(c) PROVE WatchOK'
  <2>1. CASE StopGeneration(c)
    BY <1>5, <2>1 DEF StopGeneration, Goto
  <2>2. CASE StopProcess(c)
    BY <1>5, <2>2 DEF StopProcess, Goto
  <2>3. CASE StopFails(c)
    BY <1>5, <2>3 DEF StopFails, Spend
  <2>4. CASE StopPending(c)
    BY <1>5, <2>4 DEF StopPending, FailPending, Goto
  <2>5. CASE StopStatus(c)
    BY <1>5, <2>5 DEF StopStatus, SetStatus, Goto
  <2>. QED  BY <1>5, <2>1, <2>2, <2>3, <2>4, <2>5 DEF Stop
<1>6. ASSUME NEW g \in Gens, Read(g) PROVE WatchOK'
  <2>1. CASE ReadResponse(g)
    BY <1>6, <2>1 DEF ReadResponse, NextLine, Consume, AtReader
  <2>2. CASE ReadReady(g)
    BY <1>6, <2>2 DEF ReadReady, NextLine, Consume, AtReader
  <2>3. CASE ReportReady(g)
    BY <1>6, <2>3 DEF ReportReady, SetStatus, AtReader
  <2>4. CASE ReadGarbled(g)
    BY <1>6, <2>4 DEF Gens, ReadGarbled, NextLine, Consume, AtReader, SetStatus, GotoReader
  <2>5. CASE ReadEnd(g)
    BY <1>6, <2>5 DEF Gens, ReadEnd, AtReader, GotoReader
  <2>6. CASE ExitCheck(g)
    BY <1>6, <2>6 DEF ExitCheck, AtReader, GotoReader, StillCurrent
  <2>7. CASE ExitTake(g)
    BY <1>6, <2>7 DEF ExitTake, AtReader, GotoReader
  <2>8. CASE ExitPending(g)
    BY <1>6, <2>8 DEF ExitPending, AtReader, GotoReader, FailPending
  <2>9. CASE ExitReport(g)
    BY <2>9, WatchExitReport
  <2>10. CASE RestartWakes(g)
    BY <1>6, <2>10 DEF RestartWakes, RestartDue, Goto
  <2>. QED  BY <1>6, <2>1, <2>2, <2>3, <2>4, <2>5, <2>6, <2>7, <2>8, <2>9, <2>10 DEF Read
<1>7. ASSUME NEW g \in Gens, Child(g) PROVE WatchOK'
  <2>1. CASE ChildAnnounces(g)
    BY <1>7, <2>1 DEF ChildAnnounces
  <2>2. ASSUME NEW r \in Requests, ChildAnswers(g, r) PROVE WatchOK'
    BY <1>7, <2>2 DEF ChildAnswers
  <2>3. CASE ChildGarbles(g)
    BY <1>7, <2>3 DEF ChildGarbles, Spend, Say
  <2>4. CASE ChildExits(g)
    BY <1>7, <2>4 DEF ChildExits, Spend, Unheld
  <2>. QED  BY <1>7, <2>1, <2>2, <2>3, <2>4 DEF Child
<1>8. ASSUME DropHandle PROVE WatchOK'
  BY <1>8 DEF DropHandle, OtherHandles
<1>. QED  BY <1>1, <1>2, <1>3, <1>4, <1>5, <1>6, <1>7, <1>8 DEF Next

(* A line that is written is a request. *)
LEMMA WriteLineType ==
  ASSUME ThreadType, TableOK, ChildType, NEW c \in Callers, WriteLine(c)
  PROVE  ChildType'
<1>1. thread[c].request \in Requests
  BY DEF WriteLine, TableOK, At, ThreadType, Threads
<1>2. \/ child' = [child EXCEPT ![thread[c].pipe].inbox = @ \cup {thread[c].request}]
      \/ child' = child
  BY DEF WriteLine
<1>. QED  BY <1>1, <1>2 DEF ChildType

(* The children keep their shape when the shell lets go. *)
LEMMA DropHandleType ==
  ASSUME ChildType, DropHandle
  PROVE  ChildType'
<1>1. CASE OtherHandles
  BY <1>1 DEF DropHandle, ChildType
<1>2. CASE ~OtherHandles
  BY <1>2, ZenonT(60) DEF DropHandle, ChildType
<1>. QED  BY <1>1, <1>2

(* The thread records keep their shape. *)
LEMMA ThreadTypeStep ==
  ASSUME ThreadType, PlainType,
         Next
  PROVE  ThreadType'
<1>. USE BrokerConstantsOK
    DEF ThreadType, PlainType, Pcs, Locked, Threads, IdleThread
<1>1. ASSUME NEW c \in Callers, Call(c) PROVE ThreadType'
  BY <1>1 DEF Call, Request, Fresh, Restart, Spend, Goto
<1>2. ASSUME NEW c \in Callers, Respond(c) PROVE ThreadType'
  BY <1>2 DEF Respond, CheckStarted, Goto, Insert, TakePipe, GiveUp, WriteLine, Receive
<1>3. ASSUME NEW c \in Callers, RequestTimeout(c) PROVE ThreadType'
  BY <1>3 DEF RequestTimeout, GiveUp
<1>4. ASSUME NEW t \in Threads, Spawn(t) PROVE ThreadType'
  BY <1>4 DEF Spawn, AcquireToStart, Goto, Recheck, NeedsSpawn, AfterStart, SpawnStarting,
     Restarted, SpawnChild, SpawnFails, Spend, SetStatus, SpawnRegister, SpawnConnect
<1>5. ASSUME NEW c \in Callers, Stop(c) PROVE ThreadType'
  BY <1>5 DEF Stop, StopGeneration, Goto, StopProcess, StopFails, Spend, StopPending, FailPending,
     StopStatus, SetStatus
<1>6. ASSUME NEW g \in Gens, Read(g) PROVE ThreadType'
  BY <1>6 DEF Read, ReadResponse, NextLine, Consume, AtReader, ReadReady, ReportReady, SetStatus,
     ReadGarbled, GotoReader, ReadEnd, ExitCheck, StillCurrent, ExitTake, ExitPending,
     FailPending, ExitReport, Goto, RestartWakes, RestartDue
<1>7. ASSUME NEW g \in Gens, Child(g) PROVE ThreadType'
  BY <1>7 DEF Child, ChildAnnounces, ChildAnswers, ChildGarbles, Spend, Say, ChildExits, Unheld
<1>8. ASSUME DropHandle PROVE ThreadType'
  BY <1>8 DEF DropHandle, OtherHandles
<1>. QED  BY <1>1, <1>2, <1>3, <1>4, <1>5, <1>6, <1>7, <1>8 DEF Next

(* So do the reader records, *)
LEMMA ReaderTypeStep ==
  ASSUME ReaderType, StatusType,
         Next
  PROVE  ReaderType'
<1>. USE BrokerConstantsOK
    DEF ReaderType, StatusType, Pcs, Locked, Threads, IdleThread
<1>1. ASSUME NEW c \in Callers, Call(c) PROVE ReaderType'
  BY <1>1 DEF Call, Request, Fresh, Restart, Spend, Goto
<1>2. ASSUME NEW c \in Callers, Respond(c) PROVE ReaderType'
  BY <1>2 DEF Respond, CheckStarted, Goto, Insert, TakePipe, GiveUp, WriteLine, Receive
<1>3. ASSUME NEW c \in Callers, RequestTimeout(c) PROVE ReaderType'
  BY <1>3 DEF RequestTimeout, GiveUp
<1>4. ASSUME NEW t \in Threads, Spawn(t) PROVE ReaderType'
  BY <1>4 DEF Spawn, AcquireToStart, Goto, Recheck, NeedsSpawn, AfterStart, SpawnStarting,
     Restarted, SpawnChild, SpawnFails, Spend, SetStatus, SpawnRegister, SpawnConnect
<1>5. ASSUME NEW c \in Callers, Stop(c) PROVE ReaderType'
  BY <1>5 DEF Stop, StopGeneration, Goto, StopProcess, StopFails, Spend, StopPending, FailPending,
     StopStatus, SetStatus
<1>6. ASSUME NEW g \in Gens, Read(g) PROVE ReaderType'
  BY <1>6, SMTT(30) DEF Read, ReadResponse, NextLine, Consume, AtReader, ReadReady, ReportReady,
     SetStatus,
     ReadGarbled, GotoReader, ReadEnd, ExitCheck, StillCurrent, ExitTake, ExitPending,
     FailPending, ExitReport, Goto, RestartWakes, RestartDue
<1>7. ASSUME NEW g \in Gens, Child(g) PROVE ReaderType'
  BY <1>7 DEF Child, ChildAnnounces, ChildAnswers, ChildGarbles, Spend, Say, ChildExits, Unheld
<1>8. ASSUME DropHandle PROVE ReaderType'
  BY <1>8 DEF DropHandle, OtherHandles
<1>. QED  BY <1>1, <1>2, <1>3, <1>4, <1>5, <1>6, <1>7, <1>8 DEF Next

(* the children and what they say, *)
LEMMA ChildTypeStep ==
  ASSUME ThreadType, PlainType, RangeOK, TableOK, ChildType,
         Next
  PROVE  ChildType'
<1>. USE BrokerConstantsOK
    DEF ThreadType, PlainType, RangeOK, ChildType, Pcs, Locked, Threads, IdleThread
<1>1. ASSUME NEW c \in Callers, Call(c) PROVE ChildType'
  BY <1>1 DEF Call, Request, Fresh, Restart, Spend, Goto
<1>2. ASSUME NEW c \in Callers, Respond(c) PROVE ChildType'
  <2>1. CASE CheckStarted(c)
    BY <2>1 DEF Gens, CheckStarted, Goto
  <2>2. CASE Insert(c)
    BY <2>2 DEF Gens, Insert, Goto
  <2>3. CASE TakePipe(c)
    BY <2>3 DEF Gens, TakePipe, GiveUp
  <2>4. CASE WriteLine(c)
    BY <2>4, WriteLineType
  <2>5. CASE Receive(c)
    BY <2>5 DEF Gens, Receive, Goto
  <2>. QED  BY <1>2, <2>1, <2>2, <2>3, <2>4, <2>5 DEF Respond
<1>3. ASSUME NEW c \in Callers, RequestTimeout(c) PROVE ChildType'
  BY <1>3 DEF RequestTimeout, GiveUp
<1>4. ASSUME NEW t \in Threads, Spawn(t) PROVE ChildType'
  <2>1. CASE AcquireToStart(t)
    BY <2>1 DEF Gens, AcquireToStart, Goto
  <2>2. CASE Recheck(t)
    BY <2>2 DEF Gens, Recheck, NeedsSpawn, AfterStart, Goto
  <2>3. CASE SpawnStarting(t)
    BY <2>3 DEF Gens, SpawnStarting, Restarted, Goto
  <2>4. CASE SpawnChild(t)
    BY <2>4 DEF Gens, SpawnChild
  <2>5. CASE SpawnFails(t)
    BY <2>5 DEF Gens, SpawnFails, Spend, SetStatus
  <2>6. CASE SpawnRegister(t)
    BY <2>6 DEF Gens, SpawnRegister, Goto
  <2>7. CASE SpawnConnect(t)
    BY <2>7 DEF Gens, SpawnConnect, SetStatus, AfterStart, Goto
  <2>. QED  BY <1>4, <2>1, <2>2, <2>3, <2>4, <2>5, <2>6, <2>7 DEF Spawn
<1>5. ASSUME NEW c \in Callers, Stop(c) PROVE ChildType'
  <2>1. CASE StopGeneration(c)
    BY <2>1 DEF Gens, StopGeneration, Goto
  <2>2. CASE StopProcess(c)
    BY <2>2 DEF Gens, StopProcess, Goto
  <2>3. CASE StopFails(c)
    BY <2>3 DEF Gens, StopFails, Spend
  <2>4. CASE StopPending(c)
    BY <2>4 DEF Gens, StopPending, FailPending, Goto
  <2>5. CASE StopStatus(c)
    BY <2>5 DEF Gens, StopStatus, SetStatus, Goto
  <2>. QED  BY <1>5, <2>1, <2>2, <2>3, <2>4, <2>5 DEF Stop
<1>6. ASSUME NEW g \in Gens, Read(g) PROVE ChildType'
  <2>1. CASE ReadResponse(g)
    <3>1. child[g].out \in Seq(Requests \cup {"ready", "garbled"}) /\ child[g].out # <<>>
      BY <2>1 DEF ReadResponse, NextLine, ChildType
    <3>2. Tail(child[g].out) \in Seq(Requests \cup {"ready", "garbled"})
      BY <3>1, HeadTailProperties
    <3>. QED  BY <2>1, <3>2 DEF ReadResponse, Consume, ChildType
  <2>2. CASE ReadReady(g)
    <3>1. child[g].out \in Seq(Requests \cup {"ready", "garbled"}) /\ child[g].out # <<>>
      BY <2>2 DEF ReadReady, NextLine, ChildType
    <3>2. Tail(child[g].out) \in Seq(Requests \cup {"ready", "garbled"})
      BY <3>1, HeadTailProperties
    <3>. QED  BY <2>2, <3>2 DEF ReadReady, Consume, ChildType
  <2>3. CASE ReportReady(g)
    BY <2>3 DEF Gens, ReportReady, SetStatus, AtReader
  <2>4. CASE ReadGarbled(g)
    <3>1. child[g].out \in Seq(Requests \cup {"ready", "garbled"}) /\ child[g].out # <<>>
      BY <2>4 DEF ReadGarbled, NextLine, ChildType
    <3>2. Tail(child[g].out) \in Seq(Requests \cup {"ready", "garbled"})
      BY <3>1, HeadTailProperties
    <3>. QED  BY <2>4, <3>2 DEF ReadGarbled, Consume, ChildType
  <2>5. CASE ReadEnd(g)
    BY <2>5 DEF Gens, ReadEnd, AtReader, GotoReader
  <2>6. CASE ExitCheck(g)
    BY <2>6 DEF Gens, ExitCheck, AtReader, GotoReader, StillCurrent
  <2>7. CASE ExitTake(g)
    BY <2>7 DEF Gens, ExitTake, AtReader, GotoReader
  <2>8. CASE ExitPending(g)
    BY <2>8 DEF Gens, ExitPending, AtReader, GotoReader, FailPending
  <2>9. CASE ExitReport(g)
    BY <2>9 DEF Gens, ExitReport, AtReader, GotoReader, SetStatus, Goto
  <2>10. CASE RestartWakes(g)
    BY <2>10 DEF Gens, RestartWakes, RestartDue, Goto
  <2>. QED  BY <1>6, <2>1, <2>2, <2>3, <2>4, <2>5, <2>6, <2>7, <2>8, <2>9, <2>10 DEF Read
<1>7. ASSUME NEW g \in Gens, Child(g) PROVE ChildType'
  <2>1. CASE ChildAnnounces(g)
    <3>1. Append(child[g].out, "ready") \in Seq(Requests \cup {"ready", "garbled"})
      BY <2>1 DEF ChildType
    <3>. QED  BY <2>1, <3>1 DEF ChildAnnounces, ChildType
  <2>2. ASSUME NEW r \in Requests, ChildAnswers(g, r) PROVE ChildType'
    <3>1. Append(child[g].out, r) \in Seq(Requests \cup {"ready", "garbled"})
      BY <2>2 DEF ChildType
    <3>. QED  BY <2>2, <3>1, ZenonT(60) DEF ChildAnswers, ChildType
  <2>3. CASE ChildGarbles(g)
    <3>1. Append(child[g].out, "garbled") \in Seq(Requests \cup {"ready", "garbled"})
      BY <2>3 DEF ChildType
    <3>. QED  BY <2>3, <3>1 DEF ChildGarbles, Say, ChildType
  <2>4. CASE ChildExits(g)
    <3>1. child' = [child EXCEPT ![g].alive = FALSE]
      BY <2>4 DEF ChildExits
    <3>. QED  BY <3>1 DEF ChildType
  <2>. QED  BY <1>7, <2>1, <2>2, <2>3, <2>4 DEF Child
<1>8. ASSUME DropHandle PROVE ChildType'
  BY <1>8, DropHandleType
<1>. QED  BY <1>1, <1>2, <1>3, <1>4, <1>5, <1>6, <1>7, <1>8 DEF Next

(* the table and the channels, *)
LEMMA TableTypeStep ==
  ASSUME TableType,
         Next
  PROVE  TableType'
<1>. USE BrokerConstantsOK
    DEF TableType, Pcs, Locked, Threads, IdleThread
<1>1. ASSUME NEW c \in Callers, Call(c) PROVE TableType'
  BY <1>1 DEF Call, Request, Fresh, Restart, Spend, Goto
<1>2. ASSUME NEW c \in Callers, Respond(c) PROVE TableType'
  BY <1>2 DEF Respond, CheckStarted, Goto, Insert, TakePipe, GiveUp, WriteLine, Receive
<1>3. ASSUME NEW c \in Callers, RequestTimeout(c) PROVE TableType'
  BY <1>3 DEF RequestTimeout, GiveUp
<1>4. ASSUME NEW t \in Threads, Spawn(t) PROVE TableType'
  BY <1>4 DEF Spawn, AcquireToStart, Goto, Recheck, NeedsSpawn, AfterStart, SpawnStarting,
     Restarted, SpawnChild, SpawnFails, Spend, SetStatus, SpawnRegister, SpawnConnect
<1>5. ASSUME NEW c \in Callers, Stop(c) PROVE TableType'
  BY <1>5 DEF Stop, StopGeneration, Goto, StopProcess, StopFails, Spend, StopPending, FailPending,
     StopStatus, SetStatus
<1>6. ASSUME NEW g \in Gens, Read(g) PROVE TableType'
  BY <1>6 DEF Read, ReadResponse, NextLine, Consume, AtReader, ReadReady, ReportReady, SetStatus,
     ReadGarbled, GotoReader, ReadEnd, ExitCheck, StillCurrent, ExitTake, ExitPending,
     FailPending, ExitReport, Goto, RestartWakes, RestartDue
<1>7. ASSUME NEW g \in Gens, Child(g) PROVE TableType'
  BY <1>7 DEF Child, ChildAnnounces, ChildAnswers, ChildGarbles, Spend, Say, ChildExits, Unheld
<1>8. ASSUME DropHandle PROVE TableType'
  BY <1>8 DEF DropHandle, OtherHandles
<1>. QED  BY <1>1, <1>2, <1>3, <1>4, <1>5, <1>6, <1>7, <1>8 DEF Next

(* the status, *)
LEMMA StatusTypeStep ==
  ASSUME StatusType, ThreadType, PlainType, ReaderType,
         Next
  PROVE  StatusType'
<1>. USE BrokerConstantsOK
    DEF StatusType, ThreadType, PlainType, ReaderType, Pcs, Locked, Threads, IdleThread
<1>1. ASSUME NEW c \in Callers, Call(c) PROVE StatusType'
  BY <1>1 DEF Call, Request, Fresh, Restart, Spend, Goto
<1>2. ASSUME NEW c \in Callers, Respond(c) PROVE StatusType'
  BY <1>2 DEF Respond, CheckStarted, Goto, Insert, TakePipe, GiveUp, WriteLine, Receive
<1>3. ASSUME NEW c \in Callers, RequestTimeout(c) PROVE StatusType'
  BY <1>3 DEF RequestTimeout, GiveUp
<1>4. ASSUME NEW t \in Threads, Spawn(t) PROVE StatusType'
  <2>1. CASE AcquireToStart(t)
    BY <2>1 DEF AcquireToStart, Goto
  <2>2. CASE Recheck(t)
    BY <2>2 DEF Recheck, NeedsSpawn, AfterStart, Goto
  <2>3. CASE SpawnStarting(t)
    <3>1. status.restarts + (IF Restarted(t) THEN 1 ELSE 0) \in Nat
      BY DEF StatusType
    <3>. QED  BY <2>3, <3>1 DEF SpawnStarting, StatusType
  <2>4. CASE SpawnChild(t)
    BY <2>4 DEF SpawnChild
  <2>5. CASE SpawnFails(t)
    BY <2>5 DEF SpawnFails, Spend, SetStatus
  <2>6. CASE SpawnRegister(t)
    BY <2>6 DEF SpawnRegister, Goto
  <2>7. CASE SpawnConnect(t)
    BY <2>7 DEF SpawnConnect, SetStatus, AfterStart, Goto
  <2>. QED  BY <1>4, <2>1, <2>2, <2>3, <2>4, <2>5, <2>6, <2>7 DEF Spawn
<1>5. ASSUME NEW c \in Callers, Stop(c) PROVE StatusType'
  <2>1. CASE StopGeneration(c)
    BY <2>1 DEF StopGeneration, Goto
  <2>2. CASE StopProcess(c)
    BY <2>2 DEF StopProcess, Goto
  <2>3. CASE StopFails(c)
    BY <2>3 DEF StopFails, Spend
  <2>4. CASE StopPending(c)
    BY <2>4 DEF StopPending, FailPending, Goto
  <2>5. CASE StopStatus(c)
    BY <2>5 DEF StopStatus, SetStatus, Goto
  <2>. QED  BY <1>5, <2>1, <2>2, <2>3, <2>4, <2>5 DEF Stop
<1>6. ASSUME NEW g \in Gens, Read(g) PROVE StatusType'
  <2>1. CASE ReadResponse(g)
    BY <2>1 DEF ReadResponse, NextLine, Consume, AtReader
  <2>2. CASE ReadReady(g)
    BY <2>2 DEF ReadReady, NextLine, Consume, AtReader
  <2>3. CASE ReportReady(g)
    BY <2>3 DEF ReportReady, SetStatus, AtReader
  <2>4. CASE ReadGarbled(g)
    BY <2>4 DEF ReadGarbled, NextLine, Consume, AtReader, SetStatus, GotoReader
  <2>5. CASE ReadEnd(g)
    BY <2>5 DEF ReadEnd, AtReader, GotoReader
  <2>6. CASE ExitCheck(g)
    BY <2>6 DEF ExitCheck, AtReader, GotoReader, StillCurrent
  <2>7. CASE ExitTake(g)
    BY <2>7 DEF ExitTake, AtReader, GotoReader
  <2>8. CASE ExitPending(g)
    BY <2>8 DEF ExitPending, AtReader, GotoReader, FailPending
  <2>9. CASE ExitReport(g)
    BY <2>9 DEF ExitReport, AtReader, GotoReader, SetStatus, Goto
  <2>10. CASE RestartWakes(g)
    BY <2>10 DEF RestartWakes, RestartDue, Goto
  <2>. QED  BY <1>6, <2>1, <2>2, <2>3, <2>4, <2>5, <2>6, <2>7, <2>8, <2>9, <2>10 DEF Read
<1>7. ASSUME NEW g \in Gens, Child(g) PROVE StatusType'
  BY <1>7 DEF Child, ChildAnnounces, ChildAnswers, ChildGarbles, Spend, Say, ChildExits, Unheld
<1>8. ASSUME DropHandle PROVE StatusType'
  BY <1>8 DEF DropHandle, OtherHandles
<1>. QED  BY <1>1, <1>2, <1>3, <1>4, <1>5, <1>6, <1>7, <1>8 DEF Next

(* the counters of the bounds *)
LEMMA SpentTypeStep ==
  ASSUME SpentType,
         Next
  PROVE  SpentType'
<1>. USE BrokerConstantsOK
    DEF SpentType, Pcs, Locked, Threads, IdleThread
<1>1. ASSUME NEW c \in Callers, Call(c) PROVE SpentType'
  BY <1>1 DEF Call, Request, Fresh, Restart, Spend, Goto
<1>2. ASSUME NEW c \in Callers, Respond(c) PROVE SpentType'
  BY <1>2 DEF Respond, CheckStarted, Goto, Insert, TakePipe, GiveUp, WriteLine, Receive
<1>3. ASSUME NEW c \in Callers, RequestTimeout(c) PROVE SpentType'
  BY <1>3 DEF RequestTimeout, GiveUp
<1>4. ASSUME NEW t \in Threads, Spawn(t) PROVE SpentType'
  BY <1>4 DEF Spawn, AcquireToStart, Goto, Recheck, NeedsSpawn, AfterStart, SpawnStarting,
     Restarted, SpawnChild, SpawnFails, Spend, SetStatus, SpawnRegister, SpawnConnect
<1>5. ASSUME NEW c \in Callers, Stop(c) PROVE SpentType'
  BY <1>5 DEF Stop, StopGeneration, Goto, StopProcess, StopFails, Spend, StopPending, FailPending,
     StopStatus, SetStatus
<1>6. ASSUME NEW g \in Gens, Read(g) PROVE SpentType'
  BY <1>6 DEF Read, ReadResponse, NextLine, Consume, AtReader, ReadReady, ReportReady, SetStatus,
     ReadGarbled, GotoReader, ReadEnd, ExitCheck, StillCurrent, ExitTake, ExitPending,
     FailPending, ExitReport, Goto, RestartWakes, RestartDue
<1>7. ASSUME NEW g \in Gens, Child(g) PROVE SpentType'
  <2>1. CASE ChildAnnounces(g)
    BY <2>1 DEF ChildAnnounces
  <2>2. ASSUME NEW r \in Requests, ChildAnswers(g, r) PROVE SpentType'
    BY <2>2 DEF ChildAnswers
  <2>3. CASE ChildGarbles(g)
    BY <2>3, SMTT(30) DEF ChildGarbles, Spend, Say
  <2>4. CASE ChildExits(g)
    BY <2>4 DEF ChildExits, Spend, Unheld
  <2>. QED  BY <1>7, <2>1, <2>2, <2>3, <2>4 DEF Child
<1>8. ASSUME DropHandle PROVE SpentType'
  BY <1>8 DEF DropHandle, OtherHandles
<1>. QED  BY <1>1, <1>2, <1>3, <1>4, <1>5, <1>6, <1>7, <1>8 DEF Next

(* and the plain values. *)
LEMMA PlainTypeStep ==
  ASSUME PlainType, ThreadType,
         Next
  PROVE  PlainType'
<1>. USE BrokerConstantsOK
    DEF PlainType, ThreadType, Pcs, Locked, Threads, IdleThread
<1>1. ASSUME NEW c \in Callers, Call(c) PROVE PlainType'
  BY <1>1 DEF Call, Request, Fresh, Restart, Spend, Goto
<1>2. ASSUME NEW c \in Callers, Respond(c) PROVE PlainType'
  BY <1>2 DEF Respond, CheckStarted, Goto, Insert, TakePipe, GiveUp, WriteLine, Receive
<1>3. ASSUME NEW c \in Callers, RequestTimeout(c) PROVE PlainType'
  BY <1>3 DEF RequestTimeout, GiveUp
<1>4. ASSUME NEW t \in Threads, Spawn(t) PROVE PlainType'
  BY <1>4 DEF Spawn, AcquireToStart, Goto, Recheck, NeedsSpawn, AfterStart, SpawnStarting,
     Restarted, SpawnChild, SpawnFails, Spend, SetStatus, SpawnRegister, SpawnConnect
<1>5. ASSUME NEW c \in Callers, Stop(c) PROVE PlainType'
  BY <1>5 DEF Stop, StopGeneration, Goto, StopProcess, StopFails, Spend, StopPending, FailPending,
     StopStatus, SetStatus
<1>6. ASSUME NEW g \in Gens, Read(g) PROVE PlainType'
  BY <1>6 DEF Read, ReadResponse, NextLine, Consume, AtReader, ReadReady, ReportReady, SetStatus,
     ReadGarbled, GotoReader, ReadEnd, ExitCheck, StillCurrent, ExitTake, ExitPending,
     FailPending, ExitReport, Goto, RestartWakes, RestartDue
<1>7. ASSUME NEW g \in Gens, Child(g) PROVE PlainType'
  BY <1>7 DEF Child, ChildAnnounces, ChildAnswers, ChildGarbles, Spend, Say, ChildExits, Unheld
<1>8. ASSUME DropHandle PROVE PlainType'
  <2>1. process' \in Nat /\ generation' = generation /\ lifecycle' = lifecycle
    BY <1>8 DEF DropHandle, PlainType
  <2>2. app' \in BOOLEAN /\ shutdown' \in BOOLEAN
    BY <1>8 DEF DropHandle
  <2>. QED  BY <2>1, <2>2 DEF PlainType
<1>. QED  BY <1>1, <1>2, <1>3, <1>4, <1>5, <1>6, <1>7, <1>8 DEF Next

(* TypeOK is its pieces. *)
LEMMA Pieces ==
  TypeOK <=> /\ ThreadType /\ ReaderType /\ ChildType /\ TableType
             /\ StatusType /\ SpentType /\ PlainType
BY DEF TypeOK, ThreadType, ReaderType, ChildType, TableType, StatusType, SpentType, PlainType

(* The broker of a shell that has just started. *)
LEMMA Initially == Init => IInv
<1>. SUFFICES ASSUME Init PROVE IInv
  OBVIOUS
<1>. \A t \in Threads : thread[t] = IdleThread
  BY DEF Init
<1>. \A g \in Gens : child[g] = NoChild /\ reader[g] = NoReader /\ thread[g] = IdleThread
  BY DEF Init, Threads
<1>1. TypeOK
  <2>1. <<>> \in Seq(Requests \cup {"ready", "garbled"})
    OBVIOUS
  <2>. QED  BY <2>1 DEF Init, TypeOK, IdleThread, NoChild, NoReader, Pcs, Locked, Threads
<1>2. HolderOK /\ RangeOK /\ RolesOK /\ SpawnOK
  BY Apart, BrokerConstantsOK
     DEF Init, HolderOK, RangeOK, RolesOK, SpawnOK, At, IdleThread, Locked, Threads
<1>3. ProcessOK /\ FreshOK /\ MakingOK /\ TurnsOK
  BY Apart
     DEF Init, ProcessOK, FreshOK, MakingOK, TurnsOK, At, IdleThread, NoChild, NoReader
<1>4. CleanOK /\ LeftOK /\ AliveOK
  BY DEF CleanOK, LeftOK, AliveOK, NoChild, NoReader
<1>5. TableOK /\ WatchOK
  BY BrokerConstantsOK DEF Init, TableOK, WatchOK, At, IdleThread, Threads
<1>. QED  BY <1>1, <1>2, <1>3, <1>4, <1>5 DEF IInv

(* Every step of a thread, a reader, a child or the shell keeps it. *)
LEMMA Inductive == IInv /\ [Next]_vars => IInv'
<1>1. ASSUME IInv, Next PROVE IInv'
  <2>1. /\ ThreadType /\ ReaderType /\ ChildType /\ TableType
        /\ StatusType /\ SpentType /\ PlainType
    BY <1>1, Pieces DEF IInv
  <2>2. /\ ThreadType' /\ ReaderType' /\ ChildType' /\ TableType'
        /\ StatusType' /\ SpentType' /\ PlainType'
    BY <1>1, <2>1, ThreadTypeStep, ReaderTypeStep, ChildTypeStep, TableTypeStep,
       StatusTypeStep, SpentTypeStep, PlainTypeStep DEF IInv
  <2>3. TypeOK'
    BY <2>2 DEF TypeOK, ThreadType, ReaderType, ChildType, TableType, StatusType,
                SpentType, PlainType
  <2>4. HolderOK' /\ RangeOK' /\ RolesOK' /\ SpawnOK'
    BY <1>1, <2>1, HolderStep, RangeStep, RolesStep, SpawnStep DEF IInv
  <2>5. ProcessOK' /\ FreshOK' /\ MakingOK' /\ TurnsOK'
    BY <1>1, <2>1, ProcessStep, FreshStep, MakingStep, TurnsStep DEF IInv
  <2>6. CleanOK' /\ LeftOK' /\ AliveOK'
    BY <1>1, <2>1, CleanStep, LeftStep, AliveStep DEF IInv
  <2>7. TableOK' /\ WatchOK'
    BY <1>1, <2>1, TableStep, WatchStep DEF IInv
  <2>. QED  BY <2>3, <2>4, <2>5, <2>6, <2>7 DEF IInv
<1>2. ASSUME IInv, UNCHANGED vars PROVE IInv'
  BY <1>2
     DEF vars, IInv, TypeOK, HolderOK, RangeOK, RolesOK, SpawnOK, ProcessOK, FreshOK, MakingOK,
         TurnsOK, CleanOK, LeftOK, AliveOK, TableOK, WatchOK, At, Some, Watched
<1>. QED  BY <1>1, <1>2

(* All that the broker keeps, for any callers, requests and faults. *)
THEOREM Invariant == Spec => []IInv
BY Initially, Inductive, PTL DEF Spec

(* Status, table, threads and children keep their types (broker.rs). *)
THEOREM TypeCorrect == Spec => []TypeOK
<1>1. IInv => TypeOK
  BY DEF IInv
<1>. QED  BY Invariant, <1>1, PTL

(* No two runtimes are alive at a time, unless a line was garbled or a     *)
(* kill failed: whoever spawns has the lifecycle mutex and saw that no     *)
(* process is registered, and one is taken out when it is dead or killed.  *)
THEOREM OneChild == Spec => []OneProcess
<1>1. IInv => OneProcess
  <2>. SUFFICES ASSUME IInv, spent.garbled = 0, spent.kills = 0,
                       NEW g \in Gens, NEW h \in Gens, child[g].alive, child[h].alive
                PROVE  g = h
    BY DEF OneProcess
  <2>1. /\ process = g \/ (Some("register") /\ generation = g)
        /\ process = h \/ (Some("register") /\ generation = h)
    BY DEF IInv, AliveOK
  <2>2. Some("register") => process = 0
    BY DEF IInv, SpawnOK, Some, At
  <2>. QED  BY <2>1, <2>2, Apart
<1>. QED  BY Invariant, <1>1, PTL

(* A caller that waits has its entry in the table and somebody who fails   *)
(* it when its process is gone, unless a kill failed.                      *)
THEOREM NobodyForgotten == Spec => []PendingIsServed
<1>1. IInv => PendingIsServed
  BY DEF IInv, TableOK, WatchOK, PendingIsServed, Waiting, At
<1>. QED  BY Invariant, <1>1, PTL


-----------------------------------------------------------------------------
(***************************************************************************)
(* The restart after an exit.                                              *)
(***************************************************************************)
(* The current generation has left: then there is no process, and the      *)
(* reader is about to leave the restart to the generation's own thread, or *)
(* this thread is on its way to the spawn.                                 *)
OnItsWay(g) == At(g, {"sleep", "start", "recheck", "starting", "spawn"})
ExitIsFollowed ==
  \A g \in Gens : generation = g /\ reader[g].pc \in {"drain", "report", "done"} =>
    /\ process = 0 /\ ~shutdown
    /\ reader[g].pc = "done" => OnItsWay(g)

(* The flag of the last handle is set when nobody is at work any more. *)
ShutOK == shutdown => ~app /\ ~OtherHandles
WayOK  == \A g \in Gens : generation = g /\ reader[g].pc = "done" => OnItsWay(g)

LEMMA ShutStep ==
  ASSUME ThreadType, ReaderType, PlainType, RolesOK, ShutOK, Next
  PROVE  ShutOK'
<1>. USE DEF ShutOK, OtherHandles, ThreadType, ReaderType, PlainType
<1>1. ASSUME shutdown PROVE ShutOK'
  <2>1. /\ ~app /\ \A t \in Threads : thread[t].pc = "idle"
        /\ \A g \in Gens : reader[g].pc \in {"none", "done"}
    BY <1>1
  <2>2. ~DropHandle /\ \A c \in Callers : ~Call(c)
    BY <2>1 DEF DropHandle, Call, Request, Restart
  <2>3. \A c \in Callers : ~Respond(c) /\ ~Stop(c) /\ ~RequestTimeout(c)
    BY <2>1 DEF Respond, CheckStarted, Insert, TakePipe, WriteLine, Receive, Stop, StopGeneration,
       StopProcess, StopFails, StopPending, StopStatus, RequestTimeout, Threads
  <2>4. \A t \in Threads : ~Spawn(t)
    BY <2>1 DEF Spawn, AcquireToStart, Recheck, SpawnStarting, SpawnChild, SpawnFails,
       SpawnRegister, SpawnConnect
  <2>5. \A g \in Gens : ~Read(g)
    BY <2>1 DEF Read, ReadResponse, NextLine, AtReader, ReadReady, ReportReady, ReadGarbled, ReadEnd,
       ExitCheck, ExitTake, ExitPending, ExitReport, RestartWakes, Threads
  <2>6. ASSUME NEW g \in Gens, Child(g) PROVE UNCHANGED <<app, shutdown, thread, reader>>
    BY <2>6 DEF Child, ChildAnnounces, ChildAnswers, ChildGarbles, ChildExits
  <2>. QED  BY <1>1, <2>2, <2>3, <2>4, <2>5, <2>6 DEF Next
<1>2. ASSUME ~shutdown, shutdown' PROVE ShutOK'
  <2>1. DropHandle
    BY <1>2 DEF Next, Call, Request, Restart, Respond, CheckStarted, Insert, TakePipe, WriteLine, Receive,
       Stop, StopGeneration, StopProcess, StopFails, StopPending, StopStatus, RequestTimeout,
       Spawn, AcquireToStart, Recheck, SpawnStarting, SpawnChild, SpawnFails, SpawnRegister, SpawnConnect,
       Read, ReadResponse, ReadReady, ReportReady, ReadGarbled, ReadEnd, ExitCheck, ExitTake, ExitPending,
       ExitReport, RestartWakes, Child, ChildAnnounces, ChildAnswers, ChildGarbles, ChildExits
  <2>. QED  BY <1>2, <2>1 DEF DropHandle
<1>. QED  BY <1>1, <1>2

LEMMA NoProcess ==
  ASSUME IInv, NEW g \in Gens, generation = g, reader[g].pc \in {"drain", "report", "done"}
  PROVE  process = 0 /\ ~Some("kill") /\ ~Some("connect") /\ ~Some("register")
BY DEF IInv, ProcessOK, MakingOK, Some, At, TypeOK

LEMMA WayStep ==
  ASSUME IInv, ShutOK, WayOK, Next
  PROVE  WayOK'
<1>. SUFFICES ASSUME NEW g \in Gens, generation' = g, reader'[g].pc = "done"
              PROVE  OnItsWay(g)'
  BY DEF WayOK
<1>. USE Apart DEF OnItsWay, At
<1>0. /\ ThreadType /\ ReaderType /\ PlainType /\ RangeOK /\ RolesOK /\ TurnsOK /\ FreshOK
      /\ g \in Threads /\ g \notin Callers
  BY Pieces DEF IInv, Threads
<1>1. CASE generation # g
  <2>1. reader[g].pc = "done" \/ reader'[g] # reader[g]
    BY <1>0
  <2>2. generation' = generation + 1
    BY <1>1, <1>0 DEF Next, Call, Request, Restart, Respond, CheckStarted, Insert, TakePipe, WriteLine,
       Receive, Stop, StopGeneration, StopProcess, StopFails, StopPending, StopStatus, RequestTimeout,
       Spawn, AcquireToStart, Recheck, SpawnStarting, SpawnChild, SpawnFails, SpawnRegister, SpawnConnect,
       Read, ReadResponse, ReadReady, ReportReady, ReadGarbled, ReadEnd, ExitCheck, ExitTake, ExitPending,
       ExitReport, RestartWakes, Child, ChildAnnounces, ChildAnswers, ChildGarbles, ChildExits, DropHandle
  <2>3. reader' = reader
    BY <1>1, <1>0 DEF Next, Call, Request, Restart, Respond, CheckStarted, Insert, TakePipe, WriteLine,
       Receive, Stop, StopGeneration, StopProcess, StopFails, StopPending, StopStatus, RequestTimeout,
       Spawn, AcquireToStart, Recheck, SpawnStarting, SpawnChild, SpawnFails, SpawnRegister, SpawnConnect,
       Read, ReadResponse, ReadReady, ReportReady, ReadGarbled, ReadEnd, ExitCheck, ExitTake, ExitPending,
       ExitReport, RestartWakes, Child, ChildAnnounces, ChildAnswers, ChildGarbles, ChildExits, DropHandle
  <2>4. g > generation
    BY <1>0, <2>2 DEF PlainType
  <2>. QED  BY <1>0, <2>3, <2>4 DEF FreshOK
<1>2. CASE generation = g /\ reader[g].pc = "done"
  <2>1. process = 0 /\ OnItsWay(g)
    BY <1>2, NoProcess DEF WayOK
  <2>2. ASSUME NEW c \in Callers, Call(c) \/ Respond(c) \/ Stop(c) \/ RequestTimeout(c)
        PROVE  thread'[g] = thread[g]
    BY <1>0, <2>2 DEF ThreadType, Threads, Call, Request, Restart, Respond, CheckStarted, Insert, TakePipe, WriteLine,
       Receive, GiveUp, Stop, StopGeneration, StopProcess, StopFails, StopPending, StopStatus, RequestTimeout, Goto
  <2>3. ASSUME NEW t \in Threads, Spawn(t), t # g PROVE thread'[g] = thread[g]
    BY <1>0, <2>3 DEF ThreadType, Spawn, AcquireToStart, Recheck, SpawnStarting, SpawnChild, SpawnFails,
       SpawnRegister, SpawnConnect, Goto
  <2>4. ASSUME Spawn(g) PROVE OnItsWay(g)'
    <3>1. ~SpawnChild(g) /\ ~SpawnFails(g)
      BY <1>2, <1>0 DEF SpawnChild, SpawnFails, PlainType
    <3>2. ~SpawnRegister(g) /\ ~SpawnConnect(g)
      BY <2>1 DEF SpawnRegister, SpawnConnect
    <3>. QED  BY <1>0, <2>1, <2>4, <3>1, <3>2
           DEF ThreadType, Spawn, AcquireToStart, Recheck, NeedsSpawn, SpawnStarting, Goto
  <2>5. ASSUME NEW h \in Gens, Read(h) PROVE OnItsWay(g)'
    <3>1. CASE RestartWakes(h)
      BY <1>0, <1>2, <2>1, <3>1 DEF ThreadType, RestartWakes, RestartDue, Goto
    <3>2. CASE ExitReport(h)
      BY <1>0, <1>2, <2>1, <3>2, ExitReportMoves DEF AtReader, ExitReport
    <3>3. CASE ~RestartWakes(h) /\ ~ExitReport(h)
      <4>1. thread' = thread
        BY <2>5, <3>3 DEF Read, ReadResponse, ReadReady, ReportReady, ReadGarbled, ReadEnd, ExitCheck, ExitTake,
           ExitPending
      <4>. QED  BY <2>1, <4>1
    <3>. QED  BY <3>1, <3>2, <3>3
  <2>6. ASSUME NEW h \in Gens, Child(h) PROVE thread' = thread
    BY <2>6 DEF Child, ChildAnnounces, ChildAnswers, ChildGarbles, ChildExits
  <2>7. ASSUME DropHandle PROVE thread' = thread
    BY <2>7 DEF DropHandle
  <2>. QED  BY <2>1, <2>2, <2>3, <2>4, <2>5, <2>6, <2>7 DEF Next
<1>3. CASE generation = g /\ reader[g].pc # "done"
  <2>1. ASSUME reader' = reader PROVE FALSE
    BY <1>0, <1>3, <2>1
  <2>2. ASSUME NEW c \in Callers, Call(c) \/ Respond(c) \/ Stop(c) \/ RequestTimeout(c) PROVE FALSE
    BY <2>1, <2>2 DEF Call, Request, Restart, Respond, CheckStarted, Insert, TakePipe, WriteLine,
       Receive, GiveUp, Stop, StopGeneration, StopProcess, StopFails, StopPending, StopStatus, RequestTimeout
  <2>3. ASSUME NEW t \in Threads, Spawn(t) PROVE FALSE
    <3>1. ASSUME SpawnConnect(t) PROVE FALSE
      <4>1. reader' = [reader EXCEPT ![thread[t].pipe].pc = "read"]
        BY <3>1 DEF SpawnConnect
      <4>. QED  BY <1>0, <1>3, <4>1 DEF ReaderType
    <3>2. ASSUME ~SpawnConnect(t) PROVE reader' = reader
      BY <2>3, <3>2 DEF Spawn, AcquireToStart, Recheck, SpawnStarting, SpawnChild, SpawnFails, SpawnRegister
    <3>. QED  BY <2>1, <3>1, <3>2
  <2>4. ASSUME NEW h \in Gens, Child(h) \/ RestartWakes(h) PROVE FALSE
    BY <2>1, <2>4 DEF Child, ChildAnnounces, ChildAnswers, ChildGarbles, ChildExits, RestartWakes
  <2>5. ASSUME DropHandle PROVE FALSE
    BY <2>1, <2>5 DEF DropHandle
  <2>6. PICK h \in Gens : Read(h)
    BY <2>2, <2>3, <2>4, <2>5 DEF Next
  <2>7. ~ReadResponse(h)
    BY <2>1 DEF ReadResponse
  <2>8. ~ReadReady(h)
    BY <1>0, <1>3 DEF ReaderType, ReadReady
  <2>9. ~ReportReady(h)
    BY <1>0, <1>3 DEF ReaderType, ReportReady
  <2>10. ~ReadGarbled(h) /\ ~ReadEnd(h) /\ ~ExitTake(h) /\ ~ExitPending(h)
    BY <1>0, <1>3 DEF ReaderType, ReadGarbled, ReadEnd, ExitTake, ExitPending, GotoReader
  <2>11. ExitCheck(h) \/ ExitReport(h)
    BY <2>4, <2>6, <2>7, <2>8, <2>9, <2>10 DEF Read
  <2>12. ExitReport(g)
    BY <1>0, <1>3, <2>11 DEF ReaderType, ExitCheck, ExitReport, StillCurrent, GotoReader, AtReader
  <2>13. ~shutdown
    BY <2>12 DEF ShutOK, OtherHandles, ExitReport, AtReader
  <2>. QED  BY <1>0, <2>12, <2>13 DEF ThreadType, ExitReport, Goto
<1>. QED  BY <1>1, <1>2, <1>3

(* A runtime that has left has been taken out, the shell is not shutting   *)
(* down, and its own thread brings the next one: neither a request nor a   *)
(* restart nor a failing spawn takes the restart away without using up the *)
(* generation.  (broker.rs:263-301)                                        *)
THEOREM ExitFollowed == Spec => []ExitIsFollowed
<1>1. Init => ShutOK /\ WayOK
  BY DEF Init, ShutOK, WayOK, NoReader
<1>2. IInv /\ ShutOK /\ WayOK /\ [Next]_vars => ShutOK' /\ WayOK'
  <2>1. ASSUME IInv, ShutOK, WayOK, Next PROVE ShutOK' /\ WayOK'
    BY <2>1, Pieces, ShutStep, WayStep DEF IInv
  <2>2. ASSUME ShutOK, WayOK, UNCHANGED vars PROVE ShutOK' /\ WayOK'
    BY <2>2 DEF vars, ShutOK, WayOK, OtherHandles, OnItsWay, At
  <2>. QED  BY <2>1, <2>2
<1>3. IInv /\ ShutOK /\ WayOK => ExitIsFollowed
  <2>. SUFFICES ASSUME IInv, ShutOK, WayOK, NEW g \in Gens, generation = g,
                       reader[g].pc \in {"drain", "report", "done"}
                PROVE  process = 0 /\ ~shutdown /\ (reader[g].pc = "done" => OnItsWay(g))
    BY DEF ExitIsFollowed
  <2>1. ~shutdown
    BY DEF ShutOK, OtherHandles, WayOK, OnItsWay, At, Threads
  <2>. QED  BY <2>1, NoProcess DEF WayOK
<1>. QED  BY <1>1, <1>2, <1>3, Invariant, PTL DEF Spec
=============================================================================
