---------------------------- MODULE RuntimeBroker ----------------------------
(***************************************************************************)
(* The desktop's supervisor of the Python runtime (RuntimeBroker): threads *)
(* that send requests and wait for their responses, manual restarts, the   *)
(* reader thread of every child process, and the delayed automatic restart.*)
(*                                                                         *)
(* A thread moves from one mutex to the next; one action is one section    *)
(* under `process', `pending' or `status', or one access to `generation'.  *)
(* Only the `lifecycle' mutex is held across actions.  Child processes are *)
(* named by the generation that spawned them.  What Tauri does with the    *)
(* status and the events is outside.                                       *)
(***************************************************************************)
EXTENDS Naturals, Sequences

CONSTANTS
  Callers,        \* threads of the desktop shell: requests and restarts
  Requests,       \* request ids, each sent once
  MaxExits,       \* bound: exits of a child nobody asked for
  MaxGarbled,     \* bound: lines of a child that are not UTF-8
  MaxRestarts,    \* bound: manual restarts
  MaxSpawnFaults, \* bound: spawn calls that fail
  MaxKillFaults,  \* bound: kill calls that fail
  Announcing,     \* bound: generations up to it send runtime.ready (Python sends none)
  Nobody          \* no caller, no request

ASSUME BrokerConstantsOK ==
  /\ MaxExits \in Nat /\ MaxGarbled \in Nat /\ MaxRestarts \in Nat
  /\ MaxSpawnFaults \in Nat /\ MaxKillFaults \in Nat /\ Announcing \in Nat
  /\ Nobody \notin Callers \cup Requests \cup Nat
  /\ Callers \cap Nat = {} /\ "ready" \notin Requests /\ "garbled" \notin Requests

VARIABLES
  process,        \* generation of the ManagedProcess, 0 for None
  generation,     \* the generation counter
  lifecycle,      \* thread that holds the lifecycle mutex
  pending,        \* caller each pending request id answers to
  reply,          \* first message in the channel of each caller
  status,         \* RuntimeStatus
  thread,         \* callers, and the restart thread of each generation
  reader,         \* stdout thread of each generation
  child,          \* child process of each generation
  app,            \* the shell still holds its handle
  shutdown,       \* BrokerInner.shutdown
  spent           \* bounded events used up

vars == <<process, generation, lifecycle, pending, reply, status, thread,
          reader, child, app, shutdown, spent>>

-----------------------------------------------------------------------------
(* Every generation is the first, or follows an exit, a garbled line, a    *)
(* failed spawn or a restart, which uses two: the bound is never met.      *)
MaxGeneration == 1 + MaxExits + MaxGarbled + MaxSpawnFaults + 2 * MaxRestarts
Gens    == 1 .. MaxGeneration
Threads == Callers \cup Gens

IdleThread == [pc |-> "idle", request |-> Nobody, pipe |-> 0]
NoChild    == [alive |-> FALSE, announced |-> FALSE, inbox |-> {}, out |-> <<>>]
NoReader   == [pc |-> "none", pid |-> 0]

(* Where a thread is inside the lifecycle mutex, and where outside. *)
Locked == {"recheck", "starting", "spawn", "register", "connect",
           "stop", "kill", "fail", "stopped"}
Pcs    == {"idle", "check", "start", "insert", "pipe", "write", "wait", "sleep"}
            \cup Locked

Init ==
  /\ process = 0
  /\ generation = 0
  /\ lifecycle = Nobody
  /\ pending = [r \in Requests |-> Nobody]
  /\ reply = [c \in Callers |-> "none"]
  /\ status = [state |-> "disconnected", pid |-> 0, restarts |-> 0]
  /\ thread = [t \in Threads |-> IdleThread]
  /\ reader = [g \in Gens |-> NoReader]
  /\ child = [g \in Gens |-> NoChild]
  /\ app = TRUE
  /\ shutdown = FALSE
  /\ spent = [exits |-> 0, garbled |-> 0, restarts |-> 0, spawns |-> 0, kills |-> 0]

Goto(t, pc) == thread' = [thread EXCEPT ![t].pc = pc]
Spend(what, max) == spent[what] < max /\ spent' = [spent EXCEPT ![what] = @ + 1]

(* Mutant: the state of the frontend's vocabulary instead of the broker's. *)
SetStatusWord(state, pid) ==
  status' = [status EXCEPT !.state = IF state = "connecting" THEN "connected" ELSE state,
                           !.pid = pid]

SetStatus(state, pid) == status' = [status EXCEPT !.state = state, !.pid = pid]

(* fail_pending drains the map: every waiter gets the error, and a message *)
(* that is already in its channel stays the first.                         *)
FailPending ==
  /\ pending' = [r \in Requests |-> Nobody]
  /\ reply' = [c \in Callers |->
                 IF reply[c] = "none" /\ \E r \in Requests : pending[r] = c
                 THEN "failed" ELSE reply[c]]

-----------------------------------------------------------------------------
(***************************************************************************)
(* request                                                                 *)
(***************************************************************************)
Fresh(r) == \A c \in Callers : thread[c].request # r

(* A request id is a random UUID of the client. *)
Request(c, r) ==
  /\ app /\ thread[c].pc = "idle" /\ thread[c].request = Nobody /\ Fresh(r)
  /\ thread' = [thread EXCEPT ![c] = [pc |-> "check", request |-> r, pipe |-> 0]]
  /\ reply' = [reply EXCEPT ![c] = "none"]
  /\ UNCHANGED <<process, generation, lifecycle, pending, status, reader, child,
                 app, shutdown, spent>>

(* ensure_started *)
CheckStarted(c) ==
  /\ thread[c].pc = "check"
  /\ Goto(c, IF process # 0 THEN "insert" ELSE "start")
  /\ UNCHANGED <<process, generation, lifecycle, pending, reply, status, reader,
                 child, app, shutdown, spent>>

Insert(c) ==
  /\ thread[c].pc = "insert"
  /\ pending' = [pending EXCEPT ![thread[c].request] = c]
  /\ Goto(c, "pipe")
  /\ UNCHANGED <<process, generation, lifecycle, reply, status, reader, child,
                 app, shutdown, spent>>

(* A request that ends without waiting for its response. *)
GiveUp(c) ==
  /\ pending' = [pending EXCEPT ![thread[c].request] = Nobody]
  /\ reply' = [reply EXCEPT ![c] = "error"]
  /\ thread' = [thread EXCEPT ![c].pc = "idle"]

(* send_line clones the stdin handle of the current process, ... *)
TakePipe(c) ==
  /\ thread[c].pc = "pipe"
  /\ IF process = 0
     THEN GiveUp(c)
     ELSE /\ thread' = [thread EXCEPT ![c].pc = "write", ![c].pipe = process]
          /\ UNCHANGED <<pending, reply>>
  /\ UNCHANGED <<process, generation, lifecycle, status, reader, child, app,
                 shutdown, spent>>

(* ... and writes to it, whatever has become of that process. *)
WriteLine(c) ==
  LET g == thread[c].pipe IN
  /\ thread[c].pc = "write"
  /\ IF child[g].alive
     THEN /\ child' = [child EXCEPT ![g].inbox = @ \cup {thread[c].request}]
          /\ Goto(c, "wait")
          /\ UNCHANGED <<pending, reply>>
     ELSE GiveUp(c) /\ UNCHANGED child
  /\ UNCHANGED <<process, generation, lifecycle, status, reader, app, shutdown,
                 spent>>

(* A response, or an error of fail_pending, is in the channel. *)
Receive(c) ==
  /\ thread[c].pc = "wait" /\ reply[c] # "none"
  /\ Goto(c, "idle")
  /\ UNCHANGED <<process, generation, lifecycle, pending, reply, status, reader,
                 child, app, shutdown, spent>>

(* REQUEST_TIMEOUT: a run may well take longer than 300 s. *)
RequestTimeout(c) ==
  /\ thread[c].pc = "wait" /\ reply[c] = "none"
  /\ GiveUp(c)
  /\ UNCHANGED <<process, generation, lifecycle, status, reader, child, app,
                 shutdown, spent>>

-----------------------------------------------------------------------------
(***************************************************************************)
(* start_process and spawn_locked, by a caller or by a restart thread      *)
(***************************************************************************)
AfterStart(t) == IF t \in Callers /\ thread[t].request # Nobody THEN "insert" ELSE "idle"

AcquireToStart(t) ==
  /\ thread[t].pc = "start" /\ lifecycle = Nobody
  /\ lifecycle' = t
  /\ Goto(t, "recheck")
  /\ UNCHANGED <<process, generation, pending, reply, status, reader, child,
                 app, shutdown, spent>>

(* Mutant: the process is not looked at again under the lifecycle mutex. *)
NeedsSpawnAlways == TRUE

NeedsSpawn == process = 0

Recheck(t) ==
  /\ thread[t].pc = "recheck"
  /\ IF NeedsSpawn
     THEN Goto(t, "starting") /\ UNCHANGED lifecycle
     ELSE Goto(t, AfterStart(t)) /\ lifecycle' = Nobody
  /\ UNCHANGED <<process, generation, pending, reply, status, reader, child,
                 app, shutdown, spent>>

(* Automatic and manual restarts count, the first start does not. *)
Restarted(t) == t \notin Callers \/ thread[t].request = Nobody

SpawnStarting(t) ==
  /\ thread[t].pc = "starting"
  /\ status' = [status EXCEPT !.state = "starting", !.pid = 0,
                              !.restarts = @ + (IF Restarted(t) THEN 1 ELSE 0)]
  /\ Goto(t, "spawn")
  /\ UNCHANGED <<process, generation, lifecycle, pending, reply, reader, child,
                 app, shutdown, spent>>

SpawnChild(t) ==
  /\ thread[t].pc = "spawn" /\ generation < MaxGeneration
  /\ generation' = generation + 1
  /\ child' = [child EXCEPT ![generation + 1].alive = TRUE]
  /\ thread' = [thread EXCEPT ![t].pc = "register", ![t].pipe = generation + 1]
  /\ UNCHANGED <<process, lifecycle, pending, reply, status, reader, app,
                 shutdown, spent>>

(* The generation is used up although there is no process. *)
SpawnFails(t) ==
  /\ thread[t].pc = "spawn" /\ generation < MaxGeneration
  /\ Spend("spawns", MaxSpawnFaults)
  /\ generation' = generation + 1
  /\ SetStatus("disconnected", 0)
  /\ lifecycle' = Nobody
  /\ thread' = [thread EXCEPT ![t].pc = "idle"]
  /\ reply' = IF t \in Callers THEN [reply EXCEPT ![t] = "error"] ELSE reply
  /\ UNCHANGED <<process, pending, reader, child, app, shutdown>>

SpawnRegister(t) ==
  /\ thread[t].pc = "register"
  /\ process' = thread[t].pipe
  /\ Goto(t, "connect")
  /\ UNCHANGED <<generation, lifecycle, pending, reply, status, reader, child,
                 app, shutdown, spent>>

(* set_status("connecting"), then the reader thread runs and the mutex is  *)
(* given back.                                                             *)
SpawnConnect(t) ==
  LET g == thread[t].pipe IN
  /\ thread[t].pc = "connect"
  /\ SetStatus("connecting", g)
  /\ reader' = [reader EXCEPT ![g].pc = "read"]
  /\ lifecycle' = Nobody
  /\ Goto(t, AfterStart(t))
  /\ UNCHANGED <<process, generation, pending, reply, child, app, shutdown, spent>>

-----------------------------------------------------------------------------
(***************************************************************************)
(* restart: stop_locked, then spawn_locked, under one lifecycle section    *)
(***************************************************************************)
Restart(c) ==
  /\ app /\ thread[c] = IdleThread /\ lifecycle = Nobody
  /\ Spend("restarts", MaxRestarts)
  /\ lifecycle' = c
  /\ Goto(c, "stop")
  /\ UNCHANGED <<process, generation, pending, reply, status, reader, child,
                 app, shutdown>>

(* The reader threads are invalidated before the process is killed, ... *)
StopGeneration(c) ==
  /\ thread[c].pc = "stop" /\ generation < MaxGeneration
  /\ generation' = generation + 1
  /\ Goto(c, "kill")
  /\ UNCHANGED <<process, lifecycle, pending, reply, status, reader, child, app,
                 shutdown, spent>>

(* ... which is taken out, killed and waited for under the process mutex. *)
StopProcess(c) ==
  /\ thread[c].pc = "kill"
  /\ process' = 0
  /\ child' = [g \in Gens |->
                 IF g = process THEN [child[g] EXCEPT !.alive = FALSE] ELSE child[g]]
  /\ Goto(c, "fail")
  /\ UNCHANGED <<generation, lifecycle, pending, reply, status, reader, app,
                 shutdown, spent>>

(* kill fails: stop_locked returns early with the process taken out. *)
StopFails(c) ==
  /\ thread[c].pc = "kill" /\ process # 0
  /\ Spend("kills", MaxKillFaults)
  /\ process' = 0
  /\ lifecycle' = Nobody
  /\ thread' = [thread EXCEPT ![c] = IdleThread]
  /\ UNCHANGED <<generation, pending, reply, status, reader, child, app, shutdown>>

StopPending(c) ==
  /\ thread[c].pc = "fail"
  /\ FailPending
  /\ Goto(c, "stopped")
  /\ UNCHANGED <<process, generation, lifecycle, status, reader, child, app,
                 shutdown, spent>>

StopStatus(c) ==
  /\ thread[c].pc = "stopped"
  /\ SetStatus("disconnected", 0)
  /\ Goto(c, "starting")
  /\ UNCHANGED <<process, generation, lifecycle, pending, reply, reader, child,
                 app, shutdown, spent>>

-----------------------------------------------------------------------------
(***************************************************************************)
(* The reader thread of generation g: handle_stdout and handle_exit        *)
(***************************************************************************)
AtReader(g, pc) == reader[g].pc = pc
GotoReader(g, pc) == reader' = [reader EXCEPT ![g].pc = pc]
NextLine(g) == AtReader(g, "read") /\ child[g].out # <<>>
Consume(g) == child' = [child EXCEPT ![g].out = Tail(@)]

(* deliver_response: nobody waits any more for some of the responses. *)
ReadResponse(g) ==
  LET r == Head(child[g].out) IN
  /\ NextLine(g) /\ r \in Requests
  /\ Consume(g)
  /\ pending' = [pending EXCEPT ![r] = Nobody]
  /\ reply' = [c \in Callers |->
                 IF pending[r] = c /\ reply[c] = "none" THEN "ok" ELSE reply[c]]
  /\ UNCHANGED <<process, generation, lifecycle, status, thread, reader, app,
                 shutdown, spent>>

(* runtime.ready: the pid is read first, and written back with the state. *)
ReadReady(g) ==
  /\ NextLine(g) /\ Head(child[g].out) = "ready"
  /\ Consume(g)
  /\ reader' = [reader EXCEPT ![g] = [pc |-> "ready", pid |-> status.pid]]
  /\ UNCHANGED <<process, generation, lifecycle, pending, reply, status, thread,
                 app, shutdown, spent>>

ReportReady(g) ==
  /\ AtReader(g, "ready")
  /\ SetStatus("ready", reader[g].pid)
  /\ reader' = [reader EXCEPT ![g] = [pc |-> "read", pid |-> 0]]
  /\ UNCHANGED <<process, generation, lifecycle, pending, reply, thread, child,
                 app, shutdown, spent>>

(* A line that is not UTF-8 ends the loop as the end of the output does,   *)
(* though the child may still run.                                         *)
ReadGarbled(g) ==
  /\ NextLine(g) /\ Head(child[g].out) = "garbled"
  /\ Consume(g)
  /\ SetStatus("disconnected", 0)
  /\ GotoReader(g, "exit")
  /\ UNCHANGED <<process, generation, lifecycle, pending, reply, thread, app,
                 shutdown, spent>>

ReadEnd(g) ==
  /\ AtReader(g, "read") /\ child[g].out = <<>> /\ ~child[g].alive
  /\ GotoReader(g, "exit")
  /\ UNCHANGED <<process, generation, lifecycle, pending, reply, status, thread,
                 child, app, shutdown, spent>>

StillCurrent(g) == generation = g

ExitCheck(g) ==
  /\ AtReader(g, "exit")
  /\ GotoReader(g, IF StillCurrent(g) THEN "take" ELSE "done")
  /\ UNCHANGED <<process, generation, lifecycle, pending, reply, status, thread,
                 child, app, shutdown, spent>>

(* Only the reader's own process is taken out; its child is not killed. *)
ExitTake(g) ==
  /\ AtReader(g, "take")
  /\ process' = IF process = g THEN 0 ELSE process
  /\ GotoReader(g, "drain")
  /\ UNCHANGED <<generation, lifecycle, pending, reply, status, thread, child,
                 app, shutdown, spent>>

(* Mutant: the waiting requests are forgotten. *)
ExitPendingKept(g) ==
  /\ AtReader(g, "drain")
  /\ GotoReader(g, "report")
  /\ UNCHANGED <<process, generation, lifecycle, pending, reply, status, thread,
                 child, app, shutdown, spent>>

(* Every waiting request fails, those of a newer process included. *)
ExitPending(g) ==
  /\ AtReader(g, "drain")
  /\ FailPending
  /\ GotoReader(g, "report")
  /\ UNCHANGED <<process, generation, lifecycle, status, thread, child, app,
                 shutdown, spent>>

ExitReport(g) ==
  /\ AtReader(g, "report")
  /\ SetStatus("disconnected", 0)
  /\ GotoReader(g, "done")
  /\ IF shutdown THEN UNCHANGED thread ELSE Goto(g, "sleep")
  /\ UNCHANGED <<process, generation, lifecycle, pending, reply, child, app,
                 shutdown, spent>>

(* Mutant: the automatic restart is due only after another spawn. *)
RestartDueLate(g) == generation > g

RestartDue(g) == generation = g

(* RESTART_DELAY is over: a generation that came meanwhile wins. *)
RestartWakes(g) ==
  /\ thread[g].pc = "sleep"
  /\ Goto(g, IF RestartDue(g) THEN "start" ELSE "idle")
  /\ UNCHANGED <<process, generation, lifecycle, pending, reply, status, reader,
                 child, app, shutdown, spent>>

-----------------------------------------------------------------------------
(***************************************************************************)
(* The child process, and the shell that lets go of its handle             *)
(***************************************************************************)
Say(g, line) == child' = [child EXCEPT ![g].out = Append(@, line)]

ChildAnnounces(g) ==
  /\ g <= Announcing /\ child[g].alive /\ ~child[g].announced
  /\ child' = [child EXCEPT ![g].out = Append(@, "ready"), ![g].announced = TRUE]
  /\ UNCHANGED <<process, generation, lifecycle, pending, reply, status, thread,
                 reader, app, shutdown, spent>>

ChildAnswers(g, r) ==
  /\ child[g].alive /\ r \in child[g].inbox
  /\ child' = [child EXCEPT ![g].out = Append(@, r), ![g].inbox = @ \ {r}]
  /\ UNCHANGED <<process, generation, lifecycle, pending, reply, status, thread,
                 reader, app, shutdown, spent>>

ChildGarbles(g) ==
  /\ child[g].alive /\ Spend("garbled", MaxGarbled)
  /\ Say(g, "garbled")
  /\ UNCHANGED <<process, generation, lifecycle, pending, reply, status, thread,
                 reader, app, shutdown>>

(* A child nobody holds a pipe to reads the end of its input and leaves;   *)
(* any other exit is one nobody asked for.                                 *)
Unheld(g) == /\ process # g
             /\ \A t \in Threads : thread[t].pipe = g
                                     => thread[t].pc \notin {"register", "write"}

ChildExits(g) ==
  /\ child[g].alive
  /\ IF Unheld(g) THEN UNCHANGED spent ELSE Spend("exits", MaxExits)
  /\ child' = [child EXCEPT ![g].alive = FALSE]
  /\ UNCHANGED <<process, generation, lifecycle, pending, reply, status, thread,
                 reader, app, shutdown>>

(* Callers at work, restart threads and reader threads hold clones. *)
OtherHandles == \/ \E t \in Threads : thread[t].pc # "idle"
                \/ \E g \in Gens : reader[g].pc \notin {"none", "done"}

(* Drop acts for the last handle only. *)
DropHandle ==
  /\ app /\ app' = FALSE
  /\ shutdown' = ~OtherHandles
  /\ IF OtherHandles
     THEN UNCHANGED <<process, child>>
     ELSE /\ process' = 0
          /\ child' = [g \in Gens |-> IF g = process
                         THEN [child[g] EXCEPT !.alive = FALSE] ELSE child[g]]
  /\ UNCHANGED <<generation, lifecycle, pending, reply, status, thread, reader,
                 spent>>

-----------------------------------------------------------------------------
Call(c) == \/ \E r \in Requests : Request(c, r)
           \/ Restart(c)

Respond(c) == CheckStarted(c) \/ Insert(c) \/ TakePipe(c) \/ WriteLine(c) \/ Receive(c)

Spawn(t) == \/ AcquireToStart(t) \/ Recheck(t) \/ SpawnStarting(t) \/ SpawnChild(t)
            \/ SpawnFails(t) \/ SpawnRegister(t) \/ SpawnConnect(t)

Stop(c) == \/ StopGeneration(c) \/ StopProcess(c) \/ StopFails(c)
           \/ StopPending(c) \/ StopStatus(c)

Read(g) == \/ ReadResponse(g) \/ ReadReady(g) \/ ReportReady(g) \/ ReadGarbled(g)
           \/ ReadEnd(g) \/ ExitCheck(g) \/ ExitTake(g) \/ ExitPending(g)
           \/ ExitReport(g) \/ RestartWakes(g)

Child(g) == \/ ChildAnnounces(g) \/ ChildGarbles(g) \/ ChildExits(g)
            \/ \E r \in Requests : ChildAnswers(g, r)

Next == \/ \E c \in Callers : Call(c) \/ Respond(c) \/ Stop(c) \/ RequestTimeout(c)
        \/ \E t \in Threads : Spawn(t)
        \/ \E g \in Gens : Read(g) \/ Child(g)
        \/ DropHandle

Spec == Init /\ [][Next]_vars

(* The threads of the desktop run: no step blocks but on the lifecycle     *)
(* mutex, whose sections are short and bounded in number.  The child, the  *)
(* user and the clock of REQUEST_TIMEOUT owe nothing.                      *)
FairSpec ==
  /\ Spec
  /\ \A c \in Callers : WF_vars(Respond(c)) /\ WF_vars(Stop(c))
  /\ \A t \in Threads : WF_vars(Spawn(t))
  /\ \A g \in Gens : WF_vars(Read(g))

-----------------------------------------------------------------------------
TypeOK ==
  /\ process \in Nat /\ generation \in Nat
  /\ lifecycle \in Threads \cup {Nobody}
  /\ pending \in [Requests -> Callers \cup {Nobody}]
  /\ reply \in [Callers -> {"none", "ok", "failed", "error"}]
  /\ status \in [state : {"disconnected", "starting", "connecting", "ready"},
                 pid : Nat, restarts : Nat]
  /\ thread \in [Threads -> [pc : Pcs, request : Requests \cup {Nobody}, pipe : Nat]]
  /\ reader \in [Gens -> [pc : {"none", "read", "ready", "exit", "take", "drain",
                                "report", "done"}, pid : Nat]]
  /\ child \in [Gens -> [alive : BOOLEAN, announced : BOOLEAN, inbox : SUBSET Requests,
                         out : Seq(Requests \cup {"ready", "garbled"})]]
  /\ app \in BOOLEAN /\ shutdown \in BOOLEAN
  /\ spent \in [exits : Nat, garbled : Nat, restarts : Nat, spawns : Nat, kills : Nat]

(* Requests, the automatic restart after an exit and manual restarts never *)
(* leave two runtimes alive on one database, with two exceptions: the      *)
(* reader of a line that is not UTF-8 takes a live process for one that    *)
(* has ended, and a kill that fails leaves the process without its entry   *)
(* in the broker.                                                          *)
OneProcess ==
  spent.garbled = 0 /\ spent.kills = 0 => \A g, h \in Gens : child[g].alive /\ child[h].alive => g = h

Waiting(c) == thread[c].pc = "wait" /\ reply[c] = "none"
Watched(g) == \/ generation = g /\ \/ reader[g].pc \in {"read", "ready", "exit"}
                                    \/ \E t \in Threads : thread[t].pc = "connect"
              \/ reader[g].pc \in {"take", "drain"}
              \/ \E t \in Threads : thread[t].pc \in {"kill", "fail"}

(* A caller that waits has its entry in the table, and somebody is left to *)
(* fail it when its process is gone: it never waits out the 300 seconds    *)
(* for a process that has ended.  A kill that fails is the exception: it   *)
(* returns from stop_locked before the waiting callers are failed.         *)
PendingIsServed ==
  spent.kills = 0 =>
    \A c \in Callers : Waiting(c) =>
      pending[thread[c].request] = c /\ Watched(thread[c].pipe)

(* A runtime that left without being asked to is started again: its        *)
(* generation does not stay the current one, though the attempt to start   *)
(* another one may fail and is not repeated.                               *)
Gone == \E g \in Gens : generation = g /\ reader[g].pc \in {"report", "done"}
RuntimeComesBack == Gone ~> ~Gone

=============================================================================
