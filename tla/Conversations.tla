---------------------------- MODULE Conversations ----------------------------
(***************************************************************************)
(* Sessions as the database and the runtime hold them.  Worker threads     *)
(* fetch the object of a session, start and resume runs on it and keep     *)
(* artifacts; the thread that reads the requests creates, changes, clears, *)
(* closes and deletes sessions in between.  A run freezes the earlier      *)
(* rounds of its session that fit into the context budget; each agent gets *)
(* what of that fits beside its own input, and a run that retries another  *)
(* takes over what an agent of that one got.                               *)
(***************************************************************************)
EXTENDS Catalog, Sequences, FiniteSetsExt, Functions

CONSTANTS
  Sessions,     \* ids of sessions, each used once
  MaxRuns,      \* bound: runs
  Workers,      \* worker threads
  Sizes,        \* sizes of a message
  Budget,       \* context_budget_tokens of the model
  Overhead,     \* what a message of the history costs beyond its text
  MaxMessages,  \* bound: messages of a session, its runs' ends aside
  MaxFiles,     \* bound: artifacts at a time
  MaxLoads,     \* bound: objects made for sessions
  MaxCrashes,   \* bound: crashes of the runtime
  MaxFaults     \* bound: operations on artifact files that fail

Runs == 1 .. MaxRuns
Files == 1 .. MaxFiles
Statuses == {"running", "waiting", "completed", "failed", "cancelled", "interrupted"}
Gone == [deleted |-> TRUE]
SessionRow == [flow : Flows, boundary : Nat]
RunRow == [session : Sessions, flow : Flows, status : Statuses, on : Nat, base : Runs,
           history : SUBSET Nat, size : Nat, since : Nat, first : Nat]

ASSUME ConversationConstants ==
  /\ Sizes \subseteq Nat /\ Sizes # {} /\ None \notin Sessions \cup SessionRow \cup RunRow \cup {Gone}
  /\ {MaxRuns, Budget, Overhead, MaxMessages, MaxFiles, MaxLoads, MaxCrashes,
      MaxFaults} \subseteq Nat

VARIABLES
  row,        \* the session's row: its flow and context_start_seq
  log,        \* its messages: run, role, size, and whether public and completed
  runs,       \* the runs: session, workflow, status, the object that holds them, the run that
              \* froze their history (another one for a retry), and that history
  inputs,     \* the histories the agents of each run got (input_json of its agent runs)
  object,     \* AgentRuntime._sessions: the number of a session's object, 0 if it has none
  loads,      \* objects made so far
  job,        \* the request each worker is at
  files,      \* the run of each artifact file, 0 if there is no such file
  temps,      \* the run of each artifact's .tmp file, 0 if there is none
  arts,       \* the run of each artifact row
  removing,   \* where the reader is in session.delete
  crashes, faults

talkVars == <<row, log, runs, object, loads, job, files, temps, arts, removing, crashes, faults, inputs>>

Idle == [pc |-> "idle"]
NotRemoving == [pc |-> "none"]

TalkInit ==
  /\ row = [s \in Sessions |-> None] /\ log = [s \in Sessions |-> <<>>]
  /\ runs = [r \in Runs |-> None]
  /\ object = [s \in Sessions |-> 0] /\ loads = 0
  /\ job = [w \in Workers |-> Idle]
  /\ files = [f \in Files |-> 0] /\ temps = files /\ arts = files
  /\ removing = NotRemoving /\ crashes = 0 /\ faults = 0
  /\ inputs = [r \in Runs |-> {}]

HasRow(s) == row[s] \notin {None, Gone}
Exists(r) == runs[r] \notin {None, Gone}
RunsOf(s) == {r \in Runs : Exists(r) /\ runs[r].session = s}
Live(s) == {r \in RunsOf(s) : runs[r].status \in {"running", "waiting"}}
IdleSession(s) == HasRow(s) /\ Live(s) = {}                \* Records.require_idle
Works(w) == job[w].pc \in {"work", "temp", "keep"}
LockFree(o) == \A w \in Workers : Works(w) \/ job[w].pc = "begin" => job[w].object # o

(* A run gets a status, and its session a message.                         *)
SetRun(r, status) == runs' = [runs EXCEPT ![r].status = status]
Say(s, r, role, size, shown) ==
  log' = [log EXCEPT ![s] = Append(@, [run |-> r, role |-> role, size |-> size, shown |-> shown])]
End(r, status, size) == /\ SetRun(r, status)
                        /\ Say(runs[r].session, r, "assistant",
                               IF status = "completed" THEN size ELSE 0, status = "completed")

-----------------------------------------------------------------------------
(* Records.context: the public messages after the boundary fall into       *)
(* rounds; the newest rounds are taken while they fit.                     *)
Public(s) == {i \in DOMAIN log[s] : i > row[s].boundary /\ log[s][i].shown}
Opens(s, i) == \A j \in Public(s) : j < i => log[s][j].run # log[s][i].run
Fits(s, size, I) == size + SumFunction([i \in I |-> log[s][i].size + Overhead]) <= Budget
From(s, i) == {j \in Public(s) : j >= i}
Context(s, size) ==
  LET fits == {i \in Public(s) : Opens(s, i) /\ Fits(s, size, From(s, i))} IN
  IF fits = {} THEN {} ELSE From(s, Min(fits))

(* WorkflowSession._input: of a run's history H an agent gets all of it or *)
(* what follows from a user's message on, the most that fits into the room *)
(* its own input and the form of the history leave.                        *)
CutsAnywhere(s, H) == H
Cuts(s, H) == {i \in H : log[s][i].role = "user" \/ \A j \in H : j >= i}
Trimmed(s, H, room) ==
  LET rest(i) == {j \in H : j >= i}
      fits == {i \in Cuts(s, H) : Fits(s, Budget - room, rest(i))} IN
  IF fits = {} THEN {} ELSE rest(Min(fits))

-----------------------------------------------------------------------------
(* The reader's requests.  Creating a session loads its object.            *)
CreateSession(s, f) ==
  /\ row[s] = None /\ Runnable(f) /\ loads < MaxLoads
  /\ row' = [row EXCEPT ![s] = [flow |-> f, boundary |-> 0]]
  /\ loads' = loads + 1 /\ object' = [object EXCEPT ![s] = loads + 1]
  /\ UNCHANGED <<log, runs, job, files, temps, arts, removing, crashes, faults, inputs>>

UpdateSession(s, f) ==
  /\ IdleSession(s) /\ Runnable(f)
  /\ row' = [row EXCEPT ![s].flow = f]
  /\ UNCHANGED <<log, runs, object, loads, job, files, temps, arts, removing, crashes, faults, inputs>>

MayClearAlways(s) == HasRow(s)
MayClear(s) == IdleSession(s)
ClearContext(s) ==
  /\ MayClear(s)
  /\ row' = [row EXCEPT ![s].boundary = Len(log[s])]
  /\ UNCHANGED <<log, runs, object, loads, job, files, temps, arts, removing, crashes, faults, inputs>>

(* What waits on the object is interrupted, with a message that counts as  *)
(* failed, and the object's temporary Git directory is removed.            *)
CloseObject(s) ==
  LET held == {r \in Live(s) : runs[r].on = object[s]} IN
  /\ HasRow(s) /\ LockFree(object[s])
  /\ object' = [object EXCEPT ![s] = 0]
  /\ runs' = [r \in Runs |-> IF r \in held THEN [runs[r] EXCEPT !.status = "interrupted"] ELSE runs[r]]
  /\ log' = IF held = {} THEN log
            ELSE [log EXCEPT ![s] = Append(@, [run |-> Max(held), role |-> "assistant",
                                                  size |-> 0, shown |-> FALSE])]
  /\ UNCHANGED <<row, loads, job, files, temps, arts, crashes, faults, inputs>>
CloseSession(s) == object[s] # 0 /\ CloseObject(s) /\ UNCHANGED removing

(* session.delete: require_idle and close_session, then the transaction    *)
(* that checks again and deletes the rows, then the files.                 *)
DeleteStart(s) ==
  /\ IdleSession(s) /\ removing' = [pc |-> "close", session |-> s]
  /\ UNCHANGED <<row, log, runs, object, loads, job, files, temps, arts, crashes, faults, inputs>>
DeleteClose ==
  /\ removing.pc = "close"
  /\ CloseObject(removing.session)
  /\ removing' = [removing EXCEPT !.pc = "commit"]
DeleteRefused ==
  /\ \/ removing.pc = "close" /\ ~LockFree(object[removing.session])
     \/ removing.pc = "commit" /\ Live(removing.session) # {}
  /\ removing' = NotRemoving
  /\ UNCHANGED <<row, log, runs, object, loads, job, files, temps, arts, crashes, faults, inputs>>
DeleteCommit ==
  LET s == removing.session
      mine == {f \in Files : arts[f] \in RunsOf(s)} IN
  /\ removing.pc = "commit" /\ IdleSession(s)
  /\ row' = [row EXCEPT ![s] = Gone] /\ log' = [log EXCEPT ![s] = <<>>]
  /\ runs' = [r \in Runs |-> IF r \in RunsOf(s) THEN Gone ELSE runs[r]]
  /\ arts' = [f \in Files |-> IF f \in mine THEN 0 ELSE arts[f]]
  /\ inputs' = [r \in Runs |-> IF r \in RunsOf(s) THEN {} ELSE inputs[r]]
  /\ removing' = [pc |-> "unlink", files |-> mine]
  /\ UNCHANGED <<object, loads, job, files, temps, crashes, faults>>
(* One file after the other; the first that cannot be taken away leaves    *)
(* the others too, whose rows are gone.                                    *)
Faulty == faults < MaxFaults /\ faults' = faults + 1
Unlink(f) ==
  /\ removing.pc = "unlink" /\ f \in removing.files
  /\ removing' = [removing EXCEPT !.files = @ \ {f}]
  /\ files' = [files EXCEPT ![f] = 0]
  /\ UNCHANGED <<row, log, runs, object, loads, job, temps, arts, crashes, faults, inputs>>
UnlinkFails ==
  /\ removing.pc = "unlink" /\ removing.files # {} /\ removing' = NotRemoving /\ Faulty
  /\ UNCHANGED <<row, log, runs, object, loads, job, files, temps, arts, crashes, inputs>>
Unlinked ==
  /\ removing.pc = "unlink" /\ removing.files = {} /\ removing' = NotRemoving
  /\ UNCHANGED <<row, log, runs, object, loads, job, files, temps, arts, crashes, faults, inputs>>

(* run.cancel of a run that waits, by the object of its session.           *)
Stop(r) ==
  /\ Exists(r) /\ runs[r].status = "waiting" /\ object[runs[r].session] = runs[r].on
  /\ End(r, "cancelled", 0)
  /\ UNCHANGED <<row, object, loads, job, files, temps, arts, removing, crashes, faults, inputs>>

-----------------------------------------------------------------------------
(* A worker.  run.start and run.resume first fetch the session's object,   *)
(* without looking at the session's row when the runtime holds one.        *)
Takes(w, pc, r) ==
  job' = [job EXCEPT ![w] = [pc |-> pc, session |-> @.session, object |-> @.object, run |-> r]]
Rest(w) == job' = [job EXCEPT ![w] = Idle]
RegisteredOnce(s, o) == TRUE
Registered(s, o) == object[s] = o

Fetch(w, s, what) ==
  /\ job[w] = Idle
  /\ \/ object[s] # 0 /\ UNCHANGED <<object, loads>>
     \/ /\ object[s] = 0 /\ HasRow(s) /\ loads < MaxLoads
        /\ loads' = loads + 1 /\ object' = [object EXCEPT ![s] = loads']
  /\ job' = [job EXCEPT ![w] = [pc |-> what, session |-> s, object |-> object'[s]]]
  /\ UNCHANGED <<row, log, runs, files, temps, arts, removing, crashes, faults, inputs>>

Startable(w) == LET s == job[w].session IN
  IdleSession(s) /\ Runnable(row[s].flow) /\ LockFree(job[w].object)
NextRun == Min({n \in Runs : runs[n] = None})
NewRun(w, size, flow, base, history) ==
  LET s == job[w].session IN
  /\ size <= Budget /\ \E n \in Runs : runs[n] = None
  /\ Len(log[s]) < MaxMessages
  /\ runs' = [runs EXCEPT ![NextRun] =
                [session |-> s, flow |-> flow, status |-> "running", on |-> job[w].object,
                 base |-> base, history |-> history, size |-> size,
                 since |-> row[s].boundary, first |-> Len(log[s]) + 1]]
  /\ Say(s, NextRun, "user", size, TRUE)
  /\ Takes(w, "begin", NextRun)
  /\ UNCHANGED <<row, object, loads, files, temps, arts, removing, crashes, faults, inputs>>
Start(w, size) ==
  /\ job[w].pc = "start" /\ Startable(w)
  /\ NewRun(w, size, row[job[w].session].flow, NextRun, Context(job[w].session, size))

(* run.retry of run q of the session, which has ended: the history is that *)
(* of an agent of q, of none if q had none or a delegate's task is tried   *)
(* again; what was said or cleared since does not matter.                  *)
Known(q) == inputs[q] \cup {{}}
Retry(w, q, size, history) ==
  /\ job[w].pc = "start" /\ IdleSession(job[w].session) /\ LockFree(job[w].object)
  /\ Exists(q) /\ runs[q].session = job[w].session
  /\ Runnable(runs[q].flow) \/ \E a \in Agents : Saved("agent", a) /\ Executable(ConfigOf(a))
  /\ history \in Known(q)
  /\ NewRun(w, size, runs[q].flow, runs[q].base, history)

Waiting(w) == {r \in Live(job[w].session) : runs[r].status = "waiting" /\ runs[r].on = job[w].object}
Resume(w, r) ==                                     \* an approval is resolved
  /\ job[w].pc = "resume" /\ r \in Waiting(w) /\ LockFree(job[w].object)
  /\ SetRun(r, "running")
  /\ Takes(w, "work", r)
  /\ UNCHANGED <<row, log, object, loads, files, temps, arts, removing, crashes, faults, inputs>>
Clarify(w, r, size) ==                              \* a question is answered, with a public message
  /\ job[w].pc = "resume" /\ r \in Waiting(w) /\ LockFree(job[w].object)
  /\ Len(log[job[w].session]) < MaxMessages
  /\ SetRun(r, "running") /\ Say(job[w].session, r, "user", size, TRUE)
  /\ Takes(w, "work", r)
  /\ UNCHANGED <<row, object, loads, files, temps, arts, removing, crashes, faults, inputs>>

Refused(w) ==
  /\ \/ job[w].pc = "start" /\ ~Startable(w)
     \/ job[w].pc = "resume" /\ ~(Waiting(w) # {} /\ LockFree(job[w].object))
  /\ Rest(w)
  /\ UNCHANGED <<row, log, runs, object, loads, files, temps, arts, removing, crashes, faults, inputs>>

(* begin_run takes a snapshot in the object's temporary directory: on an   *)
(* object that was closed meanwhile the run fails at once.                 *)
Begin(w) ==
  /\ job[w].pc = "begin"
  /\ IF Registered(job[w].session, job[w].object) THEN Takes(w, "work", job[w].run) /\ UNCHANGED <<runs, log>>
     ELSE Rest(w) /\ End(job[w].run, "failed", 0)
  /\ UNCHANGED <<row, object, loads, files, temps, arts, removing, crashes, faults, inputs>>

AgentStarts(w, room) ==      \* a stage registers what its agent gets
  /\ job[w].pc = "work"
  /\ inputs' = [inputs EXCEPT ![job[w].run] =
                  @ \cup {Trimmed(job[w].session, runs[job[w].run].history, room)}]
  /\ UNCHANGED <<row, log, runs, object, loads, job, files, temps, arts, removing, crashes, faults>>
Inform(w) ==      \* a message between the agents
  /\ job[w].pc = "work" /\ Len(log[job[w].session]) < MaxMessages
  /\ Say(job[w].session, job[w].run, "assistant", 0, FALSE)
  /\ UNCHANGED <<row, runs, object, loads, job, files, temps, arts, removing, crashes, faults, inputs>>
Pause(w) ==
  /\ job[w].pc = "work" /\ Rest(w) /\ SetRun(job[w].run, "waiting")
  /\ UNCHANGED <<row, log, object, loads, files, temps, arts, removing, crashes, faults, inputs>>
Finish(w, status, size) ==
  /\ job[w].pc = "work" /\ Rest(w) /\ End(job[w].run, status, size)
  /\ UNCHANGED <<row, object, loads, files, temps, arts, removing, crashes, faults, inputs>>

(* Records.artifact: a .tmp file, which is renamed, then the row.  Where   *)
(* the writing or the renaming fails the .tmp file stays; without the row  *)
(* the file goes, if it can.  Then the run fails, or it waits for a        *)
(* decision when its pictures were being kept.                             *)
Abandon(w) == /\ Rest(w)
              /\ \/ End(job[w].run, "failed", 0)
                 \/ SetRun(job[w].run, "waiting") /\ log' = log
FreeFile(f) == files[f] = 0 /\ temps[f] = 0 /\ arts[f] = 0
KeepTemp(w) ==
  /\ job[w].pc = "work"
  /\ \E f \in Files : /\ FreeFile(f) /\ \A g \in 1 .. f - 1 : ~FreeFile(g)
                      /\ temps' = [temps EXCEPT ![f] = job[w].run]
                      /\ job' = [job EXCEPT ![w] = [pc |-> "temp", session |-> @.session,
                                    object |-> @.object, run |-> @.run, file |-> f]]
  /\ UNCHANGED <<row, log, runs, object, loads, files, arts, removing, crashes, faults, inputs>>
TempFails(w) ==
  /\ job[w].pc = "temp" /\ Abandon(w) /\ Faulty
  /\ UNCHANGED <<row, object, loads, files, temps, arts, removing, crashes, inputs>>
KeepFile(w) ==
  /\ job[w].pc = "temp" /\ job' = [job EXCEPT ![w].pc = "keep"]
  /\ temps' = [temps EXCEPT ![job[w].file] = 0]
  /\ files' = [files EXCEPT ![job[w].file] = job[w].run]
  /\ UNCHANGED <<row, log, runs, object, loads, arts, removing, crashes, faults, inputs>>
KeepRow(w) ==
  /\ job[w].pc = "keep" /\ Takes(w, "work", job[w].run)
  /\ arts' = [arts EXCEPT ![job[w].file] = job[w].run]
  /\ UNCHANGED <<row, log, runs, object, loads, files, temps, removing, crashes, faults, inputs>>
DiscardedNot(f) == files
Discarded(f) == [files EXCEPT ![f] = 0]
KeepFails(w) ==
  /\ job[w].pc = "keep" /\ Abandon(w)
  /\ \/ files' = Discarded(job[w].file) /\ faults' = faults
     \/ files' = files /\ Faulty
  /\ UNCHANGED <<row, object, loads, temps, arts, removing, crashes, inputs>>

(* The runtime dies and starts again: of the runs that waited, those whose *)
(* checkpoint holds are restored with the object of their session.         *)
Crash(kept) ==
  LET back == {runs[r].session : r \in kept} IN
  /\ crashes < MaxCrashes /\ crashes' = crashes + 1
  /\ \A r \in kept : Exists(r) /\ runs[r].status = "waiting"
  /\ loads + Cardinality(back) <= MaxLoads
  /\ \E o \in [back -> loads + 1 .. loads + Cardinality(back)] :
       /\ \A s, t \in back : o[s] = o[t] => s = t
       /\ object' = [s \in Sessions |-> IF s \in back THEN o[s] ELSE 0]
  /\ loads' = loads + Cardinality(back)
  /\ runs' = [r \in Runs |->
       IF r \in kept THEN [runs[r] EXCEPT !.on = object'[runs[r].session]]
       ELSE IF Exists(r) /\ r \in Live(runs[r].session) THEN [runs[r] EXCEPT !.status = "interrupted"]
       ELSE runs[r]]
  /\ job' = [w \in Workers |-> Idle] /\ removing' = NotRemoving
  /\ UNCHANGED <<row, log, files, temps, arts, faults, inputs>>

Reading == \/ \E s \in Sessions, f \in Flows : CreateSession(s, f) \/ UpdateSession(s, f)
           \/ \E s \in Sessions : ClearContext(s)
           \/ \E r \in Runs : Stop(r)
Managing == \E s \in Sessions : CloseSession(s) \/ DeleteStart(s)
Removing == \/ DeleteClose \/ DeleteRefused \/ DeleteCommit
            \/ (\E f \in Files : Unlink(f)) \/ UnlinkFails \/ Unlinked
Working(w, sizes) ==
  \/ \E s \in Sessions, what \in {"start", "resume"} : Fetch(w, s, what)
  \/ \E size \in sizes : Start(w, size) \/ \E r \in Runs : Resume(w, r)
  \/ Refused(w) \/ Begin(w) \/ Pause(w)
  \/ \E status \in {"completed", "failed", "cancelled"}, size \in sizes : Finish(w, status, size)
Answering(w, sizes) == \E r \in Runs, size \in sizes : Clarify(w, r, size)
Retrying(w, sizes) ==
  \/ \E room \in 0 .. Budget : AgentStarts(w, room)
  \/ \E q \in Runs, size \in sizes : \E history \in Known(q) : Retry(w, q, size, history)
Keeping(w) == KeepTemp(w) \/ TempFails(w) \/ KeepFile(w) \/ KeepRow(w) \/ KeepFails(w)

-----------------------------------------------------------------------------
TalkTypeOK ==
  /\ \A s \in Sessions : HasRow(s) => row[s].flow \in Flows /\ row[s].boundary \in 0 .. Len(log[s])
  /\ \A r \in Runs : Exists(r) => /\ HasRow(runs[r].session) /\ runs[r].on \in 1 .. loads
                                  /\ runs[r].status \in Statuses
  /\ \A s \in Sessions : object[s] \in 0 .. loads /\ Cardinality(Live(s)) <= 1
  /\ \A kept \in {files, temps, arts} : kept \in [Files -> 0 .. MaxRuns]

(* What run.start freezes of its session are whole rounds of the public    *)
(* history, the newest ones, in full from some round on, within the budget *)
(* with the goal, nothing from before the context was cleared, and no      *)
(* round is left out that would have fitted too.                           *)
(* (records.py:551-586, 588-597)                                           *)
HistoryIsWhole == \A r \in {n \in Runs : Exists(n) /\ runs[n].base = n} :
  LET s == runs[r].session  H == runs[r].history
      before == {i \in 1 .. runs[r].first - 1 : log[s][i].shown}
      older  == {i \in before \ H : i > runs[r].since} IN
  /\ H \subseteq before /\ \A i \in H : i > runs[r].since
  /\ \A i \in H, j \in before : j > i \/ log[s][j].run = log[s][i].run => j \in H
  /\ Fits(s, runs[r].size, H)
  /\ older # {} =>
       ~Fits(s, runs[r].size, H \cup {i \in older : log[s][i].run = log[s][Max(older)].run})

(* What an agent gets of the session, and what a retry takes over, is the  *)
(* newest part, from some user's message on, of what was public when the   *)
(* first run of the chain of retries started: with no message left out     *)
(* before that start, none from after it, and none from before the context *)
(* that run saw was cleared - however often it is cut again and retried.   *)
(* (workflow_session.py:203-207, 748-760, retry_plan.py:218-230)           *)
InputIsRecent == \A r \in {n \in Runs : Exists(n)} :
  LET b == runs[r].base  s == runs[r].session
      public == {i \in 1 .. runs[b].first - 1 : i > runs[b].since /\ log[s][i].shown} IN
  /\ Exists(b) /\ runs[b].session = s
  /\ \A H \in inputs[r] \cup {runs[r].history} :
       /\ H \subseteq public /\ \A i \in H, j \in public : j > i => j \in H
       /\ H # {} => log[s][Min(H)].role = "user"

(* Every artifact row has its file, whatever fails or is deleted in        *)
(* between.  And as long as the runtime did not crash and no operation on  *)
(* a file failed, a file without a row is one that a worker or a deletion  *)
(* is at, and a .tmp file one that a worker is at; each such failure may   *)
(* leave files that nothing removes.  (records.py:627-652, 665-680)        *)
FilesMatchRows == \A f \in Files :
  /\ arts[f] # 0 => files[f] = arts[f]
  /\ crashes = 0 /\ faults = 0 =>
       /\ files[f] # 0 => \/ arts[f] = files[f]
                          \/ \E w \in Workers : job[w].pc = "keep" /\ job[w].file = f
                          \/ removing.pc = "unlink" /\ f \in removing.files
       /\ temps[f] # 0 => \E w \in Workers : job[w].pc = "temp" /\ job[w].file = f

(* A run whose stages execute, or that waits, belongs to the object the    *)
(* runtime holds for its session, so that run.cancel and an answer reach   *)
(* it, and its session exists, although sessions are closed and deleted    *)
(* between the fetching of an object and its use.                          *)
(* (runtime.py:378-399, persistence_api.py:227-231, git.py:117-121)        *)
RunsAreReachable ==
  /\ \A w \in Workers : Works(w) => HasRow(job[w].session) /\ object[job[w].session] = job[w].object
  /\ \A r \in Runs : Exists(r) /\ runs[r].status = "waiting" => object[runs[r].session] = runs[r].on
=============================================================================
