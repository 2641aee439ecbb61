------------------------------- MODULE RunView -------------------------------
(***************************************************************************)
(* What the page shows of one session's runs, and how it gets there: the   *)
(* Pinia stores (runtimeStore, sessionStore), the reducers they share      *)
(* (mergeTask, the normalizers) and the wire side of the Python runtime    *)
(* that feeds them (process_wire, _dispatch_stream, _frames_for_update,    *)
(* session.get, publish_task).                                             *)
(*                                                                         *)
(* The page learns of a run three ways that are not ordered among each     *)
(* other: notifications, which arrive in the order they were written; the  *)
(* answer of the call that started or resumed the run; and session.get     *)
(* snapshots, read at one moment and applied at a later one.  A call of    *)
(* the page is an async function: every await is a point where anything    *)
(* else may happen, and what it read before the await may be stale after.  *)
(* Every run has one task and pauses at most once.                         *)
(***************************************************************************)
EXTENDS Naturals, Sequences, FiniteSets

CONSTANTS
  NRuns,      \* bound: runs of the session, numbered as they are created
  NCalls,     \* bound: operations started on the page
  MaxLost     \* bound: requests the page gives up on (300 s in the broker)

ASSUME ViewConstantsOK ==
  /\ NRuns \in Nat \ {0} /\ NCalls \in Nat /\ MaxLost \in Nat

Runs    == 1..NRuns
Calls   == 1..NCalls
Reload(r) == NCalls + r                \* the load an end notice of r starts
AllCalls == 1..(NCalls + NRuns)

VARIABLES
  db,      \* rows: Run.status, Task, Interaction, and the retries among the runs
  job,     \* the threads of the runtime that execute runs
  inbox,   \* requests written to the runtime and not served yet
  events,  \* notifications written to the page and not handled yet
  call,    \* async operations of the page
  view,    \* the stores
  lost     \* requests given up so far

vars == <<db, job, inbox, events, call, view, lost>>
-----------------------------------------------------------------------------
Overs       == {"completed", "failed", "cancelled", "interrupted"}
Ended(s)    == s \in Overs
TaskOver(s) == s = "blocked" \/ Ended(s)

NoTask == [status |-> "none", stamp |-> 0, inferred |-> FALSE]
NoCard == [status |-> "none", resolved |-> FALSE]
Free   == [call |-> 0, accepted |-> FALSE]     \* no answer is being submitted
NoRequest == [call |-> 0, run |-> 0]

(* A request, and for session.get the rows of the runs it has read. *)
Unread == [r \in Runs |-> "unread"]
Request(c, pc) == <<c, pc, Unread>>

Nothing == [ok |-> FALSE, body |-> "awaited"]
Error   == [ok |-> FALSE, body |-> "error"]
Ok(body) == [ok |-> TRUE, body |-> body]
IdleCall == [kind |-> "none", run |-> 0, yes |-> FALSE, pc |-> "idle",
             reply |-> Nothing, seen |-> 0, fresh |-> {}, blamed |-> 0]

Init ==
  /\ db = [row |-> [r \in Runs |-> "none"], task |-> [r \in Runs |-> NoTask],
           ask |-> [r \in Runs |-> "none"], retry |-> {},
           kind |-> [r \in Runs |-> "approval"]]
  /\ job = [phase |-> [r \in Runs |-> "no"], by |-> [r \in Runs |-> 0], halt |-> {}]
  /\ inbox = {} /\ events = <<>>
  /\ call = [c \in AllCalls |-> IdleCall]
  /\ view = [session |-> "idle", run |-> [r \in Runs |-> "none"],
             task |-> [r \in Runs |-> NoTask], card |-> [r \in Runs |-> NoCard],
             sending |-> [r \in Runs |-> Free], stopping |-> {},
             mine |-> NoRequest, retrying |-> {}]
  /\ lost = 0

-----------------------------------------------------------------------------
(***************************************************************************)
(* The reducers: each maps the stores to the stores.                       *)
(***************************************************************************)
Known(v)   == {r \in Runs : v.run[r] # "none"}
Last(v)    == CHOOSE r \in Known(v) : \A q \in Known(v) : q <= r
Open(v)    == {r \in Known(v) : ~Ended(v.run[r])}

(* mergeTask: an older report and a report that would take a finished task *)
(* back are dropped, unless the finish was only inferred from its run.     *)
Merge(old, new) ==
  LET older    == new.stamp > 0 /\ old.stamp > 0 /\ new.stamp < old.stamp
      corrects == old.inferred /\ TaskOver(new.status)
  IN  IF old = NoTask THEN new
      ELSE IF /\ ~older \/ corrects
              /\ ~(old.status # "queued" /\ new.status = "queued")
              /\ ~TaskOver(old.status) \/ new.status = old.status \/ corrects
           THEN [status |-> new.status, inferred |-> FALSE,
                 stamp |-> IF new.stamp > 0 THEN new.stamp ELSE old.stamp]
           ELSE old

Report(status, stamp) == [status |-> status, stamp |-> stamp, inferred |-> FALSE]

(* A task that is open when its run is over takes the status of the run. *)
Infer(t, status) ==
  IF t # NoTask /\ ~TaskOver(t.status)
  THEN [t EXCEPT !.status = status, !.inferred = TRUE] ELSE t

(* addInterruption *)
AddCard(v, r) ==
  IF v.card[r] # NoCard \/ Ended(v.run[r]) THEN v
  ELSE [v EXCEPT !.card[r] = [status |-> "pending", resolved |-> FALSE]]

Word(ask) == IF ask \in {"pending", "approved", "rejected"} THEN ask ELSE "expired"

(* applyApprovalResolution *)
Resolve(v, r, verdict) ==
  IF v.card[r].resolved THEN v
  ELSE [v EXCEPT !.card[r] = [status |-> Word(verdict), resolved |-> TRUE],
                 !.sending[r] = Free]

(* The end of a run closes what still hangs on it. *)
CloseRun(v, r, status) ==
  [v EXCEPT !.mine = IF @.run = r THEN NoRequest ELSE @,
            !.stopping = @ \ {r},
            !.card[r].status = IF @ = "pending" THEN "expired" ELSE @,
            !.sending[r] = Free,
            !.task[r] = Infer(@, status)]

(* applyUpdate, for an update [run, status, task, asks]. *)
ApplyUpdate(v, u) ==
  LET r  == u.run
      v1 == [v EXCEPT !.run[r] = u.status,
                      !.task[r] = IF u.task = "none" THEN @ ELSE Merge(@, Report(u.task, 0))]
      v2 == IF Last(v1) = r THEN [v1 EXCEPT !.session = u.status] ELSE v1
  IN  IF Ended(v.run[r]) /\ v.run[r] # u.status THEN v
      ELSE IF Ended(u.status) THEN CloseRun(v2, r, u.status)
      ELSE IF u.asks THEN AddCard(v2, r) ELSE v2

StatusOnly(r, status) == [run |-> r, status |-> status, task |-> "none", asks |-> FALSE]

(* Mutant: the snapshot replaces the runs the page knows to be over. *)
UpsertRunLatest(v, snap, r) == IF snap.row[r] = "none" THEN v.run[r] ELSE snap.row[r]

(* upsert: a run the page knows to be over stays so, and so does a run the *)
(* snapshot does not have yet.                                             *)
UpsertRun(v, snap, r) ==
  IF snap.row[r] = "none" \/ Ended(v.run[r]) THEN v.run[r] ELSE snap.row[r]

UpsertTask(v, snap, r) ==
  LET t == IF snap.task[r] # NoTask THEN Merge(v.task[r], snap.task[r])
           ELSE IF TaskOver(v.task[r].status) \/ Ended(UpsertRun(v, snap, r))
           THEN v.task[r] ELSE NoTask
  IN  IF Ended(UpsertRun(v, snap, r)) THEN Infer(t, UpsertRun(v, snap, r)) ELSE t

Upsert(v, snap) ==
  LET v1 == [v EXCEPT !.run  = [r \in Runs |-> UpsertRun(v, snap, r)],
                      !.task = [r \in Runs |-> UpsertTask(v, snap, r)]]
  IN  IF Known(v1) = {} THEN [v1 EXCEPT !.session = "idle"]
      ELSE [v1 EXCEPT !.session = v1.run[Last(v1)]]

(* The interaction as session.get reports it, after upsert. *)
SnapCard(v, snap, r) ==
  [status   |-> IF snap.ask[r] = "pending" /\ Ended(v.run[r]) THEN "expired"
                ELSE Word(snap.ask[r]),
   resolved |-> snap.kind[r] = "approval" /\ snap.ask[r] # "pending"]

(* Mutant: what is known of a resolution does not protect it. *)
SyncLatest(v, snap) ==
  [v EXCEPT !.card = [r \in Runs |-> IF snap.ask[r] = "none" THEN v.card[r]
                                     ELSE SnapCard(v, snap, r)]]

(* syncApprovals *)
Sync(v, snap) ==
  LET in(r)   == SnapCard(v, snap, r)
      take(r) == \/ v.card[r] = NoCard
                 \/ ~v.card[r].resolved /\ (v.card[r].status = "pending" \/ in(r).status # "pending")
  IN  [v EXCEPT
        !.card = [r \in Runs |-> IF snap.ask[r] # "none" /\ take(r) THEN in(r) ELSE v.card[r]],
        !.sending = [r \in Runs |-> IF snap.ask[r] # "none" /\ in(r).status # "pending"
                                    THEN Free ELSE v.sending[r]]]

Load(v, snap) == Sync(Upsert(v, snap), snap)

-----------------------------------------------------------------------------
(***************************************************************************)
(* handleEvent up to its only await.                                       *)
(***************************************************************************)
HandleTask(v, e) ==
  IF Ended(v.run[e.run]) /\ v.task[e.run] = NoTask /\ ~TaskOver(e.task.status) THEN v
  ELSE [v EXCEPT !.task[e.run] = Merge(@, e.task)]

Handle(v, e) ==
  LET r == e.run IN
  CASE e.type = "resolved" -> Resolve(v, r, e.verdict)
    [] e.type = "task" -> HandleTask(v, e)
    [] OTHER ->
       IF Ended(v.run[r]) THEN v
       ELSE CASE e.type = "started" ->
                   [v EXCEPT !.mine = IF @.call # 0 /\ @.run = 0 THEN [@ EXCEPT !.run = r] ELSE @,
                             !.run[r] = IF @ = "none" THEN "running" ELSE @,
                             !.session = "running"]
              [] e.type = "resumed" ->
                   [v EXCEPT !.sending[r] = IF @.call # 0 THEN [@ EXCEPT !.accepted = TRUE] ELSE @,
                             !.run[r] = IF @ = "none" THEN @ ELSE "running",
                             !.session = "running"]
              [] e.type = "plan" -> [v EXCEPT !.task[r] = Merge(@, Report("queued", 0))]
              [] e.type = "ask" -> AddCard(v, r)
              [] e.type = "end" -> ApplyUpdate(v, e.update)
-----------------------------------------------------------------------------
(***************************************************************************)
(* The runtime.  A request is served once; its answer goes to the call     *)
(* that still waits for it.                                                *)
(***************************************************************************)
Answer(cs, c, pc, reply) ==
  IF c \in AllCalls /\ cs[c].pc = pc /\ cs[c].reply = Nothing
  THEN [cs EXCEPT ![c].reply = reply] ELSE cs

Emit(list) == events' = events \o list
Event(type, r) == [type |-> type, run |-> r]

(* publish_task: the row as committed, stamped when it is published. *)
TaskEvent(r, t) == [type |-> "task", run |-> r, task |-> [t EXCEPT !.stamp = @ + 1]]

(* The row of a task after a change: stamps of rows are even. *)
TaskRow(r, status) == [db.task[r] EXCEPT !.status = status, !.stamp = @ + 2]
ClosedTask(r, status) ==
  IF db.task[r] = NoTask \/ TaskOver(db.task[r].status) THEN db.task[r] ELSE TaskRow(r, status)

Live(r)   == db.row[r] \in {"running", "waiting"}
Locked    == \E r \in Runs : job.phase[r] # "no"
Unused    == {r \in Runs : db.row[r] = "none"}
NextRun   == CHOOSE r \in Unused : \A q \in Unused : r <= q

(* _result, as to_dict gives it to the page. *)
Update(r, status, task) ==
  [run |-> r, status |-> status, task |-> task.status, asks |-> status = "waiting"]

Serve(c) == Request(c, "ask") \in inbox /\ inbox' = inbox \ {Request(c, "ask")}
ReplyTo(c, reply) == call' = Answer(call, c, "ask", reply)

Refuse(c) == /\ ReplyTo(c, Error) /\ UNCHANGED <<db, job, events>>

(* run.start answers when the run pauses or ends, run.retry as soon as the *)
(* new run is committed.                                                   *)
ServeCreate(c) ==
  /\ Serve(c) /\ call[c].kind \in {"start", "retry"}
  /\ IF Locked \/ \E r \in Runs : Live(r) THEN Refuse(c)
     ELSE /\ Unused # {}
          /\ LET r == NextRun
                 again == call[c].kind = "retry"
             IN  /\ db' = [db EXCEPT !.row[r] = "running",
                                     !.retry = IF again THEN @ \cup {r} ELSE @]
                 /\ job' = [job EXCEPT !.phase[r] = "new", !.by[r] = IF again THEN 0 ELSE c]
                 /\ call' = IF again THEN Answer(call, c, "ask", Ok(StatusOnly(r, "running")))
                            ELSE call
                 /\ UNCHANGED events
  /\ UNCHANGED <<view, lost>>

(* run.started, plan.created and the first task.started. *)
Begin(r) ==
  LET t == Report("running", 2) IN
  /\ job.phase[r] = "new" /\ r \notin job.halt
  /\ job' = [job EXCEPT !.phase[r] = "work"]
  /\ db' = [db EXCEPT !.task[r] = t]
  /\ Emit(<<Event("started", r), Event("plan", r), TaskEvent(r, t)>>)
  /\ UNCHANGED <<inbox, call, view, lost>>

(* After an input run.resumed is sent and the task starts once more. *)
Continue(r) ==
  LET t == TaskRow(r, "running") IN
  /\ job.phase[r] = "back" /\ r \notin job.halt
  /\ job' = [job EXCEPT !.phase[r] = "work"]
  /\ db' = [db EXCEPT !.task[r] = t]
  /\ Emit(<<Event("resumed", r), TaskEvent(r, t)>>)
  /\ UNCHANGED <<inbox, call, view, lost>>

(* A run asks for approval of an operation or for another input. *)
Pause(r, kind) ==
  LET t == TaskRow(r, "waiting") IN
  /\ job.phase[r] = "work" /\ r \notin job.halt /\ db.ask[r] = "none"
  /\ db' = [db EXCEPT !.row[r] = "waiting", !.task[r] = t, !.ask[r] = "pending",
                          !.kind[r] = kind]
  /\ job' = [job EXCEPT !.phase[r] = "no", !.by[r] = 0]
  /\ ReplyTo(job.by[r], Ok(Update(r, "waiting", t)))
  /\ Emit(<<TaskEvent(r, t), Event("ask", r)>>)
  /\ UNCHANGED <<inbox, view, lost>>

TaskDone(r, status) ==
  LET t == TaskRow(r, status) IN
  /\ job.phase[r] = "work" /\ (db.ask[r] = "rejected" => status = "failed")
  /\ db' = [db EXCEPT !.task[r] = t]
  /\ job' = [job EXCEPT !.phase[r] = "over"]
  /\ Emit(<<TaskEvent(r, t)>>)
  /\ UNCHANGED <<inbox, call, view, lost>>

(* What is sent when a run is brought to its end (_finish, then the frames *)
(* of its update): the resolution of an approval it leaves open first.     *)
EndNotices(r, status) ==
  (IF db.ask[r] = "pending" /\ db.kind[r] = "approval"
   THEN <<[type |-> "resolved", run |-> r, verdict |-> "expired"]>> ELSE <<>>)
  \o <<[type |-> "end", run |-> r, update |-> Update(r, status, ClosedTask(r, status))]>>

Ending(r, status) ==
  [db EXCEPT !.row[r] = status, !.task[r] = ClosedTask(r, status),
             !.ask[r] = IF @ = "pending" THEN "expired" ELSE @]

(* The thread of a run ends it: cancelled when a stop was accepted. *)
End(r) ==
  LET status == IF r \in job.halt THEN "cancelled"
                ELSE IF job.phase[r] = "over" THEN db.task[r].status ELSE "failed"
  IN
  /\ job.phase[r] # "no"
  /\ db' = Ending(r, status)
  /\ job' = [job EXCEPT !.phase[r] = "no", !.by[r] = 0, !.halt = @ \ {r}]
  /\ ReplyTo(job.by[r], Ok(Update(r, status, ClosedTask(r, status))))
  /\ Emit(EndNotices(r, status))
  /\ UNCHANGED <<inbox, view, lost>>

(* The deadline of an approval nobody answered. *)
Expire(r) ==
  /\ db.row[r] = "waiting" /\ ~Locked /\ db.kind[r] = "approval"
  /\ db' = Ending(r, "failed")
  /\ Emit(EndNotices(r, "failed"))
  /\ UNCHANGED <<job, inbox, call, view, lost>>

(* approval.resolve is acknowledged once the answer is committed,          *)
(* run.resume when the run pauses again or ends.                           *)
ServeInput(c) ==
  LET r == call[c].run
      approval == call[c].kind = "resolve"
      verdict == IF ~approval THEN "answered"
                 ELSE IF call[c].yes THEN "approved" ELSE "rejected"
  IN
  /\ Serve(c) /\ call[c].kind \in {"resolve", "answer"}
  /\ IF Locked \/ db.ask[r] # "pending" THEN Refuse(c)
     ELSE /\ db' = [db EXCEPT !.row[r] = "running", !.ask[r] = verdict]
          /\ job' = [job EXCEPT !.phase[r] = "back", !.by[r] = IF approval THEN 0 ELSE c]
          /\ call' = IF approval THEN Answer(call, c, "ask", Ok(TRUE)) ELSE call
          /\ IF approval THEN Emit(<<[type |-> "resolved", run |-> r, verdict |-> verdict]>>)
             ELSE UNCHANGED events
  /\ UNCHANGED <<view, lost>>

(* Mutant: run.cancel ends an executing run itself. *)
ServeStopItself(c) ==
  /\ Serve(c) /\ call[c].kind = "stop" /\ ~Ended(db.row[call[c].run])
  /\ ReplyTo(c, Ok(TRUE))
  /\ db' = Ending(call[c].run, "cancelled") /\ Emit(EndNotices(call[c].run, "cancelled"))
  /\ UNCHANGED <<job, view, lost>>

(* run.cancel runs on the reader thread: it asks the thread of an          *)
(* executing run to stop and ends a waiting one itself.                    *)
ServeStop(c) ==
  LET r == call[c].run IN
  /\ Serve(c) /\ call[c].kind = "stop"
  /\ IF Ended(db.row[r])
     THEN /\ ReplyTo(c, Ok(db.row[r] = "cancelled"))
          /\ UNCHANGED <<db, job, events>>
     ELSE /\ ReplyTo(c, Ok(TRUE))
          /\ IF job.phase[r] # "no"
             THEN job' = [job EXCEPT !.halt = @ \cup {r}] /\ UNCHANGED <<db, events>>
             ELSE /\ db' = Ending(r, "cancelled") /\ Emit(EndNotices(r, "cancelled"))
                  /\ UNCHANGED job
  /\ UNCHANGED <<view, lost>>

(* session.get reads the runs first, their tasks and interactions later: *)
(* between its reads the runtime may go on.                              *)
ServeLoad(c) ==
  \E m \in inbox :
    /\ m[1] = c /\ m[2] \in {"load", "repair"}
    /\ IF m[3] = Unread
       THEN /\ inbox' = (inbox \ {m}) \cup {<<c, m[2], db.row>>}
            /\ UNCHANGED call
       ELSE /\ inbox' = inbox \ {m}
            /\ call' = Answer(call, c, m[2], Ok([db EXCEPT !.row = m[3]]))
    /\ UNCHANGED <<db, job, events, view, lost>>

(* The broker gives up on a request, which the runtime may still serve. *)
Lose(c) ==
  /\ lost < MaxLost /\ lost' = lost + 1
  /\ call[c].pc \in {"ask", "load", "repair"} /\ call[c].reply = Nothing
  /\ call' = [call EXCEPT ![c].reply = Error]
  /\ UNCHANGED <<db, job, inbox, events, view>>

-----------------------------------------------------------------------------
(***************************************************************************)
(* The operations of the page.                                             *)
(***************************************************************************)
Running(v) == v.session \in {"running", "waiting", "queued"}

(* activeRunId: the run of the pending request, else the latest open one. *)
ActiveRun == IF view.mine.run \in Open(view) THEN view.mine.run
             ELSE IF Open(view) = {} THEN 0
             ELSE CHOOSE r \in Open(view) : \A q \in Open(view) : q <= r

Ask(c, kind, r, yes) ==
  /\ call[c] = IdleCall /\ \A b \in Calls : b < c => call[b] # IdleCall
  /\ call' = [call EXCEPT ![c] = [IdleCall EXCEPT
       !.kind = kind, !.run = r, !.yes = yes, !.fresh = {"session", "run"},
       !.pc = IF kind = "load" THEN "load" ELSE "ask"]]
  /\ inbox' = inbox \cup {Request(c, IF kind = "load" THEN "load" ELSE "ask")}
  /\ UNCHANGED <<db, job, events, lost>>

(* The composer refuses a goal while the session is shown as running. *)
StartRun(c) ==
  /\ ~Running(view)
  /\ Ask(c, "start", 0, FALSE)
  /\ view' = [view EXCEPT !.session = "running", !.mine = [call |-> c, run |-> 0]]

RetryRun(c, r) ==
  /\ Ended(view.run[r]) /\ ~Running(view) /\ view.retrying = {}
  /\ Ask(c, "retry", r, FALSE)
  /\ view' = [view EXCEPT !.retrying = {c}]

CancelRun(c) ==
  /\ ActiveRun # 0 /\ ActiveRun \notin view.stopping
  /\ Ask(c, "stop", ActiveRun, FALSE)
  /\ view' = [view EXCEPT !.stopping = @ \cup {ActiveRun}]

(* Mutant: an approval is shown as granted before the runtime took it. *)
SubmitAtOnce(c, r, yes) ==
  /\ view.card[r].status = "pending" /\ view.sending[r] = Free
  /\ Ask(c, "resolve", r, yes)
  /\ view' = [view EXCEPT !.sending[r] = [call |-> c, accepted |-> FALSE],
                          !.card[r].status = "approved"]

(* resolveApproval, and resumeInput for the other inputs, which shows the  *)
(* answer as taken at once.                                                *)
Submit(c, r, yes) ==
  /\ view.card[r].status = "pending" /\ view.sending[r] = Free
  /\ Ask(c, IF db.kind[r] = "approval" THEN "resolve" ELSE "answer", r, yes)
  /\ view' = IF db.kind[r] = "approval"
             THEN [view EXCEPT !.sending[r] = [call |-> c, accepted |-> FALSE]]
             ELSE [view EXCEPT !.sending[r] = [call |-> c, accepted |-> FALSE],
                               !.card[r].status = "approved",
                               !.session = "running", !.run[r] = "running"]

LoadSession(c) == Ask(c, "load", 0, FALSE) /\ UNCHANGED view

Answered(c, pc) == call[c].pc = pc /\ call[c].reply # Nothing
Good(c) == call[c].reply.ok
Body(c) == call[c].reply.body

(* An upsert replaces the session object, and the objects of the runs that *)
(* the snapshot has and that are not over: whoever still holds the old     *)
(* ones writes to nobody.                                                  *)
Replaced(cs, snap) ==
  [c \in AllCalls |->
    [cs[c] EXCEPT !.fresh = IF cs[c].kind # "answer" THEN @
       ELSE @ \ ({"session"} \cup
                 (IF snap.row[cs[c].run] # "none" /\ ~Ended(view.run[cs[c].run])
                  THEN {"run"} ELSE {}))]]

Next1(cs, c, pc) ==
  /\ call' = [cs EXCEPT ![c].pc = pc, ![c].reply = Nothing]
  /\ inbox' = inbox \cup {Request(c, pc)}

Done(cs, c, blamed) ==
  /\ call' = [cs EXCEPT ![c] = [@ EXCEPT !.pc = "done", !.reply = Nothing, !.seen = 0,
                                         !.fresh = {}, !.blamed = blamed]]
  /\ UNCHANGED inbox

Finished(cs, c) == Done(cs, c, 0)

DropMine(v, c) == IF v.mine.call = c THEN [v EXCEPT !.mine = NoRequest] ELSE v

(* The catch of startRun: a run known to be over settles it, a newer       *)
(* request takes it over, and else the latest open run is marked failed.   *)
StartFailed(v, c) ==
  IF Ended(IF call[c].seen = 0 THEN "none" ELSE v.run[call[c].seen]) THEN v
  ELSE IF v.mine.call # c THEN v
  ELSE LET v1 == [v EXCEPT !.session = "failed"] IN
       IF Open(v) = {} THEN v1
       ELSE [v1 EXCEPT !.run[CHOOSE r \in Open(v) : \A q \in Open(v) : q <= r] = "failed"]

(* The end of a call that failed: view' is set.  The run its catch marks   *)
(* as failed, if any, is kept as a history for the properties.             *)
Blame(c) ==
  LET hit == {r \in Runs : view.run[r] # "failed" /\ view'.run[r] = "failed"} IN
  Done(call, c, IF hit = {} THEN 0 ELSE CHOOSE r \in hit : TRUE)

StartAnswered(c) ==
  /\ call[c].kind = "start" /\ Answered(c, "ask")
  /\ IF Good(c)
     THEN view' = ApplyUpdate(view, Body(c)) /\ Next1(call, c, "load")
     ELSE view' = DropMine(StartFailed(view, c), c) /\ Blame(c)
  /\ UNCHANGED <<db, job, events, lost>>

StartLoaded(c) ==
  /\ call[c].kind = "start" /\ Answered(c, "load")
  /\ IF Good(c)
     THEN view' = DropMine(Load(view, Body(c)), c) /\ Finished(Replaced(call, Body(c)), c)
     ELSE view' = DropMine(StartFailed(view, c), c) /\ Blame(c)
  /\ UNCHANGED <<db, job, events, lost>>

RetryAnswered(c) ==
  /\ call[c].kind = "retry" /\ Answered(c, "ask")
  /\ IF Good(c)
     THEN LET v == ApplyUpdate(view, Body(c)) IN
          /\ view' = IF Ended(v.run[Body(c).run]) THEN v
                     ELSE [v EXCEPT !.mine = [call |-> c, run |-> Body(c).run]]
          /\ Next1(call, c, "load")
     ELSE UNCHANGED view /\ Next1(call, c, "repair")
  /\ UNCHANGED <<db, job, events, lost>>

RetryLoaded(c) ==
  LET v == [view EXCEPT !.retrying = @ \ {c}] IN
  /\ call[c].kind = "retry" /\ (Answered(c, "load") \/ Answered(c, "repair"))
  /\ IF Good(c)
     THEN view' = Load(v, Body(c)) /\ Finished(Replaced(call, Body(c)), c)
     ELSE view' = v /\ Finished(call, c)
  /\ UNCHANGED <<db, job, events, lost>>

CancelAnswered(c) ==
  LET v == [view EXCEPT !.stopping = @ \ {call[c].run}] IN
  /\ call[c].kind = "stop" /\ Answered(c, "ask")
  /\ IF Good(c)
     THEN view' = (IF Body(c) THEN view ELSE v) /\ Next1(call, c, "load")
     ELSE view' = v /\ Finished(call, c)
  /\ UNCHANGED <<db, job, events, lost>>

(* A run the snapshot shows as over is closed at once. *)
LoadAndClose(v, r, snap) ==
  LET v1 == Load(v, snap) IN
  IF Ended(v1.run[r]) THEN ApplyUpdate(v1, StatusOnly(r, v1.run[r])) ELSE v1

CancelLoaded(c) ==
  /\ call[c].kind = "stop" /\ Answered(c, "load")
  /\ IF Good(c)
     THEN /\ view' = LoadAndClose(view, call[c].run, Body(c))
          /\ Finished(Replaced(call, Body(c)), c)
     ELSE /\ view' = [view EXCEPT !.stopping = @ \ {call[c].run}]
          /\ Finished(call, c)
  /\ UNCHANGED <<db, job, events, lost>>

ResolveAnswered(c) ==
  LET r == call[c].run IN
  /\ call[c].kind = "resolve" /\ Answered(c, "ask")
  /\ IF Good(c)
     THEN /\ view' = IF view.sending[r] = Free THEN view
                     ELSE [view EXCEPT !.sending[r].accepted = TRUE]
          /\ Next1(call, c, "load")
     ELSE /\ view' = IF view.sending[r].call = c THEN [view EXCEPT !.sending[r] = Free]
                     ELSE view
          /\ Next1(call, c, "repair")
  /\ UNCHANGED <<db, job, events, lost>>

ResolveLoaded(c) ==
  /\ call[c].kind = "resolve" /\ (Answered(c, "load") \/ Answered(c, "repair"))
  /\ IF Good(c)
     THEN /\ view' = IF call[c].pc = "load" THEN Load(view, Body(c))
                     ELSE LoadAndClose(view, call[c].run, Body(c))
          /\ Finished(Replaced(call, Body(c)), c)
     ELSE UNCHANGED view /\ Finished(call, c)
  /\ UNCHANGED <<db, job, events, lost>>

(* The catch of resumeInput, writing to the objects it read before the     *)
(* await: the request is offered again unless it was accepted.             *)
AnswerFailed(v, c) ==
  LET r == call[c].run
      mark(w, from, status) ==
        [w EXCEPT
          !.session = IF "session" \in call[c].fresh /\ @ \in from THEN status ELSE @,
          !.run[r] = IF "run" \in call[c].fresh /\ @ \in from THEN status ELSE @]
  IN  IF Ended(v.run[r]) THEN v
      ELSE IF ~v.sending[r].accepted
      THEN mark([v EXCEPT !.card[r].status = "pending"],
                {"idle", "running", "waiting", "completed", "failed", "cancelled"}, "waiting")
      ELSE mark(v, {"running"}, "failed")

AnswerAnswered(c) ==
  LET r == call[c].run IN
  /\ call[c].kind = "answer" /\ Answered(c, "ask")
  /\ IF Good(c)
     THEN view' = [ApplyUpdate(view, Body(c)) EXCEPT !.sending[r] = Free] /\ Next1(call, c, "load")
     ELSE view' = [AnswerFailed(view, c) EXCEPT !.sending[r] = Free] /\ Blame(c)
  /\ UNCHANGED <<db, job, events, lost>>

(* The plain load of the page, of an answered input, and of an end notice. *)
Loaded(c) ==
  /\ call[c].kind \in {"load", "answer"} /\ Answered(c, "load")
  /\ IF Good(c)
     THEN view' = Load(view, Body(c)) /\ Finished(Replaced(call, Body(c)), c)
     ELSE UNCHANGED view /\ Finished(call, c)
  /\ UNCHANGED <<db, job, events, lost>>

(* A notice is handled; the end of a stopped or retried run loads the      *)
(* session once more.                                                      *)
Reloads(e) ==
  e.type = "end" /\ ~Ended(view.run[e.run])
    /\ (e.update.status = "cancelled" \/ e.run \in db.retry)

Deliver ==
  LET e == Head(events) IN
  /\ events # <<>> /\ events' = Tail(events)
  /\ view' = Handle(view, e)
  /\ LET seen == IF view'.mine # view.mine /\ view'.mine.run = e.run
                 THEN [call EXCEPT ![view.mine.call].seen = e.run] ELSE call
     IN  IF Reloads(e)
         THEN /\ call' = [seen EXCEPT ![Reload(e.run)] =
                            [IdleCall EXCEPT !.kind = "load", !.pc = "load"]]
              /\ inbox' = inbox \cup {Request(Reload(e.run), "load")}
         ELSE call' = seen /\ UNCHANGED inbox
  /\ UNCHANGED <<db, job, lost>>

-----------------------------------------------------------------------------
User(c) == \/ StartRun(c) \/ CancelRun(c) \/ LoadSession(c)
           \/ \E r \in Runs : RetryRun(c, r) \/ \E yes \in BOOLEAN : Submit(c, r, yes)

Settle(c) == \/ StartAnswered(c) \/ StartLoaded(c) \/ RetryAnswered(c) \/ RetryLoaded(c)
             \/ CancelAnswered(c) \/ CancelLoaded(c) \/ ResolveAnswered(c)
             \/ ResolveLoaded(c) \/ AnswerAnswered(c) \/ Loaded(c)

ServeAny(c) == ServeCreate(c) \/ ServeInput(c) \/ ServeStop(c) \/ ServeLoad(c)

Execute(r) == \/ Begin(r) \/ Continue(r) \/ End(r)
              \/ \E kind \in {"approval", "decision"} : Pause(r, kind)
              \/ \E status \in {"completed", "failed"} : TaskDone(r, status)

Next ==
  \/ \E c \in Calls : User(c)
  \/ \E c \in AllCalls : Settle(c) \/ ServeAny(c) \/ Lose(c)
  \/ \E r \in Runs : Execute(r) \/ Expire(r)
  \/ Deliver

Spec == Init /\ [][Next]_vars

-----------------------------------------------------------------------------
(* Runs that the catch of a failed start or answer marked as failed: the   *)
(* page is wrong about them when the runtime goes on, see StopShowsTheEnd. *)
Blamed == {call[c].blamed : c \in Calls}

TypeOK ==
  /\ DOMAIN db = {"row", "task", "ask", "retry", "kind"} /\ db.retry \subseteq Runs
  /\ \A r \in Runs :
       /\ db.row[r] \in {"none", "running", "waiting"} \cup Overs
       /\ view.run[r] \in {"none", "running", "waiting"} \cup Overs
       /\ view.task[r].status \in {"none", "queued", "running", "waiting"} \cup Overs
       /\ job.phase[r] \in {"no", "new", "back", "work", "over"}
       /\ view.sending[r].call \in {0} \cup Calls
       \* a thread executes exactly the runs whose row says running
       /\ (job.phase[r] # "no") = (db.row[r] = "running")
       /\ view.card[r].status = "pending" => view.run[r] # "none" \/ db.ask[r] # "none"
  /\ view.session \in {"idle", "running", "waiting"} \cup Overs

(* A run the page shows as over stays so, a card that is closed stays      *)
(* closed and the result of a task is final, whatever late notice, answer  *)
(* or snapshot arrives (the guards of applyUpdate, handleEvent, upsert,    *)
(* mergeTask and syncApprovals together); only a result that was inferred  *)
(* from the end of its run is corrected.                                   *)
OverStaysOver ==
  [][\A r \in Runs :
       /\ Ended(view.run[r]) /\ r \notin Blamed =>
            /\ view'.run[r] = view.run[r]
            /\ view.card[r].status # "pending" => view'.card[r].status # "pending"
       /\ TaskOver(view.task[r].status) =>
            \/ view'.task[r].status = view.task[r].status
            \/ view.task[r].inferred /\ TaskOver(view'.task[r].status)]_view

(* The page never shows an approval as granted that the runtime has not    *)
(* recorded so, and a resolution it shows is the recorded one.             *)
VerdictIsTrue ==
  \A r \in Runs : db.kind[r] = "approval" =>
    /\ view.card[r].status = "approved" => db.ask[r] = "approved"
    /\ view.card[r].resolved => view.card[r].status = Word(db.ask[r])

Quiet == /\ events = <<>> /\ inbox = {} /\ ~Locked
         /\ \A c \in AllCalls : call[c].pc \in {"idle", "done"}

(* With nothing under way the page shows of every run whether it is over   *)
(* and how, asks exactly for the inputs the runtime waits for, and holds   *)
(* no lock of an operation that is finished.                               *)
ViewSettles ==
  Quiet =>
    /\ \A r \in Runs \ Blamed :
         /\ Ended(db.row[r]) \/ Ended(view.run[r]) => view.run[r] = db.row[r]
         /\ (view.card[r].status = "pending") = (db.ask[r] = "pending")
    /\ \A r \in Runs : view.sending[r] = Free
    /\ view.retrying = {}

(* docs/architecture.md:99: a stopped run is shown as stopping until the   *)
(* page hears of its end from the runtime.                                 *)
StopShowsTheEnd ==
  \A r \in view.stopping : Ended(view.run[r]) => view.run[r] = db.row[r]
=============================================================================
