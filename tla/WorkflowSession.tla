--------------------------- MODULE WorkflowSession ---------------------------
(***************************************************************************)
(* Run control of the Python agent: WorkflowSession (start, resume, cancel,*)
(* close, _execute, _finish, expire_approvals, _notify_timeout), the       *)
(* deadline thread of ApprovalManager, the worktree reservations of        *)
(* AgentRuntime, and the crash and restart path of WorkflowCheckpoints.    *)
(*                                                                         *)
(* Threads interleave at lock boundaries.  `lock' is the non-blocking      *)
(* execution lock of a session and `control' its control RLock; a section  *)
(* that runs under the control lock from end to end is one action guarded  *)
(* by ControlFree, and only resume, which reads the clock twice inside its *)
(* section, holds `control' across two actions.  What an agent does        *)
(* between two safe points is abstracted to: write files, pause for input, *)
(* complete, fail.                                                         *)
(***************************************************************************)
EXTENDS Naturals, FiniteSets

CONSTANTS
  Sessions,       \* conversation sessions
  Runs,           \* run identifiers, each used at most once
  Inputs,         \* identifiers of interactions (approvals and other inputs)
  Workers,        \* threads that serve run.start, run.resume and session.close
  Roots,          \* Git worktree roots
  RootOf,         \* the worktree root of each session
  EditedRoots,    \* worktrees somebody edits outside the agent
  Overlap,        \* pairs of roots that are equal or contain one another
  Keys,           \* request keys a client may repeat
  Timeout,        \* life of an approval in clock ticks (300 s in the code)
  MaxTime,        \* bound: last value of the clock
  MaxRequests,    \* bound: requests the workers accept
  MaxCrashes,     \* bound: crashes of the runtime process
  MaxFaults,      \* bound: database failures inside _finish
  User,           \* whoever edits a worktree outside the agent
  Nobody,         \* no thread, no session, no run, no input
  NoKey           \* a request without a key of its own

ASSUME ConstantsOK ==
  /\ RootOf \in [Sessions -> Roots]
  /\ Overlap \subseteq Roots \X Roots
  /\ \A a \in Roots : <<a, a>> \in Overlap
  /\ \A a, b \in Roots : <<a, b>> \in Overlap => <<b, a>> \in Overlap
  /\ Timeout \in Nat \ {0}
  /\ MaxTime \in Nat /\ MaxRequests \in Nat
  /\ MaxCrashes \in Nat /\ MaxFaults \in Nat
  /\ EditedRoots \subseteq Roots
  /\ Nobody \notin Sessions \cup Runs \cup Inputs \cup Workers \cup {User}
  /\ User \notin Runs
  /\ NoKey \notin Keys

VARIABLES
  (* rows of the SQLite database: they survive a crash *)
  status,         \* Run.status of each run, "none" before it is inserted
  owner,          \* Run.session_id
  keyOf,          \* Run.request_key
  input,          \* Interaction rows
  saved,          \* worktree snapshot of the run_checkpoints row, or NoTree
  (* memory of the runtime process *)
  held,           \* keys of WorkflowSession._active
  state,          \* the run's entry in WorkflowSession._active
  lock,           \* WorkflowSession._lock of each session
  control,        \* WorkflowSession._control_lock of each session
  worktrees,      \* AgentRuntime._active_worktrees
  deadlines,      \* ApprovalManager._deadlines
  thread,         \* the worker threads
  sched,          \* the ApprovalManager thread
  (* the world around it *)
  clock,          \* UTC clock
  tree,           \* whose writes each worktree contains
  before,         \* GitRepository checkpoint of the run: tree at begin_run
  after,          \* GitRepository checkpoint of the run: tree at finish_run
  notified,       \* runs whose run.failed notification was published
  mode,           \* "up" or "recovering"
  spent           \* requests, crashes and faults used up

rowVars   == <<status, owner, keyOf, input, saved>>
lockVars  == <<lock, control, worktrees>>
worldVars == <<clock, tree, mode, spent>>
vars == <<rowVars, held, state, lockVars, deadlines, thread, sched,
          worldVars, before, after, notified>>

-----------------------------------------------------------------------------
Live     == {"running", "waiting"}
Terminal == {"completed", "failed", "cancelled", "interrupted"}
Ids      == Runs \cup {Nobody}
Trees    == SUBSET (Runs \cup {User})
NoTree   == {Nobody}   \* no snapshot
NoDeadline == MaxTime + Timeout + 1

FreeInput == [run |-> Nobody, kind |-> "decision", status |-> "free",
              verdict |-> "none", expires |-> NoDeadline]
Input == [run : Ids, kind : {"approval", "decision"},
          status : {"free", "pending", "resolved", "expired"},
          verdict : {"none", "approved", "rejected"}, expires : Nat]

IdleState == [executing |-> FALSE, cancel |-> FALSE, timedOut |-> FALSE,
              notify |-> FALSE, cancelled |-> FALSE, manual |-> FALSE,
              frozen |-> NoTree]
State == [executing : BOOLEAN, cancel : BOOLEAN, timedOut : BOOLEAN,
          notify : BOOLEAN, cancelled : BOOLEAN, manual : BOOLEAN,
          frozen : Trees \cup {NoTree}]

IdleThread == [pc |-> "idle", session |-> Nobody, run |-> Nobody,
               input |-> Nobody, accept |-> FALSE, key |-> NoKey,
               started |-> FALSE, reserved |-> FALSE, raised |-> FALSE]
Pcs == {"idle", "start", "admit", "commit", "expired", "arm", "reserve",
        "begin", "drive", "wait", "check", "leave", "unset", "post",
        "release", "unlock", "notify", "close"}
Thread == [pc : Pcs, session : Sessions \cup {Nobody}, run : Ids,
           input : Inputs \cup {Nobody}, accept : BOOLEAN,
           key : Keys \cup {NoKey},
           started : BOOLEAN, reserved : BOOLEAN, raised : BOOLEAN]

Pending(r)   == {i \in Inputs : input[i].run = r /\ input[i].status = "pending"}
Approvals(r) == {i \in Pending(r) : input[i].kind = "approval"}
Overdue(r)   == \E i \in Approvals(r) : input[i].expires <= clock

ControlFree(s) == mode = "up" /\ control[s] = Nobody
Root(r)        == RootOf[owner[r]]

(* Mutant: require_idle overlooks the waiting runs. *)
IdleButWaiting(s) == \A r \in Runs : owner[r] = s => status[r] # "running"

Idle(s) == \A r \in Runs : owner[r] = s => status[r] \notin Live

(* Mutant: only the same root is refused, a nested one is not. *)
CanReserveNested(s) == RootOf[s] \notin worktrees

(* reserve_worktree succeeds when no reserved root overlaps the session's. *)
CanReserve(s) == \A root \in worktrees : <<RootOf[s], root>> \notin Overlap

Goto(w, pc) == thread' = [thread EXCEPT ![w].pc = pc]

Init ==
  /\ status = [r \in Runs |-> "none"]
  /\ owner = [r \in Runs |-> Nobody]
  /\ keyOf = [r \in Runs |-> NoKey]
  /\ input = [i \in Inputs |-> FreeInput]
  /\ saved = [r \in Runs |-> NoTree]
  /\ held = {}
  /\ state = [r \in Runs |-> IdleState]
  /\ lock = [s \in Sessions |-> Nobody]
  /\ control = [s \in Sessions |-> Nobody]
  /\ worktrees = {}
  /\ deadlines = [r \in Runs |-> NoDeadline]
  /\ thread = [w \in Workers |-> IdleThread]
  /\ sched = [pc |-> "idle", run |-> Nobody]
  /\ clock = 0
  /\ tree = [root \in Roots |-> {}]
  /\ before = [r \in Runs |-> NoTree]
  /\ after = [r \in Runs |-> NoTree]
  /\ notified = {}
  /\ mode = "up"
  /\ spent = [requests |-> 0, crashes |-> 0, faults |-> 0]

-----------------------------------------------------------------------------
(***************************************************************************)
(* _finish and expire_approvals, the two ways a run is brought to its end. *)
(* A set cancel event overrides the status the caller asked for.           *)
(***************************************************************************)
(* Mutant: the caller's status wins over an accepted stop. *)
FinalStatusAsked(st, wanted) == wanted

FinalStatus(st, wanted) ==
  IF ~st.cancel THEN wanted ELSE IF st.timedOut THEN "failed" ELSE "cancelled"

(* Mutant: the response column gets the word of the resolution. *)
RejectWord(row) == [row EXCEPT !.status = "expired", !.verdict = "timeout"]

(* reject_pending, then the sweep over the other pending interactions. *)
Reject(row) ==
  [row EXCEPT !.status = "expired",
              !.verdict = IF row.kind = "approval" THEN "rejected" ELSE "none"]

Closed(r) == Pending(r)

(* Mutant: the worktree is captured again although it was frozen. *)
FinishGitNow(r) ==
  after' = [after EXCEPT ![r] = IF before[r] = NoTree THEN NoTree ELSE tree[Root(r)]]

(* The Git checkpoint is closed with the frozen snapshot when there is one. *)
FinishGit(r) ==
  after' = [after EXCEPT ![r] =
              IF before[r] = NoTree THEN NoTree
              ELSE IF state[r].frozen # NoTree THEN state[r].frozen
              ELSE tree[Root(r)]]

(* What the threads that still refer to the entry of an ended run read. *)
Dropped(st) == [st EXCEPT !.cancelled = FALSE, !.manual = FALSE, !.frozen = NoTree]

(* _finish under the control lock; st is the run's entry as the caller set *)
(* it, and a run that is already over is left alone.                       *)
Finish(r, st, wanted) ==
  /\ state' = [state EXCEPT ![r] = Dropped(st)]
  /\ IF status[r] \in Live
     THEN /\ status' = [status EXCEPT ![r] = FinalStatus(st, wanted)]
          /\ saved' = [saved EXCEPT ![r] = NoTree]
          /\ input' = [i \in Inputs |->
                         IF i \in Closed(r) THEN Reject(input[i]) ELSE input[i]]
          /\ deadlines' = [deadlines EXCEPT ![r] = NoDeadline]
          /\ held' = held \ {r}
          /\ FinishGit(r)
     ELSE UNCHANGED <<status, saved, input, deadlines, held, after>>
  /\ UNCHANGED <<owner, keyOf, before>>

(* The database transaction of _finish fails: only the entry has changed. *)
FinishFails(r, st) ==
  /\ spent.faults < MaxFaults
  /\ spent' = [spent EXCEPT !.faults = @ + 1]
  /\ state' = [state EXCEPT ![r] = st]
  /\ UNCHANGED <<rowVars, deadlines, held, before, after>>

TimedOut(r) == [state[r] EXCEPT !.cancel = TRUE, !.timedOut = TRUE, !.notify = TRUE]
MustExpire(r) == r \in held /\ ~state[r].cancel /\ Overdue(r)

(* Only its own thread ends a run that executes; others ask it to stop. *)
EndsAtOnce(r) == ~state[r].executing

(* The control section of expire_approvals: an executing run is only asked *)
(* to stop, a waiting one ends at once.                                    *)
Expire(r) ==
  IF MustExpire(r) /\ EndsAtOnce(r)
  THEN Finish(r, TimedOut(r), "failed")
  ELSE /\ state' = IF MustExpire(r) THEN [state EXCEPT ![r] = TimedOut(r)] ELSE state
       /\ UNCHANGED <<rowVars, deadlines, held, before, after>>

(* arm: schedule the earliest pending approval, or drop the run's entry. *)
Earliest(r) == CHOOSE d \in {input[i].expires : i \in Approvals(r)} :
                 \A i \in Approvals(r) : d <= input[i].expires
Arm(r) == deadlines' = [deadlines EXCEPT ![r] =
                          IF Approvals(r) = {} THEN NoDeadline ELSE Earliest(r)]

-----------------------------------------------------------------------------
(***************************************************************************)
(* start                                                                   *)
(***************************************************************************)
Accept(w, s) ==
  /\ mode = "up" /\ thread[w] = IdleThread /\ lock[s] = Nobody
  /\ spent.requests < MaxRequests
  /\ spent' = [spent EXCEPT !.requests = @ + 1]
  /\ lock' = [lock EXCEPT ![s] = w]

KeyUsed(s, k) == k # NoKey /\ \E r \in Runs : owner[r] = s /\ keyOf[r] = k

(* A known key returns the recorded run and a held execution lock refuses  *)
(* the request.  Neither changes anything, so only the accepted case is a  *)
(* step.  The key is looked up before the lock is taken: by now a run may  *)
(* have it.                                                                *)
StartRequest(w, s, k) ==
  /\ Accept(w, s)
  /\ thread' = [thread EXCEPT ![w] =
       [IdleThread EXCEPT !.pc = "start", !.session = s, !.key = k, !.started = TRUE]]
  /\ UNCHANGED <<rowVars, held, state, control, worktrees, deadlines, sched,
                 clock, tree, mode, before, after, notified>>

MayCreate(s, k) == ~KeyUsed(s, k) /\ Idle(s)

(* The key and the absence of a live run are checked again under the       *)
(* control lock, in the transaction that inserts the run.                  *)
StartCreate(w, r) ==
  LET s == thread[w].session IN
  /\ thread[w].pc = "start" /\ ControlFree(s)
  /\ MayCreate(s, thread[w].key)
  /\ status[r] = "none"
  /\ status' = [status EXCEPT ![r] = "running"]
  /\ owner' = [owner EXCEPT ![r] = s]
  /\ keyOf' = [keyOf EXCEPT ![r] = thread[w].key]
  /\ held' = held \cup {r}
  /\ state' = [state EXCEPT ![r] = [IdleState EXCEPT !.executing = TRUE]]
  /\ thread' = [thread EXCEPT ![w].pc = "reserve", ![w].run = r]
  /\ UNCHANGED <<input, saved, lockVars, deadlines, sched, worldVars,
                 before, after, notified>>

(* The key was used meanwhile, a run is live, or the configuration cannot  *)
(* be frozen: the request ends without a run.                              *)
StartRefused(w) ==
  /\ thread[w].pc = "start" /\ ControlFree(thread[w].session)
  /\ Goto(w, "unlock")
  /\ UNCHANGED <<rowVars, held, state, lockVars, deadlines, sched, worldVars,
                 before, after, notified>>

-----------------------------------------------------------------------------
(***************************************************************************)
(* resume                                                                  *)
(***************************************************************************)
ResumeRequest(w, r, i, accept) ==
  /\ status[r] # "none" /\ input[i].run = r
  /\ Accept(w, owner[r])
  /\ thread' = [thread EXCEPT ![w] =
       [IdleThread EXCEPT !.pc = "admit", !.session = owner[r], !.run = r,
                          !.input = i, !.accept = accept]]
  /\ UNCHANGED <<rowVars, held, state, control, worktrees, deadlines, sched,
                 clock, tree, mode, before, after, notified>>

Admit(w) ==
  /\ thread[w].pc = "admit"
  /\ ControlFree(thread[w].session)

(* `state' is read before anything else, so the finally block of a resume  *)
(* of a run that is no longer held has nobody to notify.                   *)
Noticed(w) == IF thread[w].run \in held THEN thread[w].run ELSE Nobody

(* expire_approvals comes first: a response to an overdue run ends it. *)
ResumeOverdue(w) ==
  LET r == thread[w].run IN
  /\ Admit(w) /\ MustExpire(r)
  /\ \/ Expire(r) /\ UNCHANGED spent
     \/ FinishFails(r, TimedOut(r))
  /\ Goto(w, "unlock")
  /\ UNCHANGED <<lockVars, sched, clock, tree, mode, notified>>

(* Not waiting, not held, the input already settled, or the worktree taken *)
(* by another session (RUN_BUSY): nothing is changed.                      *)
ResumeRefused(w) ==
  LET r == thread[w].run IN
  /\ Admit(w) /\ ~MustExpire(r)
  /\ \/ thread[w].input \notin Pending(r)
     \/ status[r] # "waiting"
     \/ r \notin held
     \/ ~CanReserve(owner[r])
  /\ thread' = [thread EXCEPT ![w].pc = "unlock", ![w].run = Noticed(w)]
  /\ UNCHANGED <<rowVars, held, state, lockVars, deadlines, sched, worldVars,
                 before, after, notified>>

Admissible(w) ==
  LET r == thread[w].run IN
  /\ Admit(w) /\ ~MustExpire(r)
  /\ thread[w].input \in Pending(r) /\ status[r] = "waiting" /\ r \in held
  /\ CanReserve(owner[r])

Stale(r) == state[r].frozen # NoTree /\ state[r].frozen # tree[Root(r)]

(* The worktree is not the one the run paused with: CHECKPOINT_STALE. *)
ResumeStale(w) ==
  LET r == thread[w].run IN
  /\ Admissible(w) /\ Stale(r)
  /\ Finish(r, state[r], "interrupted")
  /\ worktrees' = worktrees \cup {Root(r)}
  /\ thread' = [thread EXCEPT ![w].pc = "release", ![w].reserved = TRUE]
  /\ UNCHANGED <<lock, control, sched, worldVars, notified>>

ResumeAdmit(w) ==
  LET r == thread[w].run IN
  /\ Admissible(w) /\ ~Stale(r)
  /\ control' = [control EXCEPT ![owner[r]] = w]
  /\ worktrees' = worktrees \cup {Root(r)}
  /\ thread' = [thread EXCEPT ![w].pc = "commit", ![w].reserved = TRUE]
  /\ UNCHANGED <<rowVars, held, state, lock, deadlines, sched, worldVars,
                 before, after, notified>>

(* A refused capture approval or a "cancel" decision is remembered in the  *)
(* entry before the transaction that records it.                           *)
Answered(w) == [state[thread[w].run] EXCEPT
                  !.cancelled = @ \/ (state[thread[w].run].manual /\ ~thread[w].accept)]

(* Mutant: the deadline itself still counts as in time. *)
PastDeadlineStrictly(i) == input[i].kind = "approval" /\ input[i].expires < clock

PastDeadline(i) == input[i].kind = "approval" /\ input[i].expires <= clock

(* approvals.resolve, the run's new status and the deleted checkpoint are  *)
(* one transaction; the deadline is compared with the clock once more.     *)
ResumeCommit(w) ==
  LET r == thread[w].run
      i == thread[w].input
  IN
  /\ mode = "up" /\ thread[w].pc = "commit" /\ ~PastDeadline(i)
  /\ input' = [input EXCEPT
       ![i].status = "resolved",
       ![i].verdict = IF input[i].kind # "approval" THEN "none"
                      ELSE IF thread[w].accept THEN "approved" ELSE "rejected"]
  /\ status' = [status EXCEPT ![r] = "running"]
  /\ saved' = [saved EXCEPT ![r] = NoTree]
  /\ state' = [state EXCEPT ![r] =
                 [Answered(w) EXCEPT !.manual = FALSE, !.executing = TRUE]]
  /\ control' = [control EXCEPT ![owner[r]] = Nobody]
  /\ Goto(w, "arm")
  /\ UNCHANGED <<owner, keyOf, held, lock, worktrees, deadlines, sched,
                 worldVars, before, after, notified>>

(* APPROVAL_EXPIRED rolls the transaction back, not the entry. *)
ResumeTooLate(w) ==
  LET r == thread[w].run IN
  /\ mode = "up" /\ thread[w].pc = "commit" /\ PastDeadline(thread[w].input)
  /\ state' = [state EXCEPT ![r] = Answered(w)]
  /\ control' = [control EXCEPT ![owner[r]] = Nobody]
  /\ Goto(w, "expired")
  /\ UNCHANGED <<rowVars, held, lock, worktrees, deadlines, sched, worldVars,
                 before, after, notified>>

(* Mutant: the error path leaves the control lock taken. *)
ResumeInvalidLocked(w) ==
  /\ mode = "up" /\ thread[w].pc = "commit"
  /\ Goto(w, "release")
  /\ UNCHANGED <<rowVars, held, state, lockVars, deadlines, sched, worldVars,
                 before, after, notified>>

(* A response of the wrong shape is refused before the entry is touched. *)
ResumeInvalid(w) ==
  /\ mode = "up" /\ thread[w].pc = "commit"
  /\ control' = [control EXCEPT ![thread[w].session] = Nobody]
  /\ Goto(w, "release")
  /\ UNCHANGED <<rowVars, held, state, lock, worktrees, deadlines, sched,
                 worldVars, before, after, notified>>

(* The except clause of resume for APPROVAL_EXPIRED. *)
ResumeExpire(w) ==
  /\ thread[w].pc = "expired" /\ ControlFree(thread[w].session)
  /\ Expire(thread[w].run)
  /\ Goto(w, "release")
  /\ UNCHANGED <<lockVars, sched, worldVars, notified>>

(* arm runs outside the control lock. *)
ResumeArm(w) ==
  /\ mode = "up" /\ thread[w].pc = "arm"
  /\ Arm(thread[w].run)
  /\ Goto(w, "begin")
  /\ UNCHANGED <<rowVars, held, state, lockVars, sched, worldVars,
                 before, after, notified>>

-----------------------------------------------------------------------------
(***************************************************************************)
(* _execute and _drive, by the thread that holds the execution lock        *)
(***************************************************************************)
At(w, pc) == mode = "up" /\ thread[w].pc = pc

(* A run that starts reserves its worktree; one that resumes has it. *)
ReserveWorktree(w) ==
  LET s == thread[w].session IN
  /\ At(w, "reserve")
  /\ worktrees' = IF CanReserve(s) THEN worktrees \cup {RootOf[s]} ELSE worktrees
  /\ thread' = [thread EXCEPT ![w].pc = "begin", ![w].reserved = CanReserve(s)]
  /\ UNCHANGED <<rowVars, held, state, lock, control, deadlines, sched,
                 worldVars, before, after, notified>>

(* Finish inside the try block: a failure would be caught there, and is    *)
(* the same as failing before it.                                          *)
FinishInside(w, wanted) ==
  LET r == thread[w].run IN
  /\ ControlFree(owner[r])
  /\ Finish(r, state[r], wanted)
  /\ Goto(w, "leave")
  /\ UNCHANGED <<lockVars, sched, worldVars, notified>>

(* Finish in an except clause: when its transaction fails the exception    *)
(* leaves through the finally block and the closing section is skipped.    *)
FinishRaised(w, st, wanted) ==
  LET r == thread[w].run IN
  /\ ControlFree(owner[r])
  /\ \/ /\ Finish(r, st, wanted)
        /\ Goto(w, "leave")
        /\ UNCHANGED spent
     \/ /\ FinishFails(r, st)
        /\ thread' = [thread EXCEPT ![w].pc = "leave", ![w].raised = TRUE]
  /\ UNCHANGED <<lockVars, sched, clock, tree, mode, notified>>

Stopping(r) == state[r].cancelled \/ state[r].cancel

BeginCancelled(w) ==
  LET r == thread[w].run IN
  /\ At(w, "begin") /\ Stopping(r)
  /\ FinishRaised(w, [state[r] EXCEPT !.cancel = TRUE], "cancelled")

BeginBusy(w) ==
  LET r == thread[w].run IN
  /\ At(w, "begin") /\ ~Stopping(r) /\ ~thread[w].reserved
  /\ FinishRaised(w, state[r], "failed")

(* Mutant: the worktree is not compared again before the run goes on. *)
SameTreeAssumed(r) == TRUE

SameTree(r) == ~Stale(r)

(* The second comparison of the worktree with the frozen one. *)
BeginStale(w) ==
  LET r == thread[w].run IN
  /\ At(w, "begin") /\ ~Stopping(r) /\ thread[w].reserved /\ ~SameTree(r)
  /\ FinishInside(w, "interrupted")

Begin(w) ==
  LET r == thread[w].run IN
  /\ At(w, "begin") /\ ~Stopping(r) /\ thread[w].reserved /\ SameTree(r)
  /\ before' = IF thread[w].started
               THEN [before EXCEPT ![r] = tree[Root(r)]] ELSE before
  /\ state' = [state EXCEPT ![r].frozen = NoTree]
  /\ Goto(w, "drive")
  /\ UNCHANGED <<rowVars, held, lockVars, deadlines, sched, worldVars, after,
                 notified>>

DriveWrite(w) ==
  LET r == thread[w].run IN
  /\ At(w, "drive")
  /\ tree' = [tree EXCEPT ![Root(r)] = @ \cup {r}]
  /\ UNCHANGED <<rowVars, held, state, lockVars, deadlines, thread, sched,
                 clock, mode, spent, before, after, notified>>

(* The graph cannot complete while one of its interrupts is open. *)
DriveComplete(w) ==
  LET r == thread[w].run IN
  /\ At(w, "drive") /\ Pending(r) = {}
  /\ FinishInside(w, "completed")

DriveFail(w) ==
  /\ \/ At(w, "begin") /\ ~Stopping(thread[w].run)
     \/ At(w, "drive")
     \/ At(w, "wait")
  /\ FinishRaised(w, state[thread[w].run], "failed")

(* check_cancelled raises at the safe points of _drive and after it. *)
DriveStop(w) ==
  LET r == thread[w].run IN
  /\ \/ At(w, "drive")
     \/ At(w, "check")
  /\ state[r].cancel
  /\ FinishRaised(w, state[r], "cancelled")

(* _wait, or _code with open interrupts, decides to pause. *)
DrivePause(w) ==
  /\ At(w, "drive") /\ ~state[thread[w].run].cancel
  /\ Goto(w, "wait")
  /\ UNCHANGED <<rowVars, held, state, lockVars, deadlines, sched, worldVars,
                 before, after, notified>>

NewInput(r, kind) ==
  [run |-> r, kind |-> kind, status |-> "pending", verdict |-> "none",
   expires |-> IF kind = "approval" THEN clock + Timeout ELSE NoDeadline]

(* One transaction, outside the control lock: the inputs, the status and,  *)
(* when the run can be exported, its checkpoint.  A stage pause (_wait)    *)
(* asks for exactly one input; a tool graph leaves its open inputs pending *)
(* and adds the new ones.                                                  *)
WaitCommit(w, new, kind, manual) ==
  LET r == thread[w].run IN
  /\ At(w, "wait")
  /\ \A i \in new : input[i].status = "free"
  /\ Pending(r) \cup new # {}
  /\ manual => Pending(r) = {} /\ \E i \in new : new = {i}
  /\ input' = [i \in Inputs |-> IF i \in new THEN NewInput(r, kind) ELSE input[i]]
  /\ status' = [status EXCEPT ![r] = "waiting"]
  /\ state' = [state EXCEPT ![r].manual = manual, ![r].frozen = tree[Root(r)]]
  /\ after' = [after EXCEPT ![r] = tree[Root(r)]]
  /\ \E snapshot \in {NoTree, tree[Root(r)]} :
       saved' = [saved EXCEPT ![r] = snapshot]
  /\ Goto(w, "check")
  /\ UNCHANGED <<owner, keyOf, held, lockVars, deadlines, sched, worldVars,
                 before, notified>>

DriveReturn(w) ==
  /\ At(w, "check") /\ ~state[thread[w].run].cancel
  /\ Goto(w, "leave")
  /\ UNCHANGED <<rowVars, held, state, lockVars, deadlines, sched, worldVars,
                 before, after, notified>>

(* The finally block: the worktree a start reserved goes first, ... *)
LeaveWorktree(w) ==
  /\ At(w, "leave")
  /\ worktrees' = IF thread[w].started /\ thread[w].reserved
                  THEN worktrees \ {RootOf[thread[w].session]} ELSE worktrees
  /\ thread' = [thread EXCEPT ![w].pc = "unset",
                              ![w].reserved = @ /\ ~thread[w].started]
  /\ UNCHANGED <<rowVars, held, state, lock, control, deadlines, sched,
                 worldVars, before, after, notified>>

(* ... then the executing flag; an exception goes straight to the caller. *)
StopExecuting(w) ==
  LET r == thread[w].run IN
  /\ thread[w].pc = "unset" /\ ControlFree(owner[r])
  /\ state' = [state EXCEPT ![r].executing = FALSE]
  /\ Goto(w, IF thread[w].raised THEN "release" ELSE "post")
  /\ UNCHANGED <<rowVars, held, lockVars, deadlines, sched, worldVars,
                 before, after, notified>>

(* Mutant: a stop that arrives after the last safe point is overlooked. *)
LateStopMissed(r) == FALSE

LateStop(r) == state[r].cancel

(* The closing control section: a cancel that came after the last safe     *)
(* point ends the run, a waiting run has its deadline scheduled.           *)
PostExecute(w) ==
  LET r == thread[w].run IN
  /\ thread[w].pc = "post" /\ ControlFree(owner[r])
  /\ IF LateStop(r)
     THEN Finish(r, state[r], "cancelled")
     ELSE IF status[r] # "waiting"
     THEN UNCHANGED <<rowVars, state, held, deadlines, before, after>>
     ELSE IF MustExpire(r)
     THEN Finish(r, TimedOut(r), "failed")
     ELSE /\ Arm(r)
          /\ UNCHANGED <<rowVars, state, held, before, after>>
  /\ Goto(w, "release")
  /\ UNCHANGED <<lockVars, sched, worldVars, notified>>

(* The finally block of start and resume. *)
ReleaseWorktree(w) ==
  /\ At(w, "release")
  /\ worktrees' = IF thread[w].reserved
                  THEN worktrees \ {RootOf[thread[w].session]} ELSE worktrees
  /\ thread' = [thread EXCEPT ![w].pc = "unlock", ![w].reserved = FALSE]
  /\ UNCHANGED <<rowVars, held, state, lock, control, deadlines, sched,
                 worldVars, before, after, notified>>

ReleaseLock(w) ==
  /\ At(w, "unlock")
  /\ lock' = [lock EXCEPT ![thread[w].session] = Nobody]
  /\ thread' = IF thread[w].run = Nobody
               THEN [thread EXCEPT ![w] = IdleThread]
               ELSE [thread EXCEPT ![w].pc = "notify"]
  /\ UNCHANGED <<rowVars, held, state, control, worktrees, deadlines, sched,
                 worldVars, before, after, notified>>

(* _notify_timeout: nothing is published while the run executes or while   *)
(* any thread holds the execution lock.                                    *)
Publish(r) ==
  /\ ControlFree(owner[r])
  /\ IF state[r].notify /\ ~state[r].executing /\ lock[owner[r]] = Nobody
     THEN /\ notified' = notified \cup {r}
          /\ state' = [state EXCEPT ![r].notify = FALSE]
     ELSE UNCHANGED <<notified, state>>

NotifyTimeout(w) ==
  /\ thread[w].pc = "notify"
  /\ Publish(thread[w].run)
  /\ thread' = [thread EXCEPT ![w] = IdleThread]
  /\ UNCHANGED <<rowVars, held, lockVars, deadlines, sched, worldVars,
                 before, after>>

-----------------------------------------------------------------------------
(***************************************************************************)
(* cancel and close                                                        *)
(***************************************************************************)
Cancel(r) ==
  LET st == [state[r] EXCEPT !.cancel = TRUE] IN
  /\ status[r] \in Live /\ r \in held /\ ControlFree(owner[r])
  /\ IF EndsAtOnce(r)
     THEN \/ Finish(r, st, "cancelled") /\ UNCHANGED spent
          \/ FinishFails(r, st)
     ELSE /\ state' = [state EXCEPT ![r] = st]
          /\ UNCHANGED <<rowVars, held, deadlines, before, after, spent>>
  /\ UNCHANGED <<lockVars, thread, sched, clock, tree, mode, notified>>

CloseRequest(w, s) ==
  /\ Accept(w, s)
  /\ thread' = [thread EXCEPT ![w] = [IdleThread EXCEPT !.pc = "close", !.session = s]]
  /\ UNCHANGED <<rowVars, held, state, control, worktrees, deadlines, sched,
                 clock, tree, mode, before, after, notified>>

(* Every run the session still holds is interrupted. *)
CloseRun(w, r) ==
  /\ thread[w].pc = "close" /\ r \in held /\ owner[r] = thread[w].session
  /\ ControlFree(owner[r])
  /\ Finish(r, state[r], "interrupted")
  /\ UNCHANGED <<lockVars, thread, sched, worldVars, notified>>

CloseDone(w) ==
  /\ At(w, "close")
  /\ \A r \in held : owner[r] # thread[w].session
  /\ Goto(w, "unlock")
  /\ UNCHANGED <<rowVars, held, state, lockVars, deadlines, sched, worldVars,
                 before, after, notified>>

-----------------------------------------------------------------------------
(***************************************************************************)
(* The ApprovalManager thread                                              *)
(***************************************************************************)
(* Mutant: the deadline is waited past, not for. *)
DueStrictly(r) == deadlines[r] < clock

Due(r) == deadlines[r] <= clock

SchedulerPop(r) ==
  /\ mode = "up" /\ sched.pc = "idle"
  /\ Due(r)
  /\ \A q \in Runs : deadlines[r] <= deadlines[q]
  /\ deadlines' = [deadlines EXCEPT ![r] = NoDeadline]
  /\ sched' = [pc |-> "expire", run |-> r]
  /\ UNCHANGED <<rowVars, held, state, lockVars, thread, worldVars, before,
                 after, notified>>

(* expire_approvals publishes after its control section, when it expired. *)
SchedulerExpire ==
  LET r == sched.run IN
  /\ sched.pc = "expire" /\ ControlFree(owner[r])
  /\ Expire(r)
  /\ sched' = IF MustExpire(r) THEN [sched EXCEPT !.pc = "notify"]
                               ELSE [pc |-> "idle", run |-> Nobody]
  /\ UNCHANGED <<lockVars, thread, worldVars, notified>>

(* _work catches the exception and schedules the run again. *)
SchedulerRetry ==
  LET r == sched.run IN
  /\ sched.pc = "expire" /\ ControlFree(owner[r])
  /\ MustExpire(r) /\ EndsAtOnce(r)
  /\ spent.faults < MaxFaults
  /\ spent' = [spent EXCEPT !.faults = @ + 1]
  /\ state' = [state EXCEPT ![r] = TimedOut(r)]
  /\ deadlines' = [deadlines EXCEPT ![r] = clock + 1]
  /\ sched' = [pc |-> "idle", run |-> Nobody]
  /\ UNCHANGED <<rowVars, held, lockVars, thread, clock, tree, mode, before,
                 after, notified>>

SchedulerNotify ==
  /\ sched.pc = "notify"
  /\ Publish(sched.run)
  /\ sched' = [pc |-> "idle", run |-> Nobody]
  /\ UNCHANGED <<rowVars, held, lockVars, deadlines, thread, worldVars,
                 before, after>>

-----------------------------------------------------------------------------
(***************************************************************************)
(* Crash and restart                                                       *)
(***************************************************************************)
(* A crash may fall into the recovery from the last one.  The database and *)
(* the worktrees survive.  The checkpoint row also keeps the kind of the   *)
(* pause and, in its pack, the Git checkpoint.                             *)
Crash ==
  /\ spent.crashes < MaxCrashes
  /\ spent' = [spent EXCEPT !.crashes = @ + 1]
  /\ mode' = "recovering"
  /\ held' = {}
  /\ state' = [r \in Runs |-> IF saved[r] = NoTree THEN IdleState
                              ELSE [IdleState EXCEPT !.manual = state[r].manual]]
  /\ before' = [r \in Runs |-> IF saved[r] = NoTree THEN NoTree ELSE before[r]]
  /\ after' = [r \in Runs |-> IF saved[r] = NoTree THEN NoTree ELSE after[r]]
  /\ lock' = [s \in Sessions |-> Nobody]
  /\ control' = [s \in Sessions |-> Nobody]
  /\ worktrees' = {}
  /\ deadlines' = [r \in Runs |-> NoDeadline]
  /\ thread' = [w \in Workers |-> IdleThread]
  /\ sched' = [pc |-> "idle", run |-> Nobody]
  /\ UNCHANGED <<rowVars, clock, tree, notified>>

(* Mutant: a reissued approval gets a deadline of its own. *)
ReissuedAnew(row) ==
  [row EXCEPT !.expires = IF row.kind = "approval" THEN clock + Timeout ELSE @]

Reissued(row) == row

(* _restore: unless an approval is overdue, every pending input is settled *)
(* as runtime_restart and reissued under a new id with its old deadline,   *)
(* in one transaction; then the run is held again.                         *)
Restore(r, reissue) ==
  LET old == Pending(r) IN
  /\ mode = "recovering" /\ r \notin held /\ status[r] = "waiting"
  /\ saved[r] # NoTree /\ saved[r] = tree[Root(r)]
  /\ DOMAIN reissue = (IF Overdue(r) THEN {} ELSE old)
  /\ \A i \in DOMAIN reissue : input[reissue[i]].status = "free"
  /\ \A i, j \in DOMAIN reissue : reissue[i] = reissue[j] => i = j
  /\ input' = [k \in Inputs |->
       IF k \in DOMAIN reissue THEN Reject(input[k])
       ELSE IF \E i \in DOMAIN reissue : reissue[i] = k
       THEN Reissued(input[CHOOSE i \in DOMAIN reissue : reissue[i] = k])
       ELSE input[k]]
  /\ held' = held \cup {r}
  /\ state' = [state EXCEPT ![r].frozen = tree[Root(r)]]
  /\ UNCHANGED <<status, owner, keyOf, saved, lockVars, deadlines, thread, sched,
                 worldVars, before, after, notified>>

(* Mutant: a waiting run without a checkpoint is not interrupted. *)
LostExecuting == {r \in Runs : status[r] = "running" /\ r \notin held}

Lost == {r \in Runs : status[r] \in Live /\ r \notin held}

(* Mutant: the sweep takes the inputs of restored runs too. *)
SweptAll(i) == input[i].status = "pending"

Swept(i) == input[i].status = "pending" /\ input[i].run \in Lost

(* Records.recover: what was not restored, because it ran, had no          *)
(* checkpoint or failed a check, is interrupted.                           *)
Recover ==
  /\ mode = "recovering"
  /\ mode' = "arming"
  /\ status' = [r \in Runs |-> IF r \in Lost THEN "interrupted" ELSE status[r]]
  /\ saved' = [r \in Runs |-> IF r \in Lost THEN NoTree ELSE saved[r]]
  /\ input' = [i \in Inputs |-> IF Swept(i) THEN Reject(input[i]) ELSE input[i]]
  /\ UNCHANGED <<owner, keyOf, held, state, lockVars, deadlines, thread, sched,
                 clock, tree, spent, before, after, notified>>

Unarmed == {r \in held : Approvals(r) # {} /\ deadlines[r] = NoDeadline}

(* Each restored run is expired or scheduled before requests are served. *)
ArmRestored(r) ==
  /\ mode = "arming" /\ r \in Unarmed
  /\ IF Overdue(r)
     THEN /\ Finish(r, [TimedOut(r) EXCEPT !.notify = FALSE], "failed")
          /\ notified' = notified \cup {r}
     ELSE /\ Arm(r)
          /\ UNCHANGED <<rowVars, state, held, before, after, notified>>
  /\ UNCHANGED <<lockVars, thread, sched, worldVars>>

Serve ==
  /\ mode = "arming" /\ Unarmed = {}
  /\ mode' = "up"
  /\ UNCHANGED <<rowVars, held, state, lockVars, deadlines, thread, sched,
                 clock, tree, spent, before, after, notified>>

-----------------------------------------------------------------------------
Tick ==
  /\ clock < MaxTime
  /\ clock' = clock + 1
  /\ UNCHANGED <<rowVars, held, state, lockVars, deadlines, thread, sched,
                 tree, mode, spent, before, after, notified>>

OutsideEdit(root) ==
  /\ root \in EditedRoots
  /\ tree' = [tree EXCEPT ![root] = @ \cup {User}]
  /\ UNCHANGED <<rowVars, held, state, lockVars, deadlines, thread, sched,
                 clock, mode, spent, before, after, notified>>

Start(w) == \/ \E s \in Sessions, k \in Keys \cup {NoKey} : StartRequest(w, s, k)
            \/ \E r \in Runs : StartCreate(w, r)
            \/ StartRefused(w)

Resume(w) == \/ \E r \in Runs, i \in Inputs, a \in BOOLEAN : ResumeRequest(w, r, i, a)
             \/ ResumeOverdue(w) \/ ResumeRefused(w) \/ ResumeStale(w)
             \/ ResumeAdmit(w) \/ ResumeCommit(w) \/ ResumeTooLate(w)
             \/ ResumeInvalid(w) \/ ResumeExpire(w) \/ ResumeArm(w)

Wait(w) == \E new \in SUBSET Inputs, kind \in {"approval", "decision"},
              manual \in BOOLEAN : WaitCommit(w, new, kind, manual)

Execute(w) == \/ ReserveWorktree(w) \/ BeginCancelled(w) \/ BeginBusy(w)
              \/ BeginStale(w) \/ Begin(w) \/ DriveWrite(w) \/ DriveComplete(w)
              \/ DriveFail(w) \/ DriveStop(w) \/ DrivePause(w) \/ Wait(w)
              \/ DriveReturn(w) \/ LeaveWorktree(w) \/ StopExecuting(w)
              \/ PostExecute(w) \/ ReleaseWorktree(w) \/ ReleaseLock(w)
              \/ NotifyTimeout(w)

Close(w) == \/ \E s \in Sessions : CloseRequest(w, s)
            \/ \E r \in Runs : CloseRun(w, r)
            \/ CloseDone(w)

Scheduler == \/ \E r \in Runs : SchedulerPop(r)
             \/ SchedulerExpire \/ SchedulerRetry \/ SchedulerNotify

Restart == \/ Crash
           \/ \E r \in Runs, ids \in SUBSET Inputs :
                \E reissue \in [ids -> Inputs] : Restore(r, reissue)
           \/ Recover
           \/ \E r \in Runs : ArmRestored(r)
           \/ Serve

Next == \/ \E w \in Workers : Start(w) \/ Resume(w) \/ Execute(w) \/ Close(w)
        \/ \E r \in Runs : Cancel(r)
        \/ Scheduler \/ Restart \/ Tick
        \/ \E root \in Roots : OutsideEdit(root)

Spec == Init /\ [][Next]_vars

-----------------------------------------------------------------------------
(***************************************************************************)
(* Fairness.  A thread that can move does: model calls, tools and Git      *)
(* commands return (they have timeouts), Python releases a blocked lock to *)
(* a waiter, and the supervisor serves again after a restart.  Clients owe *)
(* nothing: no request, cancel, close, crash or tick is fair.              *)
(***************************************************************************)
Work(w) == \/ \E r \in Runs : StartCreate(w, r)
           \/ StartRefused(w)
           \/ ResumeOverdue(w) \/ ResumeRefused(w) \/ ResumeStale(w)
           \/ ResumeAdmit(w) \/ ResumeCommit(w) \/ ResumeTooLate(w)
           \/ ResumeInvalid(w) \/ ResumeExpire(w) \/ ResumeArm(w)
           \/ Execute(w)
           \/ \E r \in Runs : CloseRun(w, r)
           \/ CloseDone(w)

Recovery == Recover \/ (\E r \in Runs : ArmRestored(r)) \/ Serve

FairSpec == /\ Spec
            /\ \A w \in Workers : WF_vars(Work(w))
            /\ WF_vars(Scheduler)
            /\ WF_vars(Recovery)

-----------------------------------------------------------------------------
TypeOK ==
  /\ status \in [Runs -> {"none"} \cup Live \cup Terminal]
  /\ owner \in [Runs -> Sessions \cup {Nobody}]
  /\ keyOf \in [Runs -> Keys \cup {NoKey}]
  /\ input \in [Inputs -> Input]
  /\ saved \in [Runs -> Trees \cup {NoTree}]
  /\ held \subseteq Runs
  /\ state \in [Runs -> State]
  /\ lock \in [Sessions -> Workers \cup {Nobody}]
  /\ control \in [Sessions -> Workers \cup {Nobody}]
  /\ worktrees \subseteq Roots
  /\ deadlines \in [Runs -> Nat]
  /\ thread \in [Workers -> Thread]
  /\ sched \in [pc : {"idle", "expire", "notify"}, run : Ids]
  /\ clock \in Nat
  /\ tree \in [Roots -> Trees]
  /\ before \in [Runs -> Trees \cup {NoTree}]
  /\ after \in [Runs -> Trees \cup {NoTree}]
  /\ notified \subseteq Runs
  /\ mode \in {"up", "recovering", "arming"}
  /\ spent \in [requests : Nat, crashes : Nat, faults : Nat]

(* A session has one live run at most.  The execution lock cannot ensure   *)
(* this alone, since a waiting run does not hold it.                       *)
OneLiveRun ==
  \A q, r \in Runs : status[q] \in Live /\ status[r] \in Live /\ owner[q] = owner[r]
                       => q = r

(* A request key a client repeats, even on two connections at once, names  *)
(* one run of the session.                                                 *)
OneRunPerKey ==
  \A q, r \in Runs : keyOf[q] # NoKey /\ keyOf[q] = keyOf[r] /\ owner[q] = owner[r]
                       => q = r

Driving(w) == thread[w].pc \in {"drive", "wait", "check"}

(* Overlapping worktrees are never driven by two threads at once. *)
WorktreeExclusive ==
  \A v, w \in Workers :
    v # w /\ Driving(v) /\ Driving(w)
      => <<RootOf[thread[v].session], RootOf[thread[w].session]>> \notin Overlap

(* While requests are served, the live runs of the database are the runs   *)
(* this process holds: each can be cancelled and none is left behind.      *)
LiveRunsAreHeld == mode = "up" => held = {r \in Runs : status[r] \in Live}

(* A run that says it executes has a thread that will bring it to an end   *)
(* or to a pause: cancel and expire_approvals leave the run to it.         *)
ExecutorHoldsLock ==
  \A r \in held : state[r].executing =>
    /\ lock[owner[r]] \in Workers
    /\ thread[lock[owner[r]]].run = r

(* A waiting run can be answered: it has an open input, and one that was   *)
(* restored from a checkpoint has one too.                                 *)
WaitingHasInput == \A r \in Runs : status[r] = "waiting" => Pending(r) # {}

(* A run that is over has no open input, no deadline and no checkpoint to  *)
(* come back from, although pausing commits outside the control lock.      *)
OverIsSettled ==
  \A r \in Runs : status[r] \in Terminal =>
    Pending(r) = {} /\ saved[r] = NoTree /\ r \notin held

(* The recorded diff of a run never contains writes of another run, so     *)
(* that rolling it back touches only its own work: a run that ends while   *)
(* it does not own the worktree is closed with the frozen snapshot.        *)
CleanDiff ==
  \A r \in Runs : status[r] \in Terminal /\ after[r] # NoTree
                    => after[r] \ before[r] \subseteq {r, User}

-----------------------------------------------------------------------------
(* Threads, timeouts and restarts move the rows as RunLifecycle says: one  *)
(* live run per session and one run per key, an open input while a run     *)
(* waits, each input settled once and a terminal status final, in steps    *)
(* that leave every other run alone.                                       *)
Settled == {i \in Inputs : input[i].status \in {"resolved", "expired"}}
Granted == {i \in Inputs : input[i].status # "free" /\ input[i].verdict = "approved"}
Lifecycle == INSTANCE RunLifecycle WITH
               open <- [r \in Runs |-> Pending(r)], settled <- Settled, granted <- Granted
RowsFollowLifecycle == Lifecycle!Spec

(* A terminal status is final: late threads and restarts leave it alone. *)
TerminalIsFinal ==
  [][\A r \in Runs : status[r] \in Terminal => status'[r] = status[r]]_vars

(* Timeout, approval, cancel and restart compete for an input, and the     *)
(* first resolution is the only one.                                       *)
SettledOnce ==
  [][\A i \in Inputs : input[i].status \in {"resolved", "expired"}
                         => input'[i] = input[i]]_vars

(* An approval is granted only before its deadline. *)
ApprovedInTime ==
  [][\A i \in Inputs : input'[i].verdict = "approved" /\ input[i].verdict # "approved"
                         => clock < input[i].expires]_vars

(* However often the runtime restarts, an approval is asked again with the *)
(* deadline of one that was open, and a run whose approval is overdue is   *)
(* not asked again at all.                                                 *)
DeadlineSurvivesRestart ==
  [][mode = "recovering" =>
       \A k \in Inputs : input'[k].status = "pending" /\ input[k].status = "free" =>
         /\ ~Overdue(input'[k].run)
         /\ \E i \in Inputs : /\ input[i].status = "pending"
                              /\ input[i].run = input'[k].run
                              /\ input[i].expires = input'[k].expires]_vars

(* A paused run goes on only in the worktree it paused with, though the    *)
(* files can change between the check that admits the response and the     *)
(* first step of the resumed execution.                                    *)
ResumesOnSameTree ==
  [][\A r \in held \cap held' :
       /\ state[r].frozen # NoTree /\ state'[r].frozen = NoTree
       /\ status'[r] = "running"
       => tree[Root(r)] = state[r].frozen]_vars

(* Once a stop is accepted the run ends by it, whatever the executing      *)
(* thread was about to report; the first cause decides between the two.    *)
StopDecidesOutcome ==
  [][\A r \in held : state[r].cancel /\ status'[r] \in Terminal =>
       status'[r] = IF state[r].timedOut THEN "failed" ELSE "cancelled"]_vars

-----------------------------------------------------------------------------
(* A run with an overdue approval does not keep it. *)
OverdueIsRejected == \A r \in Runs : Overdue(r) ~> ~Overdue(r)

(* A run whose stop was accepted ends. *)
StopEndsRun == \A r \in Runs : (r \in held /\ state[r].cancel) ~> r \notin held

(* Every accepted request returns to its caller. *)
RequestReturns == \A w \in Workers : thread[w].pc # "idle" ~> thread[w].pc = "idle"
=============================================================================
