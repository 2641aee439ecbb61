# AuroraHarness verification

TLA+ models of AuroraHarness, the TLC runs that check them and the theorems TLAPS proves about
them. Paths below are relative to the repository; `agent/` stands for
`src/agent/src/aurora/agent/`, `broker/` for `src/rust/aurora-runtime-broker/src/` and `app/` for
`src/frontend/app/`.

## The system

A desktop shell (Tauri, Rust) shows a Vue frontend and runs a Python agent as a child process. The
frontend sends a request to the shell, the *runtime broker* writes it as a JSON line to the child's
stdin and its reader thread brings back the response with the same `request_id`; lines without one
are events and go to the frontend. In the child one thread reads the requests and serves them
itself, except `run.start`, `run.resume`, `run.retry`, `approval.resolve` and `agent.test`, which it
gives to worker threads (`transport/runtime_api.py`). All but the last end up in a *workflow
session*, which executes the stages of a workflow (an agent that writes code, a capture of the
preview, a visual review, revisions) in one Git worktree. The writing agent plans tasks with a
language model; a *delegation graph* executes them in waves, passing some to other agents that have
graphs of their own. A task that needs the user's consent pauses the whole run: rows and a
checkpoint go to SQLite, the worker returns, and the run waits for `run.resume`. An approval has a
deadline after which a scheduler thread rejects it. A crash of the child loses the memory; on
restart the checkpoints are restored and every other live run is interrupted. A finished run can be
rolled back in Git, and the tasks it left unfinished can be retried as a new run. Around this stand
the sessions with their messages, context and artifacts, the configurations of agents, models and
providers, and the connections to MCP servers.

### Inventory

| Component | State | Operations | Interacts with | Hard behaviour |
| --- | --- | --- | --- | --- |
| Run control, `agent/orchestration/workflow_session.py` | the entries of `_active` (executing, stop flag, timeout flags, frozen snapshot), execution lock, control lock | start, resume, cancel, close, expire | records, approvals, Git, checkpoints, runtime | two locks of different kinds; a pause commits outside the control lock; stops meet an executing thread between its safe points |
| Stages of a run, same file | stage, iteration, attempt, pictures, verdict | code, capture, review, revise, summarize, each with its waits and answers | delegation graph, preview, Git | work and pictures go out of date while the run waits; retries after failed stages |
| Approval deadlines, `agent/orchestration/approval_manager.py` | armed deadlines, the thread | create, arm, disarm, resolve, reject_pending | run control, interactions | approval, timeout, cancel, close and restart compete for one interaction; the retry after a failed expiry |
| Worktree reservations, `agent/orchestration/runtime.py` | `_active_worktrees` | reserve, release | run control of other sessions | nested roots |
| Wait-point checkpoints, `agent/orchestration/workflow_checkpoints.py`, `graph_checkpoint.py` | one row and some files per waiting run | save, restore, recover | records, Git, run control | a crash at any point; approvals get new ids but keep their deadline |
| Records of runs, `agent/store/records.py`, `database.py` | rows of runs, agent runs, tasks, interactions, checkpoints | transactions, recover, require_idle | everybody | a sweep that must not touch what was restored |
| Git, `agent/store/git.py` | snapshots before and after each run, packs | begin_run, finish_run, status, rollback, export, restore | stages | others edit, stage and commit while a run waits and after it; a rollback that fails half way |
| Delegation graph, `agent/core/graph.py`, `execution_limits.py`, `plan_validation.py` | results, queue and interrupts of one graph per role | plan, clarify, dispatch, execute, summarize | task execution, run control | waves of parallel readers, exclusive writers, blocked successors, interrupts that re-run part of a wave |
| Task execution, `agent/orchestration/task_execution.py`, `task_events.py`, `delegation.py` | task rows, budget of tasks, worker runs | start_task, record_result, wait_for_input, delegate | delegation graph | results stream in while others still run; a resumed graph must not repeat finished work |
| Retry plans, `agent/orchestration/retry_plan.py` | none | freezes a plan out of task rows | delegation graph | which results may be taken over |
| Runtime broker, `broker/broker.rs` | child, generation, table of waiting requests, status | request, restart, reader thread, automatic restart, drop | frontend, child | threads that act for a process which has been replaced |
| Runtime API, `agent/transport/runtime_api.py`, `websocket.py`, `persistence_api.py` | worker slots, open futures, event sequence | dispatch, answer, emit | everybody | one reader, several workers; objects fetched by one and closed by the other |
| Frontend store, `app/stores/runtimeStore.ts`, `sessionStore.ts`, `app/utils/tasks.ts` | the runs, tasks and cards as the user sees them | events, responses, snapshots, the user's operations | broker | events before and after the response they belong to, snapshots torn by running threads |
| Sessions and artifacts, `agent/orchestration/runtime.py`, `agent/store/records.py` | objects, sessions, messages, context boundary, files | create, close, delete, clear, append, keep | run control, Git | close and delete between the fetching of an object and its use; files and rows that must match |
| Configurations, `agent/store/records.py`, `agent/capability/agent_registry.py` | rows with revisions, default workflow, test results | save, disable, test, snapshot | runs | a configuration that changes while its connection is tested |
| MCP connections, `agent/mcp/client.py`, `agent/orchestration/runtime.py` | one thread, loop and server process per connection | connect, disconnect | requests | a start that is given up at any stage |

The sandbox, the planner and the effort policy, the preview browser, evaluation, command line, the
launch of the sidecar, the shell and the presentational views keep no state another part depends on;
PROJECT.json lists each with its reason.

### What makes it correct

- *Run control.* A session has one live run at most; a run that says it executes has a thread that
  will end or pause it; a waiting run can be answered; a run that is over is settled (no open input,
  no checkpoint); terminal statuses and first resolutions are final; an accepted stop decides the
  outcome; no approval is granted after its deadline, and a restart does not extend one; a request
  key names one run; a run goes on only in the worktree it paused with; its recorded diff contains
  no write of another run; every request returns.
- *Stages and Git.* The result of a reviewed run rests on a review of the code it delivers; no stage
  is entered twice under one key; what is offered as a rollback succeeds, restores what was there
  before the run and destroys nothing that is not the run's own.
- *Delegation graph.* A task starts after what it depends on succeeded; a writer is alone in the
  whole tree; no tool runs twice or before its approval; a task is blocked exactly when an ancestor
  failed; the graph ends; budgets and depth are respected; what it leaves can be retried.
- *Broker.* One child at a time; a caller that waits has somebody who will answer or fail it; after
  an exit nobody asked for the runtime comes back.
- *Frontend.* What the user sees never contradicts the rows for good: what is over stays over, no
  grant is shown that was not recorded, and when everything is delivered page and rows agree.
- *Workbench.* A new run freezes whole rounds of its session, the newest that fit, and what its agents
  and the runs that retry it get of them has no gap; a run can be reached
  and stopped; files and rows match; a passed test is about the present configuration; no server
  process outlives its connection.

## Modules

| Module | Models | Used by |
| --- | --- | --- |
| `RunLifecycle` | the abstract promise about the rows of runs and interactions | `WorkflowSession` implements it |
| `WorkflowSession` | run control, approval deadlines, reservations, checkpoints, records of runs | `MCWorkflowSession` |
| `WorkflowSessionInv` | the inductive invariant of `WorkflowSession`, kept by every step | |
| `WorkflowSessionProofs` | theorems about `WorkflowSession`: safety, what a step may never do, the refinement, worktrees, diffs | |
| `GitRuns` | state and operations of `git.py` | `Stages` |
| `Stages` | the staged workflow of runs over `GitRuns` | `MCStages` |
| `StagesProofs` | theorems about `Stages` and the snapshots of `GitRuns` | |
| `Delegation` | the task graphs of one run, its budget and task rows | `RetryPlan`, `MCDelegation` |
| `RetryPlan` | retry plans, read off the states in which `Delegation` ends | `MCDelegation` |
| `DelegationProofs` | theorems about `Delegation`: one role, the tree of roles, rows, consent | `RetryProofs` |
| `RetryProofs` | the theorem about `RetryPlan` | |
| `RuntimeBroker` | the Rust broker | `MCRuntimeBroker` |
| `RuntimeBrokerProofs` | theorems about `RuntimeBroker` | |
| `RunView` | the stores of the page and the wire side of the runtime that feeds them | `MCRunView` |
| `RunViewProofs` | theorems about `RunView`: the page against the rows | |
| `Catalog` | configurations and connection tests | `Conversations` |
| `Conversations` | sessions, messages, context, artifacts, deletion | `Workbench` |
| `McpLinks` | connections to MCP servers | `Workbench` |
| `Workbench` | the runtime as one client drives it: the composition of the three | `MCWorkbench` |
| `WorkbenchProofs` | theorems about `Workbench` and its parts | |

### RunLifecycle

Six variables (status, session and key of each run, its open interactions, the settled ones, the
granted ones) and five actions: `Start`, `Pause`, `Answer`, `Reissue` (a restart asks again under
new names) and `End` (of several runs at once, after a crash). It says at once that a session has one
live run, a key one run, that ends are final, that resolutions are final, that a waiting run has an
open interaction and that an end settles what its run asked and grants nothing. `WorkflowSession`
maps to it with `open` as the pending inputs of a run, `settled` as the resolved and expired ones,
and `granted` as the inputs with an approving verdict (`RowsFollowLifecycle`).

### WorkflowSession

*State.* The rows `status`, `owner`, `keyOf`, `input` and `saved` are the columns of `runs`,
`interactions` and `run_checkpoints` the control depends on, and survive a crash. `held` and `state`
are `WorkflowSession._active`; `lock` is the non-blocking execution lock, `control` the control
RLock; `worktrees`, `deadlines`, `thread` and `sched` are the other memory of the process. `before`
and `after` are the two Git snapshots of a run, as sets of whose writes they contain.

*Grain.* A section that holds the control lock from its first to its last line is one action, guarded
by `ControlFree`. Everything else is cut where another thread can get in: `resume` is admitted
(`ResumeRequest`), compares the worktree, commits (`ResumeCommit`) and arms in separate actions; an
execution reserves, begins, drives, commits a pause (`WaitCommit`, outside the control lock), looks
for a late stop (`PostExecute`, its closing section), and leaves. The scheduler pops a deadline,
expires, and notifies in three.

*Abstractions.* What an agent does between two safe points is to write files, pause, complete or
fail; which stage it is in is the subject of `Stages`. A transaction is atomic; the one that ends a
run can fail (`MaxFaults`), the others cannot. Times are ticks, and a deadline is creation plus
`Timeout`. A crash is possible in every state, in the recovery from the last one too: between two
restorations, before the sweep, and before the deadlines are armed. The look-up of a request key
before the lock is taken is no step: a request that found no key then, and comes to the lock when a
run with its key exists, is one that starts later.

*What it shows beside the properties.* `_notify_timeout` (workflow_session.py:1337) sends the
terminal notification of a timed-out run only when the execution lock is free at that moment;
`docs/architecture.md:109` promises it without this condition. The client learns the end with its
next request.

### GitRuns and Stages

*State.* A file is its content, known by a number and by the run that was executing when it was
made, and the time it was written. `wt`, `index` and `head` are the repository; the index keeps the
time of the file it compared, because `git status` rewrites it and the hash of a snapshot covers it.
`points` are `_checkpoints` of the `GitRepository`, `packs` what carries them over a restart, `rb`
the rollback in progress. `st` is the state of the current run with its row.

*Grain.* A rollback takes its safety snapshot, restores file by file, then the index, then looks at
the result; each step can fail, which starts the way back, and edits by others fall in between. A
stage is a few actions: its work, its commit, each kind of wait, each kind of answer. Edits, staging,
commits and a look at the changes happen at any time.

*Abstractions.* Agents write one file per step; a review passes, fails or asks; pictures are the tree
they show, and how often files changed while they were taken. The runs of a session follow each
other; that several threads may control one is `WorkflowSession`.

*What it shows beside the properties.* Between the comparison and the first restored file
(git.py:480-489) there is no lock: an edit of that moment is overwritten; the properties exempt what
is written while a rollback is under way.

### Delegation and RetryPlan

*State.* A role is named by the path of task numbers from the root's plan to it, so a role and the
task that drives it are related by `CallOf` and `Caller`. `node`, `plan`, `rounds` and `result` are
the values of a role's `DelegationState`; `phase` says where each task of the present superstep
stands (sent, running a tool, driving a role, asking, with a result, with an error); `pending` and
`answered` are `child["pending"]` and the response on its way down; `row` are the task rows,
`reserved` the shared budget. `calls` and `consents` are history.

*Grain.* A node of a graph is one action, except `execute`: each task of a wave starts, runs its
tool and returns by itself, a task that calls an agent advances that agent's whole graph, and the
stream of a graph writes each result into its row on its own (`RecordResult`). An interrupt makes
the role pause, then the task that drives it, up to the root (`PauseWave`); `Answer` starts the way
down, one role at a time (`ResumeAgent`), while other tasks that asked ask again (`AskAgain`). An
error with a code leaves a role when no thread of its wave works any more (`RaiseWave`).

*Retries.* `RetryPlan` evaluates `retry_scope` and `build_retry` in every state that ends a run, for
the whole run and for every task with a row, and compares them with what a retry must do
(`RetryIsSound`). `Delegation` has no crash: the rows of a run that one interrupted are not among
these states. The closure of missing steps is stated as a least set, the code computes it with a
recursive visit.

*Abstractions.* The language model is a set of plans per agent; a tool reads or writes; how the
executor of langgraph behaves (a superstep waits for its threads, an interrupt does not stop its
siblings, only interrupted tasks are run again) is taken from how `delegation.py` uses it and from
its locked version. Old plans are the ones without any `depends_on`. Plans of a root that cannot
delegate start all tasks of such a plan at once, writers too, as `docs/architecture.md` says they
shall; `WriterIsAlone` exempts them.

*What it shows beside the properties.* An error with a code in one of two parallel delegates does
not stop the other: it finishes its whole subtree first. A role that clarified plans again, and its
new plan replaces its reservation.

### RuntimeBroker

*State.* `process`, `generation`, `pending`, `status` are the fields of `BrokerInner`, `lifecycle` the
holder of the lifecycle mutex; `child` is the process of each generation with the requests it has
read and the lines it has written; `reader` is the thread of each generation, which after the end of
its stream runs `handle_exit` and perhaps the automatic restart; `thread` holds where the callers
and the restarting threads stand, `reply` what each caller was told.

*Grain.* Each mutex of `BrokerInner` is held for a line or two, so a step is the code between two of
them; only `lifecycle` spans steps. A write into the pipe of a dead child fails. The
child answers each request it has read, in any order; whether it announces itself is a constant,
because no module of the repository sends `runtime.ready`.

*What it shows beside the properties.* The state stays `connecting` with the repository's own
runtime for that reason. The report of an exit can overwrite the status of the next process. Drop
stops nothing while a reader thread runs, since the thread holds the last reference (broker.rs:361).
Two failures leave a live child that the broker does not know any more, so that the next start puts
a second one beside it: a line that is not UTF-8 makes the reader drop the `Child` unkilled, and a
kill that fails returns from `stop_locked` (`kill()…?`, broker.rs:209) with the entry taken out and
the waiting requests not failed. `OneProcess` is stated without the two, `PendingIsServed` without
the second.
`restart_count` counts manual restarts too although `status.rs` speaks of automatic ones.

### RunView

*State.* `db` are the rows, `job` the threads of the runtime, `inbox` and `events` the two directions
of the wire, `call` the asynchronous operations of the page, `view` the stores.

*Grain.* An operation of the page is cut at each `await`: it reads the stores, sends, and continues
when its answer is there, whatever happened meanwhile. The reading of a snapshot takes one step per
run, so a running thread can change rows between them; notices arrive in the order they were written,
answers at any time; a request may be given up (`MaxLost`), as the broker does after 300 s.

*Abstractions.* A run has one task, pauses once at most and asks for one approval or input. Streamed
text, activities and display settings are left out.

### Catalog, Conversations, McpLinks and Workbench

*State.* `Catalog`: the rows of providers, models, agents and workflows, the keyring and the tests
under way. `Conversations`: rows and messages of sessions, the objects the runtime holds for them,
the runs with the history they froze, the inputs their agents got, artifact files with their .tmp
files and rows, and where each worker and a deletion stand. `McpLinks`: for each client where its
thread is and its flags, the server processes that run, the names connected.

*Grain.* The reader serves one request after the other and is atomic where no other thread shares
what it touches; a deletion and a connection take it several steps. A worker fetches the object of a
session, begins, works and ends in separate steps; the thread of a client is cut at each flag it
shares with the request that waits for it. An artifact is kept in three steps (the .tmp file, the
renaming, the row), of which each can fail, and the files of a deleted session go one by one until
one fails.

*What a run knows.* `Records.context` cuts between rounds, and `run.start` freezes its result
(`HistoryIsWhole`). For each agent `_input` cuts again, by the size of the JSON text, and what it drops
is a message and those after it up to the next one of the user (`Trimmed`): in a round with a
clarification that is its middle, so an agent may get the answer without the question. `run.retry` takes
over what an agent of the former run got, or nothing (`Known`), though the context was cleared or new
rounds were had since. What holds of all of it is `InputIsRecent`: a gapless end, from a message of
the user on, of what was public when the first run of the chain of retries started.

*Composition.* `Workbench` composes the three over one reader, the workers and the threads of the
clients. What one client asks for at once is a group of uses: the product of all of them would have
too many states, so a behaviour picks one of `Groups` in its initial state and the run covers each.
Parts of different groups share the reader only, which serves one request at a time anyway. One
reader means one connection: over a WebSocket two connections have two readers, and two of them
connecting the same MCP name race between the check and the entry (runtime.py:491); this is outside
the model.

*What it shows beside the properties.* A run that was started on the object of a session that was
closed meanwhile fails at `begin_run`, and the run is recorded as failed; an object that is loaded
again between the closing and the deletion of its session stays registered after it. A crash between
the file of an artifact and its row leaves the file (records.py:627), a failing write or renaming its
.tmp file (records.py:634), and a removal that fails after a deletion the files that were left
(records.py:677); nothing looks for them. The keyring is changed before
the row that refers to it (persistence_api.py:318). The guard that keeps the default workflow enabled
compares with `is False` (records.py:432), and a 0 passes it. A close that meets the end of the
client's thread can find its loop already closed (client.py:105), and is answered as
`internal_error`.

## Runs

Bounds are the constants of each cfg; the names starting with `Max` cut counters the code does not
have.

| Run | Instance | Checks |
| --- | --- | --- |
| `session_approvals` | 1 session, 2 runs, 2 inputs, 2 threads, 3 requests, clock 0..2 (1.1 M states) | `TypeOK`, `ApprovedInTime`, `StopDecidesOutcome` while approval, timeout, cancel, close and the executing thread compete |
| `session_worktrees` | 3 sessions, two in one worktree and one in a nested one, one repeated key (1.9 M states) | `CleanDiff`, `WorktreeExclusive` |
| `session_restart` | 2 runs, 2 inputs, 1 thread, one repeated key, two crashes or one and a database failure, edits by the user (2.1 M states) | `LiveRunsAreHeld`, `DeadlineSurvivesRestart`, `ResumesOnSameTree`, and the refinement `RowsFollowLifecycle` |
| `session_liveness` | fairness, no symmetry, no database failure (0.13 M states) | `OverdueIsRejected`, `StopEndsRun`, `RequestReturns` |
| `expiry_retry` | violated, one database failure | `OverdueIsRejected`: the scheduler's retry does nothing |
| `stages` | 2 runs, the first reviewed with one revision and with pictures that need an approval or are refused, the second single; one file of the workspace and one beside it, 2 edits or commits, one retry, one failing step or restart (4.0 M states) | `TypeOK`, `ReviewBacksResult`, `AgentRunsAreDistinct`, `RollbackIsExact`, `NothingForeignLost` |
| `unwind` | violated, two single runs | `StaysRevertible`: rolling back, or only looking at the changes, takes the next rollback away |
| `delegation` | 6 agents, plans of up to 3 tasks, 2 levels of delegates, one clarification per role, budget of 6, interactive and silent roots, fairness (0.15 M states) | `TypeOK`, `CalledOnce`, `ConsentReachesAsker`, `WriterIsAlone`, `DependenciesDecide`, `NoDeadEnd`, `RetryIsSound`, `EndsOrAsks` |
| `broker` | 2 callers, a child that announces itself, one exit, one restart, one failing spawn and kill, one undecodable line, fairness (0.94 M states) | `TypeOK`, `OneProcess`, `PendingIsServed`, `RuntimeComesBack` |
| `view` | 2 runs, 2 operations of the page, one request given up (1.2 M states) | `TypeOK`, `VerdictIsTrue`, `ViewSettles`, `OverStaysOver` |
| `view_timeout` | violated, 1 run | `StopShowsTheEnd`: the page marks a run as failed that is being stopped |
| `workbench` | 2 agents, 2 models, 1 provider, 2 workflows, 2 edits; 1 session, 3 runs, 2 workers, 5 messages of two sizes, 2 artifacts, one failing operation on files, a crash; 2 names and 3 MCP connections (0.84 M states) | `TypeOK`, `TestShownIsCurrent`, `HistoryIsWhole`, `InputIsRecent`, `FilesMatchRows`, `RunsAreReachable`, `ServerIsReclaimed` |

*Why the bounds are enough.* Two threads are needed for every race of the session, since the lock
discipline is per session and a third thread can only be refused at the same points; two runs are
needed to have a successor of a run that waits or ends; two inputs to have one approved and one
overdue; `Timeout` of one tick lets a deadline fall before, in and after each step. In the broker
two generations are needed for a stale thread and a third for the automatic restart after it. In the
delegation graph three tasks make a chain, a diamond's half and a wave of two readers before a
writer; two levels make a writer reachable only through an agent that writes nothing itself; the
budget of 6 admits some of the plans and refuses others in the middle of a run. In `stages` two runs
make a rollback that is not of the latest one, and two writes put an edit by somebody else before,
into, between or after the write of a run. On the page two operations race with each other and with
the notices of the runs; every further one can only repeat what one of the two does. In
`session_restart` two cfg constraints keep the instance small: `TwoFailures` (of crashes and
database failures two in all) and `PausedWorld` (time passes and the user edits only while a run is
paused or about to go on; an edit before that belongs to the tree the run pauses with). The second
crash is there to hit the recovery from the first. One thread is enough for a key that is sent
twice, since the execution lock lets one request of a session start at a time; several are left to
the theorems. In `workbench` three objects of one session let a worker hold a closed one, and three
connections let a name be taken again while its former client still ends. Two sizes and a budget of
seven make histories that are cut between rounds and again inside one, and three runs a run, its
retry and one beside them; a retry of a retry that has a history is out of their reach, and chains
of any length are covered by `InputTheorem` only. Two artifacts let a removal fail with one file
gone and one left. Symmetry is used in safety runs only; in `session_worktrees` the two sessions in
one worktree are interchangeable too. `CHECK_DEADLOCK FALSE` where the system rests when the
requests of the bound are used up; in `stages` and `unwind` there is always something to do, and
deadlock is checked.

### What the violated runs show

- `expiry_retry`: `expire_approvals` sets the stop flag before the transaction that may fail, and
  its retry gives up because the flag is set (workflow_session.py:526). The overdue approval stays.
- `unwind`: `rollback` puts the index back byte by byte and then asks for the status, which rewrites
  it; the rollback of the run before compares these bytes and is refused although nobody changed
  anything (git.py:497).
- `view_timeout`: when the broker gives up on `run.start` after 300 s, the page takes its latest run
  for failed, also when it is being stopped and goes on (runtimeStore.ts:245).

### Fairness

A thread that has accepted a request goes on (`WF` on its work), the scheduler thread works, and
recovery proceeds: the operating system schedules threads, and no step of theirs waits for a lock
that is held while another waits. Requests, crashes, the clock and edits have no fairness. A pause
that waits for the user ends only through the user or its deadline, so no fairness is assumed of
`Resume`. In the broker the threads and the child's reading are fair, exits and faults are not. Weak
fairness is enough also for a thread that waits for `lifecycle`: others may take the mutex first,
but their sections end, and within the bounds requests and exits are finitely many.
In the delegation graph weak fairness of `Work` says only that some thread of the run moves when one
can; `Answer` and `Cancel` belong to the user and have none. In the workbench each MCP client's
thread is fair, since what it asks the server for has a timeout, and so is the reader that waits for
it, since its waiting has one; the server itself may die at any time.
`ViewSettles` needs no fairness: it speaks of the states in which everything is delivered.

## Proofs

`tlapm` checks eight modules. Together they prove, for every value of the constants:

| Theorem | States | Checked by run |
| --- | --- | --- |
| `Invariant` | `Spec => []IInv`, the inductive invariant of run control | |
| `TypeCorrect` | `Spec => []TypeOK` | `session_approvals` |
| `OneLiveRunTheorem` | one live run per session | |
| `ExecutorHoldsLockTheorem` | an executing run has its thread | |
| `LiveRunsAreHeldTheorem` | live rows are held entries while requests are served | `session_restart` |
| `WaitingHasInputTheorem` | a waiting run can be answered | |
| `OverIsSettledTheorem` | a run that is over is settled | |
| `TerminalIsFinalTheorem` | a terminal status is final | |
| `SettledOnceTheorem` | the first resolution of an input is the only one | |
| `ApprovedInTimeTheorem` | nothing is approved after its deadline | `session_approvals` |
| `DeadlineSurvivesRestartTheorem` | restarting extends no deadline and reissues nothing overdue | `session_restart` |
| `OneRunPerKeyTheorem` | one run per request key | |
| `RowsFollowLifecycleTheorem` | `WorkflowSession` implements `RunLifecycle` | `session_restart` |
| `WorktreeExclusiveTheorem` | two threads never drive overlapping worktrees | `session_worktrees` |
| `StopDecidesOutcomeTheorem` | an accepted stop decides how a run ends | `session_approvals` |
| `ResumesOnSameTreeTheorem` | a run goes on only in the worktree it paused with | `session_restart` |
| `CleanDiffTheorem` | no diff contains another run's writes, until a transaction of `_finish` fails | `session_worktrees` |
| `ApprovalsWatchedTheorem` | somebody watches the deadline of every open approval | |
| `StopsAreHeardTheorem` | an accepted stop has a thread that will see it | |
| `NothingIsLeakedTheorem` | what is locked or reserved is held by a thread that gives it back | |
| `NoDeadEndTheorem` | no validated plan runs into a dead end | `delegation` |
| `CalledOnceTheorem` | no tool is run twice | `delegation` |
| `TypesTheorem` | the types of the delegation graphs, budget and rounds included | `delegation` |
| `WriterIsAloneTheorem` | a writing tool runs alone in the whole tree | `delegation` |
| `DependenciesTheorem` | rows follow the dependencies; blocked exactly below a failure | `delegation` |
| `ConsentTheorem` | a writing tool runs after its own request was granted | `delegation` |
| `RetryTheorem` | every retry of every ended run is sound, runs ended by a crash aside | `delegation` |
| `WorkIsLeftTheorem` | while the run is running, some role or task can go on | |
| `StagesTypes` | files, snapshots, checkpoints, packs and rollbacks keep their types | `stages` |
| `AgentRunsTheorem` | no stage is entered twice under one key | `stages` |
| `ReviewTheorem` | a reviewed result rests on a review of its own code | `stages` |
| `ForeignTheorem` | a rollback loses nothing but what its run wrote | `stages` |
| `RollbackTheorem` | a rollback puts everything back, or undoes itself | `stages` |
| `OneChild` | no two runtimes are alive at a time | `broker` |
| `NobodyForgotten` | a waiting caller is answered or failed | `broker` |
| `TypeCorrect` (of `RuntimeBrokerProofs`) | the broker's variables keep their types | `broker` |
| `ExitFollowed` | after an exit somebody is on the way to the next start | |
| `WorkbenchInvariant` | the inductive invariant of the workbench | |
| `WorkbenchTypes` | rows, sessions and links have their types; one live run per session | `workbench` |
| `TestShownTheorem` | a passed test is about the present configuration | `workbench` |
| `HistoryTheorem` | `run.start` freezes whole rounds, the newest that fit | `workbench` |
| `InputTheorem` | what agents and retries get is a gapless newest part, however often cut | `workbench` |
| `FilesTheorem` | no row is without its file; no file is left unless something failed | `workbench` |
| `ReachTheorem` | a run that executes or waits can be reached | `workbench` |
| `ReclaimedTheorem` | a server nobody holds has been told to end | |
| `PageInvariant` | the inductive invariant of the page and what feeds it | |
| `PageTypes` | stores, rows, calls and notices keep their types | `view` |
| `VerdictTheorem` | the page shows no verdict that is not recorded | `view` |
| `OverTheorem` | what is shown as over stays so, whatever arrives late | `view` |
| `SettlesTheorem` | with nothing under way the page agrees with the rows | `view` |
| `CallsServedTheorem` | a call without an answer has somebody who answers it | |

The assumptions of the session's theorems are `ConstantsOK` only: `Overlap` is reflexive and
symmetric, `Nobody`, `NoKey` and `User` are values of their own, and the bounds are numbers.
Some theorems have no run of their own. The inductive invariants are there for the others. Those
about rows and inputs (`OneLiveRunTheorem` to `OneRunPerKeyTheorem`) are part of `RunLifecycle`,
whose refinement a run checks. Seven are the halves of liveness that can be proved, see "Who is on
the way".

### Run control

*The invariant.* None of the properties is inductive alone. Two live runs of one session are
excluded because a run is inserted only when no other is live, but also because a run that ended is
not revived: a pause commits outside the control lock, so one has to know that nobody ended the run
meanwhile; nobody does because cancel, close and expiry leave a run to its thread while it executes;
that it executes while the thread is between begin and its closing section is `ExecutionOK`; that
one thread at most does so is `ExecutorOK` with the execution lock; and that the lock is the
thread's is `ThreadsOK`. `CommitOK` says the same of the two clock readings of resume, which hold
the control lock. `HeldOK` and `RowsOK` relate rows and entries. `IInv` is their conjunction.

*The argument.* `WorkflowSessionInv` proves once what a call of `_finish` leaves behind (`Ends`), and
that the ten actions in which a thread ends its own run are instances of `ThreadEnds`, the ones in
which somebody else does of `OthersEnd`. Then it proves that each action keeps `TypeOK`, and has one
lemma per remaining action and conjunct. `WorkflowSessionProofs` combines them and proves the action
properties from the invariant.

*Outcome and tree.* `StopDecidesOutcome` and `ResumesOnSameTree` are about single steps, and their
steps need `IInv` to know which thread may end or resume a run. They fail for a state no execution
reaches, a restart that finds a stop flag: `QuietOK` says that before requests are served nobody has
asked a run to stop.

### The refinement

`RowsFollowLifecycleTheorem` shows that the initial rows are the lifecycle's and that under `IInv`
every step is a step of it or leaves its variables alone. Most actions touch no row (`RowsAlone`).
The others are few: an insertion is a `Start` (`CreateFollows`, which needs the invariant for the
key and the live run), the commit of a pause a `Pause` (`WaitFollows`: the run is still running
because only its thread could have ended it, and the new interactions are fresh), the commit of an
answer an `Answer` (`CommitFollows`, which grants only what was approved in time), a restored wait
point a `Reissue` (`RestoreFollows`), the sweep an `End` of several runs (`RecoverFollows`), and
everything that calls `_finish` an `End` of one (`EndFollows`, `EndsFollows`).

### Worktrees

`WorktreeExclusive` speaks of threads that drive, not of what is reserved, and a failing path that
gave a root back twice would break it long after. The proof therefore follows the reservation
(`ReservedOK`): what a thread has reserved is in `worktrees`, a thread that drives has reserved, and
two threads with reservations have roots that do not overlap. Each action of a thread keeps its
reservation (`Keeps`), takes one after it was found free (`Takes`) or gives it back (`Gives`), and
one lemma for each of the three shows that the invariant stays.

*Diffs.* `CleanDiff` compares two snapshots taken at the ends of a run, so its invariant must account
for every place where a run can stand between: before its first step it has no snapshot, while it
drives nobody else writes into its worktree (`WorktreeExclusive`), while it pauses its entry or its
saved row keeps a tree in which only it and the user have written (`RowClean`), and a thread that
brings it back has compared the worktree with that tree (`ThreadClean`). The theorem has a premise,
`spent.faults = 0`: when the transaction of `_finish` fails, the run stays live without a worktree
and without a frozen tree (workflow_session.py:1406), and whoever ends it next records a snapshot of
what others wrote meanwhile. With a failing transaction TLC finds `CleanDiff` violated; the run
`session_worktrees` has none, which is the case the theorem covers.

### Delegation

`DelegationProofs` and `RetryProofs` prove their theorems for any agents, plans, depths and budgets,
from `ConstantsOK` (plans are finite sequences of tasks, plans of older planners name no dependency).

*The invariant.* `IInv` says of each role that a plan it works on was validated (`PlansOK`), that
tasks of the present wave have no result yet (`WaveOK`), and that a tool that was run has left its
result or is still in the wave (`CallsOK`). The last one is what makes re-running part of a wave
harmless, and it needs `WaveOK`: a task is sent only while it has no result.

*The argument.* Most of the twenty actions change a node or a phase in one of a few ways (`Mild`);
one lemma shows that these keep the invariant and one lemma per action that it is of this kind.
Planning, sending a wave, running a tool and ending a wave are proved apart. For the dead end, the
open tasks that are not blocked form a set in which, by `Acyclic`, one task depends on no other;
everything it depends on has then succeeded, so it is ready (`SomeReady`); the first ready task of
the plan is in the wave, alone or not (`SomeWave`). That a set of tasks has a first one (`Least`)
rests on the well-foundedness of inclusion of finite sets, since the library's induction over
numbers is out of the prover's reach.

*The tree.* A role is a sequence of tasks, so what holds between a role and the roles below it is
stated with prefixes. `CalleesOK` says that a role was called by a task of its caller's plan and has
the agent this task names; with `SafeOK` it follows that below an agent of `ReadOnlyDelegates` nobody
writes, although `read_only_delegates` looks at lists of tools and not at plans. Two tools that run
in different roles meet in the wave of the role where their paths part (`WavesOK`), and this wave
holds both only when both are parallel-safe. `ActiveOK` is what makes the roles above a running tool
be at work.

*Rows and retries.* `ResultsOK` orders the results of a role by its dependencies, `RowsOK` binds the
rows to the results while the run lives. For `RetryIsSound` this has to be carried over the end of
the run (`EndedOK`), where the rows of unfinished tasks are overwritten, and a completed call must
have nothing unfinished below it (`BehindOK`, `DoneOK`). The closure of `Missing` is used by its
definition as a least set, `Chosen` by unfolding it once along the path of a role.

*Consent.* A grant is given to the request on show, which may be one of a role far below the root,
and travels down one role per step while other requests come up. `AnswersOK` says of a grant on its
way that the requests on show lead from where it is to a role whose own request the user granted;
`PausedOK` and `AskingOK` that the roles of this path stay where they are until it arrives.

### Stages and rollback

`StagesProofs` proves its theorems for any paths, runs, workflows, revisions, edits, retries and
failing steps. The assumptions are that scope and siblings have no path in common, that runs are
positive numbers, that the workflows of `Starts` are known, and that `MaxRevisions` and the bound
`MaxClock` are in their range.

*The invariants.* Four, one on top of the types. `TInv` has, beside the types, that a session keeps
one checkpoint per run and that a live run and a rollback in progress have theirs: without it
`checkpoint` would be no function. `AgentsOK` follows the keys under which agents have run; a review
that is about to begin has a key above all keys used, because every answer that leads back to it
raises the attempt or the iteration. `ShotsOK` says what the pictures show: of the two looks at the
worktree the first pins the tree to the code or to an edit after the pictures began (`stirred`), and
the second leaves either the same tree or two edits. `FilesInv` is about content: what differs in the
scope between the snapshot before a run and the one after it, while it executes, while it waits and
in the pack that carries it over a restart, was written by the run or deleted (`Wrote`); and during a
rollback every path of the scope is what the step reached says it is, unless it was edited meanwhile
(`RollbackOK`), on the way to the target as well as on the way back.

*The argument.* A stage leaves its run in one of three ways: it pauses, ends or stays (`Paused`,
`Closed`, `Stays`), and one lemma per way and invariant does for all stages. What a checkpoint list
becomes by an insertion, a replacement or a restart is proved once (`AppendKeeps`, `PutKeeps`,
`OnePoint`). `NothingForeignLost` then needs the comparison with which a rollback begins: the
worktree is what the run left, so what is to be restored is what the run wrote. `RollbackIsExact`
reads the last step off `RollbackOK`, with nothing left to do; that only this step marks a run as
reverted is `WhoMarks`.

### The broker

`RuntimeBrokerProofs` proves that one child lives at a time and that no caller is forgotten, for any
callers, requests and numbers of exits, restarts and faults, from `BrokerConstantsOK` (callers,
generations, requests and `Nobody` are different things).

*The invariant.* A thread is in a section of `lifecycle` exactly when it holds the mutex
(`HolderOK`), so one thread at most moves the generation, and only after it saw that there is no
process (`SpawnOK`). `OneProcess` alone is not inductive: one has to know that a process is the
current generation, or about to be killed, and has a reader on its way (`ProcessOK`), that a reader
leaves only when its child is dead (`LeftOK`, which fails with a garbled line), and that generations
are made once and in order (`FreshOK`, `MakingOK`). Then a live child is the process or is about to
be registered (`AliveOK`), and never both. For the callers, `TableOK` follows the entry in the table
from before the line is written, and `WatchOK` the process a caller writes to: whoever takes that
process out still has the draining of the table before it.

*The argument.* One lemma per part of the invariant, with the parts it needs as hypotheses; under it
one step per group of actions, split where an action disturbs the part.

### The workbench

`WorkbenchProofs` proves its theorems from `CatalogConstants`, `ConversationConstants` and
`McpConstants`: the constants have their types, and `None` is no row.

*The invariant.* Each part has its own, and `AllOK` is their conjunction, since a step is a step of
one part. `TestsOK` says that a saved test carries the fingerprint of what was tested, whatever was
saved meanwhile; `CatalogOK` bounds revisions and keeps the default workflow on. `McpOK` relates the
flags of a client to where its thread and the request that waits for it stand. `TalkOK` has the most
to say: a worker that executes has a running run of its own, on the object the runtime holds
(`JobsOK`, `RunsAreReachable`), which is what refusals of `close` and `delete` and the order of a
deletion protect; and messages of one session come in the order of its runs (`LogOK`), without which
neither "whole rounds" nor "none from before the context was cleared" would follow from the
position at which `context` cuts.

*The argument.* `HistoryIsWhole` is about sums over sets of messages: `WholeIn` states it for any
log, `ContextIsWhole` shows it for what `context` chooses (the greatest message that no longer fits,
found by the well-foundedness of the order of the numbers), and `FrozenStays` that messages that are
added or boundaries that move change nothing for a run that has begun. `InputIsRecent` refers to the
run at the head of a chain of retries (`base`), whose frozen history is recent by the first
property; `NewestIn` states it for any log, `TrimmedIsRecent` shows that trimming keeps it, for
which the goal of each run must open its round (`Opened`) and every round begin with a message of
the user (`Led`), and a retry takes over a set for which it already holds. For the files, the worker
that keeps one and the deletion that unlinks some are excluded from each other by the idle check of
the delete. One lemma per action shows what it moves, and `NextOK` combines them.

### The page

`RunViewProofs` proves its theorems for any numbers of runs, operations of the page and
requests it gives up on, from `ViewConstantsOK`: the bounds are numbers.

*The invariant.* The page is never compared with the rows directly. It learns of them by notices,
answers and snapshots that may be older than the rows when they arrive and overtake each other, so
the invariant has three parts. What is on its way is partly true: of every answer, snapshot and
notice it says what these still have in common with the rows (`UpdateOK`, `SnapOK`, `EventOK`,
`ReplyOK`): an end they report is the end recorded, a resolution the one recorded, a run they name
exists. That stays true because rows only move forward (`Moves`). What is shown is partly true in
the same way (`Fits`, `OverAt`). And what is not yet shown is still coming: an end its notice
(`EndComes`), an open input its notice, unless a call that answers it is under way (`AskComes`), a
verdict its notice (`VerdictComes`), and a lock of the page the end of its call or the notice of the
verdict (`SendingEnds`, `RetryingEnds`). Runs that a failed call has marked (`Blamed`) are exempt
exactly where the properties exempt them: the catch of a start or an answer marks a run as failed
although the runtime may go on with it.

*The argument.* The reducers are composed of each other, and most actions apply several, so they are
treated as functions on views apart from the actions. A reducer `Leads` from a view to another when
the new view is sound for the rows, whatever was over stays over, and no card is dropped that is
asked; the relation composes, and there is one lemma per reducer. The actions of the runtime then are
`RuntimeStep`s: rows move, and what is emitted fits them. Those of the page are steps that settle a
call, mark a run, ask something or deliver a notice (`SettleStep`, `BlameStep`, `AskStep`,
`DeliverStep`), each from the reducers it calls. `OverTheorem` is read off `Leads`. `SettlesTheorem`
is the third part of the invariant when nothing is on its way; conversely, a card that is shown as
open belongs to a recorded run, and a run that neither works nor waits is over.

### Who is on the way

That something happens in the end has two halves: in every state somebody is at a place from which
it is bound to come, and who is there goes on. The second half is fairness and stays with TLC. The
first one is an invariant, and where these programs could go wrong: an entry that is taken out and
not put back, a flag that is set after its last reader has looked, a lock that one of many paths
keeps. Each liveness property has its invariant, proved for all values of the constants.

- For `OverdueIsRejected`: `ApprovalsWatched`. An open approval of a held run has the earliest
  deadline in the table, was popped by the deadline thread, or its thread has `_arm_deadline` or the
  closing section ahead. A stop that was accepted is the fourth case, and the one in which the
  retry of an expiry gives up (run `expiry_retry`). `WatchOK` adds the two phases of a start in
  which entries may be missing.
- For `StopEndsRun`: `StopsAreHeard`. Who holds the run and its session's lock has a look at the
  flag ahead, because a stop is accepted under the control lock and the closing section reads the
  flag under it too. A thread that leaves because the transaction of `_finish` failed skips that
  section (workflow_session.py:1406), so the theorem supposes that none did.
- For `RequestReturns`: `NothingIsLeaked`. Every execution lock, control lock and reserved worktree
  belongs to a thread whose place in its operation has the release ahead, over all operations and
  their failing paths; a session whose lock stayed taken would answer `RUN_BUSY` until a restart.
- For `EndsOrAsks`: `WorkIsLeft`. Among the roles that are driven there is a deepest one
  (`DeepestDriven`); none of its tasks waits for a role below it, because the role a task calls is
  driven too, so one of its own guards holds (`DeepestMoves`). This needs that a role that is driven
  has not ended (`DriveOK`), that a task that is entered again finds its role absent or paused
  (`SentOK`), and that a task whose role exists is in the wave or has its result (`CalledOK`).
- For `RuntimeComesBack`: `ExitIsFollowed`. When the current generation has left, its reader or the
  restart's thread is before the spawn, and whoever spawns first uses the generation up.
- For `ServerIsReclaimed`: `DroppedServerEnds`. A client that was given up has its shutdown flag
  set, or is in the handshake after which it looks at `closing`; `HeardOK` follows who holds a
  client, so that none is dropped without being told.
- The page has no liveness property, but `ViewSettles` speaks of states with nothing under way.
  `CallsAreServed` shows that these are not out of reach: a call without an answer has its request
  in the runtime or a thread that owes it one (`OwedOK`), also when the broker gave up on an
  earlier request of the same call or an end notice starts a load again.

TLC agrees with each of them on the instances of the runs.

### Only model-checked

Liveness: `OverdueIsRejected`, `StopEndsRun`, `RequestReturns`, `EndsOrAsks`, `RuntimeComesBack` and
`ServerIsReclaimed`, since the prover treats no `ENABLED`; what they need of every state is proved
(see above). What a recursive function computes for every input would need induction over
data, which is out of the prover's reach; where a proof meets one (`Chosen` in `RetryPlan`) it uses
one step of its definition. No module has a `RECURSIVE` operator.

## Plan

1. `WorkflowSession`, `RunLifecycle` and the refinement: done, with all safety properties proved. To
   be added: an insert whose transaction fails (workflow_session.py:243) and the orderly shutdown
   that keeps waiting runs.
2. `GitRuns` and `Stages`: done, with all properties that hold proved.
3. `Delegation` and `RetryPlan`: done, with all safety properties proved. To be added: feedback,
   restored roles, streamed agent rows.
4. `RuntimeBroker`: done, with all safety properties proved.
5. `RunView`: done for runs, tasks, cards and snapshots, with all safety properties proved. To be
   added: streamed text.
6. `Workbench` with `Catalog`, `Conversations` and `McpLinks`: done, with all safety properties
   proved. To be added: a second connection with a reader of its own, projects and their retention,
   prompts, calls of MCP tools.

## Not modelled

The language model, the sandbox and MCP servers are outside the program; their answers are
nondeterministic choices. Configuration files, prompts, rendering and the presentational views keep
no state that interacts. Orderly shutdown (`close(preserve_waiting=True)`) is treated as a crash that
loses nothing more. Of failing transactions the one that ends a run is modelled; an insert or a pause
that fails is not. How long a request waits for one of the four worker slots is bounded by nothing in
the code, so no property is stated of it.
