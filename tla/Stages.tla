------------------------------- MODULE Stages -------------------------------
(***************************************************************************)
(* The staged workflow of workflow_session.py: code, capture of the        *)
(* preview, visual review, revision or summary, with the points where it   *)
(* waits for the user, over the Git snapshots of GitRuns.  The runs of one *)
(* session follow each other; the user, and other sessions, edit the       *)
(* worktree, commit, look at the changes, roll back and restart the        *)
(* process whenever they like.  The control of a run by several threads is *)
(* the subject of WorkflowSession.                                         *)
(***************************************************************************)
EXTENDS GitRuns

CONSTANTS
  Starts,        \* for every run, the workflow kinds and approval modes it may start with
  MaxRevisions,  \* max_revisions of the workflow
  MaxClock,      \* bound: edits and commits
  MaxRetries,    \* bound: retries the user asks for, per run
  MaxFaults      \* bound: failing steps of rollbacks and restarts of the process

Kinds == {"single", "frontend-review"}
Modes == {"always", "interactive", "never"}
ASSUME StartsKnown == \A r \in Runs : Starts[r] \subseteq Kinds \X Modes
ASSUME RevisionsBounded == MaxRevisions \in 0..2
ASSUME ClockBounded == MaxClock \in Nat \ {0}

VARIABLES
  st,        \* the state of the current run, with its row
  preview,   \* the project has a preview configured
  faults     \* failing steps of rollbacks and restarts so far

vars == <<git, st, preview, faults>>

Terminal == {"completed", "failed", "cancelled", "interrupted"}
NoShots  == [tree |-> None, iteration |-> 0, stirred |-> 0]

Fresh(r, kind, mode) ==
  [run |-> r, kind |-> kind, approval_mode |-> mode, status |-> "running", pc |-> "drive",
   phase |-> "code", manual |-> "", iteration |-> 0, attempt |-> 0, code_tree |-> None,
   graph |-> FALSE, review_agent |-> FALSE, shots |-> NoShots, verdict |-> "",
   accepted |-> FALSE, capture_approved |-> FALSE, frozen |-> None, agents |-> {},
   duplicate |-> FALSE, retries |-> 0]

Init ==
  /\ \E born \in BOOLEAN :
       LET file == [c |-> [n |-> 1, by |-> 0], t |-> 1] IN
       /\ wt    = [p \in Paths |-> file]
       /\ index = IF born THEN [p \in Paths |-> file] ELSE None
       /\ head  = [id |-> IF born THEN 1 ELSE 0, branch |-> "main",
                   tree |-> [p \in Paths |-> IF born THEN file.c ELSE NoContent]]
  /\ points = None
  /\ packs = [r \in Runs |-> None]
  /\ rb = None
  /\ clock = 1
  /\ st = [Fresh(0, "single", "always") EXCEPT !.status = "interrupted"]
  /\ preview \in BOOLEAN
  /\ faults = 0

Executing == st.status = "running"
At(pc, phase) == Executing /\ st.pc = pc /\ st.phase = phase

(* Steps of one run leave these alone unless they say otherwise.           *)
Files == <<wt, index, head, clock>>
World == <<Files, rb, preview, faults>>

-----------------------------------------------------------------------------
(* What the stages do to the run's row, its snapshots and its pack.        *)
Over(s, status) == [Fresh(s.run, "single", "always") EXCEPT
                      !.status = status, !.duplicate = s.duplicate]
finish(s, status) ==
  /\ st' = Over(s, status)
  /\ finish_run(s.run, status, s.frozen)
  /\ discard_files(s.run)

(* wait, and the interrupt of the tool graph: the snapshot is frozen and  *)
(* saved for a restart when everything in it can be saved.                 *)
wait(s, manual) ==
  /\ st' = [s EXCEPT !.status = "waiting", !.pc = "drive", !.manual = manual,
                     !.frozen = capture]
  /\ finish_run(s.run, "running", None)
  /\ \/ export_checkpoint(s.run)
     \/ discard_files(s.run)

(* begin_agent: agent runs are unique by step, retry and iteration.       *)
KeyOf(s, step) ==
  <<step, IF step = "review" THEN s.attempt ELSE 0, s.iteration>>
Began(s, step) == [s EXCEPT !.agents = @ \cup {KeyOf(s, step)}]

(* unable: the agent run of a review that broke off is used again.        *)
unable(s) ==
  IF s.review_agent
  THEN wait([s EXCEPT !.review_agent = FALSE, !.verdict = "unable_to_review"],
             "review_unavailable")
  ELSE IF KeyOf(s, "review") \in s.agents
  THEN finish([s EXCEPT !.duplicate = TRUE], "failed")
  ELSE wait([Began(s, "review") EXCEPT !.verdict = "unable_to_review"],
             "review_unavailable")

-----------------------------------------------------------------------------
(* The code stage.                                                         *)
Start(kind, mode) ==
  LET r == st.run + 1 IN
  /\ st.status \in Terminal /\ r \in Runs /\ <<kind, mode>> \in Starts[r]
  /\ rb = None
  /\ begin_run(r)
  /\ st' = Fresh(r, kind, mode)
  /\ UNCHANGED <<World, packs>>

Code ==
  /\ At("drive", "code")
  /\ IF ~st.graph /\ KeyOf(st, "code") \in st.agents
     THEN finish([st EXCEPT !.duplicate = TRUE], "failed")
     ELSE /\ st' = [(IF st.graph THEN st ELSE Began(st, "code"))
                      EXCEPT !.graph = TRUE, !.pc = "coding"]
          /\ UNCHANGED <<points, packs>>
  /\ UNCHANGED World

CodeWrites(p) ==
  /\ At("coding", "code")
  /\ clock < MaxClock
  /\ edit(p, st.run)
  /\ UNCHANGED <<index, head, points, packs, st, preview, faults>>

CodeAsks ==
  /\ At("coding", "code")
  /\ wait(st, "")
  /\ UNCHANGED World

Coded == [st EXCEPT !.graph = FALSE, !.code_tree = capture.tree, !.pc = "drive",
                    !.phase = IF st.kind = "single" THEN "code" ELSE "capture"]

CodeEnds ==
  /\ At("coding", "code")
  /\ IF st.kind = "single" THEN finish(Coded, "completed")
     ELSE /\ st' = Coded
          /\ finish_run(st.run, "running", None)
          /\ UNCHANGED packs
  /\ UNCHANGED World

-----------------------------------------------------------------------------
(* The capture stage.                                                      *)
Capture ==
  /\ At("drive", "capture")
  /\ IF ~preview THEN wait(st, "preview")
     ELSE IF ~st.capture_approved /\ st.approval_mode = "never" THEN unable(st)
     ELSE IF ~st.capture_approved /\ st.approval_mode = "interactive"
     THEN wait(st, "capture_approval")
     ELSE LET s == [st EXCEPT !.capture_approved = TRUE] IN
          IF capture.tree # st.code_tree THEN unable(s)
          ELSE /\ st' = [s EXCEPT !.pc = "shooting",
                                  !.shots = [NoShots EXCEPT !.stirred = clock]]
               /\ UNCHANGED <<points, packs>>
  /\ UNCHANGED World

Shoot ==
  /\ At("shooting", "capture") /\ st.shots.tree = None
  /\ st' = [st EXCEPT !.shots.tree = capture.tree, !.shots.iteration = st.iteration]
  /\ UNCHANGED <<World, points, packs>>

(* Mutant: no second look.                                                 *)
CaptureOnce ==
  /\ At("shooting", "capture") /\ st.shots.tree # None
  /\ st' = [st EXCEPT !.pc = "drive", !.phase = "review", !.shots.stirred = clock - @]
  /\ porcelain_status
  /\ UNCHANGED <<wt, head, clock, rb, preview, faults, points, packs>>

(* The second look at the worktree, after the pictures are taken; then the *)
(* changes of the run are read for the reviewer.                           *)
CaptureEnds ==
  /\ At("shooting", "capture") /\ st.shots.tree # None
  /\ IF capture.tree # st.code_tree THEN unable(st)
     ELSE /\ st' = [st EXCEPT !.pc = "drive", !.phase = "review",
                              !.shots.stirred = clock - @]
          /\ UNCHANGED <<points, packs>>
  /\ \/ st'.phase = "review" /\ porcelain_status
     \/ st'.phase # "review" /\ UNCHANGED index
  /\ UNCHANGED <<wt, head, clock, rb, preview, faults>>

CaptureFails ==
  /\ At("shooting", "capture")
  /\ unable(st)
  /\ UNCHANGED World

-----------------------------------------------------------------------------
(* The review stage.  A reply is valid when its findings cite pictures of  *)
(* this round; a verdict other than unable_to_review follows from them.    *)
Replies == [verdict : {"passed", "changes_requested", "unable_to_review"},
            blocking : BOOLEAN, cites : BOOLEAN]
Valid(reply) == reply.cites /\ (reply.verdict = "changes_requested" => reply.blocking)
Verdict(reply) == IF reply.verdict = "unable_to_review" THEN reply.verdict
                  ELSE IF reply.blocking THEN "changes_requested" ELSE "passed"
Reviewed(reply) ==
  [st EXCEPT !.review_agent = FALSE, !.verdict = Verdict(reply), !.pc = "drive"]

Review ==
  /\ At("drive", "review")
  /\ \/ unable(st)                                  \* no model that sees images
     \/ IF KeyOf(st, "review") \in st.agents THEN unable(st)
        ELSE /\ st' = [Began(st, "review") EXCEPT !.review_agent = TRUE, !.pc = "reviewing"]
             /\ UNCHANGED <<points, packs>>
  /\ UNCHANGED World

ReviewFails ==
  /\ At("reviewing", "review")
  /\ unable(st)
  /\ UNCHANGED World

ReviewEnds(reply) ==
  LET s == Reviewed(reply) IN
  /\ At("reviewing", "review") /\ Valid(reply)
  /\ IF s.verdict = "unable_to_review" THEN wait(s, "review_unavailable")
     ELSE IF s.verdict = "changes_requested" /\ s.iteration >= MaxRevisions
     THEN wait(s, "review_limit")
     ELSE /\ st' = IF s.verdict = "passed" THEN [s EXCEPT !.phase = "summary"]
                   ELSE [s EXCEPT !.phase = "code", !.iteration = @ + 1]
          /\ UNCHANGED <<points, packs>>
  /\ UNCHANGED World

Summary ==
  /\ At("drive", "summary")
  /\ finish(Began(st, "summary"), "completed")
  /\ UNCHANGED World

-----------------------------------------------------------------------------
(* An exception no stage catches, and a stop at a safe point.              *)
Fails ==
  /\ Executing /\ st.phase \in {"code", "summary"}
  /\ finish(st, "failed")
  /\ UNCHANGED World

(* A cancel, or an approval that ran out of time; while the run waits its  *)
(* result is the frozen snapshot.                                          *)
Stop(status) ==
  /\ st.status \in {"running", "waiting"}
  /\ status = "failed" => st.status = "waiting" /\ st.manual \in {"", "capture_approval"}
  /\ finish(st, status)
  /\ UNCHANGED World

-----------------------------------------------------------------------------
(* resume: the worktree must be the frozen one; then the answer moves the  *)
(* run on.  The frozen snapshot is dropped once the run executes.          *)
Answers == {"approve", "reject", "accept", "cancel", "retry"}
AnswersTo(manual) ==
  CASE manual = "preview" -> {"approve"}
    [] manual \in {"", "capture_approval"} -> {"approve", "reject"}
    [] OTHER -> {"accept", "cancel", "retry"}

Resumed(answer) == [st EXCEPT !.status = "running", !.manual = "", !.frozen = None]
(* Mutant: a retried review keeps the key of the one that broke off.       *)
AnsweredSameKey(answer) ==
  LET s == Resumed(answer) IN
  CASE st.manual = "capture_approval" -> [s EXCEPT !.capture_approved = TRUE]
    [] answer = "accept" -> [s EXCEPT !.phase = "summary", !.accepted = TRUE]
    [] answer = "retry" /\ st.manual = "review_unavailable" ->
         [s EXCEPT !.phase = "capture", !.retries = @ + 1]
    [] answer = "retry" -> [s EXCEPT !.iteration = @ + 1, !.phase = "code", !.retries = @ + 1]
    [] OTHER -> s

Answered(answer) ==
  LET s == Resumed(answer) IN
  CASE st.manual = "capture_approval" -> [s EXCEPT !.capture_approved = TRUE]
    [] answer = "accept" -> [s EXCEPT !.phase = "summary", !.accepted = TRUE]
    [] answer = "retry" /\ st.manual = "review_limit" ->
         [s EXCEPT !.iteration = @ + 1, !.phase = "code", !.retries = @ + 1]
    [] answer = "retry" /\ st.manual = "review_unavailable" ->
         [s EXCEPT !.attempt = @ + 1, !.phase = "capture", !.retries = @ + 1]
    [] OTHER -> s
Refused(answer) ==
  answer = "cancel" \/ (answer = "reject" /\ st.manual = "capture_approval")

resume(answer) ==
  /\ st.status = "waiting"
  /\ rb = None
  /\ answer \in AnswersTo(st.manual)
  /\ answer = "retry" => st.retries < MaxRetries
  /\ IF ~same_state(capture, st.frozen) THEN finish(st, "interrupted")
     ELSE IF Refused(answer) THEN finish(st, "cancelled")
     ELSE /\ st' = Answered(answer)
          /\ UNCHANGED points
          /\ discard_files(st.run)
  /\ preview' = (preview \/ (st.manual = "preview" /\ st'.status = "running"))
  /\ UNCHANGED <<Files, rb, faults>>

-----------------------------------------------------------------------------
(* The user and the rest of the machine.                                   *)
Inside == IF Executing THEN st.run ELSE 0

UserEdits(p) ==
  /\ clock < MaxClock
  /\ edit(p, Inside)
  /\ UNCHANGED <<index, head, points, packs, st, preview, faults>>

(* A file beside the workspace matters here only once it is staged.        *)
UserStages(p) ==
  /\ IF p \in Scope THEN UNCHANGED <<wt, clock, rb>> ELSE clock < MaxClock /\ edit(p, Inside)
  /\ stage(p)
  /\ UNCHANGED <<head, points, packs, st, preview, faults>>

UserCommits(branch) ==
  /\ clock < MaxClock
  /\ commit(branch)
  /\ UNCHANGED <<wt, index, points, packs, rb, st, preview, faults>>

(* git.status, from the view of the changes or a tool of the agent.        *)
Look ==
  /\ porcelain_status
  /\ UNCHANGED <<wt, head, points, packs, rb, clock, st, preview, faults>>

(* git.rollback reserves the worktree; a run that waits does not hold it.  *)
Rollback(r) ==
  /\ ~Executing
  /\ rollback(r)
  /\ UNCHANGED <<Files, points, packs, st, preview, faults>>
RollbackPath(p) ==
  /\ restore_path(p)
  /\ UNCHANGED <<head, points, packs, st, preview, faults>>
RollbackEnds ==
  /\ restore_index
  /\ UNCHANGED <<wt, head, packs, clock, st, preview, faults>>
RollbackFails ==
  /\ faults < MaxFaults
  /\ restore_fails
  /\ faults' = faults + 1
  /\ UNCHANGED <<Files, points, packs, st, preview>>

(* The process ends anywhere and starts again: a waiting run comes back    *)
(* when its pack does, everything else the repository object knew is gone. *)
(* What the user approved about the preview is not among the saved keys.   *)
Restart ==
  LET back == st.status = "waiting" /\ Restorable(st.run) IN
  /\ faults < MaxFaults
  /\ faults' = faults + 1
  /\ rb' = None
  /\ IF back THEN /\ restore_checkpoint(st.run)
                  /\ st' = [st EXCEPT !.capture_approved = FALSE, !.frozen = capture]
                  /\ UNCHANGED packs
     ELSE /\ points' = None
          /\ st' = IF st.status \in Terminal THEN st
                   ELSE Over(st, "interrupted")
          /\ packs' = [r \in Runs |-> None]
  /\ UNCHANGED <<Files, preview>>

Next ==
  \/ \E kind \in Kinds, mode \in Modes : Start(kind, mode)
  \/ Code \/ CodeAsks \/ CodeEnds
  \/ \E p \in Scope : CodeWrites(p)
  \/ Capture \/ Shoot \/ CaptureEnds \/ CaptureFails
  \/ Review \/ ReviewFails
  \/ \E reply \in Replies : ReviewEnds(reply)
  \/ Summary \/ Fails
  \/ \E status \in {"cancelled", "failed"} : Stop(status)
  \/ \E answer \in Answers : resume(answer)
  \/ \E p \in Scope : UserEdits(p)
  \/ \E p \in Paths : UserStages(p)
  \/ \E branch \in {"main", "topic"} : UserCommits(branch)
  \/ Look
  \/ \E r \in Runs : Rollback(r)
  \/ \E p \in Scope : RollbackPath(p)
  \/ RollbackEnds \/ RollbackFails
  \/ Restart

Spec == Init /\ [][Next]_vars

-----------------------------------------------------------------------------
Content  == [n : 0..MaxClock, by : Runs \cup {0}]
File     == [c : Content, t : Nat]
Tree     == [Paths -> Content]
Index    == [Paths -> File] \cup {None}
Snapshot == [tree : Tree, head : 0..MaxClock, branch : {"main", "topic"}, index : Index]
Point    == [run : Runs, before : Snapshot, after : Snapshot \cup {None},
             status : Terminal \cup {"running"}, reverted : BOOLEAN, restored : BOOLEAN]

(* Every variable has its type.                                            *)
TypeOK ==
  /\ wt \in [Paths -> File] /\ index \in Index
  /\ head \in [id : 0..MaxClock, branch : {"main", "topic"}, tree : Tree]
  /\ points \in Seq(Point)
  /\ packs \in [Runs -> [before : Snapshot, after : Snapshot, paused : Snapshot] \cup {None}]
  /\ rb = None \/ rb \in [run : Runs, target : Snapshot, todo : SUBSET Scope,
                          safety : Snapshot, edited : SUBSET Paths, undo : BOOLEAN]
  /\ clock \in Nat /\ preview \in BOOLEAN
  /\ st.status \in Terminal \cup {"running", "waiting"}
  /\ st.phase \in {"code", "capture", "review", "summary"}
  /\ st.frozen \in Snapshot \cup {None} /\ st.code_tree \in Tree \cup {None}

(* A rollback that reports success has put every file of the scope and     *)
(* every staged entry back to what they were before the run; one that      *)
(* fails leaves files and index as it found them, unless undoing fails as  *)
(* well.  Only an edit made while it was under way can differ.             *)
(* (git.py:472, 490)                                                       *)
BackBefore ==
  \A i \in DOMAIN points :
    LET k == points[i] IN
    i \in DOMAIN points' /\ points'[i].reverted /\ ~k.reverted =>
      /\ \A p \in Scope : p \in rb.edited \/ wt'[p].c = k.before.tree[p]
      /\ \A p \in Paths : Staged(index', p).c = Staged(k.before.index, p).c
FailureUndone ==
  rb # None /\ rb.undo /\ rb' = None /\ faults' = faults =>
    /\ \A p \in Scope : p \in rb.edited \/ wt'[p].c = rb.safety.tree[p]
    /\ index' = rb.safety.index
RollbackIsExact == [][BackBefore /\ FailureUndone]_vars

(* A rollback destroys no content but what its own run wrote, and what     *)
(* was written while it was under way: no edit made before the run, while  *)
(* the run waited, after it ended or by a later run, over restarts too;    *)
(* and it leaves the files beside the workspace alone.  (git.py:472)       *)
NothingForeignLost ==
  [][rb # None /\ rb' # None =>
       \A p \in Paths :
         rb'.todo # rb.todo /\ wt'[p] # wt[p] =>
           /\ p \in Scope
           /\ \/ wt[p].c = NoContent
              \/ wt[p].c.by = rb.run
              \/ rb.undo /\ wt[p].c = checkpoint(rb.run).before.tree[p]
              \/ p \in rb.edited]_vars

(* The result of a reviewed run rests on a review of this iteration that   *)
(* passed, of pictures of this iteration's code, unless the user accepted  *)
(* it.  A file changed and changed back between the two looks is the one   *)
(* thing they cannot see.  (workflow_session.py:619-625, 693)              *)
ReviewBacksResult ==
  [][st.kind = "frontend-review" /\ st'.status = "completed" /\ st' # st =>
       \/ st.accepted
       \/ /\ st.verdict = "passed"
          /\ st.shots.iteration = st.iteration
          /\ st.shots.tree = st.code_tree \/ st.shots.stirred >= 2]_vars

(* No stage is entered twice under one key: the row of an agent run that   *)
(* broke off is used again or the retry has a key of its own, so that no   *)
(* retry dies of the unique constraint.  (workflow_session.py:807, 1223)   *)
AgentRunsAreDistinct == ~st.duplicate

(* The latest finished run can be rolled back as long as nobody changed a  *)
(* file, staged or committed: looking at the changes, or rolling back the  *)
(* run after it, does not take that away.  (git.py:473, "the worktree and  *)
(* the index before the latest run", 482)                                  *)
StaysRevertible ==
  LET k == latest_revertible
      SameFiles(i, j) == \A p \in Paths : Staged(i, p).c = Staged(j, p).c IN
  /\ k # None /\ rb = None /\ st.status \in Terminal
  /\ capture.tree = k.after.tree
  /\ head.id = k.after.head /\ head.branch = k.after.branch
  /\ SameFiles(index, k.after.index)
  => same_state(capture, k.after)
=============================================================================
