----------------------- MODULE WorkflowSessionProofs -----------------------
(***************************************************************************)
(* The theorems about WorkflowSession: IInv is an invariant, and with it   *)
(* the safety properties the runs of the model check on small instances    *)
(* hold for every number of sessions, runs, inputs, threads and worktrees. *)
(***************************************************************************)
EXTENDS WorkflowSessionInv

(* Nothing runs and nothing is stored when the agent starts for the first  *)
(* time.                                                                   *)
LEMMA InitOK == Init => IInv
<1>. SUFFICES ASSUME Init PROVE IInv
  OBVIOUS
<1>1. FreeInput \in Input /\ NoDeadline \in Nat /\ IdleThread \in Thread /\ IdleState \in State
  BY IdleType, ConstantsOK DEF FreeInput, Input, Ids, NoDeadline, ConstantsOK
<1>2. TypeOK
  BY <1>1 DEF Init, TypeOK, Ids, Trees
<1>3. ThreadsOK /\ SchedOK /\ ExecutorOK /\ ExecutionOK /\ CommitOK
  BY DEF Init, ThreadsOK, SchedOK, ExecutorOK, ExecutionOK, CommitOK,
     IdleThread,
     IdleState, LockPcs, RunPcs, ExecPcs, LivePcs
<1>4. HeldOK /\ RowsOK /\ WaitingHasInput /\ OneLiveRun
  BY DEF Init, HeldOK, RowsOK, WaitingHasInput, OneLiveRun, FreeInput, Live
<1>. QED  BY <1>2, <1>3, <1>4 DEF IInv

(* A step that changes nothing keeps the invariant. *)
LEMMA StutterOK ==
  ASSUME IInv, UNCHANGED vars
  PROVE  IInv'
<1>. USE DEF vars, rowVars, lockVars, worldVars
<1>1. TypeOK'
  BY DEF IInv, TypeOK
<1>2. ThreadsOK' /\ SchedOK' /\ ExecutorOK' /\ ExecutionOK'
  BY DEF IInv, ThreadsOK, SchedOK, ExecutorOK, ExecutionOK
<1>3. CommitOK' /\ WaitingHasInput'
  BY DEF IInv, CommitOK, WaitingHasInput, Pending
<1>4. HeldOK' /\ RowsOK' /\ OneLiveRun'
  BY DEF IInv, HeldOK, RowsOK, OneLiveRun
<1>. QED  BY <1>1, <1>2, <1>3, <1>4 DEF IInv

(* Every step of the agent keeps the invariant. *)
LEMMA NextOK == IInv /\ [Next]_vars => IInv'
<1>1. ASSUME IInv, Next PROVE IInv'
  BY <1>1, TypeOKStep, ThreadsOKStep, SchedOKStep, ExecutorOKStep, ExecutionOKStep,
     CommitOKStep, HeldOKStep, RowsOKStep, WaitingHasInputStep, OneLiveRunStep
     DEF IInv
<1>. QED  BY <1>1, StutterOK

(* IInv holds in every reachable state of the agent. *)
THEOREM Invariant == Spec => []IInv
BY InitOK, NextOK, PTL DEF Spec

-----------------------------------------------------------------------------
(* Every variable keeps its type. *)
THEOREM TypeCorrect == Spec => []TypeOK
<1>1. IInv => TypeOK
  BY DEF IInv
<1>. QED  BY <1>1, Invariant, PTL

(* A session never has two live runs, though a waiting run does not hold   *)
(* the execution lock.                                                     *)
THEOREM OneLiveRunTheorem == Spec => []OneLiveRun
<1>1. IInv => OneLiveRun
  BY DEF IInv
<1>. QED  BY <1>1, Invariant, PTL

(* A run that says it executes has a thread, with the execution lock, that *)
(* will end or pause it.                                                   *)
THEOREM ExecutorHoldsLockTheorem == Spec => []ExecutorHoldsLock
<1>1. IInv => ExecutorHoldsLock
  BY DEF IInv, TypeOK, ExecutorOK, ExecutorHoldsLock
<1>. QED  BY <1>1, Invariant, PTL

(* While requests are served the live runs are those this process holds,   *)
(* also after any number of crashes.                                       *)
THEOREM LiveRunsAreHeldTheorem == Spec => []LiveRunsAreHeld
<1>1. IInv => LiveRunsAreHeld
  BY DEF IInv, HeldOK, LiveRunsAreHeld
<1>. QED  BY <1>1, Invariant, PTL

(* A waiting run can be answered, a restored one too. *)
THEOREM WaitingHasInputTheorem == Spec => []WaitingHasInput
<1>1. IInv => WaitingHasInput
  BY DEF IInv
<1>. QED  BY <1>1, Invariant, PTL

(* A run that is over leaves nothing to answer and nothing to restore. *)
THEOREM OverIsSettledTheorem == Spec => []OverIsSettled
<1>1. IInv => OverIsSettled
  <2>. SUFFICES ASSUME IInv, NEW r \in Runs, status[r] \in Terminal
                PROVE  Pending(r) = {} /\ saved[r] = NoTree /\ r \notin held
    BY DEF OverIsSettled
  <2>1. status[r] \notin Live
    BY DEF Terminal, Live
  <2>2. Pending(r) = {} /\ saved[r] = NoTree
    BY <2>1 DEF IInv, RowsOK, Pending, Live
  <2>3. r \notin held
    BY <2>1 DEF IInv, HeldOK, Live
  <2>. QED  BY <2>2, <2>3
<1>. QED  BY <1>1, Invariant, PTL

-----------------------------------------------------------------------------
(***************************************************************************)
(* What a step may never do.  TerminalKept, SettledKept and GrantedInTime  *)
(* are the actions of TerminalIsFinal, SettledOnce and ApprovedInTime, and  *)
(* DeadlineKept that of DeadlineSurvivesRestart.                           *)
(***************************************************************************)
TerminalKept == \A r \in Runs : status[r] \in Terminal => status'[r] = status[r]

SettledKept == \A i \in Inputs : input[i].status \in {"resolved", "expired"}
                                  => input'[i] = input[i]

GrantedInTime ==
  \A i \in Inputs : input'[i].verdict = "approved" /\ input[i].verdict # "approved"
                      => clock < input[i].expires

DeadlineKept ==
  mode = "recovering" =>
    \A k \in Inputs : input'[k].status = "pending" /\ input[k].status = "free" =>
      /\ ~Overdue(input'[k].run)
      /\ \E i \in Inputs : /\ input[i].status = "pending"
                           /\ input[i].run = input'[k].run
                           /\ input[i].expires = input'[k].expires

(* A rejected input is not an approval granted. *)
LEMMA RejectVerdict == \A row \in Input : Reject(row).verdict # "approved"
BY DEF Reject, Input

(* Ending a run ends a live one. *)
LEMMA EndsTerminal ==
  ASSUME TypeOK, NEW r, Ends(r)
  PROVE  TerminalKept
BY DEF Ends, TerminalKept, Live, Terminal

(* Ending a run settles open inputs only. *)
LEMMA EndsSettled ==
  ASSUME TypeOK, NEW r, Ends(r)
  PROVE  SettledKept
BY DEF Ends, SettledKept, Pending

(* Ending a run grants nothing. *)
LEMMA EndsGranted ==
  ASSUME TypeOK, NEW r, Ends(r)
  PROVE  GrantedInTime
<1>1. \A i \in Inputs : input'[i] = input[i] \/ input'[i] = Reject(input[i])
  BY DEF Ends
<1>. QED  BY <1>1, RejectVerdict DEF GrantedInTime, TypeOK

(* Ending a run opens no input. *)
LEMMA EndsDeadline ==
  ASSUME TypeOK, NEW r, Ends(r)
  PROVE  DeadlineKept
<1>1. \A i \in Inputs : input'[i] = input[i] \/ input'[i].status = "expired"
  BY RejectSettles DEF Ends, TypeOK
<1>. QED  BY <1>1 DEF DeadlineKept

(* No step takes a run out of a terminal status. *)
LEMMA TerminalKeptStep ==
  ASSUME IInv, Next
  PROVE  TerminalKept
<1>1. ASSUME NEW w \in Workers, ThreadEnds(w) PROVE TerminalKept
  <2>1. Ends(thread[w].run) /\ TypeOK
    BY <1>1 DEF ThreadEnds, IInv
  <2>. QED  BY <2>1, EndsTerminal
<1>2. ASSUME NEW r \in Runs, OthersEnd(r) PROVE TerminalKept
  <2>1. Ends(r) /\ TypeOK
    BY <1>2 DEF OthersEnd, IInv
  <2>. QED  BY <2>1, EndsTerminal
<1>3. ASSUME NEW w \in Workers, NEW r \in Runs, StartCreate(w, r)
      PROVE  TerminalKept
  BY <1>3, IInvParts DEF StartCreate, TerminalKept, Terminal, TypeOK
<1>4. ASSUME NEW w \in Workers, ResumeCommit(w) PROVE TerminalKept
  BY <1>4, IInvParts, CommitRun DEF ResumeCommit, TerminalKept, Terminal,
     TypeOK
<1>5. ASSUME NEW w \in Workers, NEW new \in SUBSET Inputs,
             NEW kind \in {"approval", "decision"}, NEW manual \in BOOLEAN,
             WaitCommit(w, new, kind, manual)
      PROVE  TerminalKept
  <2>1. status[thread[w].run] = "running"
    BY <1>5 DEF WaitCommit, At, IInv, ExecutionOK, LivePcs
  <2>. QED
    BY <1>5, <2>1, IInvParts DEF WaitCommit, TerminalKept, Terminal, TypeOK
<1>6. ASSUME NEW r \in Runs, NEW ids \in SUBSET Inputs,
             NEW reissue \in [ids -> Inputs], Restore(r, reissue)
      PROVE  TerminalKept
  BY <1>6 DEF Restore, TerminalKept
<1>7. ASSUME Recover PROVE TerminalKept
  BY <1>7 DEF Recover, TerminalKept, Lost, Live, Terminal
<1>8. ASSUME NEW w \in Workers, Start(w) PROVE TerminalKept
  <2>1. (\E s \in Sessions, k \in Keys \cup {NoKey} : StartRequest(w, s, k))
        \/ StartRefused(w)
          => UNCHANGED rowVars
    BY DEF StartRequest, Accept, StartRefused, rowVars, lockVars, worldVars
  <2>. QED
    BY <1>8, <1>3, <2>1, IInvParts DEF Start, TerminalKept, rowVars
<1>9. ASSUME NEW w \in Workers, Resume(w) PROVE TerminalKept
  <2>1. (\E r \in Runs, i \in Inputs, accept \in BOOLEAN : ResumeRequest(w,
        r, i, accept)) \/ ResumeRefused(w) \/ ResumeAdmit(w) \/
        ResumeTooLate(w) \/ ResumeInvalid(w) \/ ResumeArm(w)
          => UNCHANGED rowVars
    BY DEF ResumeRequest, Accept, ResumeRefused, ResumeAdmit, ResumeTooLate,
       ResumeInvalid, ResumeArm, rowVars, lockVars, worldVars
  <2>. QED
    BY <1>9, <1>4, <1>1, ThreadEndsRun, <2>1, IInvParts DEF Resume,
       TerminalKept, rowVars
<1>10. ASSUME NEW w \in Workers, Execute(w) PROVE TerminalKept
  <2>1. Wait(w) => TerminalKept
    BY <1>5 DEF Wait
  <2>2. ReserveWorktree(w) \/ Begin(w) \/ DriveWrite(w) \/ DrivePause(w) \/
        DriveReturn(w) \/ LeaveWorktree(w) \/ StopExecuting(w) \/
        ReleaseWorktree(w) \/ ReleaseLock(w) \/ NotifyTimeout(w)
          => UNCHANGED rowVars
    BY DEF ReserveWorktree, Begin, DriveWrite, DrivePause, DriveReturn,
       LeaveWorktree, StopExecuting, ReleaseWorktree, ReleaseLock,
       NotifyTimeout, rowVars, lockVars, worldVars
  <2>. QED
    BY <1>10, <1>1, ThreadEndsRun, <2>1, <2>2, IInvParts DEF Execute,
       TerminalKept, rowVars
<1>11. ASSUME NEW w \in Workers, Close(w) PROVE TerminalKept
  <2>1. (\E s \in Sessions : CloseRequest(w, s)) \/ CloseDone(w)
          => UNCHANGED rowVars
    BY DEF CloseRequest, Accept, CloseDone, rowVars, lockVars, worldVars
  <2>. QED
    BY <1>11, <1>2, OthersEndRun, <2>1, IInvParts DEF Close, TerminalKept,
       rowVars
<1>12. ASSUME Scheduler PROVE TerminalKept
  <2>1. SchedulerExpire => sched.run \in Runs
    BY DEF SchedulerExpire, IInv, SchedOK, TypeOK, Ids
  <2>2. (\E r \in Runs : SchedulerPop(r)) \/ SchedulerRetry \/
        SchedulerNotify
          => UNCHANGED rowVars
    BY DEF SchedulerPop, SchedulerRetry, SchedulerNotify, rowVars, lockVars,
       worldVars
  <2>. QED
    BY <1>12, <1>2, OthersEndRun, <2>1, <2>2, IInvParts DEF Scheduler,
       TerminalKept, rowVars
<1>13. ASSUME Restart PROVE TerminalKept
  <2>1. Crash \/ Serve
          => UNCHANGED rowVars
    BY DEF Crash, Serve, rowVars, lockVars, worldVars
  <2>. QED
    BY <1>13, <1>6, <1>7, <1>2, OthersEndRun, <2>1, IInvParts DEF Restart,
       TerminalKept, rowVars
<1>. QED
  BY <1>8, <1>9, <1>10, <1>11, <1>12, <1>13, <1>2, OthersEndRun, IInvParts
     DEF Next, TerminalKept, rowVars, Tick, OutsideEdit, lockVars, worldVars

(* No step changes a settled input. *)
LEMMA SettledKeptStep ==
  ASSUME IInv, Next
  PROVE  SettledKept
<1>1. ASSUME NEW w \in Workers, ThreadEnds(w) PROVE SettledKept
  <2>1. Ends(thread[w].run) /\ TypeOK
    BY <1>1 DEF ThreadEnds, IInv
  <2>. QED  BY <2>1, EndsSettled
<1>2. ASSUME NEW r \in Runs, OthersEnd(r) PROVE SettledKept
  <2>1. Ends(r) /\ TypeOK
    BY <1>2 DEF OthersEnd, IInv
  <2>. QED  BY <2>1, EndsSettled
<1>3. ASSUME NEW w \in Workers, NEW r \in Runs, StartCreate(w, r)
      PROVE  SettledKept
  BY <1>3 DEF StartCreate, SettledKept
<1>4. ASSUME NEW w \in Workers, ResumeCommit(w) PROVE SettledKept
  <2>1. input[thread[w].input].status = "pending"
    BY <1>4, CommitRun DEF ResumeCommit, Pending
  <2>. QED  BY <1>4, <2>1, IInvParts DEF ResumeCommit, SettledKept, TypeOK
<1>5. ASSUME NEW w \in Workers, NEW new \in SUBSET Inputs,
             NEW kind \in {"approval", "decision"}, NEW manual \in BOOLEAN,
             WaitCommit(w, new, kind, manual)
      PROVE  SettledKept
  BY <1>5, IInvParts DEF WaitCommit, SettledKept, TypeOK
<1>6. ASSUME NEW r \in Runs, NEW ids \in SUBSET Inputs,
             NEW reissue \in [ids -> Inputs], Restore(r, reissue)
      PROVE  SettledKept
  <2>1. ASSUME NEW k \in Inputs, input[k].status \in {"resolved", "expired"}
        PROVE  input'[k] = input[k]
    BY <1>6, <2>1, IInvParts, RestoreInputs DEF Pending
  <2>. QED  BY <2>1 DEF SettledKept
<1>7. ASSUME Recover PROVE SettledKept
  BY <1>7 DEF Recover, SettledKept, Swept
<1>8. ASSUME NEW w \in Workers, Start(w) PROVE SettledKept
  <2>1. (\E s \in Sessions, k \in Keys \cup {NoKey} : StartRequest(w, s, k))
        \/ StartRefused(w)
          => UNCHANGED rowVars
    BY DEF StartRequest, Accept, StartRefused, rowVars, lockVars, worldVars
  <2>. QED
    BY <1>8, <1>3, <2>1, IInvParts DEF Start, SettledKept, rowVars
<1>9. ASSUME NEW w \in Workers, Resume(w) PROVE SettledKept
  <2>1. (\E r \in Runs, i \in Inputs, accept \in BOOLEAN : ResumeRequest(w,
        r, i, accept)) \/ ResumeRefused(w) \/ ResumeAdmit(w) \/
        ResumeTooLate(w) \/ ResumeInvalid(w) \/ ResumeArm(w)
          => UNCHANGED rowVars
    BY DEF ResumeRequest, Accept, ResumeRefused, ResumeAdmit, ResumeTooLate,
       ResumeInvalid, ResumeArm, rowVars, lockVars, worldVars
  <2>. QED
    BY <1>9, <1>4, <1>1, ThreadEndsRun, <2>1, IInvParts DEF Resume,
       SettledKept, rowVars
<1>10. ASSUME NEW w \in Workers, Execute(w) PROVE SettledKept
  <2>1. Wait(w) => SettledKept
    BY <1>5 DEF Wait
  <2>2. ReserveWorktree(w) \/ Begin(w) \/ DriveWrite(w) \/ DrivePause(w) \/
        DriveReturn(w) \/ LeaveWorktree(w) \/ StopExecuting(w) \/
        ReleaseWorktree(w) \/ ReleaseLock(w) \/ NotifyTimeout(w)
          => UNCHANGED rowVars
    BY DEF ReserveWorktree, Begin, DriveWrite, DrivePause, DriveReturn,
       LeaveWorktree, StopExecuting, ReleaseWorktree, ReleaseLock,
       NotifyTimeout, rowVars, lockVars, worldVars
  <2>. QED
    BY <1>10, <1>1, ThreadEndsRun, <2>1, <2>2, IInvParts DEF Execute,
       SettledKept, rowVars
<1>11. ASSUME NEW w \in Workers, Close(w) PROVE SettledKept
  <2>1. (\E s \in Sessions : CloseRequest(w, s)) \/ CloseDone(w)
          => UNCHANGED rowVars
    BY DEF CloseRequest, Accept, CloseDone, rowVars, lockVars, worldVars
  <2>. QED
    BY <1>11, <1>2, OthersEndRun, <2>1, IInvParts DEF Close, SettledKept,
       rowVars
<1>12. ASSUME Scheduler PROVE SettledKept
  <2>1. SchedulerExpire => sched.run \in Runs
    BY DEF SchedulerExpire, IInv, SchedOK, TypeOK, Ids
  <2>2. (\E r \in Runs : SchedulerPop(r)) \/ SchedulerRetry \/
        SchedulerNotify
          => UNCHANGED rowVars
    BY DEF SchedulerPop, SchedulerRetry, SchedulerNotify, rowVars, lockVars,
       worldVars
  <2>. QED
    BY <1>12, <1>2, OthersEndRun, <2>1, <2>2, IInvParts DEF Scheduler,
       SettledKept, rowVars
<1>13. ASSUME Restart PROVE SettledKept
  <2>1. Crash \/ Serve
          => UNCHANGED rowVars
    BY DEF Crash, Serve, rowVars, lockVars, worldVars
  <2>. QED
    BY <1>13, <1>6, <1>7, <1>2, OthersEndRun, <2>1, IInvParts DEF Restart,
       SettledKept, rowVars
<1>. QED
  BY <1>8, <1>9, <1>10, <1>11, <1>12, <1>13, <1>2, OthersEndRun, IInvParts
     DEF Next, SettledKept, rowVars, Tick, OutsideEdit, lockVars, worldVars

(* No step grants an approval that is overdue. *)
LEMMA GrantedInTimeStep ==
  ASSUME IInv, Next
  PROVE  GrantedInTime
<1>1. ASSUME NEW w \in Workers, ThreadEnds(w) PROVE GrantedInTime
  <2>1. Ends(thread[w].run) /\ TypeOK
    BY <1>1 DEF ThreadEnds, IInv
  <2>. QED  BY <2>1, EndsGranted
<1>2. ASSUME NEW r \in Runs, OthersEnd(r) PROVE GrantedInTime
  <2>1. Ends(r) /\ TypeOK
    BY <1>2 DEF OthersEnd, IInv
  <2>. QED  BY <2>1, EndsGranted
<1>3. ASSUME NEW w \in Workers, NEW r \in Runs, StartCreate(w, r)
      PROVE  GrantedInTime
  BY <1>3 DEF StartCreate, GrantedInTime
<1>4. ASSUME NEW w \in Workers, ResumeCommit(w) PROVE GrantedInTime
  <2>1. /\ thread[w].input \in Inputs /\ ~PastDeadline(thread[w].input)
        /\ \A k \in Inputs : k # thread[w].input => input'[k] = input[k]
    BY <1>4, CommitRun, IInvParts DEF ResumeCommit, Pending, TypeOK
  <2>2. input'[thread[w].input].verdict = "approved"
          => input[thread[w].input].kind = "approval"
    BY <1>4, <2>1, IInvParts DEF ResumeCommit, TypeOK, Input
  <2>3. input[thread[w].input].expires \in Nat /\ clock \in Nat
    BY <2>1, IInvParts DEF TypeOK, Input
  <2>4. input[thread[w].input].kind = "approval" => clock < input[thread[w].input].expires
    BY <2>1, <2>3 DEF PastDeadline
  <2>. QED  BY <2>1, <2>2, <2>4 DEF GrantedInTime
<1>5. ASSUME NEW w \in Workers, NEW new \in SUBSET Inputs,
             NEW kind \in {"approval", "decision"}, NEW manual \in BOOLEAN,
             WaitCommit(w, new, kind, manual)
      PROVE  GrantedInTime
  <2>1. \A k \in Inputs : input'[k] = input[k] \/ input'[k] = NewInput(thread[w].run, kind)
    BY <1>5 DEF WaitCommit
  <2>. QED  BY <2>1 DEF NewInput, GrantedInTime
<1>6. ASSUME NEW r \in Runs, NEW ids \in SUBSET Inputs,
             NEW reissue \in [ids -> Inputs], Restore(r, reissue)
      PROVE  GrantedInTime
  <2>1. ASSUME NEW k \in Inputs
        PROVE  \/ input'[k] = input[k] \/ input'[k].verdict # "approved"
    <3>1. Reject(input[k]).verdict # "approved"
      BY IInvParts, RejectVerdict DEF TypeOK
    <3>2. \A i \in Pending(r) : input[i].verdict # "approved"
      BY IInvParts DEF RowsOK, Pending
    <3>. QED  BY <1>6, <3>1, <3>2, IInvParts, RestoreInputs
  <2>. QED  BY <2>1 DEF GrantedInTime
<1>7. ASSUME Recover PROVE GrantedInTime
  <2>1. \A k \in Inputs : input'[k] = input[k] \/ input'[k].verdict # "approved"
    BY <1>7, RejectVerdict, IInvParts DEF Recover, TypeOK
  <2>. QED  BY <2>1 DEF GrantedInTime
<1>8. ASSUME NEW w \in Workers, Start(w) PROVE GrantedInTime
  <2>1. (\E s \in Sessions, k \in Keys \cup {NoKey} : StartRequest(w, s, k))
        \/ StartRefused(w)
          => UNCHANGED rowVars
    BY DEF StartRequest, Accept, StartRefused, rowVars, lockVars, worldVars
  <2>. QED
    BY <1>8, <1>3, <2>1, IInvParts DEF Start, GrantedInTime, rowVars
<1>9. ASSUME NEW w \in Workers, Resume(w) PROVE GrantedInTime
  <2>1. (\E r \in Runs, i \in Inputs, accept \in BOOLEAN : ResumeRequest(w,
        r, i, accept)) \/ ResumeRefused(w) \/ ResumeAdmit(w) \/
        ResumeTooLate(w) \/ ResumeInvalid(w) \/ ResumeArm(w)
          => UNCHANGED rowVars
    BY DEF ResumeRequest, Accept, ResumeRefused, ResumeAdmit, ResumeTooLate,
       ResumeInvalid, ResumeArm, rowVars, lockVars, worldVars
  <2>. QED
    BY <1>9, <1>4, <1>1, ThreadEndsRun, <2>1, IInvParts DEF Resume,
       GrantedInTime, rowVars
<1>10. ASSUME NEW w \in Workers, Execute(w) PROVE GrantedInTime
  <2>1. Wait(w) => GrantedInTime
    BY <1>5 DEF Wait
  <2>2. ReserveWorktree(w) \/ Begin(w) \/ DriveWrite(w) \/ DrivePause(w) \/
        DriveReturn(w) \/ LeaveWorktree(w) \/ StopExecuting(w) \/
        ReleaseWorktree(w) \/ ReleaseLock(w) \/ NotifyTimeout(w)
          => UNCHANGED rowVars
    BY DEF ReserveWorktree, Begin, DriveWrite, DrivePause, DriveReturn,
       LeaveWorktree, StopExecuting, ReleaseWorktree, ReleaseLock,
       NotifyTimeout, rowVars, lockVars, worldVars
  <2>. QED
    BY <1>10, <1>1, ThreadEndsRun, <2>1, <2>2, IInvParts DEF Execute,
       GrantedInTime, rowVars
<1>11. ASSUME NEW w \in Workers, Close(w) PROVE GrantedInTime
  <2>1. (\E s \in Sessions : CloseRequest(w, s)) \/ CloseDone(w)
          => UNCHANGED rowVars
    BY DEF CloseRequest, Accept, CloseDone, rowVars, lockVars, worldVars
  <2>. QED
    BY <1>11, <1>2, OthersEndRun, <2>1, IInvParts DEF Close, GrantedInTime,
       rowVars
<1>12. ASSUME Scheduler PROVE GrantedInTime
  <2>1. SchedulerExpire => sched.run \in Runs
    BY DEF SchedulerExpire, IInv, SchedOK, TypeOK, Ids
  <2>2. (\E r \in Runs : SchedulerPop(r)) \/ SchedulerRetry \/
        SchedulerNotify
          => UNCHANGED rowVars
    BY DEF SchedulerPop, SchedulerRetry, SchedulerNotify, rowVars, lockVars,
       worldVars
  <2>. QED
    BY <1>12, <1>2, OthersEndRun, <2>1, <2>2, IInvParts DEF Scheduler,
       GrantedInTime, rowVars
<1>13. ASSUME Restart PROVE GrantedInTime
  <2>1. Crash \/ Serve
          => UNCHANGED rowVars
    BY DEF Crash, Serve, rowVars, lockVars, worldVars
  <2>. QED
    BY <1>13, <1>6, <1>7, <1>2, OthersEndRun, <2>1, IInvParts DEF Restart,
       GrantedInTime, rowVars
<1>. QED
  BY <1>8, <1>9, <1>10, <1>11, <1>12, <1>13, <1>2, OthersEndRun, IInvParts
     DEF Next, GrantedInTime, rowVars, Tick, OutsideEdit, lockVars,
     worldVars

(* A key is given to a second run by no step. *)
LEMMA OneRunPerKeyStep ==
  ASSUME IInv, OneRunPerKey, Next
  PROVE  OneRunPerKey'
<1>1. ASSUME NEW w \in Workers, ThreadEnds(w) PROVE OneRunPerKey'
  BY <1>1 DEF ThreadEnds, Ends, OneRunPerKey
<1>2. ASSUME NEW r \in Runs, OthersEnd(r) PROVE OneRunPerKey'
  BY <1>2 DEF OthersEnd, Ends, OneRunPerKey
<1>3. ASSUME NEW w \in Workers, NEW r \in Runs, StartCreate(w, r)
      PROVE  OneRunPerKey'
  <2>1. /\ owner' = [owner EXCEPT ![r] = thread[w].session]
        /\ keyOf' = [keyOf EXCEPT ![r] = thread[w].key]
        /\ ~KeyUsed(thread[w].session, thread[w].key)
    BY <1>3 DEF StartCreate, MayCreate
  <2>. QED  BY <2>1, IInvParts DEF KeyUsed, OneRunPerKey, TypeOK
<1>4. ASSUME NEW w \in Workers, Start(w) PROVE OneRunPerKey'
  <2>1. (\E s \in Sessions, k \in Keys \cup {NoKey} : StartRequest(w, s, k))
        \/ StartRefused(w)
          => UNCHANGED <<owner, keyOf>>
    BY DEF StartRequest, Accept, StartRefused, rowVars, lockVars, worldVars
  <2>. QED
    BY <1>4, <1>3, <2>1, IInvParts DEF Start, OneRunPerKey
<1>5. ASSUME NEW w \in Workers, Resume(w) PROVE OneRunPerKey'
  <2>1. (\E r \in Runs, i \in Inputs, accept \in BOOLEAN : ResumeRequest(w,
        r, i, accept)) \/ ResumeRefused(w) \/ ResumeAdmit(w) \/
        ResumeCommit(w) \/ ResumeTooLate(w) \/ ResumeInvalid(w) \/
        ResumeArm(w)
          => UNCHANGED <<owner, keyOf>>
    BY DEF ResumeRequest, Accept, ResumeRefused, ResumeAdmit, ResumeCommit,
       ResumeTooLate, ResumeInvalid, ResumeArm, rowVars, lockVars, worldVars
  <2>. QED
    BY <1>5, <1>1, ThreadEndsRun, <2>1, IInvParts DEF Resume, OneRunPerKey
<1>6. ASSUME NEW w \in Workers, Execute(w) PROVE OneRunPerKey'
  <2>1. ReserveWorktree(w) \/ Begin(w) \/ DriveWrite(w) \/ DrivePause(w) \/
        Wait(w) \/ DriveReturn(w) \/ LeaveWorktree(w) \/
        StopExecuting(w) \/ ReleaseWorktree(w) \/ ReleaseLock(w) \/
        NotifyTimeout(w)
          => UNCHANGED <<owner, keyOf>>
    BY DEF ReserveWorktree, Begin, DriveWrite, DrivePause, WaitCommit,
       DriveReturn, LeaveWorktree, StopExecuting, ReleaseWorktree,
       ReleaseLock, NotifyTimeout, Wait, rowVars, lockVars, worldVars
  <2>. QED
    BY <1>6, <1>1, ThreadEndsRun, <2>1, IInvParts DEF Execute, OneRunPerKey
<1>7. ASSUME NEW w \in Workers, Close(w) PROVE OneRunPerKey'
  <2>1. (\E s \in Sessions : CloseRequest(w, s)) \/ CloseDone(w)
          => UNCHANGED <<owner, keyOf>>
    BY DEF CloseRequest, Accept, CloseDone, rowVars, lockVars, worldVars
  <2>. QED
    BY <1>7, <1>2, OthersEndRun, <2>1, IInvParts DEF Close, OneRunPerKey
<1>8. ASSUME Scheduler PROVE OneRunPerKey'
  <2>1. SchedulerExpire => sched.run \in Runs
    BY DEF SchedulerExpire, IInv, SchedOK, TypeOK, Ids
  <2>2. (\E r \in Runs : SchedulerPop(r)) \/ SchedulerRetry \/
        SchedulerNotify
          => UNCHANGED <<owner, keyOf>>
    BY DEF SchedulerPop, SchedulerRetry, SchedulerNotify, rowVars, lockVars,
       worldVars
  <2>. QED
    BY <1>8, <1>2, OthersEndRun, <2>1, <2>2, IInvParts DEF Scheduler,
       OneRunPerKey
<1>9. ASSUME Restart PROVE OneRunPerKey'
  <2>1. Crash \/ (\E r \in Runs, ids \in SUBSET Inputs : \E reissue \in [ids
        -> Inputs] : Restore(r, reissue)) \/ Recover \/ Serve
          => UNCHANGED <<owner, keyOf>>
    BY DEF Crash, Restore, Recover, Serve, rowVars, lockVars, worldVars
  <2>. QED
    BY <1>9, <1>2, OthersEndRun, <2>1, IInvParts DEF Restart, OneRunPerKey
<1>. QED
  BY <1>4, <1>5, <1>6, <1>7, <1>8, <1>9, <1>2, OthersEndRun, IInvParts DEF
     Next, OneRunPerKey, Tick, OutsideEdit, rowVars, lockVars, worldVars

(* No step of a restart gives a reissued approval another deadline, or     *)
(* reissues one of a run with an overdue approval.                         *)
LEMMA DeadlineKeptStep ==
  ASSUME IInv, Next
  PROVE  DeadlineKept
<1>1. ASSUME NEW w \in Workers, ThreadEnds(w) PROVE DeadlineKept
  <2>1. Ends(thread[w].run) /\ TypeOK
    BY <1>1 DEF ThreadEnds, IInv
  <2>. QED  BY <2>1, EndsDeadline
<1>2. ASSUME NEW r \in Runs, OthersEnd(r) PROVE DeadlineKept
  <2>1. Ends(r) /\ TypeOK
    BY <1>2 DEF OthersEnd, IInv
  <2>. QED  BY <2>1, EndsDeadline
<1>3. ASSUME NEW w \in Workers, NEW r \in Runs, StartCreate(w, r)
      PROVE  DeadlineKept
  BY <1>3 DEF StartCreate, At, ControlFree, DeadlineKept
<1>4. ASSUME NEW w \in Workers, ResumeCommit(w) PROVE DeadlineKept
  BY <1>4 DEF ResumeCommit, At, ControlFree, DeadlineKept
<1>5. ASSUME NEW w \in Workers, NEW new \in SUBSET Inputs,
             NEW kind \in {"approval", "decision"}, NEW manual \in BOOLEAN,
             WaitCommit(w, new, kind, manual)
      PROVE  DeadlineKept
  BY <1>5 DEF WaitCommit, At, ControlFree, DeadlineKept
<1>6. ASSUME NEW r \in Runs, NEW ids \in SUBSET Inputs,
             NEW reissue \in [ids -> Inputs], Restore(r, reissue)
      PROVE  DeadlineKept
  <2>1. ASSUME NEW k \in Inputs, input'[k].status = "pending", input[k].status = "free"
        PROVE  \E i \in Pending(r) : input'[k] = input[i]
    BY <1>6, <2>1, IInvParts, RestoreInputs DEF Pending
  <2>2. Overdue(r) => input' = input
    BY <1>6, IInvParts DEF Restore, TypeOK
  <2>. QED  BY <2>1, <2>2 DEF DeadlineKept, Pending
<1>7. ASSUME Recover PROVE DeadlineKept
  <2>1. \A k \in Inputs : input'[k] = input[k] \/ input'[k].status # "pending"
    BY <1>7, RejectSettles, IInvParts DEF Recover, TypeOK
  <2>. QED  BY <2>1 DEF DeadlineKept
<1>8. ASSUME NEW w \in Workers, Start(w) PROVE DeadlineKept
  <2>1. (\E s \in Sessions, k \in Keys \cup {NoKey} : StartRequest(w, s, k))
        \/ StartRefused(w)
          => UNCHANGED rowVars
    BY DEF StartRequest, Accept, StartRefused, rowVars, lockVars, worldVars
  <2>. QED
    BY <1>8, <1>3, <2>1, IInvParts DEF Start, DeadlineKept, rowVars
<1>9. ASSUME NEW w \in Workers, Resume(w) PROVE DeadlineKept
  <2>1. (\E r \in Runs, i \in Inputs, accept \in BOOLEAN : ResumeRequest(w,
        r, i, accept)) \/ ResumeRefused(w) \/ ResumeAdmit(w) \/
        ResumeTooLate(w) \/ ResumeInvalid(w) \/ ResumeArm(w)
          => UNCHANGED rowVars
    BY DEF ResumeRequest, Accept, ResumeRefused, ResumeAdmit, ResumeTooLate,
       ResumeInvalid, ResumeArm, rowVars, lockVars, worldVars
  <2>. QED
    BY <1>9, <1>4, <1>1, ThreadEndsRun, <2>1, IInvParts DEF Resume,
       DeadlineKept, rowVars
<1>10. ASSUME NEW w \in Workers, Execute(w) PROVE DeadlineKept
  <2>1. Wait(w) => DeadlineKept
    BY <1>5 DEF Wait
  <2>2. ReserveWorktree(w) \/ Begin(w) \/ DriveWrite(w) \/ DrivePause(w) \/
        DriveReturn(w) \/ LeaveWorktree(w) \/ StopExecuting(w) \/
        ReleaseWorktree(w) \/ ReleaseLock(w) \/ NotifyTimeout(w)
          => UNCHANGED rowVars
    BY DEF ReserveWorktree, Begin, DriveWrite, DrivePause, DriveReturn,
       LeaveWorktree, StopExecuting, ReleaseWorktree, ReleaseLock,
       NotifyTimeout, rowVars, lockVars, worldVars
  <2>. QED
    BY <1>10, <1>1, ThreadEndsRun, <2>1, <2>2, IInvParts DEF Execute,
       DeadlineKept, rowVars
<1>11. ASSUME NEW w \in Workers, Close(w) PROVE DeadlineKept
  <2>1. (\E s \in Sessions : CloseRequest(w, s)) \/ CloseDone(w)
          => UNCHANGED rowVars
    BY DEF CloseRequest, Accept, CloseDone, rowVars, lockVars, worldVars
  <2>. QED
    BY <1>11, <1>2, OthersEndRun, <2>1, IInvParts DEF Close, DeadlineKept,
       rowVars
<1>12. ASSUME Scheduler PROVE DeadlineKept
  <2>1. SchedulerExpire => sched.run \in Runs
    BY DEF SchedulerExpire, IInv, SchedOK, TypeOK, Ids
  <2>2. (\E r \in Runs : SchedulerPop(r)) \/ SchedulerRetry \/
        SchedulerNotify
          => UNCHANGED rowVars
    BY DEF SchedulerPop, SchedulerRetry, SchedulerNotify, rowVars, lockVars,
       worldVars
  <2>. QED
    BY <1>12, <1>2, OthersEndRun, <2>1, <2>2, IInvParts DEF Scheduler,
       DeadlineKept, rowVars
<1>13. ASSUME Restart PROVE DeadlineKept
  <2>1. Crash \/ Serve
          => UNCHANGED rowVars
    BY DEF Crash, Serve, rowVars, lockVars, worldVars
  <2>. QED
    BY <1>13, <1>6, <1>7, <1>2, OthersEndRun, <2>1, IInvParts DEF Restart,
       DeadlineKept, rowVars
<1>. QED
  BY <1>8, <1>9, <1>10, <1>11, <1>12, <1>13, <1>2, OthersEndRun, IInvParts
     DEF Next, DeadlineKept, rowVars, Tick, OutsideEdit, lockVars, worldVars

(* A run that is over stays over, whatever late threads, timeouts and      *)
(* restarts do.                                                            *)
THEOREM TerminalIsFinalTheorem == Spec => TerminalIsFinal
<1>1. IInv /\ [Next]_vars => [TerminalKept]_vars
  BY TerminalKeptStep
<1>. QED  BY <1>1, Invariant, PTL DEF Spec, TerminalIsFinal, TerminalKept

(* Of answer, timeout, cancel and restart only the first settles an input. *)
THEOREM SettledOnceTheorem == Spec => SettledOnce
<1>1. IInv /\ [Next]_vars => [SettledKept]_vars
  BY SettledKeptStep
<1>. QED  BY <1>1, Invariant, PTL DEF Spec, SettledOnce, SettledKept

(* No approval is granted at or after its deadline. *)
THEOREM ApprovedInTimeTheorem == Spec => ApprovedInTime
<1>1. IInv /\ [Next]_vars => [GrantedInTime]_vars
  BY GrantedInTimeStep
<1>. QED  BY <1>1, Invariant, PTL DEF Spec, ApprovedInTime, GrantedInTime

(* An approval keeps its deadline through a restart, and an overdue one is *)
(* not asked again.                                                        *)
THEOREM DeadlineSurvivesRestartTheorem == Spec => DeadlineSurvivesRestart
<1>1. IInv /\ [Next]_vars => [DeadlineKept]_vars
  BY DeadlineKeptStep
<1>. QED
  BY <1>1, Invariant, PTL DEF Spec, DeadlineSurvivesRestart, DeadlineKept

(* A request key a client repeats names one run of the session. *)
THEOREM OneRunPerKeyTheorem == Spec => []OneRunPerKey
<1>1. Init => OneRunPerKey
  BY DEF Init, OneRunPerKey
<1>2. IInv /\ OneRunPerKey /\ [Next]_vars => OneRunPerKey'
  BY OneRunPerKeyStep DEF OneRunPerKey, vars, rowVars
<1>. QED  BY <1>1, <1>2, Invariant, PTL DEF Spec

-----------------------------------------------------------------------------
(***************************************************************************)
(* WorkflowSession implements RunLifecycle: whatever threads, clients,     *)
(* timeouts and restarts do, the rows of runs and interactions move by the *)
(* steps of the lifecycle.                                                 *)
(***************************************************************************)
(* What is shown of every step. *)
Follows == Lifecycle!Next \/ UNCHANGED Lifecycle!vars

(* A step that leaves the rows alone is no step of the lifecycle. *)
LEMMA RowsAlone ==
  ASSUME UNCHANGED <<status, owner, keyOf, input>>
  PROVE  Follows
<1>1. \A r \in Runs : Pending(r)' = Pending(r)
  BY DEF Pending
<1>2. Settled' = Settled /\ Granted' = Granted
  BY DEF Settled, Granted
<1>. QED  BY <1>1, <1>2 DEF Follows, Lifecycle!vars

(* Runs that end together with their open inputs. *)
LEMMA EndFollows ==
  ASSUME IInv, NEW E \in SUBSET Runs, owner' = owner, keyOf' = keyOf,
         status' \in [Runs -> {"none"} \cup Live \cup Terminal],
         \A q \in Runs : IF q \in E THEN status[q] \in Live /\ status'[q] \in Terminal
                                    ELSE status'[q] = status[q],
         \A i \in Inputs : input'[i] =
           IF input[i].status = "pending" /\ input[i].run \in E
           THEN Reject(input[i]) ELSE input[i]
  PROVE  Follows
<1>1. \A i \in Inputs : /\ Reject(input[i]).status = "expired"
                        /\ Reject(input[i]).run = input[i].run
                        /\ Reject(input[i]).verdict # "approved"
  BY IInvParts, RejectSettles, RejectVerdict DEF TypeOK
<1>2. \A i \in Inputs : input[i].status = "pending" => input[i].verdict # "approved"
  BY IInvParts DEF RowsOK
<1>3. \A r \in Runs : Pending(r)' = IF r \in E THEN {} ELSE Pending(r)
  BY <1>1 DEF Pending
<1>4. Settled' = Settled \cup UNION {Pending(r) : r \in E}
  BY <1>1 DEF Pending, Settled
<1>5. Granted' = Granted
  BY <1>1, <1>2 DEF Granted, Settled
<1>6. Lifecycle!End(E)
  BY <1>3, <1>4, <1>5 DEF Lifecycle!End, Lifecycle!Live, Lifecycle!Terminal, Live, Terminal
<1>. QED  BY <1>6 DEF Follows, Lifecycle!Next

(* Every way one run is ended is an End of the lifecycle. *)
LEMMA EndsFollows ==
  ASSUME IInv, TypeOK', NEW r \in Runs, Ends(r)
  PROVE  Follows
<1>1. CASE UNCHANGED <<status, input, saved, held>>
  BY <1>1, RowsAlone DEF Ends
<1>2. CASE ~UNCHANGED <<status, input, saved, held>>
  <2>1. \A i \in Inputs : i \in Pending(r) <=>
          input[i].status = "pending" /\ input[i].run \in {r}
    BY DEF Pending
  <2>2. status[r] \in Live /\ \A q \in Runs : IF q = r THEN status'[q] \in Terminal
                                    ELSE status'[q] = status[q]
    BY <1>2 DEF Ends
  <2>3. \A i \in Inputs : input'[i] = IF i \in Pending(r) THEN Reject(input[i])
                                                        ELSE input[i]
    BY <1>2 DEF Ends
  <2>4. status' \in [Runs -> {"none"} \cup Live \cup Terminal]
    BY DEF TypeOK
  <2>5. owner' = owner /\ keyOf' = keyOf
    BY DEF Ends
  <2>6. {r} \in SUBSET Runs
    OBVIOUS
  <2>. QED  BY <2>1, <2>2, <2>3, <2>4, <2>5, <2>6, EndFollows
<1>. QED  BY <1>1, <1>2

(* The sweep after a crash ends the lost runs at once. *)
LEMMA RecoverFollows ==
  ASSUME IInv, TypeOK', Recover
  PROVE  Follows
<1>1. Lost \in SUBSET Runs
  BY DEF Lost
<1>2. status' \in [Runs -> {"none"} \cup Live \cup Terminal]
  BY DEF TypeOK
<1>3. \A q \in Runs : IF q \in Lost THEN status[q] \in Live /\ status'[q] \in Terminal
                                    ELSE status'[q] = status[q]
  BY DEF Recover, Lost, Terminal
<1>4. \A i \in Inputs : input'[i] =
        IF input[i].status = "pending" /\ input[i].run \in Lost
        THEN Reject(input[i]) ELSE input[i]
  BY DEF Recover, Swept
<1>5. owner' = owner /\ keyOf' = keyOf
  BY DEF Recover
<1>. QED  BY <1>1, <1>2, <1>3, <1>4, <1>5, EndFollows

(* The transaction that inserts a run is a Start. *)
LEMMA CreateFollows ==
  ASSUME IInv, NEW w \in Workers, NEW r \in Runs, StartCreate(w, r)
  PROVE  Follows
<1>. DEFINE s == thread[w].session
            k == thread[w].key
<1>1. s \in Sessions /\ k \in Keys \cup {NoKey}
  BY IInvParts DEF StartCreate, ThreadsOK, TypeOK, Thread
<1>2. \A q \in Runs : owner[q] = s => status[q] \notin Live /\ (keyOf[q] = k => k = NoKey)
  BY DEF StartCreate, MayCreate, KeyUsed, Idle
<1>3. Settled' = Settled /\ Granted' = Granted /\ \A q \in Runs : Pending(q)' = Pending(q)
  BY DEF StartCreate, Settled, Granted, Pending
<1>4. Lifecycle!Start(r, s, k)
  BY <1>2, <1>3 DEF StartCreate, Lifecycle!Start, Lifecycle!Live, Live
<1>. QED  BY <1>1, <1>4 DEF Follows, Lifecycle!Next

(* The transaction that records a response is an Answer. *)
LEMMA CommitFollows ==
  ASSUME IInv, NEW w \in Workers, ResumeCommit(w)
  PROVE  Follows
<1>. DEFINE r == thread[w].run
            i == thread[w].input
            yes == input[i].kind = "approval" /\ thread[w].accept
<1>1. r \in Runs /\ i \in Pending(r) /\ status[r] = "waiting"
  BY CommitRun DEF ResumeCommit
<1>2. i \in Inputs /\ input[i].run = r /\ input[i].status = "pending"
      /\ input[i].verdict # "approved"
  BY <1>1, IInvParts DEF Pending, RowsOK
<1>3. \A j \in Inputs : j # i => input'[j] = input[j]
  BY IInvParts DEF ResumeCommit, TypeOK
<1>4. /\ input'[i].status = "resolved" /\ input'[i].run = r
      /\ input'[i].verdict = "approved" <=> yes
  BY <1>2, IInvParts DEF ResumeCommit, TypeOK, Input
<1>5. \A q \in Runs : Pending(q)' = IF q = r THEN Pending(q) \ {i} ELSE Pending(q)
  BY <1>2, <1>3, <1>4 DEF Pending
<1>6. Settled' = Settled \cup {i}
  BY <1>2, <1>3, <1>4 DEF Settled
<1>7. Granted' = IF yes THEN Granted \cup {i} ELSE Granted
  BY <1>2, <1>3, <1>4 DEF Granted
<1>8. Lifecycle!Answer(r, i, yes)
  BY <1>1, <1>5, <1>6, <1>7 DEF ResumeCommit, Lifecycle!Answer
<1>9. yes \in BOOLEAN
  OBVIOUS
<1>. QED  BY <1>1, <1>2, <1>8, <1>9 DEF Follows, Lifecycle!Next

(* The transaction of a pause is a Pause. *)
LEMMA WaitFollows ==
  ASSUME IInv, NEW w \in Workers, NEW new \in SUBSET Inputs,
         NEW kind \in {"approval", "decision"}, NEW manual \in BOOLEAN,
         WaitCommit(w, new, kind, manual)
  PROVE  Follows
<1>. DEFINE r == thread[w].run
<1>1. r \in Runs /\ status[r] = "running"
  BY ThreadRun DEF WaitCommit, At, IInv, ExecutionOK, LivePcs, RunPcs, Pcs
<1>2. \A i \in new : input[i].status = "free"
  BY DEF WaitCommit
<1>3. \A i \in Inputs : IF i \in new
        THEN input'[i].status = "pending" /\ input'[i].run = r /\ input'[i].verdict = "none"
        ELSE input'[i] = input[i]
  BY DEF WaitCommit, NewInput
<1>4. \A q \in Runs : Pending(q)' = IF q = r THEN Pending(q) \cup new ELSE Pending(q)
  BY <1>2, <1>3 DEF Pending
<1>5. Settled' = Settled /\ Granted' = Granted
  BY <1>2, <1>3 DEF Settled, Granted
<1>6. Lifecycle!Fresh(new)
  BY <1>2 DEF Lifecycle!Fresh, Settled, Pending
<1>7. Lifecycle!Pause(r, new)
  BY <1>1, <1>4, <1>5, <1>6 DEF WaitCommit, Lifecycle!Pause
<1>. QED  BY <1>1, <1>7 DEF Follows, Lifecycle!Next

(* A restart that can go on with a waiting run is a Reissue. *)
LEMMA RestoreFollows ==
  ASSUME IInv, NEW r \in Runs, NEW ids \in SUBSET Inputs,
         NEW reissue \in [ids -> Inputs], Restore(r, reissue)
  PROVE  Follows
<1>. DEFINE old == Pending(r)
            source(k) == CHOOSE i \in DOMAIN reissue : reissue[i] = k
            target(k) == \E i \in DOMAIN reissue : reissue[i] = k
<1>1. \A k \in Inputs : input'[k] = IF k \in DOMAIN reissue THEN Reject(input[k])
                                     ELSE IF target(k) THEN input[source(k)] ELSE input[k]
  BY DEF Restore, Reissued
<1>2. CASE Overdue(r)
  <2>1. DOMAIN reissue = {}
    BY <1>2 DEF Restore
  <2>2. input' = [k \in Inputs |-> input[k]]
    BY <2>1 DEF Restore
  <2>3. input' = input
    BY <2>2, IInvParts DEF TypeOK
  <2>. QED  BY <2>3, RowsAlone DEF Restore
<1>3. CASE ~Overdue(r)
  <2>. DEFINE new == {reissue[i] : i \in old}
  <2>1. DOMAIN reissue = old /\ old \subseteq Inputs
    BY <1>3 DEF Restore, Pending
  <2>2. /\ new \subseteq Inputs /\ \A k \in new : input[k].status = "free"
        /\ \A k \in Inputs : target(k) <=> k \in new
    BY <2>1 DEF Restore
  <2>3. \A k \in new : source(k) \in old
    BY <2>1, <2>2
  <2>4. \A i \in old : /\ input[i].status = "pending" /\ input[i].run = r
                       /\ input[i].verdict = "none"
    BY IInvParts DEF Pending, RowsOK
  <2>5. \A i \in old : /\ input'[i].status = "expired" /\ input'[i].run = r
                       /\ input'[i].verdict # "approved"
    BY <1>1, <2>1, <2>4, IInvParts, RejectSettles, RejectVerdict DEF TypeOK
  <2>6. \A k \in new : k \notin old
    BY <2>2, <2>4
  <2>. HIDE DEF source, target, new
  <2>7. \A k \in new : /\ input'[k].status = "pending" /\ input'[k].run = r
                       /\ input'[k].verdict = "none"
    BY <1>1, <2>1, <2>2, <2>3, <2>4, <2>6
  <2>8. \A k \in Inputs : k \notin old /\ k \notin new => input'[k] = input[k]
    BY <1>1, <2>1, <2>2
  <2>9. \A q \in Runs : Pending(q)' = IF q = r THEN new ELSE Pending(q)
    <3>1. \A q \in Runs, k \in Inputs :
            input'[k].run = q /\ input'[k].status = "pending" <=>
              IF q = r THEN k \in new ELSE input[k].run = q /\ input[k].status = "pending"
      BY <2>2, <2>4, <2>5, <2>7, <2>8 DEF Pending
    <3>. QED  BY <2>2, <3>1 DEF Pending
  <2>10. Settled' = Settled \cup old
    BY <2>1, <2>2, <2>4, <2>5, <2>7, <2>8 DEF Settled
  <2>11. Granted' = Granted
    BY <2>2, <2>4, <2>5, <2>7, <2>8 DEF Granted
  <2>12. Lifecycle!Fresh(new)
    BY <2>2 DEF Lifecycle!Fresh, Settled, Pending
  <2>13. new # {} /\ status[r] = "waiting"
    BY DEF Restore, new, IInv, WaitingHasInput
  <2>14. Lifecycle!Reissue(r, new)
    BY <2>9, <2>10, <2>11, <2>12, <2>13 DEF Restore, Lifecycle!Reissue
  <2>. QED  BY <2>2, <2>14 DEF Follows, Lifecycle!Next
<1>. QED  BY <1>2, <1>3

-----------------------------------------------------------------------------
(* Every step of the agent is a step of the lifecycle or leaves its rows.   *)
LEMMA FollowsStep ==
  ASSUME IInv, TypeOK', Next
  PROVE  Follows
<1>1. ASSUME NEW w \in Workers, ThreadEnds(w) PROVE Follows
  BY <1>1, EndsFollows DEF ThreadEnds
<1>2. ASSUME NEW r \in Runs, OthersEnd(r) PROVE Follows
  BY <1>2, EndsFollows DEF OthersEnd
<1>3. ASSUME UNCHANGED rowVars PROVE Follows
  BY <1>3, RowsAlone DEF rowVars
<1>4. ASSUME NEW w \in Workers, Start(w) PROVE Follows
  <2>1. (\E s \in Sessions, k \in Keys \cup {NoKey} : StartRequest(w, s, k))
        \/ StartRefused(w)
          => UNCHANGED rowVars
    BY DEF StartRequest, Accept, StartRefused, rowVars, lockVars, worldVars
  <2>. QED  BY <1>4, <1>3, <2>1, CreateFollows DEF Start
<1>5. ASSUME NEW w \in Workers, Resume(w) PROVE Follows
  <2>1. (\E r \in Runs, i \in Inputs, accept \in BOOLEAN : ResumeRequest(w,
        r, i, accept)) \/ ResumeRefused(w) \/ ResumeAdmit(w) \/
        ResumeTooLate(w) \/ ResumeInvalid(w) \/ ResumeArm(w)
          => UNCHANGED rowVars
    BY DEF ResumeRequest, Accept, ResumeRefused, ResumeAdmit, ResumeTooLate,
       ResumeInvalid, ResumeArm, rowVars, lockVars, worldVars
  <2>. QED  BY <1>5, <1>1, <1>3, <2>1, ThreadEndsRun, CommitFollows DEF Resume
<1>6. ASSUME NEW w \in Workers, Execute(w) PROVE Follows
  <2>1. Wait(w) => Follows
    BY WaitFollows DEF Wait
  <2>2. ReserveWorktree(w) \/ Begin(w) \/ DriveWrite(w) \/ DrivePause(w) \/
        DriveReturn(w) \/ LeaveWorktree(w) \/ StopExecuting(w) \/
        ReleaseWorktree(w) \/ ReleaseLock(w) \/ NotifyTimeout(w)
          => UNCHANGED rowVars
    BY DEF ReserveWorktree, Begin, DriveWrite, DrivePause, DriveReturn,
       LeaveWorktree, StopExecuting, ReleaseWorktree, ReleaseLock,
       NotifyTimeout, rowVars, lockVars, worldVars
  <2>. QED  BY <1>6, <1>1, <1>3, <2>1, <2>2, ThreadEndsRun DEF Execute
<1>7. ASSUME NEW w \in Workers, Close(w) PROVE Follows
  <2>1. (\E s \in Sessions : CloseRequest(w, s)) \/ CloseDone(w)
          => UNCHANGED rowVars
    BY DEF CloseRequest, Accept, CloseDone, rowVars, lockVars, worldVars
  <2>. QED  BY <1>7, <1>2, <1>3, <2>1, OthersEndRun DEF Close
<1>8. ASSUME Scheduler PROVE Follows
  <2>1. SchedulerExpire => sched.run \in Runs
    BY DEF SchedulerExpire, IInv, SchedOK, TypeOK, Ids
  <2>2. (\E r \in Runs : SchedulerPop(r)) \/ SchedulerRetry \/
        SchedulerNotify
          => UNCHANGED rowVars
    BY DEF SchedulerPop, SchedulerRetry, SchedulerNotify, rowVars, lockVars,
       worldVars
  <2>. QED  BY <1>8, <1>2, <1>3, <2>1, <2>2, OthersEndRun DEF Scheduler
<1>9. ASSUME Restart PROVE Follows
  <2>1. Crash \/ Serve
          => UNCHANGED rowVars
    BY DEF Crash, Serve, rowVars, lockVars, worldVars
  <2>. QED
    BY <1>9, <1>2, <1>3, <2>1, OthersEndRun, RestoreFollows, RecoverFollows DEF Restart
<1>10. Tick \/ (\E root \in Roots : OutsideEdit(root)) => UNCHANGED rowVars
  BY DEF Tick, OutsideEdit, rowVars
<1>. QED
  BY <1>2, <1>3, <1>4, <1>5, <1>6, <1>7, <1>8, <1>9, <1>10, OthersEndRun DEF Next

(* The agent starts as the lifecycle does: no run, nothing asked. *)
LEMMA InitFollows == Init => Lifecycle!Init
BY ConstantsOK DEF Init, Lifecycle!Init, Pending, Settled, Granted, FreeInput

(* The runs of every session follow the lifecycle: one live run, one run   *)
(* of a request key, answers that settle what they answer, ends that are   *)
(* final, through crashes and restarts too.                                *)
THEOREM RowsFollowLifecycleTheorem == Spec => RowsFollowLifecycle
<1>1. IInv /\ IInv' /\ [Next]_vars => [Lifecycle!Next]_(Lifecycle!vars)
  <2>1. IInv /\ IInv' /\ Next => Follows
    BY FollowsStep DEF IInv
  <2>2. UNCHANGED vars => Follows
    BY RowsAlone DEF vars, rowVars
  <2>. QED  BY <2>1, <2>2 DEF Follows
<1>. QED
  BY <1>1, InitFollows, Invariant, PTL DEF Spec, RowsFollowLifecycle, Lifecycle!Spec

-----------------------------------------------------------------------------
(***************************************************************************)
(* Overlapping worktrees are never driven by two threads at once, for any  *)
(* number of sessions, roots and threads.  Driving says nothing about what *)
(* the runtime has reserved, so the invariant follows the reservation from *)
(* where a thread takes it to where it gives it back.                      *)
(***************************************************************************)
(* Where a thread can have its worktree reserved. *)
HoldPcs == {"commit", "expired", "arm", "begin", "drive", "wait", "check",
            "leave", "unset", "post", "release"}
DrivePcs == {"drive", "wait", "check"}

(* What a thread reserved is reserved, and nothing that overlaps it is. *)
ReservedOK ==
  /\ \A w \in Workers : thread[w].reserved =>
       thread[w].pc \in HoldPcs /\ RootOf[thread[w].session] \in worktrees
  /\ \A w \in Workers : thread[w].pc \in DrivePcs => thread[w].reserved
  /\ \A v, w \in Workers : v # w /\ thread[v].reserved /\ thread[w].reserved =>
       <<RootOf[thread[v].session], RootOf[thread[w].session]>> \notin Overlap

OthersStay(w) == \A v \in Workers \ {w} : thread'[v] = thread[v]

(* The three things a thread does with its reservation. *)
Keeps(w) ==
  /\ OthersStay(w) /\ worktrees' = worktrees
  /\ \/ ~thread'[w].reserved /\ thread'[w].pc \notin DrivePcs
     \/ /\ thread'[w].reserved /\ thread[w].reserved /\ thread'[w].pc \in HoldPcs
        /\ thread'[w].session = thread[w].session
Takes(w) ==
  /\ OthersStay(w) /\ CanReserve(thread[w].session)
  /\ worktrees' = worktrees \cup {RootOf[thread[w].session]}
  /\ thread[w].session \in Sessions /\ thread'[w].session = thread[w].session
  /\ thread'[w].reserved /\ thread'[w].pc \in HoldPcs
Gives(w) ==
  /\ OthersStay(w) /\ thread[w].reserved
  /\ worktrees' = worktrees \ {RootOf[thread[w].session]}
  /\ ~thread'[w].reserved /\ thread'[w].pc \notin DrivePcs

(* A thread that has a reservation works for a session. *)
LEMMA HolderSession ==
  ASSUME IInv, ReservedOK, NEW w \in Workers, thread[w].reserved
  PROVE  thread[w].session \in Sessions /\ RootOf[thread[w].session] \in Roots
BY IInvParts DEF ReservedOK, HoldPcs, ThreadsOK, ConstantsOK

(* Keeping a reservation, or having none, disturbs nobody. *)
LEMMA KeepsReserved ==
  ASSUME ReservedOK, NEW w \in Workers, Keeps(w)
  PROVE  ReservedOK'
BY DEF Keeps, OthersStay, ReservedOK

(* A root is reserved only when it overlaps none that is. *)
LEMMA TakesReserved ==
  ASSUME IInv, ReservedOK, NEW w \in Workers, Takes(w)
  PROVE  ReservedOK'
<1>1. \A v \in Workers \ {w} : thread[v].reserved =>
        /\ <<RootOf[thread[w].session], RootOf[thread[v].session]>> \notin Overlap
        /\ <<RootOf[thread[v].session], RootOf[thread[w].session]>> \notin Overlap
  BY IInvParts, HolderSession DEF Takes, CanReserve, ReservedOK, ConstantsOK
<1>. QED  BY <1>1 DEF Takes, OthersStay, ReservedOK

(* Giving a root back takes no other reservation away: every root overlaps *)
(* itself.                                                                 *)
LEMMA GivesReserved ==
  ASSUME IInv, ReservedOK, NEW w \in Workers, Gives(w)
  PROVE  ReservedOK'
<1>1. \A v \in Workers \ {w} : thread[v].reserved =>
        RootOf[thread[v].session] # RootOf[thread[w].session]
  BY IInvParts, HolderSession DEF Gives, ReservedOK, ConstantsOK
<1>. QED  BY <1>1 DEF Gives, OthersStay, ReservedOK

(* A step that moves no thread and no reservation. *)
LEMMA SameReserved ==
  ASSUME ReservedOK, UNCHANGED <<thread, worktrees>>
  PROVE  ReservedOK'
BY DEF ReservedOK

-----------------------------------------------------------------------------
(* What each request of start does with its reservation: nothing yet. *)
LEMMA StartReserved ==
  ASSUME IInv, ReservedOK, NEW w \in Workers, Start(w)
  PROVE  ReservedOK'
<1>0. TypeOK
  BY IInvParts
<1>. USE DEF Keeps, OthersStay, HoldPcs, DrivePcs
<1>1. ASSUME NEW s \in Sessions, NEW k \in Keys \cup {NoKey}, StartRequest(w, s, k)
      PROVE  Keeps(w)
  BY <1>0, <1>1 DEF StartRequest, Accept, TypeOK, IdleThread
<1>2. thread[w].pc = "start" => ~thread[w].reserved
  BY DEF ReservedOK
<1>3. ASSUME NEW r \in Runs, StartCreate(w, r) PROVE Keeps(w)
  BY <1>0, <1>2, <1>3 DEF StartCreate, lockVars, TypeOK, Thread
<1>4. StartRefused(w) => Keeps(w)
  BY <1>0, <1>2 DEF StartRefused, Goto, lockVars, TypeOK, Thread
<1>. HIDE DEF Keeps
<1>. QED  BY <1>1, <1>3, <1>4, KeepsReserved DEF Start

(* resume reserves the worktree in its admitting section. *)
LEMMA ResumeReserved ==
  ASSUME IInv, ReservedOK, NEW w \in Workers, Resume(w)
  PROVE  ReservedOK'
<1>0. TypeOK
  BY IInvParts
<1>1. ASSUME NEW r \in Runs, NEW i \in Inputs, NEW accept \in BOOLEAN,
             ResumeRequest(w, r, i, accept)
      PROVE  Keeps(w)
  BY <1>0, <1>1 DEF ResumeRequest, Accept, TypeOK, IdleThread, Keeps, OthersStay, DrivePcs
<1>2. CASE ResumeOverdue(w) \/ ResumeRefused(w)
  <2>1. ~thread[w].reserved
    BY <1>2 DEF ResumeOverdue, ResumeRefused, Admit, ReservedOK, HoldPcs
  <2>2. /\ OthersStay(w) /\ worktrees' = worktrees /\ thread'[w].pc = "unlock"
        /\ thread'[w].reserved = thread[w].reserved
    BY <1>0, <1>2 DEF ResumeOverdue, ResumeRefused, Goto, lockVars, TypeOK, Thread, OthersStay
  <2>3. Keeps(w)
    BY <2>1, <2>2 DEF Keeps, DrivePcs
  <2>. QED  BY <2>3, KeepsReserved
<1>3. CASE ResumeStale(w) \/ ResumeAdmit(w)
  <2>1. /\ thread[w].pc = "admit" /\ CanReserve(owner[thread[w].run])
        /\ worktrees' = worktrees \cup {Root(thread[w].run)}
        /\ OthersStay(w)
        /\ thread'[w].session = thread[w].session /\ thread'[w].reserved
        /\ thread'[w].pc \in HoldPcs
    BY <1>0, <1>3 DEF ResumeStale, ResumeAdmit, Admissible, Admit, TypeOK, Thread,
       OthersStay, HoldPcs
  <2>2. owner[thread[w].run] = thread[w].session /\ thread[w].session \in Sessions
    BY <2>1, ThreadRun DEF RunPcs, Pcs
  <2>3. Takes(w)
    BY <2>1, <2>2 DEF Takes, Root
  <2>. QED  BY <2>3, TakesReserved
<1>4. CASE ResumeCommit(w) \/ ResumeTooLate(w) \/ ResumeInvalid(w) \/ ResumeExpire(w)
           \/ ResumeArm(w)
  <2>1. /\ worktrees' = worktrees
        /\ \E pc \in {"arm", "expired", "release", "begin"} : Goto(w, pc)
    BY <1>4 DEF ResumeCommit, ResumeTooLate, ResumeInvalid, ResumeExpire, ResumeArm, lockVars
  <2>2. /\ OthersStay(w) /\ thread'[w].pc \in {"arm", "expired", "release", "begin"}
        /\ thread'[w].reserved = thread[w].reserved /\ thread'[w].session = thread[w].session
    BY <1>0, <2>1 DEF Goto, TypeOK, Thread, OthersStay
  <2>3. Keeps(w)
    BY <2>1, <2>2 DEF Keeps, HoldPcs, DrivePcs
  <2>. QED  BY <2>3, KeepsReserved
<1>. QED  BY <1>1, <1>2, <1>3, <1>4, KeepsReserved DEF Resume

(* _execute reserves for a run that starts, drives only what is reserved,  *)
(* and gives the root back once.                                           *)
LEMMA ExecuteReserved ==
  ASSUME IInv, ReservedOK, NEW w \in Workers, Execute(w)
  PROVE  ReservedOK'
<1>0. TypeOK
  BY IInvParts
<1>. USE DEF OthersStay
<1>1. CASE ReserveWorktree(w)
  <2>1. thread[w].session \in Sessions
    BY <1>1, IInvParts DEF ReserveWorktree, At, ThreadsOK
  <2>2. CASE CanReserve(thread[w].session)
    <3>1. Takes(w)
      BY <1>0, <1>1, <2>1, <2>2 DEF ReserveWorktree, TypeOK, Thread, Takes, HoldPcs
    <3>. QED  BY <3>1, TakesReserved
  <2>3. CASE ~CanReserve(thread[w].session)
    <3>1. Keeps(w)
      BY <1>0, <1>1, <2>3 DEF ReserveWorktree, TypeOK, Thread, Keeps, DrivePcs
    <3>. QED  BY <3>1, KeepsReserved
  <2>. QED  BY <2>2, <2>3
<1>2. CASE BeginCancelled(w) \/ BeginBusy(w) \/ BeginStale(w) \/ DriveComplete(w)
           \/ DriveFail(w) \/ DriveStop(w)
  <2>1. /\ worktrees' = worktrees
        /\ Goto(w, "leave") \/ thread' = [thread EXCEPT ![w].pc = "leave", ![w].raised = TRUE]
    BY <1>2 DEF BeginCancelled, BeginBusy, BeginStale, DriveComplete, DriveFail,
       DriveStop, FinishRaised, FinishInside, lockVars
  <2>2. /\ OthersStay(w) /\ thread'[w].pc = "leave"
        /\ thread'[w].reserved = thread[w].reserved /\ thread'[w].session = thread[w].session
    BY <1>0, <2>1 DEF Goto, TypeOK, Thread
  <2>3. Keeps(w)
    BY <2>1, <2>2 DEF Keeps, HoldPcs, DrivePcs
  <2>. QED  BY <2>3, KeepsReserved
<1>3. CASE Begin(w)
  <2>1. Keeps(w)
    BY <1>0, <1>3 DEF Begin, Goto, lockVars, TypeOK, Thread, Keeps, HoldPcs
  <2>. QED  BY <2>1, KeepsReserved
<1>4. CASE DriveWrite(w)
  BY <1>4, SameReserved DEF DriveWrite, lockVars
<1>5. CASE DrivePause(w) \/ Wait(w) \/ DriveReturn(w)
  <2>1. /\ worktrees' = worktrees /\ thread[w].pc \in DrivePcs
        /\ \E pc \in {"wait", "check", "leave"} : Goto(w, pc)
    BY <1>5 DEF DrivePause, Wait, WaitCommit, DriveReturn, At, lockVars, DrivePcs
  <2>2. /\ OthersStay(w) /\ thread'[w].pc \in {"wait", "check", "leave"}
        /\ thread'[w].reserved = thread[w].reserved /\ thread'[w].session = thread[w].session
    BY <1>0, <2>1 DEF Goto, TypeOK, Thread
  <2>3. Keeps(w)
    BY <2>1, <2>2 DEF Keeps, ReservedOK, HoldPcs
  <2>. QED  BY <2>3, KeepsReserved
<1>6. CASE LeaveWorktree(w) \/ ReleaseWorktree(w)
  <2>1. Gives(w) \/ Keeps(w)
    BY <1>0, <1>6 DEF LeaveWorktree, ReleaseWorktree, At, TypeOK, Thread, Gives, Keeps,
       HoldPcs, DrivePcs
  <2>. QED  BY <2>1, GivesReserved, KeepsReserved
<1>7. CASE StopExecuting(w) \/ PostExecute(w)
  <2>1. Keeps(w)
    BY <1>0, <1>7 DEF StopExecuting, PostExecute, Goto, lockVars, TypeOK, Thread,
       Keeps, HoldPcs, DrivePcs
  <2>. QED  BY <2>1, KeepsReserved
<1>8. CASE ReleaseLock(w) \/ NotifyTimeout(w)
  <2>1. ~thread[w].reserved
    BY <1>8 DEF ReleaseLock, NotifyTimeout, At, ReservedOK, HoldPcs
  <2>2. Keeps(w)
    BY <1>0, <1>8, <2>1 DEF ReleaseLock, NotifyTimeout, lockVars, TypeOK, Thread, IdleThread,
       Keeps, DrivePcs
  <2>. QED  BY <2>2, KeepsReserved
<1>. QED  BY <1>1, <1>2, <1>3, <1>4, <1>5, <1>6, <1>7, <1>8 DEF Execute

(* close, cancel, the deadline thread and the recovery reserve nothing; a  *)
(* crash takes the threads and the reservations.                           *)
LEMMA ReservedStep ==
  ASSUME IInv, ReservedOK, Next
  PROVE  ReservedOK'
<1>0. TypeOK
  BY IInvParts
<1>1. ASSUME NEW w \in Workers, Close(w) PROVE ReservedOK'
  <2>1. ASSUME NEW s \in Sessions, CloseRequest(w, s) PROVE Keeps(w)
    BY <1>0, <2>1 DEF CloseRequest, Accept, TypeOK, IdleThread, Keeps, OthersStay, DrivePcs
  <2>2. CloseDone(w) => Keeps(w)
    BY <1>0 DEF CloseDone, At, Goto, lockVars, TypeOK, Thread, Keeps, OthersStay,
       ReservedOK, HoldPcs, DrivePcs
  <2>3. ASSUME NEW r \in Runs, CloseRun(w, r) PROVE UNCHANGED <<thread, worktrees>>
    BY <2>3 DEF CloseRun, lockVars
  <2>. QED  BY <1>1, <2>1, <2>2, <2>3, KeepsReserved, SameReserved DEF Close
<1>2. ASSUME NEW r \in Runs, Cancel(r) PROVE ReservedOK'
  BY <1>2, SameReserved DEF Cancel, lockVars
<1>3. CASE Scheduler
  BY <1>3, SameReserved DEF Scheduler, SchedulerPop, SchedulerExpire, SchedulerRetry,
     SchedulerNotify, lockVars
<1>4. CASE Restart
  <2>1. CASE Crash
    <3>1. \A w \in Workers : thread'[w] = IdleThread
      BY <2>1 DEF Crash
    <3>. QED  BY <3>1 DEF ReservedOK, IdleThread, DrivePcs
  <2>2. CASE ~Crash
    BY <1>4, <2>2, SameReserved DEF Restart, Restore, Recover, ArmRestored, Serve, lockVars
  <2>. QED  BY <2>1, <2>2
<1>5. CASE Tick \/ \E root \in Roots : OutsideEdit(root)
  BY <1>5, SameReserved DEF Tick, OutsideEdit, lockVars
<1>. QED
  BY <1>1, <1>2, <1>3, <1>4, <1>5, StartReserved, ResumeReserved, ExecuteReserved DEF Next

(* Reservations follow the threads in every reachable state. *)
LEMMA ReservedInvariant == Spec => []ReservedOK
<1>1. Init => ReservedOK
  BY DEF Init, ReservedOK, IdleThread, DrivePcs
<1>2. IInv /\ ReservedOK /\ [Next]_vars => ReservedOK'
  BY ReservedStep, SameReserved DEF vars, lockVars
<1>. QED  BY <1>1, <1>2, Invariant, PTL DEF Spec

(* Overlapping worktrees are never driven by two threads at once. *)
THEOREM WorktreeExclusiveTheorem == Spec => []WorktreeExclusive
<1>1. ReservedOK => WorktreeExclusive
  BY DEF ReservedOK, WorktreeExclusive, Driving, DrivePcs
<1>. QED  BY <1>1, ReservedInvariant, PTL

-----------------------------------------------------------------------------
(***************************************************************************)
(* How a held run ends, and when it forgets the tree it paused with:       *)
(* StopKept and TreeKept are the actions of StopDecidesOutcome and of      *)
(* ResumesOnSameTree.  Before requests are served nobody has asked a run   *)
(* to stop, which is why a restart may end a run as timed out.             *)
(***************************************************************************)
StopKept ==
  \A r \in held : state[r].cancel /\ status'[r] \in Terminal =>
    status'[r] = IF state[r].timedOut THEN "failed" ELSE "cancelled"

TreeKept ==
  \A r \in held \cap held' :
    /\ state[r].frozen # NoTree /\ state'[r].frozen = NoTree
    /\ status'[r] = "running"
    => tree[Root(r)] = state[r].frozen

QuietOK ==
  /\ mode = "recovering" => \A r \in Runs : ~state[r].cancel
  /\ mode = "arming" => \A r \in held : ~state[r].cancel

(* At most r ends, as its entry says, and no other entry thaws. *)
Outcome(r) ==
  /\ \A q \in Runs \ {r} : status'[q] = status[q] /\ state'[q].frozen = state[q].frozen
  /\ r \in held =>
       \/ status'[r] = status[r] /\ state'[r].frozen = state[r].frozen
       \/ /\ r \notin held'
          /\ state[r].cancel =>
               status'[r] = IF state[r].timedOut THEN "failed" ELSE "cancelled"

(* A held run is live. *)
LEMMA HeldLive ==
  ASSUME IInv, NEW r \in held
  PROVE  r \in Runs /\ status[r] \in Live /\ status[r] \notin Terminal
<1>1. status[r] \in Live
  BY DEF IInv, HeldOK, Live
<1>. QED  BY <1>1 DEF IInv, TypeOK, Live, Terminal

(* Ending a run as its entry says is what both properties ask for. *)
LEMMA OutcomeKept ==
  ASSUME IInv, NEW r \in Runs, Outcome(r)
  PROVE  StopKept /\ TreeKept
BY HeldLive DEF Outcome, StopKept, TreeKept

(* So is a step that ends nothing and thaws nothing. *)
LEMMA NothingEnds ==
  ASSUME IInv, status' = status
  PROVE  StopKept
BY HeldLive DEF StopKept

LEMMA NothingThaws ==
  ASSUME \A q \in held \cap held' : state'[q].frozen = state[q].frozen
  PROVE  TreeKept
BY DEF TreeKept

(* _finish ends the run by the stop its caller's entry carries. *)
LEMMA FinishOutcome ==
  ASSUME IInv, NEW r \in Runs, NEW st, NEW wanted \in Terminal,
         state[r].cancel => st.cancel /\ st.timedOut = state[r].timedOut,
         Finish(r, st, wanted)
  PROVE  Outcome(r)
<1>0. TypeOK
  BY IInvParts
<1>1. \A q \in Runs \ {r} : state'[q] = state[q]
  BY <1>0 DEF Finish, TypeOK
<1>2. \A q \in Runs \ {r} : status'[q] = status[q]
  BY <1>0 DEF Finish, TypeOK
<1>3. ASSUME r \in held
      PROVE  /\ r \notin held'
             /\ state[r].cancel =>
                  status'[r] = IF state[r].timedOut THEN "failed" ELSE "cancelled"
  BY <1>0, <1>3, HeldLive DEF Finish, FinalStatus, TypeOK
<1>. QED  BY <1>1, <1>2, <1>3 DEF Outcome

(* When the transaction of _finish fails the run goes on. *)
LEMMA FinishFailsOutcome ==
  ASSUME IInv, NEW r \in Runs, NEW st, st.frozen = state[r].frozen, FinishFails(r, st)
  PROVE  Outcome(r)
BY IInvParts DEF FinishFails, Outcome, rowVars, TypeOK

(* What a thread writes into an entry before it ends the run. *)
LEMMA StopEntries ==
  ASSUME IInv, NEW r \in Runs
  PROVE  /\ TimedOut(r).frozen = state[r].frozen
         /\ LET st == [state[r] EXCEPT !.cancel = TRUE] IN
              st.cancel /\ st.timedOut = state[r].timedOut /\ st.frozen = state[r].frozen
<1>1. state[r] \in State
  BY IInvParts DEF TypeOK
<1>. QED  BY <1>1 DEF TimedOut, State

(* expire_approvals times out only a run that nobody has stopped. *)
LEMMA ExpireOutcome ==
  ASSUME IInv, NEW r \in Runs, Expire(r)
  PROVE  Outcome(r)
<1>1. CASE MustExpire(r) /\ EndsAtOnce(r)
  BY <1>1, FinishOutcome DEF Expire, MustExpire, Terminal
<1>2. CASE ~(MustExpire(r) /\ EndsAtOnce(r))
  BY <1>2, StopEntries, IInvParts DEF Expire, Outcome, rowVars, TypeOK
<1>. QED  BY <1>1, <1>2

(* The ten actions in which a thread ends its run, or fails to. *)
LEMMA ThreadOutcome ==
  ASSUME IInv, NEW w \in Workers,
         \/ ResumeOverdue(w) \/ ResumeStale(w) \/ ResumeExpire(w)
         \/ BeginCancelled(w) \/ BeginBusy(w) \/ BeginStale(w) \/ DriveComplete(w)
         \/ DriveFail(w) \/ DriveStop(w) \/ PostExecute(w)
  PROVE  thread[w].run \in Runs /\ Outcome(thread[w].run)
<1>. DEFINE r == thread[w].run
<1>1. r \in Runs
  BY ThreadEndsRun DEF ThreadEnds
<1>2. CASE ResumeOverdue(w)
  BY <1>1, <1>2, ExpireOutcome, FinishFailsOutcome, StopEntries DEF ResumeOverdue
<1>3. CASE ResumeStale(w)
  BY <1>1, <1>3, FinishOutcome DEF ResumeStale, Terminal
<1>4. CASE ResumeExpire(w)
  BY <1>1, <1>4, ExpireOutcome DEF ResumeExpire
<1>5. CASE BeginCancelled(w)
  BY <1>1, <1>5, FinishOutcome, FinishFailsOutcome, StopEntries
     DEF BeginCancelled, FinishRaised, Terminal
<1>6. CASE BeginBusy(w) \/ DriveFail(w) \/ DriveStop(w)
  BY <1>1, <1>6, FinishOutcome, FinishFailsOutcome
     DEF BeginBusy, DriveFail, DriveStop, FinishRaised, Terminal
<1>7. CASE BeginStale(w) \/ DriveComplete(w)
  BY <1>1, <1>7, FinishOutcome DEF BeginStale, DriveComplete, FinishInside, Terminal
<1>8. CASE PostExecute(w)
  <2>1. CASE LateStop(r)
    BY <1>1, <1>8, <2>1, FinishOutcome DEF PostExecute, Terminal
  <2>2. CASE ~LateStop(r) /\ status[r] = "waiting" /\ MustExpire(r)
    BY <1>1, <1>8, <2>2, FinishOutcome DEF PostExecute, LateStop, Terminal
  <2>3. CASE ~LateStop(r) /\ ~(status[r] = "waiting" /\ MustExpire(r))
    BY <1>1, <1>8, <2>3 DEF PostExecute, Outcome, rowVars
  <2>. QED  BY <2>1, <2>2, <2>3
<1>. QED  BY <1>1, <1>2, <1>3, <1>4, <1>5, <1>6, <1>7, <1>8

(* The actions in which somebody else ends a run. *)
LEMMA OthersOutcome ==
  ASSUME IInv, QuietOK, NEW r \in Runs,
         \/ \E w \in Workers : CloseRun(w, r)
         \/ Cancel(r) \/ ArmRestored(r)
         \/ SchedulerExpire /\ r = sched.run
  PROVE  Outcome(r)
<1>1. CASE \E w \in Workers : CloseRun(w, r)
  BY <1>1, FinishOutcome DEF CloseRun, Terminal
<1>2. CASE Cancel(r)
  <2>1. CASE EndsAtOnce(r)
    BY <1>2, <2>1, FinishOutcome, FinishFailsOutcome, StopEntries DEF Cancel, Terminal
  <2>2. CASE ~EndsAtOnce(r)
    BY <1>2, <2>2, StopEntries, IInvParts DEF Cancel, Outcome, rowVars, TypeOK
  <2>. QED  BY <2>1, <2>2
<1>3. CASE ArmRestored(r)
  <2>1. ~state[r].cancel
    BY <1>3 DEF ArmRestored, Unarmed, QuietOK
  <2>2. CASE Overdue(r)
    BY <1>3, <2>1, <2>2, FinishOutcome DEF ArmRestored, Terminal
  <2>3. CASE ~Overdue(r)
    BY <1>3, <2>3 DEF ArmRestored, Outcome, rowVars
  <2>. QED  BY <2>2, <2>3
<1>4. CASE SchedulerExpire /\ r = sched.run
  BY <1>4, ExpireOutcome DEF SchedulerExpire
<1>. QED  BY <1>1, <1>2, <1>3, <1>4

(* A step that leaves every status and every frozen tree as it is. *)
Harmless == /\ status' = status
            /\ \A q \in Runs : state'[q].frozen = state[q].frozen

LEMMA HarmlessKept ==
  ASSUME IInv, Harmless
  PROVE  StopKept /\ TreeKept
BY NothingEnds, NothingThaws, HeldLive DEF Harmless

(* Publishing a timeout thaws nothing. *)
LEMMA PublishFrozen ==
  ASSUME IInv, NEW r \in Runs, Publish(r)
  PROVE  \A q \in Runs : /\ state'[q].frozen = state[q].frozen
                         /\ state'[q].cancel = state[q].cancel
<1>1. \A q \in Runs : state[q] \in State
  BY IInvParts DEF TypeOK
<1>2. CASE state' = state
  BY <1>2
<1>3. CASE state' # state
  <2>1. state' = [state EXCEPT ![r].notify = FALSE]
    BY <1>3 DEF Publish
  <2>. QED  BY <1>1, <2>1, IInvParts DEF State, TypeOK
<1>. QED  BY <1>2, <1>3

(* A response ends nothing it does not end as the entry says. *)
LEMMA ResumeKept ==
  ASSUME IInv, NEW w \in Workers, Resume(w)
  PROVE  StopKept /\ TreeKept
<1>1. CASE (\E r \in Runs, i \in Inputs, a \in BOOLEAN : ResumeRequest(w, r, i, a))
           \/ ResumeRefused(w) \/ ResumeAdmit(w) \/ ResumeInvalid(w) \/ ResumeArm(w)
  <2>1. Harmless
    BY <1>1 DEF ResumeRequest, ResumeRefused, ResumeAdmit, ResumeInvalid, ResumeArm,
       Harmless, rowVars
  <2>. QED  BY <2>1, HarmlessKept
<1>2. ASSUME thread[w].pc = "commit"
      PROVE  /\ thread[w].run \in Runs
             /\ Answered(w).frozen = state[thread[w].run].frozen
             /\ [Answered(w) EXCEPT !.manual = FALSE, !.executing = TRUE].frozen
                  = state[thread[w].run].frozen
  <2>1. thread[w].run \in Runs
    BY <1>2, CommitRun
  <2>2. state[thread[w].run] \in State
    BY <2>1, IInvParts DEF TypeOK
  <2>. QED  BY <2>1, <2>2 DEF Answered, State
<1>3. CASE ResumeCommit(w)
  <2>1. thread[w].pc = "commit"
    BY <1>3 DEF ResumeCommit
  <2>2. StopKept
    BY <1>2, <1>3, <2>1, HeldLive, IInvParts DEF ResumeCommit, StopKept, Terminal, TypeOK
  <2>3. \A q \in Runs : state'[q].frozen = state[q].frozen
    BY <1>2, <1>3, <2>1, IInvParts DEF ResumeCommit, TypeOK
  <2>. QED  BY <2>2, <2>3, NothingThaws, HeldLive
<1>4. CASE ResumeTooLate(w)
  <2>1. Harmless
    BY <1>2, <1>4, IInvParts DEF ResumeTooLate, Harmless, rowVars, TypeOK
  <2>. QED  BY <2>1, HarmlessKept
<1>5. CASE ResumeOverdue(w) \/ ResumeStale(w) \/ ResumeExpire(w)
  BY <1>5, ThreadOutcome, OutcomeKept
<1>. QED  BY <1>1, <1>3, <1>4, <1>5 DEF Resume

(* Only Begin thaws a run that goes on, after it compared the trees. *)
LEMMA ExecuteKept ==
  ASSUME IInv, NEW w \in Workers, Execute(w)
  PROVE  StopKept /\ TreeKept
<1>0. \A q \in Runs : state[q] \in State
  BY IInvParts DEF TypeOK
<1>1. CASE ReserveWorktree(w) \/ DriveWrite(w) \/ DrivePause(w) \/ DriveReturn(w)
           \/ LeaveWorktree(w) \/ ReleaseWorktree(w) \/ ReleaseLock(w)
  <2>1. Harmless
    BY <1>1 DEF ReserveWorktree, DriveWrite, DrivePause, DriveReturn, LeaveWorktree,
       ReleaseWorktree, ReleaseLock, Harmless, rowVars
  <2>. QED  BY <2>1, HarmlessKept
<1>2. CASE Begin(w)
  <2>1. thread[w].run \in Runs /\ status' = status
    BY <1>2, ThreadRun DEF Begin, At, RunPcs, Pcs, rowVars
  <2>2. \A q \in Runs \ {thread[w].run} : state'[q] = state[q]
    BY <1>2, IInvParts DEF Begin, TypeOK
  <2>3. ~Stale(thread[w].run)
    BY <1>2 DEF Begin, SameTree
  <2>4. TreeKept
    BY <2>2, <2>3, HeldLive DEF TreeKept, Stale
  <2>. QED  BY <2>1, <2>4, NothingEnds
<1>3. CASE Wait(w)
  <2>. PICK new \in SUBSET Inputs, kind \in {"approval", "decision"}, manual \in BOOLEAN :
         WaitCommit(w, new, kind, manual)
    BY <1>3 DEF Wait
  <2>1. status' = [status EXCEPT ![thread[w].run] = "waiting"]
    BY DEF WaitCommit
  <2>2. StopKept
    BY <2>1, HeldLive, IInvParts DEF StopKept, Terminal, TypeOK
  <2>3. \A q \in Runs \ {thread[w].run} : state'[q] = state[q]
    BY IInvParts DEF WaitCommit, TypeOK
  <2>4. TreeKept
    BY <2>1, <2>3, HeldLive, IInvParts DEF TreeKept, TypeOK
  <2>. QED  BY <2>2, <2>4
<1>4. CASE StopExecuting(w)
  <2>1. Harmless
    BY <1>0, <1>4, IInvParts DEF StopExecuting, Harmless, rowVars, TypeOK, State
  <2>. QED  BY <2>1, HarmlessKept
<1>5. CASE NotifyTimeout(w)
  <2>1. thread[w].run \in Runs
    BY <1>5, ThreadRun DEF NotifyTimeout, RunPcs, Pcs
  <2>2. Harmless
    BY <1>5, <2>1, PublishFrozen DEF NotifyTimeout, Harmless, rowVars
  <2>. QED  BY <2>2, HarmlessKept
<1>6. CASE BeginCancelled(w) \/ BeginBusy(w) \/ BeginStale(w) \/ DriveComplete(w)
           \/ DriveFail(w) \/ DriveStop(w) \/ PostExecute(w)
  BY <1>6, ThreadOutcome, OutcomeKept
<1>. QED  BY <1>1, <1>2, <1>3, <1>4, <1>5, <1>6 DEF Execute

(* The deadline thread ends runs through expire_approvals only. *)
LEMMA SchedulerKept ==
  ASSUME IInv, QuietOK, Scheduler
  PROVE  StopKept /\ TreeKept
<1>0. \A q \in Runs : state[q] \in State
  BY IInvParts DEF TypeOK
<1>1. sched.pc # "idle" => sched.run \in Runs
  BY IInvParts DEF SchedOK, TypeOK, Ids
<1>2. CASE \E r \in Runs : SchedulerPop(r)
  <2>1. Harmless
    BY <1>2 DEF SchedulerPop, Harmless, rowVars
  <2>. QED  BY <2>1, HarmlessKept
<1>3. CASE SchedulerExpire
  BY <1>1, <1>3, OthersOutcome, OutcomeKept DEF SchedulerExpire
<1>4. CASE SchedulerRetry
  <2>1. Harmless
    BY <1>0, <1>1, <1>4, StopEntries, IInvParts
       DEF SchedulerRetry, Harmless, rowVars, TypeOK
  <2>. QED  BY <2>1, HarmlessKept
<1>5. CASE SchedulerNotify
  <2>1. Harmless
    BY <1>1, <1>5, PublishFrozen DEF SchedulerNotify, Harmless, rowVars
  <2>. QED  BY <2>1, HarmlessKept
<1>. QED  BY <1>2, <1>3, <1>4, <1>5 DEF Scheduler

(* A restart interrupts only what it does not hold again. *)
LEMMA RestartKept ==
  ASSUME IInv, QuietOK, Restart
  PROVE  StopKept /\ TreeKept
<1>1. CASE Crash
  <2>1. status' = status /\ held' = {}
    BY <1>1 DEF Crash, rowVars
  <2>. QED  BY <2>1, NothingEnds, NothingThaws
<1>2. ASSUME NEW r \in Runs, NEW ids \in SUBSET Inputs,
             NEW reissue \in [ids -> Inputs], Restore(r, reissue)
      PROVE  StopKept /\ TreeKept
  <2>1. status' = status /\ r \notin held /\ \A q \in Runs \ {r} : state'[q] = state[q]
    BY <1>2, IInvParts DEF Restore, TypeOK
  <2>. QED  BY <2>1, NothingEnds, NothingThaws, HeldLive
<1>3. CASE Recover
  <2>1. state' = state /\ \A q \in held : status'[q] = status[q]
    BY <1>3, HeldLive DEF Recover, Lost
  <2>. QED  BY <2>1, HeldLive, NothingThaws DEF StopKept
<1>4. CASE \E r \in Runs : ArmRestored(r)
  BY <1>4, OthersOutcome, OutcomeKept
<1>5. CASE Serve
  <2>1. Harmless
    BY <1>5 DEF Serve, Harmless, rowVars
  <2>. QED  BY <2>1, HarmlessKept
<1>. QED  BY <1>1, <1>2, <1>3, <1>4, <1>5 DEF Restart

(* Every step ends and thaws as the two properties say. *)
LEMMA OutcomeStep ==
  ASSUME IInv, QuietOK, Next
  PROVE  StopKept /\ TreeKept
<1>1. ASSUME NEW w \in Workers, NEW r \in Runs, StartCreate(w, r)
      PROVE  StopKept /\ TreeKept
  <2>1. /\ status[r] = "none" /\ status' = [status EXCEPT ![r] = "running"]
        /\ \A q \in Runs \ {r} : state'[q] = state[q]
    BY <1>1, IInvParts DEF StartCreate, TypeOK
  <2>2. r \notin held
    BY <2>1, HeldLive DEF Live
  <2>. QED  BY <2>1, <2>2, HeldLive, NothingThaws, IInvParts DEF StopKept, TypeOK
<1>2. ASSUME NEW w \in Workers, Start(w) PROVE StopKept /\ TreeKept
  <2>1. (\E s \in Sessions, k \in Keys \cup {NoKey} : StartRequest(w, s, k))
        \/ StartRefused(w) => Harmless
    BY DEF StartRequest, StartRefused, Harmless, rowVars
  <2>. QED  BY <1>1, <1>2, <2>1, HarmlessKept DEF Start
<1>3. ASSUME NEW w \in Workers, Close(w) PROVE StopKept /\ TreeKept
  <2>1. (\E s \in Sessions : CloseRequest(w, s)) \/ CloseDone(w) => Harmless
    BY DEF CloseRequest, CloseDone, Harmless, rowVars
  <2>2. (\E r \in Runs : CloseRun(w, r)) => StopKept /\ TreeKept
    BY OthersOutcome, OutcomeKept
  <2>. QED  BY <1>3, <2>1, <2>2, HarmlessKept DEF Close
<1>4. ASSUME NEW r \in Runs, Cancel(r) PROVE StopKept /\ TreeKept
  BY <1>4, OthersOutcome, OutcomeKept
<1>5. CASE Tick \/ \E root \in Roots : OutsideEdit(root)
  <2>1. Harmless
    BY <1>5 DEF Tick, OutsideEdit, Harmless, rowVars
  <2>. QED  BY <2>1, HarmlessKept
<1>. QED
  BY <1>2, <1>3, <1>4, <1>5, ResumeKept, ExecuteKept, SchedulerKept, RestartKept DEF Next

(* While the process recovers only a run that leaves is marked as stopped. *)
LEMMA QuietStep ==
  ASSUME IInv, QuietOK, Next
  PROVE  QuietOK'
<1>0. \A q \in Runs : state[q] \in State
  BY IInvParts DEF TypeOK
<1>1. CASE mode' = "up"
  BY <1>1 DEF QuietOK
<1>2. CASE Crash
  <2>1. \A q \in Runs : ~state'[q].cancel
    BY <1>2 DEF Crash, IdleState
  <2>2. held' = {}
    BY <1>2 DEF Crash
  <2>. QED  BY <2>1, <2>2 DEF QuietOK
<1>3. ASSUME NEW r \in Runs, NEW ids \in SUBSET Inputs,
             NEW reissue \in [ids -> Inputs], Restore(r, reissue)
      PROVE  QuietOK'
  <2>1. \A q \in Runs : state'[q].cancel = state[q].cancel
    BY <1>0, <1>3, IInvParts DEF Restore, State, TypeOK
  <2>2. mode = "recovering" /\ mode' = mode
    BY <1>3 DEF Restore, worldVars
  <2>. QED  BY <2>1, <2>2 DEF QuietOK
<1>4. CASE Recover
  BY <1>4, HeldLive DEF Recover, QuietOK
<1>5. ASSUME NEW r \in Runs, ArmRestored(r) PROVE QuietOK'
  <2>1. r \in held /\ mode = "arming" /\ mode' = mode
    BY <1>5 DEF ArmRestored, Unarmed, worldVars
  <2>2. \A q \in Runs \ {r} : state'[q] = state[q]
    BY <1>5, IInvParts DEF ArmRestored, Finish, TypeOK
  <2>3. held' = held \ {r} \/ (held' = held /\ state' = state)
    <3>1. status[r] \in Live
      BY <2>1, HeldLive
    <3>. QED  BY <1>5, <3>1 DEF ArmRestored, Finish, rowVars
  <2>. QED  BY <2>1, <2>2, <2>3, HeldLive DEF QuietOK
<1>6. CASE Serve
  BY <1>6 DEF Serve, QuietOK
<1>7. CASE Tick \/ \E root \in Roots : OutsideEdit(root)
  BY <1>7 DEF Tick, OutsideEdit, QuietOK
<1>8. ASSUME NEW w \in Workers, Start(w) \/ Close(w) PROVE mode' = "up"
  BY <1>8 DEF Start, Close, StartRequest, StartCreate, StartRefused, CloseRequest,
     CloseRun, CloseDone, Accept, At, ControlFree, worldVars
<1>9. ASSUME NEW w \in Workers, Resume(w) PROVE mode' = "up"
  BY <1>9 DEF Resume, ResumeRequest, ResumeOverdue, ResumeRefused, ResumeStale,
     ResumeAdmit, ResumeCommit, ResumeTooLate, ResumeInvalid, ResumeExpire, ResumeArm,
     Accept, Admit, Admissible, ControlFree, worldVars
<1>10. ASSUME NEW w \in Workers, Execute(w) PROVE mode' = "up"
  BY <1>10 DEF Execute, ReserveWorktree, BeginCancelled, BeginBusy, BeginStale, Begin,
     DriveWrite, DriveComplete, DriveFail, DriveStop, DrivePause, Wait, WaitCommit,
     DriveReturn, LeaveWorktree, StopExecuting, PostExecute, ReleaseWorktree,
     ReleaseLock, NotifyTimeout, Publish, FinishRaised, FinishInside, At, ControlFree,
     worldVars
<1>11. ASSUME Scheduler \/ \E r \in Runs : Cancel(r) PROVE mode' = "up"
  BY <1>11 DEF Scheduler, SchedulerPop, SchedulerExpire, SchedulerRetry, SchedulerNotify,
     Publish, Cancel, ControlFree, worldVars
<1>. QED
  BY <1>1, <1>2, <1>3, <1>4, <1>5, <1>6, <1>7, <1>8, <1>9, <1>10, <1>11
     DEF Next, Restart

(* Before requests are served no held run has been asked to stop. *)
LEMMA QuietInvariant == Spec => []QuietOK
<1>1. Init => QuietOK
  BY DEF Init, QuietOK
<1>2. IInv /\ QuietOK /\ [Next]_vars => QuietOK'
  BY QuietStep DEF vars, worldVars, QuietOK
<1>. QED  BY <1>1, <1>2, Invariant, PTL DEF Spec

(* An accepted stop decides how the run ends, whatever its thread was      *)
(* about to report.                                                        *)
THEOREM StopDecidesOutcomeTheorem == Spec => StopDecidesOutcome
<1>1. IInv /\ QuietOK /\ [Next]_vars => [StopKept]_vars
  BY OutcomeStep
<1>. QED
  BY <1>1, Invariant, QuietInvariant, PTL DEF Spec, StopDecidesOutcome, StopKept

(* A paused run goes on only in the worktree it paused with. *)
THEOREM ResumesOnSameTreeTheorem == Spec => ResumesOnSameTree
<1>1. IInv /\ QuietOK /\ [Next]_vars => [TreeKept]_vars
  BY OutcomeStep
<1>. QED
  BY <1>1, Invariant, QuietInvariant, PTL DEF Spec, ResumesOnSameTree, TreeKept

-----------------------------------------------------------------------------
(***************************************************************************)
(* The recorded diffs.  Which writes a diff contains is decided where the  *)
(* run stands when it ends: before its first step it has no snapshot,      *)
(* while it drives the worktree is its own, and while it pauses its entry  *)
(* keeps the frozen tree.  A failing transaction of _finish breaks this: the *)
(* run stays live without a worktree and without a frozen tree.            *)
(***************************************************************************)
Own(r, files) == files \ before[r] \subseteq {r, User}

RowClean(r) ==
  /\ status[r] = "none" => before[r] = NoTree /\ after[r] = NoTree
  /\ after[r] # NoTree => before[r] # NoTree /\ Own(r, after[r])
  /\ saved[r] # NoTree => before[r] # NoTree /\ Own(r, saved[r])
  /\ status[r] \in Live /\ state[r].frozen # NoTree =>
       before[r] # NoTree /\ Own(r, state[r].frozen)
  /\ r \in held /\ status[r] = "waiting" => state[r].frozen # NoTree
  /\ r \in held /\ status[r] = "running" => state[r].executing

ThreadClean(w) ==
  LET r == thread[w].run IN
  /\ thread[w].pc \in {"start", "reserve"} => thread[w].started
  /\ thread[w].pc \in {"admit", "commit", "arm"} => ~thread[w].started
  /\ thread[w].pc \in {"reserve", "begin"} /\ thread[w].started =>
       before[r] = NoTree /\ after[r] = NoTree /\ state[r].frozen = NoTree
  /\ thread[w].pc \in {"arm", "begin"} /\ ~thread[w].started => state[r].frozen # NoTree
  /\ thread[w].pc \in {"drive", "wait"} => before[r] # NoTree /\ Own(r, tree[Root(r)])
  /\ thread[w].pc \in {"leave", "unset"} => status[r] # "running"

DiffsClean == (\A r \in Runs : RowClean(r)) /\ (\A w \in Workers : ThreadClean(w))

(* Neither the entry nor the row of a run changes. *)
SameRun(q) ==
  /\ status'[q] = status[q] /\ owner'[q] = owner[q]
  /\ before'[q] = before[q] /\ after'[q] = after[q] /\ saved'[q] = saved[q]
  /\ state'[q].frozen = state[q].frozen /\ state'[q].executing = state[q].executing
  /\ q \in held' <=> q \in held

LEMMA SameRunClean ==
  ASSUME NEW q \in Runs, SameRun(q), RowClean(q)
  PROVE  RowClean(q)'
BY DEF SameRun, RowClean, Own

(* A thread that stays where it is, with its run. *)
LEMMA SameThreadClean ==
  ASSUME NEW w \in Workers, thread'[w] = thread[w], SameRun(thread[w].run),
         tree' = tree, ThreadClean(w)
  PROVE  ThreadClean(w)'
<1>1. Root(thread[w].run)' = Root(thread[w].run)
  BY DEF Root, SameRun
<1>. QED  BY <1>1 DEF SameRun, ThreadClean, Own

(* A thread outside the part of a run that looks at its worktree. *)
LEMMA AwayClean ==
  ASSUME NEW w \in Workers,
         thread'[w].pc \notin {"start", "reserve", "admit", "commit", "arm", "begin",
                               "drive", "wait", "leave", "unset"}
  PROVE  ThreadClean(w)'
BY DEF ThreadClean

(* Two threads never execute the same run. *)
LEMMA OneExecutor ==
  ASSUME IInv, NEW v \in Workers, NEW w \in Workers, thread[v].run = thread[w].run,
         thread[v].pc \in RunPcs \ {"notify"}, thread[w].pc \in RunPcs \ {"notify"}
  PROVE  v = w
<1>1. /\ lock[thread[v].session] = v /\ lock[thread[w].session] = w
      /\ owner[thread[v].run] = thread[v].session /\ owner[thread[w].run] = thread[w].session
  BY ThreadRun, IInvParts DEF ThreadsOK, LockPcs, RunPcs, Pcs
<1>. QED  BY <1>1

(* A thread whose run is not the one that changes, or that looks at none.  *)
LEMMA OtherThreadClean ==
  ASSUME IInv, NEW w \in Workers, NEW v \in Workers \ {w}, ThreadClean(v),
         thread'[v] = thread[v], tree' = tree,
         thread[w].pc \in RunPcs \ {"notify"},
         \A q \in Runs \ {thread[w].run} : SameRun(q)
  PROVE  ThreadClean(v)'
<1>1. CASE thread[v].pc \in RunPcs \ {"notify"}
  <2>1. thread[v].run \in Runs \ {thread[w].run}
    BY <1>1, ThreadRun, OneExecutor
  <2>. QED  BY <2>1, SameThreadClean
<1>2. CASE thread[v].pc = "start"
  BY <1>2 DEF ThreadClean
<1>3. CASE thread[v].pc \in {"idle", "notify", "close", "unlock"}
  BY <1>3, AwayClean
<1>4. thread[v].pc \in Pcs
  BY IInvParts DEF TypeOK, Thread
<1>. QED  BY <1>1, <1>2, <1>3, <1>4 DEF RunPcs, Pcs

(* The worktree of a run is a tree, which the value for none is not. *)
LEMMA TreesAreReal ==
  ASSUME IInv, NEW r \in Runs, status[r] # "none"
  PROVE  tree[Root(r)] # NoTree /\ Root(r) \in Roots
<1>1. Nobody \notin Runs \cup {User}
  BY ConstantsOK DEF ConstantsOK
<1>. QED  BY <1>1, RootType DEF NoTree, Trees

-----------------------------------------------------------------------------
(* What ending a run does to its diff: nothing when it was over, otherwise *)
(* the frozen tree or the present one closes it.                           *)
EndsDiff(r) ==
  /\ UNCHANGED <<owner, before, tree>>
  /\ \A q \in Runs \ {r} : SameRun(q)
  /\ state'[r].executing = state[r].executing
  /\ \/ /\ status'[r] = status[r] /\ after'[r] = after[r] /\ saved'[r] = saved[r]
        /\ r \in held' <=> r \in held
        /\ state'[r].frozen = state[r].frozen \/ status[r] \notin Live
     \/ /\ status[r] \in Live /\ status'[r] \in Terminal
        /\ saved'[r] = NoTree /\ r \notin held'
        /\ after'[r] = IF before[r] = NoTree THEN NoTree
                       ELSE IF state[r].frozen # NoTree THEN state[r].frozen
                       ELSE tree[Root(r)]

(* The run has no snapshot, a frozen tree, or a worktree of its own. *)
Closable(r) ==
  status[r] \in Live =>
    \/ before[r] = NoTree \/ state[r].frozen # NoTree \/ Own(r, tree[Root(r)])

LEMMA FinishDiff ==
  ASSUME IInv, NEW r \in Runs, NEW st, st.executing = state[r].executing,
         NEW wanted \in Terminal, Finish(r, st, wanted), tree' = tree
  PROVE  EndsDiff(r)
<1>0. TypeOK
  BY IInvParts
<1>1. Dropped(st).executing = st.executing
  BY DEF Dropped
<1>2. \A q \in Runs \ {r} : SameRun(q)
  BY <1>0 DEF Finish, FinishGit, SameRun, TypeOK
<1>3. state'[r].executing = state[r].executing
  BY <1>0, <1>1 DEF Finish, TypeOK
<1>4. CASE status[r] \in Live
  <2>1. status'[r] \in Terminal
    BY <1>0, <1>4 DEF Finish, FinalStatus, Terminal, TypeOK
  <2>2. /\ saved'[r] = NoTree /\ r \notin held'
        /\ after'[r] = IF before[r] = NoTree THEN NoTree
                       ELSE IF state[r].frozen # NoTree THEN state[r].frozen
                       ELSE tree[Root(r)]
    BY <1>0, <1>4 DEF Finish, FinishGit, TypeOK
  <2>. QED  BY <1>2, <1>3, <1>4, <2>1, <2>2 DEF EndsDiff, Finish
<1>5. CASE status[r] \notin Live
  BY <1>2, <1>3, <1>5 DEF EndsDiff, Finish
<1>. QED  BY <1>4, <1>5

(* A step that changes nothing but flags of the run's entry. *)
LEMMA FlagsDiff ==
  ASSUME IInv, NEW r \in Runs, NEW st, st.executing = state[r].executing,
         st.frozen = state[r].frozen,
         state' = state \/ state' = [state EXCEPT ![r] = st],
         UNCHANGED <<rowVars, held, before, after, tree>>
  PROVE  EndsDiff(r)
<1>1. \A q \in Runs : /\ state'[q].executing = state[q].executing
                      /\ state'[q].frozen = state[q].frozen
  BY IInvParts DEF TypeOK
<1>. QED  BY <1>1 DEF EndsDiff, SameRun, rowVars

(* The entries that accept a stop keep their tree. *)
LEMMA StopFields ==
  ASSUME IInv, NEW r \in Runs
  PROVE  /\ state[r] \in State
         /\ TimedOut(r).frozen = state[r].frozen
         /\ TimedOut(r).executing = state[r].executing
         /\ [TimedOut(r) EXCEPT !.notify = FALSE].executing = state[r].executing
         /\ [state[r] EXCEPT !.cancel = TRUE].executing = state[r].executing
         /\ [state[r] EXCEPT !.cancel = TRUE].frozen = state[r].frozen
<1>1. state[r] \in State
  BY IInvParts DEF TypeOK
<1>2. TimedOut(r) \in State /\ TimedOut(r).executing = state[r].executing
  BY IInvParts, TimedOutExecutes
<1>. QED  BY <1>1, <1>2 DEF TimedOut, State

LEMMA ExpireDiff ==
  ASSUME IInv, NEW r \in Runs, Expire(r), tree' = tree
  PROVE  EndsDiff(r)
<1>1. CASE MustExpire(r) /\ EndsAtOnce(r)
  BY <1>1, StopFields, FinishDiff DEF Expire, Terminal
<1>2. CASE ~(MustExpire(r) /\ EndsAtOnce(r))
  BY <1>2, StopFields, FlagsDiff DEF Expire
<1>. QED  BY <1>1, <1>2

(* Ending a run where its diff can be closed leaves every row clean. *)
LEMMA EndsDiffRows ==
  ASSUME IInv, NEW r \in Runs, EndsDiff(r), status'[r] # status[r] => Closable(r),
         \A q \in Runs : RowClean(q)
  PROVE  \A q \in Runs : RowClean(q)'
<1>1. ASSUME NEW q \in Runs \ {r} PROVE RowClean(q)'
  BY <1>1, SameRunClean DEF EndsDiff
<1>. SUFFICES RowClean(r)'
  BY <1>1
<1>2. CASE status'[r] = status[r]
  <2>1. \/ SameRun(r)
        \/ /\ status[r] \notin Live /\ status'[r] = status[r] /\ before'[r] = before[r]
           /\ after'[r] = after[r] /\ saved'[r] = saved[r]
    <3>1. ~(status[r] \in Live /\ status'[r] \in Terminal)
      BY <1>2 DEF Live, Terminal
    <3>2. /\ owner' = owner /\ before' = before
          /\ state'[r].executing = state[r].executing
          /\ status'[r] = status[r] /\ after'[r] = after[r] /\ saved'[r] = saved[r]
          /\ r \in held' <=> r \in held
          /\ state'[r].frozen = state[r].frozen \/ status[r] \notin Live
      BY <3>1 DEF EndsDiff
    <3>. QED  BY <3>2 DEF SameRun
  <2>2. CASE SameRun(r)
    BY <2>2, SameRunClean
  <2>3. CASE ~SameRun(r)
    BY <2>1, <2>3 DEF RowClean, Own, Live
  <2>. QED  BY <2>2, <2>3
<1>3. CASE status'[r] # status[r]
  <2>1. /\ status[r] \in Live /\ status'[r] \in Terminal /\ saved'[r] = NoTree
        /\ before'[r] = before[r]
        /\ after'[r] = IF before[r] = NoTree THEN NoTree
                       ELSE IF state[r].frozen # NoTree THEN state[r].frozen
                       ELSE tree[Root(r)]
    BY <1>3 DEF EndsDiff
  <2>2. after'[r] # NoTree => before[r] # NoTree /\ Own(r, after'[r])
    <3>1. state[r].frozen # NoTree => Own(r, state[r].frozen)
      BY <2>1 DEF RowClean
    <3>. QED  BY <1>3, <2>1, <3>1 DEF Closable
  <2>3. status'[r] \notin Live /\ status'[r] # "none" /\ status'[r] \notin {"waiting", "running"}
    BY <2>1 DEF Live, Terminal
  <2>. QED  BY <2>1, <2>2, <2>3 DEF RowClean, Own
<1>. QED  BY <1>2, <1>3

(* A live run that nobody executes waits, and its entry has the frozen tree. *)
LEMMA WaitsFrozen ==
  ASSUME IInv, DiffsClean, NEW r \in Runs, mode # "recovering", status[r] \in Live,
         \A w \in Workers : thread[w].run = r => thread[w].pc \notin ExecPcs
  PROVE  state[r].frozen # NoTree
<1>1. r \in held
  BY DEF IInv, HeldOK
<1>2. ~state[r].executing
  BY DEF IInv, ExecutorOK
<1>. QED  BY <1>1, <1>2 DEF DiffsClean, RowClean, Live

(* Where a thread ends its run the diff can be closed. *)
LEMMA ThreadClosable ==
  ASSUME IInv, DiffsClean, NEW w \in Workers,
         thread[w].pc \in {"admit", "expired", "begin", "drive", "wait", "check", "post"}
  PROVE  Closable(thread[w].run)
<1>. DEFINE r == thread[w].run
<1>1. r \in Runs /\ mode = "up"
  BY ThreadRun, IInvParts DEF RunPcs, Pcs, ThreadsOK
<1>2. ThreadClean(w)
  BY DEF DiffsClean
<1>3. CASE thread[w].pc \in {"admit", "expired", "post"}
  <2>1. ASSUME NEW v \in Workers, thread[v].run = r PROVE thread[v].pc \notin ExecPcs
    BY <1>3, <2>1, OneExecutor DEF ExecPcs, RunPcs, Pcs
  <2>. QED  BY <1>1, <2>1, WaitsFrozen DEF Closable
<1>4. CASE thread[w].pc = "begin"
  BY <1>2, <1>4 DEF ThreadClean, Closable
<1>5. CASE thread[w].pc \in {"drive", "wait"}
  BY <1>2, <1>5 DEF ThreadClean, Closable
<1>6. CASE thread[w].pc = "check"
  <2>1. status[r] = "waiting" /\ r \in held
    BY <1>1, <1>6 DEF IInv, ExecutionOK, HeldOK, Live
  <2>. QED  BY <1>1, <2>1 DEF DiffsClean, RowClean, Closable
<1>. QED  BY <1>3, <1>4, <1>5, <1>6

(* What the ten actions in which a thread ends its run do to the diff. *)
ThreadDiff(w) ==
  /\ thread[w].pc \in {"admit", "expired", "begin", "drive", "wait", "check", "post"}
  /\ EndsDiff(thread[w].run)
  /\ thread'[w].pc = "leave" => status'[thread[w].run] \in Terminal

LEMMA ThreadEndsDiff ==
  ASSUME IInv, NEW w \in Workers, spent'.faults = 0,
         \/ ResumeOverdue(w) \/ ResumeStale(w) \/ ResumeExpire(w)
         \/ BeginCancelled(w) \/ BeginBusy(w) \/ BeginStale(w) \/ DriveComplete(w)
         \/ DriveFail(w) \/ DriveStop(w) \/ PostExecute(w)
  PROVE  ThreadDiff(w)
<1>. DEFINE r == thread[w].run
<1>1. r \in Runs /\ ThreadEnds(w)
  BY ThreadEndsRun DEF ThreadEnds
<1>2. \A st : ~FinishFails(r, st)
  <2>1. spent.faults \in Nat /\ spent.faults + 1 # 0
    BY IInvParts DEF TypeOK
  <2>2. \A st : FinishFails(r, st) => spent'.faults = spent.faults + 1
    BY IInvParts DEF FinishFails, TypeOK
  <2>. QED  BY <2>1, <2>2
<1>3. ASSUME thread[w].pc \in LivePcs \cup {"check"}, NEW st, NEW wanted \in Terminal,
             Finish(r, st, wanted)
      PROVE  status'[r] \in Terminal
  <2>1. status[r] \in Live
    BY <1>3 DEF IInv, ExecutionOK, Live
  <2>. QED  BY <1>1, <1>3, <2>1, IInvParts DEF Finish, FinalStatus, Terminal, TypeOK
<1>4. CASE ResumeOverdue(w)
  <2>1. EndsDiff(r)
    BY <1>1, <1>2, <1>4, ExpireDiff DEF ResumeOverdue
  <2>2. thread[w].pc = "admit" /\ thread'[w].pc = "unlock"
    BY <1>4, IInvParts DEF ResumeOverdue, Admit, Goto, TypeOK, Thread
  <2>. QED  BY <2>1, <2>2 DEF ThreadDiff
<1>5. CASE ResumeStale(w)
  <2>1. EndsDiff(r)
    BY <1>1, <1>5, FinishDiff DEF ResumeStale, Terminal, worldVars
  <2>2. thread[w].pc = "admit" /\ thread'[w].pc = "release"
    BY <1>5, IInvParts DEF ResumeStale, Admissible, Admit, TypeOK, Thread
  <2>. QED  BY <2>1, <2>2 DEF ThreadDiff
<1>6. CASE ResumeExpire(w)
  <2>1. EndsDiff(r)
    BY <1>1, <1>6, ExpireDiff DEF ResumeExpire, worldVars
  <2>2. thread[w].pc = "expired" /\ thread'[w].pc = "release"
    BY <1>6, IInvParts DEF ResumeExpire, Goto, TypeOK, Thread
  <2>. QED  BY <2>1, <2>2 DEF ThreadDiff
<1>7. CASE BeginCancelled(w)
  <2>1. thread[w].pc = "begin" /\ tree' = tree
    BY <1>7 DEF BeginCancelled, At, FinishRaised
  <2>2. Finish(r, [state[r] EXCEPT !.cancel = TRUE], "cancelled")
    BY <1>2, <1>7 DEF BeginCancelled, FinishRaised
  <2>3. EndsDiff(r)
    BY <1>1, <2>1, <2>2, FinishDiff, StopFields DEF Terminal
  <2>4. status'[r] \in Terminal
    BY <1>3, <2>1, <2>2 DEF LivePcs, Terminal
  <2>. QED  BY <2>1, <2>3, <2>4 DEF ThreadDiff
<1>8. CASE BeginBusy(w) \/ BeginStale(w) \/ DriveComplete(w) \/ DriveFail(w) \/ DriveStop(w)
  <2>1. thread[w].pc \in {"begin", "drive", "wait", "check"} /\ tree' = tree
    BY <1>8 DEF BeginBusy, BeginStale, DriveComplete, DriveFail, DriveStop, At,
       FinishRaised, FinishInside, worldVars
  <2>2. \E wanted \in Terminal : Finish(r, state[r], wanted)
    BY <1>2, <1>8 DEF BeginBusy, BeginStale, DriveComplete, DriveFail, DriveStop,
       FinishRaised, FinishInside, Terminal
  <2>3. EndsDiff(r)
    BY <1>1, <2>1, <2>2, FinishDiff
  <2>4. status'[r] \in Terminal
    BY <1>3, <2>1, <2>2 DEF LivePcs
  <2>. QED  BY <2>1, <2>3, <2>4 DEF ThreadDiff
<1>9. CASE PostExecute(w)
  <2>1. thread[w].pc = "post" /\ thread'[w].pc = "release" /\ tree' = tree
    BY <1>9, IInvParts DEF PostExecute, Goto, TypeOK, Thread, worldVars
  <2>2. CASE LateStop(r) \/ (status[r] = "waiting" /\ MustExpire(r))
    <3>1. Finish(r, state[r], "cancelled") \/ Finish(r, TimedOut(r), "failed")
      BY <1>9, <2>2 DEF PostExecute
    <3>2. EndsDiff(r)
      BY <1>1, <2>1, <3>1, FinishDiff, StopFields DEF Terminal
    <3>. QED  BY <2>1, <3>2 DEF ThreadDiff
  <2>3. CASE ~LateStop(r) /\ ~(status[r] = "waiting" /\ MustExpire(r))
    <3>1. UNCHANGED <<rowVars, state, held, before, after>>
      BY <1>9, <2>3 DEF PostExecute
    <3>2. EndsDiff(r)
      BY <1>1, <2>1, <3>1, FlagsDiff
    <3>. QED  BY <2>1, <3>2 DEF ThreadDiff
  <2>. QED  BY <2>2, <2>3
<1>. QED  BY <1>4, <1>5, <1>6, <1>7, <1>8, <1>9

LEMMA ThreadDiffClean ==
  ASSUME IInv, DiffsClean, NEW w \in Workers, ThreadEnds(w), ThreadDiff(w)
  PROVE  DiffsClean'
<1>. DEFINE r == thread[w].run
<1>1. r \in Runs /\ EndsDiff(r) /\ tree' = tree
  BY DEF ThreadEnds, ThreadDiff, EndsDiff
<1>2. \A q \in Runs : RowClean(q)'
  BY <1>1, ThreadClosable, EndsDiffRows DEF ThreadDiff, DiffsClean
<1>3. ASSUME NEW v \in Workers \ {w} PROVE ThreadClean(v)'
  <2>1. thread'[v] = thread[v] /\ ThreadClean(v)
    BY DEF ThreadEnds, DiffsClean
  <2>2. thread[w].pc \in RunPcs \ {"notify"}
    BY DEF ThreadDiff, RunPcs, Pcs
  <2>3. \A q \in Runs \ {r} : SameRun(q)
    BY <1>1 DEF EndsDiff
  <2>. QED  BY <1>1, <2>1, <2>2, <2>3, OtherThreadClean
<1>4. ThreadClean(w)'
  <2>1. /\ thread'[w].pc \in {"leave", "unlock", "release"}
        /\ thread'[w].run = r
        /\ thread'[w].pc = "leave" => status'[r] # "running"
    BY DEF ThreadEnds, ThreadDiff, Terminal
  <2>. QED  BY <2>1 DEF ThreadClean
<1>. QED  BY <1>2, <1>3, <1>4 DEF DiffsClean

(* What the actions in which somebody else ends a run do to the diff. *)
LEMMA OthersEndDiff ==
  ASSUME IInv, NEW r \in Runs, spent'.faults = 0,
         \/ \E w \in Workers : CloseRun(w, r)
         \/ Cancel(r) \/ ArmRestored(r)
         \/ SchedulerExpire /\ r = sched.run
  PROVE  EndsDiff(r)
<1>1. \A st : ~FinishFails(r, st)
  <2>1. spent.faults \in Nat /\ spent.faults + 1 # 0
    BY IInvParts DEF TypeOK
  <2>2. \A st : FinishFails(r, st) => spent'.faults = spent.faults + 1
    BY IInvParts DEF FinishFails, TypeOK
  <2>. QED  BY <2>1, <2>2
<1>2. CASE \E w \in Workers : CloseRun(w, r)
  BY <1>2, FinishDiff DEF CloseRun, Terminal, worldVars
<1>3. CASE Cancel(r)
  <2>1. CASE EndsAtOnce(r)
    <3>1. Finish(r, [state[r] EXCEPT !.cancel = TRUE], "cancelled") /\ tree' = tree
      BY <1>1, <1>3, <2>1 DEF Cancel
    <3>. QED  BY <3>1, FinishDiff, StopFields DEF Terminal
  <2>2. CASE ~EndsAtOnce(r)
    <3>1. /\ state' = [state EXCEPT ![r] = [state[r] EXCEPT !.cancel = TRUE]]
          /\ UNCHANGED <<rowVars, held, before, after, tree>>
      BY <1>3, <2>2 DEF Cancel
    <3>. QED  BY <3>1, FlagsDiff, StopFields
  <2>. QED  BY <2>1, <2>2
<1>4. CASE ArmRestored(r)
  <2>1. tree' = tree
    BY <1>4 DEF ArmRestored, worldVars
  <2>2. CASE Overdue(r)
    <3>1. Finish(r, [TimedOut(r) EXCEPT !.notify = FALSE], "failed")
      BY <1>4, <2>2 DEF ArmRestored
    <3>. QED  BY <2>1, <3>1, FinishDiff, StopFields DEF Terminal
  <2>3. CASE ~Overdue(r)
    <3>1. UNCHANGED <<rowVars, state, held, before, after>>
      BY <1>4, <2>3 DEF ArmRestored
    <3>. QED  BY <2>1, <3>1, FlagsDiff
  <2>. QED  BY <2>2, <2>3
<1>5. CASE SchedulerExpire /\ r = sched.run
  BY <1>5, ExpireDiff DEF SchedulerExpire, worldVars
<1>. QED  BY <1>2, <1>3, <1>4, <1>5

LEMMA OthersDiffClean ==
  ASSUME IInv, DiffsClean, NEW r \in Runs, OthersEnd(r), EndsDiff(r), mode # "recovering"
  PROVE  DiffsClean'
<1>1. ASSUME status'[r] # status[r] PROVE Closable(r)
  BY <1>1, WaitsFrozen DEF OthersEnd, Closable
<1>2. \A q \in Runs : RowClean(q)'
  BY <1>1, EndsDiffRows DEF DiffsClean
<1>3. ASSUME NEW v \in Workers PROVE ThreadClean(v)'
  <2>1. thread' = thread /\ ThreadClean(v) /\ tree' = tree /\ thread[v].pc \in Pcs
    BY IInvParts DEF OthersEnd, EndsDiff, DiffsClean, TypeOK, Thread
  <2>2. CASE thread[v].run # r /\ thread[v].pc \in RunPcs
    <3>1. SameRun(thread[v].run)
      BY <2>2, ThreadRun DEF EndsDiff
    <3>. QED  BY <2>1, <3>1, SameThreadClean
  <2>3. CASE thread[v].run = r /\ thread[v].pc \in ExecPcs
    <3>1. status'[r] = status[r]
      BY <2>3 DEF OthersEnd
    <3>2. ~(status[r] \in Live /\ status'[r] \in Terminal)
      BY <3>1 DEF Live, Terminal
    <3>3. /\ owner' = owner /\ before' = before /\ after'[r] = after[r]
          /\ state'[r].frozen = state[r].frozen \/ status[r] \notin Live
      BY <3>2 DEF EndsDiff
    <3>4. thread[v].pc \in LivePcs => status[r] \in Live
      BY <2>3 DEF IInv, ExecutionOK, Live
    <3>5. Root(r)' = Root(r)
      BY <3>3 DEF Root
    <3>6. CASE thread[v].pc \in LivePcs
      BY <2>1, <2>3, <3>1, <3>3, <3>4, <3>5, <3>6 DEF ThreadClean, Own, LivePcs
    <3>7. CASE thread[v].pc \notin LivePcs
      BY <2>1, <2>3, <3>1, <3>7 DEF ThreadClean, LivePcs, ExecPcs
    <3>. QED  BY <3>6, <3>7
  <2>4. CASE thread[v].pc \notin ExecPcs
    BY <2>1, <2>4 DEF ThreadClean, ExecPcs
  <2>. QED  BY <2>1, <2>2, <2>3, <2>4 DEF RunPcs, ExecPcs, Pcs
<1>. QED  BY <1>2, <1>3 DEF DiffsClean

-----------------------------------------------------------------------------
(* A step of one thread that leaves runs and worktrees alone. *)
SameRuns == (\A q \in Runs : SameRun(q)) /\ tree' = tree

LEMMA StaysClean ==
  ASSUME IInv, NEW v \in Workers, ThreadClean(v), thread'[v] = thread[v], SameRuns
  PROVE  ThreadClean(v)'
<1>1. CASE thread[v].pc \in RunPcs
  BY <1>1, ThreadRun, SameThreadClean DEF SameRuns
<1>2. CASE thread[v].pc \notin RunPcs
  <2>1. thread[v].pc \in {"idle", "start", "close", "unlock"}
    BY <1>2, IInvParts DEF RunPcs, Pcs, TypeOK, Thread
  <2>. QED  BY <2>1 DEF ThreadClean
<1>. QED  BY <1>1, <1>2

LEMMA MovesClean ==
  ASSUME IInv, DiffsClean, NEW w \in Workers, SameRuns,
         \A v \in Workers \ {w} : thread'[v] = thread[v], ThreadClean(w)'
  PROVE  DiffsClean'
BY SameRunClean, StaysClean DEF DiffsClean, SameRuns

LEMMA NoMoveClean ==
  ASSUME IInv, DiffsClean, SameRuns, thread' = thread
  PROVE  DiffsClean'
BY SameRunClean, StaysClean DEF DiffsClean, SameRuns

(* Entries that keep their tree and their executing flag. *)
LEMMA SameRows ==
  ASSUME UNCHANGED <<rowVars, held, before, after, tree>>,
         \A q \in Runs : /\ state'[q].frozen = state[q].frozen
                         /\ state'[q].executing = state[q].executing
  PROVE  SameRuns
BY DEF SameRuns, SameRun, rowVars

(* start gives the run no snapshot yet. *)
LEMMA StartClean ==
  ASSUME IInv, DiffsClean, NEW w \in Workers, Start(w)
  PROVE  DiffsClean'
<1>0. TypeOK
  BY IInvParts
<1>1. ASSUME NEW s \in Sessions, NEW k \in Keys \cup {NoKey}, StartRequest(w, s, k)
      PROVE  DiffsClean'
  <2>1. SameRuns
    BY <1>1, SameRows DEF StartRequest
  <2>2. /\ thread'[w].pc = "start" /\ thread'[w].started
        /\ \A v \in Workers \ {w} : thread'[v] = thread[v]
    BY <1>0, <1>1 DEF StartRequest, TypeOK, IdleThread
  <2>3. ThreadClean(w)'
    BY <2>2 DEF ThreadClean
  <2>. QED  BY <2>1, <2>2, <2>3, MovesClean
<1>2. CASE StartRefused(w)
  <2>1. SameRuns
    BY <1>2, SameRows DEF StartRefused, worldVars
  <2>2. /\ thread'[w].pc = "unlock"
        /\ \A v \in Workers \ {w} : thread'[v] = thread[v]
    BY <1>0, <1>2 DEF StartRefused, Goto, TypeOK, Thread
  <2>3. ThreadClean(w)'
    BY <2>2, AwayClean
  <2>. QED  BY <2>1, <2>2, <2>3, MovesClean
<1>3. ASSUME NEW r \in Runs, StartCreate(w, r) PROVE DiffsClean'
  <2>1. /\ thread[w].pc = "start" /\ status[r] = "none" /\ tree' = tree
        /\ UNCHANGED <<before, after, saved>>
        /\ status'[r] = "running" /\ state'[r] = [IdleState EXCEPT !.executing = TRUE]
        /\ \A q \in Runs \ {r} :
             /\ status'[q] = status[q] /\ state'[q] = state[q] /\ owner'[q] = owner[q]
        /\ held' = held \cup {r}
    BY <1>0, <1>3 DEF StartCreate, worldVars, TypeOK
  <2>2. /\ thread'[w].pc = "reserve" /\ thread'[w].started = thread[w].started
        /\ thread'[w].run = r
        /\ \A v \in Workers \ {w} : thread'[v] = thread[v]
    BY <1>0, <1>3 DEF StartCreate, TypeOK, Thread
  <2>3. state'[r].executing /\ state'[r].frozen = NoTree
    BY <2>1 DEF IdleState
  <2>4. saved[r] = NoTree /\ before[r] = NoTree /\ after[r] = NoTree
    BY <2>1, IInvParts DEF RowsOK, DiffsClean, RowClean
  <2>5. \A q \in Runs \ {r} : SameRun(q)
    BY <2>1 DEF SameRun
  <2>6. \A q \in Runs : RowClean(q)'
    <3>1. RowClean(r)'
      BY <2>1, <2>3, <2>4 DEF RowClean
    <3>. QED  BY <2>5, <3>1, SameRunClean DEF DiffsClean
  <2>7. ThreadClean(w)'
    BY <2>1, <2>2, <2>3, <2>4 DEF DiffsClean, ThreadClean
  <2>8. ASSUME NEW v \in Workers \ {w} PROVE ThreadClean(v)'
    <3>1. CASE thread[v].pc \in RunPcs
      <4>1. thread[v].run \in Runs \ {r}
        BY <2>1, <3>1, ThreadRun
      <4>. QED  BY <2>1, <2>2, <2>5, <4>1, SameThreadClean DEF DiffsClean
    <3>2. CASE thread[v].pc \notin RunPcs
      <4>1. thread[v].pc \in {"idle", "start", "close", "unlock"}
        BY <1>0, <3>2 DEF RunPcs, Pcs, TypeOK, Thread
      <4>. QED  BY <2>2, <4>1 DEF DiffsClean, ThreadClean
    <3>. QED  BY <3>1, <3>2
  <2>. QED  BY <2>6, <2>7, <2>8 DEF DiffsClean
<1>. QED  BY <1>1, <1>2, <1>3 DEF Start

(* resume takes up a run that has its frozen tree. *)
LEMMA ResumeClean ==
  ASSUME IInv, DiffsClean, NEW w \in Workers, Resume(w), spent'.faults = 0
  PROVE  DiffsClean'
<1>0. TypeOK /\ ThreadClean(w) /\ \A q \in Runs : state[q] \in State
  BY IInvParts DEF DiffsClean, TypeOK
<1>1. CASE ResumeOverdue(w) \/ ResumeStale(w) \/ ResumeExpire(w)
  BY <1>1, ThreadEndsRun, ThreadEndsDiff, ThreadDiffClean
<1>2. ASSUME NEW r \in Runs, NEW i \in Inputs, NEW a \in BOOLEAN, ResumeRequest(w, r, i, a)
      PROVE  DiffsClean'
  <2>1. SameRuns
    BY <1>2, SameRows DEF ResumeRequest
  <2>2. /\ thread'[w].pc = "admit" /\ ~thread'[w].started
        /\ \A v \in Workers \ {w} : thread'[v] = thread[v]
    BY <1>0, <1>2 DEF ResumeRequest, TypeOK, IdleThread
  <2>3. ThreadClean(w)'
    BY <2>2 DEF ThreadClean
  <2>. QED  BY <2>1, <2>2, <2>3, MovesClean
<1>3. CASE ResumeRefused(w) \/ ResumeAdmit(w) \/ ResumeInvalid(w) \/ ResumeArm(w)
  <2>1. SameRuns
    BY <1>3, SameRows DEF ResumeRefused, ResumeAdmit, ResumeInvalid, ResumeArm, worldVars
  <2>2. \A v \in Workers \ {w} : thread'[v] = thread[v]
    BY <1>0, <1>3 DEF ResumeRefused, ResumeAdmit, ResumeInvalid, ResumeArm, Goto, TypeOK
  <2>3. \/ thread'[w].pc \in {"unlock", "release"}
        \/ thread[w].pc = "admit" /\ thread'[w].pc = "commit"
        \/ thread[w].pc = "arm" /\ thread'[w].pc = "begin"
    BY <1>0, <1>3 DEF ResumeRefused, ResumeAdmit, ResumeInvalid, ResumeArm, Admissible,
       Admit, Goto, TypeOK, Thread
  <2>4. thread[w].pc \in {"admit", "arm"} /\ thread'[w].pc \in {"commit", "begin"} =>
          thread'[w].started = thread[w].started /\ thread'[w].run = thread[w].run
    BY <1>0, <1>3 DEF ResumeRefused, ResumeAdmit, ResumeInvalid, ResumeArm, Goto, TypeOK,
       Thread
  <2>5. thread[w].pc = "arm" => thread[w].run \in Runs
    BY ThreadRun DEF RunPcs, Pcs
  <2>6. ThreadClean(w)'
    BY <1>0, <2>1, <2>3, <2>4, <2>5 DEF ThreadClean, SameRuns, SameRun
  <2>. QED  BY <2>1, <2>2, <2>6, MovesClean
<1>4. ASSUME thread[w].pc = "commit"
      PROVE  /\ thread[w].run \in Runs
             /\ Answered(w).frozen = state[thread[w].run].frozen
             /\ Answered(w).executing = state[thread[w].run].executing
             /\ [Answered(w) EXCEPT !.manual = FALSE, !.executing = TRUE].frozen
                  = state[thread[w].run].frozen
             /\ [Answered(w) EXCEPT !.manual = FALSE, !.executing = TRUE].executing
  <2>1. thread[w].run \in Runs
    BY <1>4, CommitRun
  <2>2. state[thread[w].run] \in State
    BY <1>0, <2>1
  <2>. QED  BY <2>1, <2>2 DEF Answered, State
<1>5. CASE ResumeTooLate(w)
  <2>1. /\ thread'[w].pc = "expired"
        /\ \A v \in Workers \ {w} : thread'[v] = thread[v]
    BY <1>0, <1>5 DEF ResumeTooLate, Goto, TypeOK, Thread
  <2>2. \A q \in Runs : /\ state'[q].frozen = state[q].frozen
                        /\ state'[q].executing = state[q].executing
    BY <1>0, <1>4, <1>5 DEF ResumeTooLate, TypeOK
  <2>3. SameRuns
    BY <1>5, <2>2, SameRows DEF ResumeTooLate, worldVars
  <2>4. ThreadClean(w)'
    BY <2>1, AwayClean
  <2>. QED  BY <2>1, <2>3, <2>4, MovesClean
<1>6. CASE ResumeCommit(w)
  <2>. PICK r \in Runs : r = thread[w].run
    BY <1>4, <1>6 DEF ResumeCommit
  <2>1. thread[w].pc = "commit" /\ status[r] = "waiting"
    BY <1>6, CommitRun DEF ResumeCommit
  <2>2. /\ status'[r] = "running" /\ saved'[r] = NoTree
        /\ UNCHANGED <<owner, before, after, held, tree>>
        /\ state'[r].frozen = state[r].frozen /\ state'[r].executing
        /\ \A q \in Runs \ {r} :
             status'[q] = status[q] /\ saved'[q] = saved[q] /\ state'[q] = state[q]
    BY <1>0, <1>4, <1>6, <2>1 DEF ResumeCommit, worldVars, TypeOK
  <2>3. /\ thread'[w].pc = "arm" /\ thread'[w].started = thread[w].started
        /\ thread'[w].run = r
        /\ \A v \in Workers \ {w} : thread'[v] = thread[v]
    BY <1>0, <1>6 DEF ResumeCommit, Goto, TypeOK, Thread
  <2>4. r \in held
    BY <1>6, <2>1 DEF ResumeCommit, IInv, HeldOK, Live
  <2>5. state[r].frozen # NoTree
    BY <2>1, <2>4 DEF DiffsClean, RowClean
  <2>6. \A q \in Runs \ {r} : SameRun(q)
    BY <2>2 DEF SameRun
  <2>7. RowClean(r)'
    BY <2>1, <2>2 DEF DiffsClean, RowClean, Own, Live
  <2>8. ThreadClean(w)'
    BY <1>0, <2>1, <2>2, <2>3, <2>5 DEF ThreadClean
  <2>9. ASSUME NEW v \in Workers \ {w} PROVE ThreadClean(v)'
    BY <2>1, <2>2, <2>3, <2>6, OtherThreadClean DEF DiffsClean, RunPcs, Pcs
  <2>. QED  BY <2>6, <2>7, <2>8, <2>9, SameRunClean DEF DiffsClean
<1>. QED  BY <1>1, <1>2, <1>3, <1>5, <1>6 DEF Resume

(* A worktree that is driven is nobody else's. *)
LEMMA DrivenRoot ==
  ASSUME IInv, ReservedOK, NEW w \in Workers, NEW v \in Workers \ {w},
         thread[w].pc \in DrivePcs, thread[v].pc \in DrivePcs
  PROVE  Root(thread[v].run) # Root(thread[w].run)
<1>1. \A u \in {v, w} : /\ thread[u].reserved /\ thread[u].session \in Sessions
                        /\ owner[thread[u].run] = thread[u].session
  BY ThreadRun DEF ReservedOK, DrivePcs, RunPcs, Pcs
<1>2. RootOf[thread[v].session] # RootOf[thread[w].session]
  BY <1>1, ConstantsOK DEF ReservedOK, ConstantsOK
<1>. QED  BY <1>1, <1>2 DEF Root

(* The first step of a run takes the snapshot, that of a resumed one finds *)
(* the frozen tree. *)
LEMMA BeginClean ==
  ASSUME IInv, DiffsClean, NEW w \in Workers, Begin(w)
  PROVE  DiffsClean'
<1>0. TypeOK /\ ThreadClean(w)
  BY IInvParts DEF DiffsClean
<1>1. thread[w].pc = "begin" /\ thread[w].run \in Runs /\ status[thread[w].run] = "running"
  BY ThreadRun DEF Begin, At, RunPcs, Pcs, IInv, ExecutionOK, LivePcs
<1>. PICK r \in Runs : r = thread[w].run
  BY <1>1
<1>2. /\ UNCHANGED <<status, owner, saved, held, after, tree>>
      /\ \A q \in Runs \ {r} : before'[q] = before[q] /\ state'[q] = state[q]
      /\ state'[r].frozen = NoTree /\ state'[r].executing = state[r].executing
      /\ thread[w].started => before'[r] = tree[Root(r)]
      /\ ~thread[w].started => before' = before
  BY <1>0 DEF Begin, rowVars, worldVars, TypeOK, State
<1>3. /\ thread'[w].pc = "drive" /\ thread'[w].run = r
      /\ \A v \in Workers \ {w} : thread'[v] = thread[v]
  BY <1>0 DEF Begin, Goto, TypeOK, Thread
<1>4. tree[Root(r)] # NoTree /\ saved[r] = NoTree /\ Root(r)' = Root(r)
  BY <1>1, <1>2, TreesAreReal, IInvParts DEF RowsOK, Root
<1>5. /\ before'[r] # NoTree
      /\ tree[Root(r)] \ before'[r] \subseteq {r, User}
      /\ after[r] # NoTree => before'[r] = before[r]
  <2>1. CASE thread[w].started
    BY <1>0, <1>1, <1>2, <1>4, <2>1 DEF ThreadClean
  <2>2. CASE ~thread[w].started
    <3>1. state[r].frozen # NoTree
      BY <1>0, <1>1, <2>2 DEF ThreadClean
    <3>2. tree[Root(r)] = state[r].frozen
      BY <3>1 DEF Begin, SameTree, Stale
    <3>3. before[r] # NoTree /\ Own(r, state[r].frozen)
      BY <1>1, <3>1 DEF DiffsClean, RowClean, Live
    <3>. QED  BY <1>2, <2>2, <3>2, <3>3 DEF Own
  <2>. QED  BY <2>1, <2>2
<1>6. \A q \in Runs \ {r} : SameRun(q)
  BY <1>2 DEF SameRun
<1>7. RowClean(r)'
  BY <1>1, <1>2, <1>4, <1>5 DEF DiffsClean, RowClean, Own
<1>8. ThreadClean(w)'
  BY <1>2, <1>3, <1>4, <1>5 DEF ThreadClean, Own
<1>9. ASSUME NEW v \in Workers \ {w} PROVE ThreadClean(v)'
  BY <1>1, <1>2, <1>3, <1>6, OtherThreadClean DEF DiffsClean, RunPcs, Pcs
<1>. QED  BY <1>6, <1>7, <1>8, <1>9, SameRunClean DEF DiffsClean

(* A run writes into its own worktree only. *)
LEMMA WriteClean ==
  ASSUME IInv, ReservedOK, DiffsClean, NEW w \in Workers, DriveWrite(w)
  PROVE  DiffsClean'
<1>0. TypeOK /\ ThreadClean(w)
  BY IInvParts DEF DiffsClean
<1>1. thread[w].pc = "drive" /\ thread[w].run \in Runs /\ status[thread[w].run] # "none"
  BY ThreadRun DEF DriveWrite, At, RunPcs, Pcs
<1>. PICK r \in Runs : r = thread[w].run
  BY <1>1
<1>2. /\ UNCHANGED <<rowVars, held, state, thread, before, after>>
      /\ tree' = [tree EXCEPT ![Root(r)] = @ \cup {r}]
  BY DEF DriveWrite
<1>3. \A q \in Runs : SameRun(q)
  BY <1>2 DEF SameRun, rowVars
<1>4. \A q \in Runs : Root(q)' = Root(q)
  BY <1>2 DEF Root, rowVars
<1>5. ASSUME NEW v \in Workers, thread[v].pc \in {"drive", "wait"}
      PROVE  before[thread[v].run] # NoTree /\ Own(thread[v].run, tree[Root(thread[v].run)])'
  <2>1. /\ thread[v].run \in Runs /\ before[thread[v].run] # NoTree
        /\ Own(thread[v].run, tree[Root(thread[v].run)])
    BY <1>5, ThreadRun DEF DiffsClean, ThreadClean, RunPcs, Pcs
  <2>2. CASE v = w
    <3>1. tree'[Root(r)] = tree[Root(r)] \cup {r}
      BY <1>0, <1>1, <1>2, TreesAreReal DEF TypeOK
    <3>. QED  BY <1>2, <1>4, <2>1, <2>2, <3>1 DEF Own
  <2>3. CASE v # w
    <3>1. Root(thread[v].run) # Root(r)
      BY <1>1, <1>5, <2>3, DrivenRoot DEF DrivePcs
    <3>2. tree'[Root(thread[v].run)] = tree[Root(thread[v].run)]
      BY <1>0, <1>1, <1>2, <3>1, TreesAreReal DEF TypeOK
    <3>. QED  BY <1>2, <1>4, <2>1, <3>2 DEF Own
  <2>. QED  BY <2>2, <2>3
<1>6. ASSUME NEW v \in Workers PROVE ThreadClean(v)'
  BY <1>2, <1>5 DEF DiffsClean, ThreadClean, rowVars
<1>. QED  BY <1>3, <1>6, SameRunClean DEF DiffsClean

(* An edit from outside is nobody's diff. *)
LEMMA EditClean ==
  ASSUME IInv, DiffsClean, NEW root \in Roots, OutsideEdit(root)
  PROVE  DiffsClean'
<1>0. TypeOK
  BY IInvParts
<1>1. /\ UNCHANGED <<rowVars, held, state, thread, before, after>>
      /\ tree' = [tree EXCEPT ![root] = @ \cup {User}]
  BY DEF OutsideEdit
<1>2. \A q \in Runs : SameRun(q) /\ Root(q)' = Root(q)
  BY <1>1 DEF SameRun, rowVars, Root
<1>3. ASSUME NEW v \in Workers, thread[v].pc \in {"drive", "wait"}
      PROVE  before[thread[v].run] # NoTree /\ Own(thread[v].run, tree[Root(thread[v].run)])'
  <2>1. /\ thread[v].run \in Runs /\ before[thread[v].run] # NoTree
        /\ Own(thread[v].run, tree[Root(thread[v].run)])
        /\ status[thread[v].run] # "none"
    BY <1>3, ThreadRun DEF DiffsClean, ThreadClean, RunPcs, Pcs
  <2>2. tree'[Root(thread[v].run)] \subseteq tree[Root(thread[v].run)] \cup {User}
    BY <1>0, <1>1, <2>1, TreesAreReal DEF TypeOK
  <2>. QED  BY <1>1, <1>2, <2>1, <2>2 DEF Own
<1>4. ASSUME NEW v \in Workers PROVE ThreadClean(v)'
  BY <1>1, <1>3 DEF DiffsClean, ThreadClean, rowVars
<1>. QED  BY <1>2, <1>4, SameRunClean DEF DiffsClean

(* A pause freezes the tree, whose foreign writes are none. *)
LEMMA WaitClean ==
  ASSUME IInv, DiffsClean, NEW w \in Workers, Wait(w)
  PROVE  DiffsClean'
<1>0. TypeOK /\ ThreadClean(w)
  BY IInvParts DEF DiffsClean
<1>. PICK new \in SUBSET Inputs, kind \in {"approval", "decision"}, manual \in BOOLEAN :
       WaitCommit(w, new, kind, manual)
  BY DEF Wait
<1>1. thread[w].pc = "wait" /\ thread[w].run \in Runs /\ status[thread[w].run] = "running"
  BY ThreadRun DEF WaitCommit, At, RunPcs, Pcs, IInv, ExecutionOK, LivePcs
<1>. PICK r \in Runs : r = thread[w].run
  BY <1>1
<1>2. tree[Root(r)] # NoTree /\ before[r] # NoTree /\ Own(r, tree[Root(r)])
  BY <1>0, <1>1, TreesAreReal DEF ThreadClean
<1>3. /\ UNCHANGED <<owner, held, before, tree>>
      /\ status'[r] = "waiting" /\ after'[r] = tree[Root(r)]
      /\ saved'[r] \in {NoTree, tree[Root(r)]}
      /\ \A q \in Runs \ {r} :
           /\ status'[q] = status[q] /\ after'[q] = after[q]
           /\ saved'[q] = saved[q] /\ state'[q] = state[q]
  BY <1>0 DEF WaitCommit, worldVars, TypeOK
<1>4. state'[r].frozen = tree[Root(r)] /\ state'[r].executing = state[r].executing
  BY <1>0 DEF WaitCommit, TypeOK, State
<1>5. /\ thread'[w].pc = "check" /\ \A v \in Workers \ {w} : thread'[v] = thread[v]
  BY <1>0 DEF WaitCommit, Goto, TypeOK, Thread
<1>6. \A q \in Runs \ {r} : SameRun(q)
  BY <1>3 DEF SameRun
<1>7. RowClean(r)'
  BY <1>2, <1>3, <1>4 DEF RowClean, Own
<1>8. ThreadClean(w)'
  BY <1>5, AwayClean
<1>9. ASSUME NEW v \in Workers \ {w} PROVE ThreadClean(v)'
  BY <1>1, <1>3, <1>5, <1>6, OtherThreadClean DEF DiffsClean, RunPcs, Pcs
<1>. QED  BY <1>6, <1>7, <1>8, <1>9, SameRunClean DEF DiffsClean

(* _execute keeps every diff clean as long as its transactions succeed. *)
LEMMA ExecuteClean ==
  ASSUME IInv, ReservedOK, DiffsClean, NEW w \in Workers, Execute(w), spent'.faults = 0
  PROVE  DiffsClean'
<1>0. TypeOK /\ ThreadClean(w) /\ \A q \in Runs : state[q] \in State
  BY IInvParts DEF DiffsClean, TypeOK
<1>1. CASE BeginCancelled(w) \/ BeginBusy(w) \/ BeginStale(w) \/ DriveComplete(w)
           \/ DriveFail(w) \/ DriveStop(w) \/ PostExecute(w)
  BY <1>1, ThreadEndsRun, ThreadEndsDiff, ThreadDiffClean
<1>2. CASE ReserveWorktree(w) \/ DrivePause(w) \/ DriveReturn(w) \/ LeaveWorktree(w)
           \/ ReleaseWorktree(w) \/ ReleaseLock(w)
  <2>1. SameRuns
    BY <1>2, SameRows DEF ReserveWorktree, DrivePause, DriveReturn, LeaveWorktree,
       ReleaseWorktree, ReleaseLock, worldVars
  <2>2. \A v \in Workers \ {w} : thread'[v] = thread[v]
    BY <1>0, <1>2 DEF ReserveWorktree, DrivePause, DriveReturn, LeaveWorktree,
       ReleaseWorktree, ReleaseLock, Goto, TypeOK
  <2>3. CASE ReserveWorktree(w)
    <3>1. /\ thread[w].pc = "reserve" /\ thread'[w].pc = "begin"
          /\ thread'[w].started = thread[w].started /\ thread'[w].run = thread[w].run
      BY <1>0, <2>3 DEF ReserveWorktree, At, TypeOK, Thread
    <3>2. thread[w].run \in Runs
      BY <3>1, ThreadRun DEF RunPcs, Pcs
    <3>3. ThreadClean(w)'
      BY <1>0, <2>1, <3>1, <3>2 DEF ThreadClean, SameRuns, SameRun
    <3>. QED  BY <2>1, <2>2, <3>3, MovesClean
  <2>4. CASE DrivePause(w) \/ DriveReturn(w) \/ LeaveWorktree(w)
    <3>1. /\ \/ thread[w].pc = "drive" /\ thread'[w].pc = "wait"
             \/ thread[w].pc = "check" /\ thread'[w].pc = "leave"
             \/ thread[w].pc = "leave" /\ thread'[w].pc = "unset"
          /\ thread'[w].run = thread[w].run
      BY <1>0, <2>4 DEF DrivePause, DriveReturn, LeaveWorktree, At, Goto, TypeOK, Thread
    <3>2. thread[w].run \in Runs
      BY <3>1, ThreadRun DEF RunPcs, Pcs
    <3>3. thread[w].pc = "check" => status[thread[w].run] = "waiting"
      BY DEF IInv, ExecutionOK
    <3>4. Root(thread[w].run)' = Root(thread[w].run)
      BY <2>1, <3>1, <3>2 DEF Root, SameRuns, SameRun
    <3>5. ThreadClean(w)'
      BY <1>0, <2>1, <3>1, <3>2, <3>3, <3>4 DEF ThreadClean, Own, SameRuns, SameRun
    <3>. QED  BY <2>1, <2>2, <3>5, MovesClean
  <2>5. CASE ReleaseWorktree(w) \/ ReleaseLock(w)
    <3>1. thread'[w].pc \in {"unlock", "idle", "notify"}
      BY <1>0, <2>5 DEF ReleaseWorktree, ReleaseLock, IdleThread, TypeOK, Thread
    <3>2. ThreadClean(w)'
      BY <3>1, AwayClean
    <3>. QED  BY <2>1, <2>2, <3>2, MovesClean
  <2>. QED  BY <1>2, <2>3, <2>4, <2>5
<1>3. CASE StopExecuting(w)
  <2>1. thread[w].pc = "unset" /\ thread[w].run \in Runs
    BY <1>3, ThreadRun DEF StopExecuting, RunPcs, Pcs
  <2>. PICK r \in Runs : r = thread[w].run
    BY <2>1
  <2>2. /\ UNCHANGED <<rowVars, held, before, after, tree>>
        /\ \A q \in Runs \ {r} : state'[q] = state[q]
        /\ state'[r].frozen = state[r].frozen
    BY <1>0, <1>3 DEF StopExecuting, worldVars, TypeOK, State
  <2>3. status[r] # "running"
    BY <1>0, <2>1 DEF ThreadClean
  <2>4. /\ thread'[w].pc \in {"release", "post"}
        /\ \A v \in Workers \ {w} : thread'[v] = thread[v]
    BY <1>0, <1>3 DEF StopExecuting, Goto, TypeOK, Thread
  <2>5. \A q \in Runs \ {r} : SameRun(q)
    BY <2>2 DEF SameRun, rowVars
  <2>6. RowClean(r)'
    BY <2>2, <2>3 DEF DiffsClean, RowClean, Own, rowVars
  <2>7. ThreadClean(w)'
    BY <2>4, AwayClean
  <2>8. ASSUME NEW v \in Workers \ {w} PROVE ThreadClean(v)'
    BY <2>1, <2>2, <2>4, <2>5, OtherThreadClean DEF DiffsClean, RunPcs, Pcs
  <2>. QED  BY <2>5, <2>6, <2>7, <2>8, SameRunClean DEF DiffsClean
<1>4. CASE NotifyTimeout(w)
  <2>1. thread[w].run \in Runs
    BY <1>4, ThreadRun DEF NotifyTimeout, RunPcs, Pcs
  <2>2. \A q \in Runs : /\ state'[q].frozen = state[q].frozen
                        /\ state'[q].executing = state[q].executing
    BY <1>0, <1>4, <2>1, PublishKeeps, PublishFrozen DEF NotifyTimeout
  <2>3. SameRuns
    BY <1>4, <2>2, SameRows DEF NotifyTimeout, worldVars
  <2>4. thread'[w].pc = "idle" /\ \A v \in Workers \ {w} : thread'[v] = thread[v]
    BY <1>0, <1>4 DEF NotifyTimeout, IdleThread, TypeOK
  <2>5. ThreadClean(w)'
    BY <2>4, AwayClean
  <2>. QED  BY <2>3, <2>4, <2>5, MovesClean
<1>. QED  BY <1>1, <1>2, <1>3, <1>4, BeginClean, WriteClean, WaitClean DEF Execute

(* close, cancel and the deadline thread. *)
LEMMA OthersClean ==
  ASSUME IInv, DiffsClean, spent'.faults = 0,
         (\E w \in Workers : Close(w)) \/ (\E r \in Runs : Cancel(r)) \/ Scheduler
  PROVE  DiffsClean'
<1>0. TypeOK /\ \A q \in Runs : state[q] \in State
  BY IInvParts DEF TypeOK
<1>1. ASSUME NEW r \in Runs,
             \/ \E w \in Workers : CloseRun(w, r)
             \/ Cancel(r)
             \/ SchedulerExpire /\ r = sched.run
      PROVE  DiffsClean'
  <2>1. mode = "up"
    BY <1>1 DEF CloseRun, Cancel, SchedulerExpire, ControlFree
  <2>. QED  BY <1>1, <2>1, OthersEndRun, OthersEndDiff, OthersDiffClean
<1>2. ASSUME NEW w \in Workers, Close(w) PROVE DiffsClean'
  <2>1. CASE (\E s \in Sessions : CloseRequest(w, s)) \/ CloseDone(w)
    <3>1. SameRuns
      BY <2>1, SameRows DEF CloseRequest, CloseDone, worldVars
    <3>2. /\ thread'[w].pc \in {"close", "unlock"}
          /\ \A v \in Workers \ {w} : thread'[v] = thread[v]
      <4>1. thread \in [Workers -> Thread]
        BY <1>0 DEF TypeOK
      <4>2. CASE CloseDone(w)
        BY <4>1, <4>2 DEF CloseDone, Goto, Thread
      <4>3. ASSUME NEW s \in Sessions, CloseRequest(w, s)
            PROVE  thread' = [thread EXCEPT ![w] = [IdleThread EXCEPT !.pc = "close", !.session = s]]
        BY <4>3 DEF CloseRequest
      <4>4. \A s \in Sessions : [IdleThread EXCEPT !.pc = "close", !.session = s].pc = "close"
        BY DEF IdleThread
      <4>. QED  BY <2>1, <4>1, <4>2, <4>3, <4>4
    <3>3. ThreadClean(w)'
      BY <3>2, AwayClean
    <3>. QED  BY <3>1, <3>2, <3>3, MovesClean
  <2>2. CASE \E r \in Runs : CloseRun(w, r)
    BY <1>1, <2>2
  <2>. QED  BY <1>2, <2>1, <2>2 DEF Close
<1>3. CASE Scheduler
  <2>1. sched.pc # "idle" => sched.run \in Runs
    BY IInvParts DEF SchedOK, TypeOK, Ids
  <2>2. CASE \E r \in Runs : SchedulerPop(r)
    <3>1. SameRuns /\ thread' = thread
      BY <2>2, SameRows DEF SchedulerPop, worldVars
    <3>. QED  BY <3>1, NoMoveClean
  <2>3. CASE SchedulerExpire
    BY <1>1, <2>1, <2>3 DEF SchedulerExpire
  <2>4. ~SchedulerRetry
    <3>1. spent.faults \in Nat /\ spent.faults + 1 # 0
      BY <1>0 DEF TypeOK
    <3>2. SchedulerRetry => spent'.faults = spent.faults + 1
      BY <1>0 DEF SchedulerRetry, TypeOK
    <3>. QED  BY <3>1, <3>2
  <2>5. CASE SchedulerNotify
    <3>1. \A q \in Runs : /\ state'[q].frozen = state[q].frozen
                          /\ state'[q].executing = state[q].executing
      BY <1>0, <2>1, <2>5, PublishKeeps, PublishFrozen DEF SchedulerNotify
    <3>2. SameRuns /\ thread' = thread
      BY <2>5, <3>1, SameRows DEF SchedulerNotify, worldVars
    <3>. QED  BY <3>2, NoMoveClean
  <2>. QED  BY <1>3, <2>2, <2>3, <2>4, <2>5 DEF Scheduler
<1>. QED  BY <1>1, <1>2, <1>3

(* A restart keeps the diff of a checkpoint and forgets the others. *)
LEMMA RestartClean ==
  ASSUME IInv, DiffsClean, spent'.faults = 0, Restart
  PROVE  DiffsClean'
<1>0. TypeOK /\ \A q \in Runs : state[q] \in State
  BY IInvParts DEF TypeOK
<1>1. CASE Crash
  <2>1. \A v \in Workers : ThreadClean(v)'
    <3>1. \A v \in Workers : thread'[v].pc = "idle"
      BY <1>1 DEF Crash, IdleThread
    <3>. QED  BY <3>1, AwayClean
  <2>2. ASSUME NEW q \in Runs PROVE RowClean(q)'
    <3>1. /\ status' = status /\ saved' = saved /\ held' = {}
          /\ before'[q] = IF saved[q] = NoTree THEN NoTree ELSE before[q]
          /\ after'[q] = IF saved[q] = NoTree THEN NoTree ELSE after[q]
      BY <1>1 DEF Crash, rowVars
    <3>2. state'[q].frozen = NoTree
      BY <1>1 DEF Crash, IdleState
    <3>. QED  BY <3>1, <3>2 DEF DiffsClean, RowClean, Own
  <2>. QED  BY <2>1, <2>2 DEF DiffsClean
<1>2. ASSUME NEW r \in Runs, NEW ids \in SUBSET Inputs,
             NEW reissue \in [ids -> Inputs], Restore(r, reissue)
      PROVE  DiffsClean'
  <2>1. /\ status[r] = "waiting" /\ saved[r] # NoTree /\ saved[r] = tree[Root(r)]
        /\ UNCHANGED <<status, owner, saved, tree, before, after, thread>>
        /\ held' = held \cup {r} /\ mode = "recovering"
        /\ \A q \in Runs \ {r} : state'[q] = state[q]
        /\ state'[r].frozen = tree[Root(r)]
    BY <1>0, <1>2 DEF Restore, worldVars, TypeOK, State
  <2>2. \A q \in Runs \ {r} : SameRun(q)
    BY <2>1 DEF SameRun
  <2>3. RowClean(r)'
    BY <2>1 DEF DiffsClean, RowClean, Own
  <2>4. \A v \in Workers : thread'[v].pc = "idle"
    BY <2>1, IInvParts DEF ThreadsOK
  <2>5. \A v \in Workers : ThreadClean(v)'
    BY <2>4, AwayClean
  <2>. QED  BY <2>2, <2>3, <2>5, SameRunClean DEF DiffsClean
<1>3. CASE Recover
  <2>1. \A v \in Workers : thread'[v].pc = "idle"
    BY <1>3, IInvParts DEF Recover, ThreadsOK
  <2>2. \A v \in Workers : ThreadClean(v)'
    BY <2>1, AwayClean
  <2>3. ASSUME NEW q \in Runs PROVE RowClean(q)'
    <3>1. /\ UNCHANGED <<before, after, held, state>>
          /\ status'[q] = IF q \in Lost THEN "interrupted" ELSE status[q]
          /\ saved'[q] = IF q \in Lost THEN NoTree ELSE saved[q]
      BY <1>3 DEF Recover
    <3>. QED  BY <3>1 DEF DiffsClean, RowClean, Own, Live
  <2>. QED  BY <2>2, <2>3 DEF DiffsClean
<1>4. ASSUME NEW r \in Runs, ArmRestored(r) PROVE DiffsClean'
  <2>1. mode # "recovering"
    BY <1>4 DEF ArmRestored
  <2>. QED  BY <1>4, <2>1, OthersEndRun, OthersEndDiff, OthersDiffClean
<1>5. CASE Serve
  <2>1. SameRuns /\ thread' = thread
    BY <1>5, SameRows DEF Serve
  <2>. QED  BY <2>1, NoMoveClean
<1>. QED  BY <1>1, <1>2, <1>3, <1>4, <1>5 DEF Restart

(* No step takes a failure back. *)
LEMMA FaultsStep ==
  ASSUME IInv, Next, spent.faults # 0
  PROVE  spent'.faults # 0
<1>0. spent \in [requests : Nat, crashes : Nat, faults : Nat] /\ spent.faults + 1 # 0
  BY IInvParts DEF TypeOK
<1>1. ASSUME NEW r \in Runs, NEW st, FinishFails(r, st) PROVE spent'.faults # 0
  BY <1>0, <1>1 DEF FinishFails
<1>2. ASSUME spent' = [spent EXCEPT !.requests = @ + 1] \/ spent' = [spent EXCEPT !.crashes = @ + 1]
      PROVE  spent'.faults # 0
  BY <1>0, <1>2
<1>3. ASSUME NEW w \in Workers, Start(w) \/ Close(w) PROVE spent'.faults # 0
  <2>1. CASE \E s \in Sessions : CloseRequest(w, s) \/ \E k \in Keys \cup {NoKey} : StartRequest(w, s, k)
    BY <1>2, <2>1 DEF CloseRequest, StartRequest, Accept
  <2>2. CASE \E r \in Runs : StartCreate(w, r) \/ CloseRun(w, r)
    BY <2>2 DEF StartCreate, CloseRun, worldVars
  <2>3. CASE StartRefused(w) \/ CloseDone(w)
    BY <2>3 DEF StartRefused, CloseDone, worldVars
  <2>. QED  BY <1>3, <2>1, <2>2, <2>3 DEF Start, Close
<1>4. ASSUME NEW w \in Workers, Resume(w) PROVE spent'.faults # 0
  <2>1. CASE \E r \in Runs, i \in Inputs, a \in BOOLEAN : ResumeRequest(w, r, i, a)
    BY <1>2, <2>1 DEF ResumeRequest, Accept
  <2>2. CASE ResumeOverdue(w)
    <3>1. thread[w].run \in Runs
      BY <2>2, IInvParts DEF ResumeOverdue, Admit, MustExpire, TypeOK
    <3>. QED  BY <1>1, <2>2, <3>1 DEF ResumeOverdue
  <2>3. CASE ResumeRefused(w) \/ ResumeStale(w) \/ ResumeAdmit(w) \/ ResumeCommit(w)
             \/ ResumeTooLate(w) \/ ResumeInvalid(w) \/ ResumeExpire(w) \/ ResumeArm(w)
    BY <2>3 DEF ResumeRefused, ResumeStale, ResumeAdmit, ResumeCommit, ResumeTooLate,
       ResumeInvalid, ResumeExpire, ResumeArm, worldVars
  <2>. QED  BY <1>4, <2>1, <2>2, <2>3 DEF Resume
<1>5. ASSUME NEW w \in Workers, Execute(w) PROVE spent'.faults # 0
  <2>1. ASSUME NEW st, NEW wanted, FinishRaised(w, st, wanted), thread[w].run \in Runs
        PROVE  spent'.faults # 0
    BY <1>1, <2>1 DEF FinishRaised
  <2>2. CASE BeginCancelled(w) \/ BeginBusy(w) \/ DriveFail(w) \/ DriveStop(w)
    <3>1. thread[w].run \in Runs
      BY <2>2, <1>5, ThreadRun DEF BeginCancelled, BeginBusy, DriveFail, DriveStop, At, RunPcs, Pcs
    <3>. QED  BY <2>1, <2>2, <3>1 DEF BeginCancelled, BeginBusy, DriveFail, DriveStop
  <2>3. CASE ReserveWorktree(w) \/ BeginStale(w) \/ Begin(w) \/ DriveWrite(w)
             \/ DriveComplete(w) \/ DrivePause(w)
    BY <2>3 DEF ReserveWorktree, BeginStale, Begin, DriveWrite, DriveComplete, DrivePause,
       FinishInside, worldVars
  <2>4. CASE Wait(w)
    BY <2>4 DEF Wait, WaitCommit, worldVars
  <2>5. CASE DriveReturn(w) \/ LeaveWorktree(w) \/ StopExecuting(w) \/ PostExecute(w)
             \/ ReleaseWorktree(w) \/ ReleaseLock(w) \/ NotifyTimeout(w)
    BY <2>5 DEF DriveReturn, LeaveWorktree, StopExecuting, PostExecute, ReleaseWorktree,
       ReleaseLock, NotifyTimeout, worldVars
  <2>. QED  BY <1>5, <2>2, <2>3, <2>4, <2>5 DEF Execute
<1>6. ASSUME NEW r \in Runs, Cancel(r) PROVE spent'.faults # 0
  BY <1>1, <1>6 DEF Cancel
<1>7. CASE Scheduler
  <2>1. CASE SchedulerRetry
    BY <1>0, <2>1 DEF SchedulerRetry
  <2>2. CASE (\E r \in Runs : SchedulerPop(r)) \/ SchedulerExpire \/ SchedulerNotify
    BY <2>2 DEF SchedulerPop, SchedulerExpire, SchedulerNotify, worldVars
  <2>. QED  BY <1>7, <2>1, <2>2 DEF Scheduler
<1>8. CASE Restart
  <2>1. CASE Crash
    BY <1>2, <2>1 DEF Crash
  <2>2. CASE \E r \in Runs, ids \in SUBSET Inputs :
               \E reissue \in [ids -> Inputs] : Restore(r, reissue)
    BY <2>2 DEF Restore, worldVars
  <2>3. CASE Recover \/ Serve \/ \E r \in Runs : ArmRestored(r)
    BY <2>3 DEF Recover, Serve, ArmRestored, worldVars
  <2>. QED  BY <1>8, <2>1, <2>2, <2>3 DEF Restart
<1>9. CASE Tick \/ \E root \in Roots : OutsideEdit(root)
  BY <1>9 DEF Tick, OutsideEdit
<1>. QED  BY <1>3, <1>4, <1>5, <1>6, <1>7, <1>8, <1>9 DEF Next

(* Until a transaction of _finish fails every diff stays clean. *)
LEMMA DiffsStep ==
  ASSUME IInv, ReservedOK, Next, spent.faults = 0 => DiffsClean, spent'.faults = 0
  PROVE  DiffsClean'
<1>1. spent.faults = 0
  BY FaultsStep
<1>2. CASE Tick
  <2>1. SameRuns /\ thread' = thread
    BY <1>2, SameRows DEF Tick
  <2>. QED  BY <1>1, <2>1, NoMoveClean
<1>3. DiffsClean
  BY <1>1
<1>. QED
  BY <1>2, <1>3, StartClean, ResumeClean, ExecuteClean, OthersClean, RestartClean, EditClean
     DEF Next

(* The invariant behind the diffs. *)
LEMMA DiffsInvariant == Spec => [](spent.faults = 0 => DiffsClean)
<1>1. Init => DiffsClean
  BY DEF Init, DiffsClean, RowClean, ThreadClean, IdleThread, Live
<1>2. Spec => []ReservedOK
  BY ReservedInvariant
<1>3. IInv /\ ReservedOK /\ (spent.faults = 0 => DiffsClean) /\ [Next]_vars
        => (spent.faults = 0 => DiffsClean)'
  <2>1. CASE Next
    BY <2>1, DiffsStep
  <2>2. ASSUME IInv, UNCHANGED vars, DiffsClean PROVE DiffsClean'
    <3>1. SameRuns /\ thread' = thread
      BY <2>2, SameRows DEF vars, worldVars
    <3>. QED  BY <2>2, <3>1, NoMoveClean
  <2>. QED  BY <2>1, <2>2 DEF vars, worldVars
<1>. QED  BY <1>1, <1>2, <1>3, Invariant, PTL DEF Spec

(* As long as no transaction of _finish has failed, the recorded diff of a *)
(* run never contains the writes of another run.                           *)
THEOREM CleanDiffTheorem == Spec => [](spent.faults = 0 => CleanDiff)
<1>1. DiffsClean => CleanDiff
  BY DEF DiffsClean, RowClean, Own, CleanDiff
<1>. QED  BY <1>1, DiffsInvariant, PTL
-----------------------------------------------------------------------------
(***************************************************************************)
(* Who looks at an open approval.  A deadline is scheduled by `arm', which *)
(* no transaction that opens or settles an approval runs itself: after a   *)
(* response, after a pause and after a restart it comes in a later section *)
(* of the thread, and the deadline thread pops an entry before it looks at *)
(* the rows.  So between those sections somebody has to be on the way.     *)
(***************************************************************************)
(* The thread has arm, or the closing section of the execution, ahead. *)
OnWayAt(t, r) ==
  /\ t.run = r
  /\ \/ t.pc \in {"arm", "check"}
     \/ t.pc \in {"leave", "unset", "post"} /\ ~t.raised
OnWay(r) == \E w \in Workers : OnWayAt(thread[w], r)

(* The earliest open approval is the one that is scheduled. *)
Timed(r) ==
  \E i \in Approvals(r) : /\ deadlines[r] = input[i].expires
                          /\ \A j \in Approvals(r) : input[i].expires <= input[j].expires
(* The deadline thread has taken the entry out and is about to end the run. *)
Popped(r) == sched.pc = "expire" /\ sched.run = r /\ Overdue(r)

Watched(r) ==
  r \in held /\ Approvals(r) # {} =>
    Timed(r) \/ state[r].cancel \/ Popped(r) \/ OnWay(r)
ApprovalsWatched == mode = "up" => \A r \in Runs : Watched(r)

(* Before requests are served an entry is missing or right. *)
WatchOK ==
  /\ ApprovalsWatched
  /\ mode = "recovering" => \A r \in Runs : deadlines[r] = NoDeadline
  /\ mode = "arming" => \A r \in held : deadlines[r] = NoDeadline \/ Timed(r)

(* A thread that leaves without an exception has left no run running. *)
ReturnOK ==
  \A w \in Workers :
    /\ thread[w].raised => thread[w].pc \in {"leave", "unset", "release", "unlock", "notify"}
    /\ thread[w].pc \in {"leave", "unset", "post"} /\ ~thread[w].raised =>
         status[thread[w].run] # "running"

(* What a step leaves of the run q. *)
Rows(q) ==
  /\ q \in held' => q \in held
  /\ deadlines'[q] = deadlines[q]
  /\ state'[q].cancel = state[q].cancel
  /\ \A i \in Inputs : input[i].run = q \/ input'[i].run = q => input'[i] = input[i]
OtherRows(r) == \A q \in Runs \ {r} : Rows(q)
Later == clock' \in Nat /\ clock <= clock' /\ (sched.pc = "expire" => sched' = sched)

(* A run whose rows a step leaves alone is watched as before. *)
LEMMA RowsWatched ==
  ASSUME TypeOK, NEW q \in Runs, Watched(q), Rows(q), Later, OnWay(q) => OnWay(q)'
  PROVE  Watched(q)'
<1>1. Approvals(q)' = Approvals(q) /\ \A i \in Approvals(q) : input'[i] = input[i]
  BY DEF Rows, Approvals, Pending
<1>2. Timed(q) => Timed(q)'
  BY <1>1 DEF Rows, Timed
<1>3. Overdue(q) => Overdue(q)'
  BY <1>1 DEF Overdue, Later, TypeOK, Input, Approvals, Pending
<1>. QED  BY <1>1, <1>2, <1>3 DEF Watched, Rows, Popped, Later

(* Only the thread w moves, and what it has ahead is for its own run. *)
LEMMA OthersOnWay ==
  ASSUME NEW w \in Workers, OthersStay(w), NEW q, thread[w].run # q, OnWay(q)
  PROVE  OnWay(q)'
BY DEF OnWay, OnWayAt, OthersStay

LEMMA ThreadOnWay ==
  ASSUME NEW w \in Workers, OthersStay(w), NEW q,
         OnWayAt(thread[w], q) => OnWayAt(thread'[w], q), OnWay(q)
  PROVE  OnWay(q)'
BY DEF OnWay, OthersStay

-----------------------------------------------------------------------------
(* _finish takes the run out of _active and touches no other. *)
LEMMA FinishRows ==
  ASSUME IInv, NEW r \in Runs, NEW st, NEW wanted, Finish(r, st, wanted)
  PROVE  OtherRows(r) /\ r \notin held'
<1>0. TypeOK
  BY IInvParts
<1>1. \A row \in Input : Reject(row).run = row.run
  BY RejectSettles
<1>2. status[r] \notin Live => r \notin held
  BY DEF IInv, HeldOK, Live
<1>3. r \notin held'
  BY <1>2 DEF Finish
<1>4. \A i \in Inputs : /\ input'[i].run = input[i].run
                        /\ input[i].run # r => input'[i] = input[i]
  BY <1>0, <1>1 DEF Finish, Closed, Pending, TypeOK
<1>5. \A q \in Runs \ {r} : /\ deadlines'[q] = deadlines[q] /\ state'[q] = state[q]
                            /\ q \in held' => q \in held
  BY <1>0 DEF Finish, TypeOK
<1>6. ASSUME NEW q \in Runs \ {r} PROVE Rows(q)
  BY <1>4, <1>5, Zenon DEF Rows
<1>. QED  BY <1>3, <1>6 DEF OtherRows

(* When its transaction fails only the entry of the run has changed. *)
LEMMA FinishFailsRows ==
  ASSUME TypeOK, NEW r \in Runs, NEW st, FinishFails(r, st)
  PROVE  /\ OtherRows(r) /\ state'[r] = st
         /\ st.cancel = state[r].cancel => Rows(r)
BY DEF FinishFails, rowVars, OtherRows, Rows, TypeOK

LEMMA TimedOutCancels ==
  ASSUME TypeOK, NEW r \in Runs
  PROVE  TimedOut(r).cancel /\ [state[r] EXCEPT !.cancel = TRUE].cancel
<1>1. state[r] \in State
  BY DEF TypeOK
<1>. QED  BY <1>1 DEF TimedOut, State

(* expire_approvals ends the run, asks it to stop, or finds nothing to do. *)
LEMMA ExpireRows ==
  ASSUME IInv, NEW r \in Runs, Expire(r)
  PROVE  /\ OtherRows(r)
         /\ ~MustExpire(r) => Rows(r)
         /\ MustExpire(r) => r \notin held' \/ (state'[r].cancel /\ state[r].executing)
<1>0. TypeOK
  BY IInvParts
<1>1. CASE MustExpire(r) /\ EndsAtOnce(r)
  BY <1>1, FinishRows DEF Expire
<1>2. CASE ~(MustExpire(r) /\ EndsAtOnce(r))
  BY <1>0, <1>2, TimedOutCancels DEF Expire, rowVars, OtherRows, Rows, TypeOK, MustExpire, EndsAtOnce
<1>. QED  BY <1>1, <1>2

(* arm schedules the earliest open approval. *)
LEMMA ArmTimes ==
  ASSUME TypeOK, NEW r \in Runs, Arm(r), UNCHANGED input
  PROVE  /\ Approvals(r) = {} \/ Timed(r)'
         /\ \A q \in Runs \ {r} : deadlines'[q] = deadlines[q]
<1>1. ASSUME Approvals(r) # {} PROVE Timed(r)'
  <2>. DEFINE T == {input[i].expires : i \in Approvals(r)}
  <2>1. T \in SUBSET Nat /\ T # {}
    <3>1. T # {}
      BY <1>1
    <3>2. T \in SUBSET Nat
      BY DEF Approvals, Pending, TypeOK, Input
    <3>. QED  BY <3>1, <3>2
  <2>2. PICK d \in T : \A e \in T : d <= e
    BY <2>1, Minimum
  <2>3. Earliest(r) \in T /\ \A i \in Approvals(r) : Earliest(r) <= input[i].expires
    <3>1. \A i \in Approvals(r) : d <= input[i].expires
      BY <2>2
    <3>. QED  BY <3>1, Zenon DEF Earliest
  <2>4. PICK i \in Approvals(r) : input[i].expires = Earliest(r)
    BY <2>3
  <2>5. deadlines'[r] = Earliest(r)
    BY <1>1 DEF Arm, TypeOK
  <2>6. Approvals(r)' = Approvals(r)
    BY DEF Approvals, Pending
  <2>. QED  BY <2>3, <2>4, <2>5, <2>6 DEF Timed
<1>. QED  BY <1>1 DEF Arm, TypeOK

-----------------------------------------------------------------------------
(* A thread whose run is left alone by the others keeps its place. *)
LEMMA SameReturn ==
  ASSUME ReturnOK, thread' = thread, \A q \in Runs : status'[q] = "running" => status[q] = "running",
         \A w \in Workers : thread[w].pc \in {"leave", "unset", "post"} => thread[w].run \in Runs
  PROVE  ReturnOK'
BY DEF ReturnOK

(* Only w moves and no run starts to run. *)
LEMMA MoveReturn ==
  ASSUME ReturnOK, NEW w \in Workers, OthersStay(w),
         \A q \in Runs : status'[q] = "running" => status[q] = "running",
         \A v \in Workers : thread[v].pc \in {"leave", "unset", "post"} => thread[v].run \in Runs,
         thread'[w].raised => thread'[w].pc \in {"leave", "unset", "release", "unlock", "notify"},
         thread'[w].pc \in {"leave", "unset", "post"} /\ ~thread'[w].raised =>
           status'[thread'[w].run] # "running"
  PROVE  ReturnOK'
BY DEF ReturnOK, OthersStay

(* A step that ends a run makes none run. *)
LEMMA EndsRunning ==
  ASSUME NEW r, Ends(r), NEW q \in Runs, status'[q] = "running"
  PROVE  status[q] = "running"
BY DEF Ends, Terminal

LEMMA ReturnStep ==
  ASSUME IInv, ReturnOK, Next
  PROVE  ReturnOK'
<1>0. TypeOK
  BY IInvParts
<1>1. \A v \in Workers : thread[v].pc \in {"leave", "unset", "post"} => thread[v].run \in Runs
  BY ThreadRun DEF RunPcs, Pcs
<1>2. ASSUME NEW w \in Workers, Start(w) PROVE ReturnOK'
  <2>1. ASSUME NEW s \in Sessions, NEW k \in Keys \cup {NoKey}, StartRequest(w, s, k)
        PROVE  ReturnOK'
    <3>1. /\ OthersStay(w) /\ thread'[w].pc = "start" /\ ~thread'[w].raised /\ status' = status
      BY <1>0, <2>1 DEF StartRequest, Accept, TypeOK, IdleThread, OthersStay, rowVars
    <3>. QED  BY <1>1, <3>1, MoveReturn
  <2>2. CASE StartRefused(w)
    <3>1. /\ OthersStay(w) /\ thread'[w].pc = "unlock" /\ thread'[w].raised = thread[w].raised
          /\ status' = status
      BY <1>0, <2>2 DEF StartRefused, Goto, TypeOK, Thread, OthersStay, rowVars
    <3>. QED  BY <1>1, <3>1, MoveReturn DEF ReturnOK
  <2>3. ASSUME NEW r \in Runs, StartCreate(w, r) PROVE ReturnOK'
    <3>1. /\ OthersStay(w) /\ thread'[w].pc = "reserve" /\ thread'[w].raised = thread[w].raised
          /\ thread[w].pc = "start" /\ status[r] = "none" /\ \A q \in Runs \ {r} : status'[q] = status[q]
      BY <1>0, <2>3 DEF StartCreate, TypeOK, Thread, OthersStay
    <3>2. \A v \in Workers : thread[v].pc \in {"leave", "unset", "post"} => thread[v].run # r
      BY <3>1, <1>1, NobodyElse, IInvParts DEF ThreadsOK
    <3>. QED  BY <1>1, <3>1, <3>2 DEF ReturnOK, OthersStay
  <2>. QED  BY <1>2, <2>1, <2>2, <2>3 DEF Start
<1>3. ASSUME NEW w \in Workers, Resume(w) PROVE ReturnOK'
  <2>1. ASSUME NEW r \in Runs, NEW i \in Inputs, NEW accept \in BOOLEAN,
               ResumeRequest(w, r, i, accept)
        PROVE  ReturnOK'
    <3>1. /\ OthersStay(w) /\ thread'[w].pc = "admit" /\ ~thread'[w].raised /\ status' = status
      BY <1>0, <2>1 DEF ResumeRequest, Accept, TypeOK, IdleThread, OthersStay, rowVars
    <3>. QED  BY <1>1, <3>1, MoveReturn
  <2>2. CASE ResumeRefused(w) \/ ResumeAdmit(w) \/ ResumeTooLate(w) \/ ResumeInvalid(w) \/ ResumeArm(w)
    <3>1. /\ OthersStay(w) /\ thread'[w].pc \in {"unlock", "commit", "expired", "release", "begin"}
          /\ thread'[w].raised = thread[w].raised /\ status' = status
          /\ thread[w].pc \in {"admit", "commit", "arm"}
      BY <1>0, <2>2 DEF ResumeRefused, ResumeAdmit, Admissible, ResumeTooLate, ResumeInvalid, ResumeArm,
         Admit, Goto, TypeOK, Thread, OthersStay, rowVars
    <3>. QED  BY <1>1, <3>1, MoveReturn DEF ReturnOK
  <2>3. CASE ResumeCommit(w)
    <3>1. /\ OthersStay(w) /\ thread'[w].pc = "arm" /\ thread'[w].raised = thread[w].raised
          /\ \A q \in Runs \ {thread[w].run} : status'[q] = status[q]
          /\ thread[w].pc = "commit"
      BY <1>0, <2>3 DEF ResumeCommit, Goto, TypeOK, Thread, OthersStay
    <3>2. \A v \in Workers \ {w} : thread[v].pc \in {"leave", "unset", "post"} => thread[v].run # thread[w].run
      <4>. SUFFICES ASSUME NEW v \in Workers \ {w}, thread[v].pc \in {"leave", "unset", "post"},
                           thread[v].run = thread[w].run
                    PROVE  FALSE
        OBVIOUS
      <4>. QED  BY <3>1, <1>1, NobodyElse, IInvParts DEF ThreadsOK, LockPcs, Pcs
    <3>. QED  BY <1>1, <3>1, <3>2 DEF ReturnOK, OthersStay
  <2>4. CASE ResumeOverdue(w) \/ ResumeStale(w) \/ ResumeExpire(w)
    <3>1. ThreadEnds(w)
      BY <2>4, ThreadEndsRun
    <3>2. /\ thread[w].pc \notin ExecPcs /\ thread'[w].raised = thread[w].raised
          /\ thread[w].pc \in {"admit", "expired"}
      BY <1>0, <2>4 DEF ResumeOverdue, ResumeStale, ResumeExpire, Admissible, Admit, Goto, TypeOK, Thread, ExecPcs
    <3>3. thread'[w].pc \in {"unlock", "release"}
      BY <3>1, <3>2 DEF ThreadEnds
    <3>. QED  BY <1>1, <3>1, <3>2, <3>3, MoveReturn, EndsRunning DEF ReturnOK, ThreadEnds, OthersStay
  <2>. QED  BY <1>3, <2>1, <2>2, <2>3, <2>4 DEF Resume
<1>4. ASSUME NEW w \in Workers, Execute(w) PROVE ReturnOK'
  <2>1. CASE ReserveWorktree(w) \/ Begin(w) \/ DrivePause(w)
    <3>1. /\ OthersStay(w) /\ thread'[w].pc \in {"begin", "drive", "wait"}
          /\ thread'[w].raised = thread[w].raised /\ status' = status
          /\ thread[w].pc \in {"reserve", "begin", "drive"}
      BY <1>0, <2>1 DEF ReserveWorktree, Begin, DrivePause, At, Goto, TypeOK, Thread, OthersStay, rowVars
    <3>. QED  BY <1>1, <3>1, MoveReturn DEF ReturnOK
  <2>2. CASE DriveWrite(w)
    BY <1>1, <2>2, SameReturn DEF DriveWrite, rowVars
  <2>3. ASSUME NEW new \in SUBSET Inputs, NEW kind \in {"approval", "decision"}, NEW manual \in BOOLEAN,
               WaitCommit(w, new, kind, manual)
        PROVE  ReturnOK'
    <3>1. /\ OthersStay(w) /\ thread'[w].pc = "check" /\ thread'[w].raised = thread[w].raised
          /\ thread[w].pc = "wait"
          /\ \A q \in Runs : status'[q] = "running" => status[q] = "running"
      BY <1>0, <2>3 DEF WaitCommit, At, Goto, TypeOK, Thread, OthersStay
    <3>. QED  BY <1>1, <3>1, MoveReturn DEF ReturnOK
  <2>4. CASE DriveReturn(w)
    <3>1. /\ OthersStay(w) /\ thread'[w].pc = "leave" /\ thread'[w].raised = thread[w].raised
          /\ thread'[w].run = thread[w].run /\ thread[w].pc = "check" /\ status' = status
      BY <1>0, <2>4 DEF DriveReturn, At, Goto, TypeOK, Thread, OthersStay, rowVars
    <3>2. status[thread[w].run] = "waiting"
      BY <3>1 DEF IInv, ExecutionOK
    <3>. QED  BY <1>1, <3>1, <3>2, MoveReturn DEF ReturnOK
  <2>5. CASE LeaveWorktree(w) \/ StopExecuting(w) \/ ReleaseWorktree(w)
    <3>1. /\ OthersStay(w) /\ status' = status
          /\ thread'[w].raised = thread[w].raised /\ thread'[w].run = thread[w].run
          /\ \/ thread[w].pc = "leave" /\ thread'[w].pc = "unset"
             \/ thread[w].pc = "unset" /\ thread'[w].pc = IF thread[w].raised THEN "release" ELSE "post"
             \/ thread[w].pc = "release" /\ thread'[w].pc = "unlock"
      BY <1>0, <2>5 DEF LeaveWorktree, StopExecuting, ReleaseWorktree, At, Goto, TypeOK, Thread, OthersStay, rowVars
    <3>. QED  BY <1>1, <3>1, MoveReturn DEF ReturnOK
  <2>6. CASE ReleaseLock(w) \/ NotifyTimeout(w)
    <3>1. /\ OthersStay(w) /\ status' = status
          /\ \/ thread'[w].pc = "notify" /\ thread'[w].raised = thread[w].raised
             \/ thread'[w] = IdleThread
      BY <1>0, <2>6 DEF ReleaseLock, NotifyTimeout, At, TypeOK, Thread, OthersStay, rowVars
    <3>. QED  BY <1>1, <3>1, MoveReturn DEF IdleThread
  <2>7. CASE BeginCancelled(w) \/ BeginBusy(w) \/ BeginStale(w) \/ DriveComplete(w)
             \/ DriveFail(w) \/ DriveStop(w)
    <3>1. ThreadEnds(w)
      BY <2>7, ThreadEndsRun
    <3>2. thread[w].pc \in {"begin", "drive", "wait", "check"}
      BY <2>7 DEF BeginCancelled, BeginBusy, BeginStale, DriveComplete, DriveFail, DriveStop, At
    <3>3. status[thread[w].run] \in Live
      BY <3>2 DEF IInv, ExecutionOK, LivePcs, Live
    <3>4. thread'[w].pc = "leave" /\ (thread'[w].raised \/ status'[thread[w].run] \in Terminal)
      <4>1. ASSUME NEW st, NEW wanted \in Terminal, Finish(thread[w].run, st, wanted)
            PROVE  status'[thread[w].run] \in Terminal
        BY <1>0, <3>1, <3>3, <4>1 DEF Finish, FinalStatus, Terminal, TypeOK, ThreadEnds
      <4>2. ASSUME NEW st, NEW wanted \in Terminal, FinishRaised(w, st, wanted)
            PROVE  thread'[w].raised \/ status'[thread[w].run] \in Terminal
        <5>1. \/ Finish(thread[w].run, st, wanted)
              \/ thread' = [thread EXCEPT ![w].pc = "leave", ![w].raised = TRUE]
          BY <4>2 DEF FinishRaised
        <5>. QED  BY <1>0, <4>1, <5>1 DEF TypeOK, Thread
      <4>3. ASSUME NEW wanted \in Terminal, FinishInside(w, wanted)
            PROVE  status'[thread[w].run] \in Terminal
        BY <4>1, <4>3 DEF FinishInside
      <4>4. \/ \E st : FinishRaised(w, st, "cancelled") \/ FinishRaised(w, st, "failed")
            \/ FinishInside(w, "completed") \/ FinishInside(w, "interrupted")
        BY <2>7 DEF BeginCancelled, BeginBusy, BeginStale, DriveComplete, DriveFail, DriveStop
      <4>5. thread'[w].pc = "leave"
        BY <3>1, <3>2 DEF ThreadEnds, ExecPcs
      <4>. QED  BY <4>2, <4>3, <4>4, <4>5 DEF Terminal
    <3>. QED  BY <1>1, <3>1, <3>4, MoveReturn, EndsRunning DEF ThreadEnds, OthersStay, Terminal
  <2>8. CASE PostExecute(w)
    <3>1. ThreadEnds(w)
      BY <2>8, ThreadEndsRun
    <3>2. thread[w].pc = "post" /\ thread'[w].pc = "release" /\ thread'[w].raised = thread[w].raised
      BY <1>0, <2>8 DEF PostExecute, Goto, TypeOK, Thread
    <3>. QED  BY <1>1, <3>1, <3>2, MoveReturn, EndsRunning DEF ReturnOK, ThreadEnds, OthersStay
  <2>. QED  BY <1>4, <2>1, <2>2, <2>3, <2>4, <2>5, <2>6, <2>7, <2>8 DEF Execute, Wait
<1>5. ASSUME NEW w \in Workers, Close(w) PROVE ReturnOK'
  <2>1. ASSUME NEW s \in Sessions, CloseRequest(w, s) PROVE ReturnOK'
    <3>1. OthersStay(w) /\ thread'[w].pc = "close" /\ ~thread'[w].raised /\ status' = status
      BY <1>0, <2>1 DEF CloseRequest, Accept, TypeOK, IdleThread, OthersStay, rowVars
    <3>. QED  BY <1>1, <3>1, MoveReturn
  <2>2. CASE CloseDone(w)
    <3>1. /\ OthersStay(w) /\ thread[w].pc = "close" /\ thread'[w].pc = "unlock"
          /\ thread'[w].raised = thread[w].raised /\ status' = status
      BY <1>0, <2>2 DEF CloseDone, At, Goto, TypeOK, Thread, OthersStay, rowVars
    <3>. QED  BY <1>1, <3>1, MoveReturn DEF ReturnOK
  <2>3. ASSUME NEW r \in Runs, CloseRun(w, r) PROVE ReturnOK'
    <3>1. OthersEnd(r)
      BY <2>3, OthersEndRun
    <3>. QED  BY <1>1, <3>1, SameReturn, EndsRunning DEF OthersEnd
  <2>. QED  BY <1>5, <2>1, <2>2, <2>3 DEF Close
<1>6. ASSUME NEW r \in Runs, Cancel(r) \/ ArmRestored(r) PROVE ReturnOK'
  BY <1>1, <1>6, OthersEndRun, SameReturn, EndsRunning DEF OthersEnd
<1>7. CASE Scheduler
  <2>1. CASE SchedulerExpire
    <3>1. sched.run \in Runs
      BY <1>0, <2>1, IInvParts DEF SchedulerExpire, SchedOK, TypeOK, Ids
    <3>. QED  BY <1>1, <2>1, <3>1, OthersEndRun, SameReturn, EndsRunning DEF OthersEnd
  <2>. QED  BY <1>1, <1>7, <2>1, SameReturn
         DEF Scheduler, SchedulerPop, SchedulerRetry, SchedulerNotify, rowVars
<1>8. CASE Crash
  <2>1. \A w \in Workers : thread'[w] = IdleThread
    BY <1>8 DEF Crash
  <2>. QED  BY <2>1 DEF ReturnOK, IdleThread
<1>9. CASE Restart /\ ~Crash
  <2>1. CASE \E r \in Runs : ArmRestored(r)
    BY <1>6, <2>1
  <2>2. CASE ~(\E r \in Runs : ArmRestored(r))
    <3>1. thread' = thread /\ \A q \in Runs : status'[q] = "running" => status[q] = "running"
      BY <1>9, <2>2 DEF Restart, Restore, Recover, Serve, rowVars
    <3>. QED  BY <1>1, <3>1, SameReturn
  <2>. QED  BY <2>1, <2>2
<1>10. CASE Tick \/ \E root \in Roots : OutsideEdit(root)
  BY <1>1, <1>10, SameReturn DEF Tick, OutsideEdit, rowVars
<1>. QED
  BY <1>2, <1>3, <1>4, <1>5, <1>6, <1>7, <1>8, <1>9, <1>10 DEF Next

-----------------------------------------------------------------------------
AllWatched == \A q \in Runs : Watched(q)

(* A step that leaves every row that matters alone. *)
LEMMA StayWatched ==
  ASSUME TypeOK, AllWatched, Later, \A q \in Runs : Rows(q), \A q \in Runs : OnWay(q) => OnWay(q)'
  PROVE  AllWatched'
<1>1. ASSUME NEW q \in Runs PROVE Watched(q)'
  <2>1. Watched(q) /\ Rows(q) /\ (OnWay(q) => OnWay(q)')
    BY DEF AllWatched
  <2>. QED  BY <2>1, RowsWatched
<1>. QED  BY <1>1 DEF AllWatched

(* A step about the run r. *)
LEMMA EndWatched ==
  ASSUME TypeOK, AllWatched, Later, NEW r \in Runs, OtherRows(r), Watched(r)',
         \A q \in Runs \ {r} : OnWay(q) => OnWay(q)'
  PROVE  AllWatched'
<1>1. ASSUME NEW q \in Runs \ {r} PROVE Watched(q)'
  <2>1. Watched(q) /\ Rows(q) /\ (OnWay(q) => OnWay(q)')
    BY DEF AllWatched, OtherRows
  <2>. QED  BY <2>1, RowsWatched
<1>. QED  BY <1>1 DEF AllWatched

(* A thread goes on, and nobody writes a row of an approval. *)
Moves(w) ==
  /\ OthersStay(w) /\ UNCHANGED <<input, held, deadlines, sched, clock>>
  /\ \A q \in Runs : state'[q].cancel = state[q].cancel
  /\ \A q \in Runs : OnWayAt(thread[w], q) => OnWayAt(thread'[w], q)

LEMMA MovesWatched ==
  ASSUME TypeOK, AllWatched, NEW w \in Workers, Moves(w)
  PROVE  AllWatched'
<1>1. Later
  BY DEF Moves, Later, TypeOK
<1>2. ASSUME NEW q \in Runs PROVE Rows(q) /\ (OnWay(q) => OnWay(q)')
  <2>1. OnWay(q) => OnWay(q)'
    BY ThreadOnWay DEF Moves
  <2>. QED  BY <2>1 DEF Moves, Rows
<1>. QED  BY <1>1, <1>2, StayWatched

-----------------------------------------------------------------------------
LEMMA StartWatched ==
  ASSUME IInv, AllWatched, NEW w \in Workers, Start(w)
  PROVE  AllWatched'
<1>0. TypeOK
  BY IInvParts
<1>1. ASSUME NEW s \in Sessions, NEW k \in Keys \cup {NoKey}, StartRequest(w, s, k) PROVE Moves(w)
  BY <1>0, <1>1 DEF StartRequest, Accept, TypeOK, IdleThread, OthersStay, rowVars, Moves, OnWayAt
<1>2. CASE StartRefused(w)
  <2>1. Moves(w)
    BY <1>0, <1>2 DEF StartRefused, Goto, TypeOK, Thread, OthersStay, rowVars, worldVars, Moves, OnWayAt
  <2>. QED  BY <1>0, <2>1, MovesWatched
<1>3. ASSUME NEW r \in Runs, StartCreate(w, r) PROVE AllWatched'
  <2>1. /\ UNCHANGED <<input, deadlines, sched, clock>> /\ held' = held \cup {r} /\ status[r] = "none"
        /\ \A q \in Runs \ {r} : state'[q] = state[q]
        /\ OthersStay(w) /\ thread[w].pc = "start"
    BY <1>0, <1>3 DEF StartCreate, TypeOK, OthersStay, worldVars
  <2>2. Approvals(r)' = {}
    BY <2>1, IInvParts DEF RowsOK, Live, Approvals, Pending
  <2>3. Watched(r)'
    BY <2>2 DEF Watched
  <2>4. OtherRows(r) /\ Later
    BY <1>0, <2>1 DEF OtherRows, Rows, Later, TypeOK
  <2>5. ASSUME NEW q \in Runs, OnWay(q) PROVE OnWay(q)'
    BY <2>1, <2>5 DEF OnWay, OnWayAt, OthersStay
  <2>. QED  BY <1>0, <2>3, <2>4, <2>5, EndWatched
<1>. QED  BY <1>0, <1>1, <1>2, <1>3, MovesWatched DEF Start

(* A thread ends its run, or fails to, and the stop stays. *)
LEMMA ThreadEndWatched ==
  ASSUME IInv, ReturnOK, AllWatched, NEW w \in Workers,
         \/ ResumeOverdue(w) \/ ResumeStale(w) \/ ResumeExpire(w)
         \/ BeginCancelled(w) \/ BeginBusy(w) \/ BeginStale(w) \/ DriveComplete(w)
         \/ DriveFail(w) \/ DriveStop(w) \/ PostExecute(w)
  PROVE  AllWatched'
<1>0. TypeOK
  BY IInvParts
<1>1. ThreadEnds(w)
  BY ThreadEndsRun
<1>. PICK r \in Runs : r = thread[w].run
  BY <1>1 DEF ThreadEnds
<1>2. r \in Runs /\ OthersStay(w) /\ sched' = sched
  BY <1>1 DEF ThreadEnds, OthersStay
<1>3. clock' = clock
  BY DEF ResumeOverdue, ResumeStale, ResumeExpire, BeginCancelled, BeginBusy, BeginStale, DriveComplete,
     DriveFail, DriveStop, PostExecute, FinishRaised, FinishInside, worldVars
<1>4. Later
  BY <1>0, <1>2, <1>3 DEF Later, TypeOK
<1>5. \A q \in Runs \ {r} : OnWay(q) => OnWay(q)'
  BY <1>2, OthersOnWay
<1>6. ASSUME OtherRows(r), r \notin held' \/ state'[r].cancel PROVE AllWatched'
  BY <1>0, <1>2, <1>4, <1>5, <1>6, EndWatched DEF Watched
<1>7. ASSUME OtherRows(r), Rows(r), ~OnWayAt(thread[w], r) PROVE AllWatched'
  <2>1. OnWay(r) => OnWay(r)'
    BY <1>2, <1>7, ThreadOnWay
  <2>2. Watched(r)'
    BY <1>0, <1>2, <1>4, <1>7, <2>1, RowsWatched DEF AllWatched
  <2>. QED  BY <1>0, <1>2, <1>4, <1>5, <1>7, <2>2, EndWatched
<1>8. ASSUME NEW st, NEW wanted, Finish(r, st, wanted) PROVE AllWatched'
  BY <1>2, <1>6, <1>8, FinishRows
<1>9. ASSUME NEW st, FinishFails(r, st), st.cancel PROVE AllWatched'
  BY <1>0, <1>2, <1>6, <1>9, FinishFailsRows
<1>10. CASE ResumeOverdue(w)
  <2>1. CASE Expire(r)
    BY <1>2, <1>6, <1>10, <2>1, ExpireRows DEF ResumeOverdue
  <2>2. CASE FinishFails(r, TimedOut(r))
    BY <1>0, <1>2, <1>9, <2>2, TimedOutCancels
  <2>. QED  BY <1>10, <2>1, <2>2 DEF ResumeOverdue
<1>11. CASE ResumeStale(w)
  BY <1>8, <1>11 DEF ResumeStale
<1>12. CASE ResumeExpire(w)
  <2>1. Expire(r) /\ ~OnWayAt(thread[w], r)
    BY <1>12 DEF ResumeExpire, OnWayAt
  <2>. QED  BY <1>2, <1>6, <1>7, <2>1, ExpireRows
<1>13. CASE BeginCancelled(w)
  <2>1. \/ Finish(r, [state[r] EXCEPT !.cancel = TRUE], "cancelled")
        \/ FinishFails(r, [state[r] EXCEPT !.cancel = TRUE])
    BY <1>13 DEF BeginCancelled, FinishRaised
  <2>. QED  BY <1>0, <1>2, <1>8, <1>9, <2>1, TimedOutCancels
<1>14. CASE BeginBusy(w) \/ DriveFail(w)
  <2>1. thread[w].pc \in {"begin", "drive", "wait"} /\ (Finish(r, state[r], "failed") \/ FinishFails(r, state[r]))
    BY <1>14 DEF BeginBusy, DriveFail, FinishRaised, At
  <2>2. ~OnWayAt(thread[w], r)
    BY <2>1 DEF OnWayAt
  <2>. QED  BY <1>0, <1>2, <1>7, <1>8, <2>1, <2>2, FinishFailsRows
<1>15. CASE DriveStop(w)
  <2>1. state[r].cancel /\ (Finish(r, state[r], "cancelled") \/ FinishFails(r, state[r]))
    BY <1>15 DEF DriveStop, FinishRaised
  <2>. QED  BY <1>8, <1>9, <2>1
<1>16. CASE BeginStale(w) \/ DriveComplete(w)
  BY <1>8, <1>16 DEF BeginStale, DriveComplete, FinishInside
<1>17. CASE PostExecute(w)
  <2>1. CASE LateStop(r)
    BY <1>8, <1>17, <2>1 DEF PostExecute
  <2>2. CASE ~LateStop(r) /\ status[r] = "waiting" /\ MustExpire(r)
    BY <1>8, <1>17, <2>2 DEF PostExecute
  <2>3. CASE ~LateStop(r) /\ status[r] # "waiting"
    <3>1. thread[w].pc = "post" /\ mode = "up"
      BY <1>17 DEF PostExecute, ControlFree
    <3>2. status[r] # "running"
      BY <3>1 DEF ReturnOK
    <3>3. r \notin held
      BY <2>3, <3>1, <3>2 DEF IInv, HeldOK, Live
    <3>4. UNCHANGED <<input, state, held, deadlines>>
      BY <1>17, <2>3 DEF PostExecute, rowVars
    <3>. QED  BY <1>6, <3>3, <3>4 DEF OtherRows, Rows
  <2>4. CASE ~LateStop(r) /\ status[r] = "waiting" /\ ~MustExpire(r)
    <3>1. Arm(r) /\ UNCHANGED <<input, state, held>>
      BY <1>17, <2>4 DEF PostExecute, rowVars
    <3>2. Approvals(r)' = Approvals(r)
      BY <3>1 DEF Approvals, Pending
    <3>3. Watched(r)' /\ OtherRows(r)
      BY <1>0, <1>2, <3>1, <3>2, ArmTimes DEF Watched, OtherRows, Rows
    <3>. QED  BY <1>0, <1>2, <1>4, <1>5, <3>3, EndWatched
  <2>. QED  BY <2>1, <2>2, <2>3, <2>4
<1>. QED  BY <1>10, <1>11, <1>12, <1>13, <1>14, <1>15, <1>16, <1>17

LEMMA ResumeWatched ==
  ASSUME IInv, ReturnOK, AllWatched, NEW w \in Workers, Resume(w)
  PROVE  AllWatched'
<1>0. TypeOK
  BY IInvParts
<1>1. ASSUME NEW r \in Runs, NEW i \in Inputs, NEW accept \in BOOLEAN, ResumeRequest(w, r, i, accept)
      PROVE  Moves(w)
  BY <1>0, <1>1 DEF ResumeRequest, Accept, TypeOK, IdleThread, OthersStay, rowVars, Moves, OnWayAt
<1>2. CASE ResumeRefused(w) \/ ResumeAdmit(w) \/ ResumeInvalid(w)
  <2>1. /\ OthersStay(w) /\ thread[w].pc \in {"admit", "commit"}
        /\ UNCHANGED <<input, held, deadlines, sched, clock, state>>
    BY <1>0, <1>2 DEF ResumeRefused, ResumeAdmit, ResumeInvalid, Admissible, Admit, Goto, TypeOK, OthersStay,
       rowVars, worldVars
  <2>2. Moves(w)
    BY <2>1 DEF Moves, OnWayAt
  <2>. QED  BY <1>0, <2>2, MovesWatched
<1>3. ASSUME thread[w].pc = "commit"
      PROVE  /\ thread[w].run \in Runs
             /\ Answered(w).cancel = state[thread[w].run].cancel
             /\ [Answered(w) EXCEPT !.manual = FALSE, !.executing = TRUE].cancel = state[thread[w].run].cancel
  <2>1. thread[w].run \in Runs
    BY <1>3, CommitRun
  <2>2. state[thread[w].run] \in State
    BY <1>0, <2>1 DEF TypeOK
  <2>. QED  BY <2>1, <2>2 DEF Answered, State
<1>4. CASE ResumeTooLate(w)
  <2>1. /\ OthersStay(w) /\ thread[w].pc = "commit" /\ UNCHANGED <<input, held, deadlines, sched, clock>>
        /\ state' = [state EXCEPT ![thread[w].run] = Answered(w)]
    BY <1>0, <1>4 DEF ResumeTooLate, Goto, TypeOK, OthersStay, rowVars, worldVars
  <2>2. Moves(w)
    BY <1>0, <1>3, <2>1 DEF Moves, OnWayAt, TypeOK
  <2>. QED  BY <1>0, <2>2, MovesWatched
<1>5. CASE ResumeCommit(w)
  <2>. PICK r \in Runs : r = thread[w].run
    BY <1>5, CommitRun DEF ResumeCommit
  <2>1. /\ OthersStay(w) /\ thread[w].pc = "commit" /\ UNCHANGED <<held, deadlines, sched, clock>>
        /\ thread'[w].pc = "arm" /\ thread'[w].run = r
        /\ \A q \in Runs \ {r} : state'[q] = state[q]
        /\ \A i \in Inputs \ {thread[w].input} : input'[i] = input[i]
    BY <1>0, <1>5 DEF ResumeCommit, Goto, TypeOK, Thread, OthersStay, worldVars
  <2>2. r \in Runs /\ thread[w].input \in Inputs /\ input[thread[w].input].run = r
    BY <2>1, CommitRun DEF Pending
  <2>3. input'[thread[w].input].run = r
    BY <1>0, <1>5, <2>2 DEF ResumeCommit, TypeOK, Input
  <2>4. OnWay(r)'
    BY <2>1 DEF OnWay, OnWayAt
  <2>5. OtherRows(r) /\ Later
    BY <1>0, <2>1, <2>2, <2>3 DEF OtherRows, Rows, Later, TypeOK
  <2>6. \A q \in Runs \ {r} : OnWay(q) => OnWay(q)'
    BY <2>1, OthersOnWay
  <2>. QED  BY <1>0, <2>2, <2>4, <2>5, <2>6, EndWatched DEF Watched
<1>6. CASE ResumeArm(w)
  <2>. PICK r \in Runs : r = thread[w].run
    BY <1>6, ThreadRun DEF ResumeArm, RunPcs, Pcs
  <2>1. OthersStay(w) /\ thread[w].pc = "arm" /\ UNCHANGED <<input, held, state, sched, clock>> /\ Arm(r)
    BY <1>0, <1>6 DEF ResumeArm, Goto, TypeOK, OthersStay, rowVars, worldVars
  <2>2. r \in Runs
    BY <2>1, ThreadRun DEF RunPcs, Pcs
  <2>3. Approvals(r)' = Approvals(r)
    BY <2>1 DEF Approvals, Pending
  <2>4. Watched(r)' /\ OtherRows(r)
    BY <1>0, <2>1, <2>2, <2>3, ArmTimes DEF Watched, OtherRows, Rows
  <2>5. \A q \in Runs \ {r} : OnWay(q) => OnWay(q)'
    BY <2>1, OthersOnWay
  <2>6. Later
    BY <1>0, <2>1 DEF Later, TypeOK
  <2>. QED  BY <1>0, <2>2, <2>4, <2>5, <2>6, EndWatched
<1>7. CASE ResumeOverdue(w) \/ ResumeStale(w) \/ ResumeExpire(w)
  BY <1>7, ThreadEndWatched
<1>. QED  BY <1>0, <1>1, <1>2, <1>4, <1>5, <1>6, <1>7, MovesWatched DEF Resume

LEMMA ExecuteWatched ==
  ASSUME IInv, ReturnOK, AllWatched, NEW w \in Workers, Execute(w)
  PROVE  AllWatched'
<1>0. TypeOK
  BY IInvParts
<1>1. CASE ReserveWorktree(w) \/ DrivePause(w) \/ DriveReturn(w) \/ LeaveWorktree(w) \/ ReleaseWorktree(w)
  <2>1. /\ OthersStay(w) /\ UNCHANGED <<input, held, deadlines, sched, clock, state>>
        /\ thread'[w].run = thread[w].run /\ thread'[w].raised = thread[w].raised
        /\ thread[w].pc \in {"check", "leave"} =>
             thread'[w].pc \in {"leave", "unset"} /\ (thread[w].pc = "check" => ~thread[w].raised)
        /\ thread[w].pc \in {"reserve", "drive", "check", "leave", "release"}
    BY <1>0, <1>1 DEF ReserveWorktree, DrivePause, DriveReturn, LeaveWorktree, ReleaseWorktree, At, Goto,
       TypeOK, Thread, OthersStay, rowVars, worldVars, ReturnOK
  <2>2. Moves(w)
    BY <2>1 DEF Moves, OnWayAt
  <2>. QED  BY <1>0, <2>2, MovesWatched
<1>2. CASE Begin(w)
  <2>1. /\ OthersStay(w) /\ UNCHANGED <<input, held, deadlines, sched, clock>> /\ thread[w].pc = "begin"
        /\ state' = [state EXCEPT ![thread[w].run].frozen = NoTree]
    BY <1>0, <1>2 DEF Begin, At, Goto, TypeOK, OthersStay, rowVars, worldVars
  <2>2. \A q \in Runs : state'[q].cancel = state[q].cancel
    BY <1>0, <2>1 DEF TypeOK, State
  <2>3. Moves(w)
    BY <2>1, <2>2 DEF Moves, OnWayAt
  <2>. QED  BY <1>0, <2>3, MovesWatched
<1>3. CASE StopExecuting(w)
  <2>1. /\ OthersStay(w) /\ UNCHANGED <<input, held, deadlines, sched, clock>> /\ thread[w].pc = "unset"
        /\ state' = [state EXCEPT ![thread[w].run].executing = FALSE]
        /\ thread'[w].run = thread[w].run /\ thread'[w].raised = thread[w].raised
        /\ ~thread[w].raised => thread'[w].pc = "post"
    BY <1>0, <1>3 DEF StopExecuting, Goto, TypeOK, Thread, OthersStay, rowVars, worldVars
  <2>2. \A q \in Runs : state'[q].cancel = state[q].cancel
    BY <1>0, <2>1 DEF TypeOK, State
  <2>3. Moves(w)
    BY <2>1, <2>2 DEF Moves, OnWayAt
  <2>. QED  BY <1>0, <2>3, MovesWatched
<1>4. CASE ReleaseLock(w)
  <2>1. OthersStay(w) /\ UNCHANGED <<input, held, deadlines, sched, clock, state>> /\ thread[w].pc = "unlock"
    BY <1>0, <1>4 DEF ReleaseLock, At, TypeOK, OthersStay, rowVars, worldVars
  <2>2. Moves(w)
    BY <2>1 DEF Moves, OnWayAt
  <2>. QED  BY <1>0, <2>2, MovesWatched
<1>5. CASE NotifyTimeout(w)
  <2>1. OthersStay(w) /\ UNCHANGED <<input, held, deadlines, sched, clock>> /\ thread[w].pc = "notify"
    BY <1>0, <1>5 DEF NotifyTimeout, TypeOK, OthersStay, rowVars, worldVars
  <2>2. \A q \in Runs : state'[q].cancel = state[q].cancel
    BY <1>5, <2>1, ThreadRun, PublishFrozen DEF NotifyTimeout, RunPcs, Pcs
  <2>3. Moves(w)
    BY <2>1, <2>2 DEF Moves, OnWayAt
  <2>. QED  BY <1>0, <2>3, MovesWatched
<1>6. CASE DriveWrite(w)
  <2>1. UNCHANGED <<input, held, deadlines, sched, clock, state, thread>>
    BY <1>6 DEF DriveWrite, rowVars
  <2>2. Moves(w)
    BY <2>1 DEF Moves, OthersStay
  <2>. QED  BY <1>0, <2>2, MovesWatched
<1>7. ASSUME NEW new \in SUBSET Inputs, NEW kind \in {"approval", "decision"}, NEW manual \in BOOLEAN,
             WaitCommit(w, new, kind, manual)
      PROVE  AllWatched'
  <2>0. PICK r \in Runs : r = thread[w].run
    BY <1>7, ThreadRun DEF WaitCommit, At, RunPcs, Pcs
  <2>1. /\ OthersStay(w) /\ UNCHANGED <<held, deadlines, sched, clock>>
        /\ thread'[w].pc = "check" /\ thread'[w].run = r
        /\ \A q \in Runs \ {r} : state'[q] = state[q]
        /\ \A i \in new : input[i].status = "free" /\ input'[i].run = r
        /\ \A i \in Inputs \ new : input'[i] = input[i]
    BY <1>0, <1>7, <2>0 DEF WaitCommit, At, Goto, NewInput, TypeOK, Thread, OthersStay, worldVars
  <2>2. OnWay(r)'
    BY <2>1 DEF OnWay, OnWayAt
  <2>3. \A q \in Runs \ {r} : OnWay(q) => OnWay(q)'
    BY <2>0, <2>1, OthersOnWay
  <2>4. Later
    BY <1>0, <2>1 DEF Later, TypeOK
  <2>5. ASSUME NEW q \in Runs \ {r} PROVE Watched(q)'
    <3>1. Approvals(q)' = Approvals(q) /\ \A i \in Approvals(q) : input'[i] = input[i]
      BY <2>1 DEF Approvals, Pending
    <3>2. Timed(q) => Timed(q)'
      BY <2>1, <3>1 DEF Timed
    <3>3. Overdue(q) => Overdue(q)'
      BY <2>1, <3>1 DEF Overdue
    <3>4. Watched(q)
      BY DEF AllWatched
    <3>. QED  BY <2>1, <2>3, <3>1, <3>2, <3>3, <3>4 DEF Watched, Popped
  <2>. QED  BY <2>2, <2>5 DEF AllWatched, Watched
<1>8. CASE BeginCancelled(w) \/ BeginBusy(w) \/ BeginStale(w) \/ DriveComplete(w)
           \/ DriveFail(w) \/ DriveStop(w) \/ PostExecute(w)
  BY <1>8, ThreadEndWatched
<1>. QED  BY <1>1, <1>2, <1>3, <1>4, <1>5, <1>6, <1>7, <1>8 DEF Execute, Wait

(* Somebody else ends a run, or asks it to stop. *)
LEMMA OthersWatched ==
  ASSUME IInv, AllWatched, NEW r \in Runs, (\E w \in Workers : CloseRun(w, r)) \/ Cancel(r)
  PROVE  AllWatched'
<1>0. TypeOK
  BY IInvParts
<1>1. thread' = thread /\ sched' = sched /\ clock' = clock
  BY DEF CloseRun, Cancel, worldVars
<1>2. OtherRows(r) /\ (r \notin held' \/ state'[r].cancel)
  <2>1. CASE \E w \in Workers : CloseRun(w, r)
    BY <2>1, FinishRows DEF CloseRun
  <2>2. CASE Cancel(r)
    <3>. DEFINE st == [state[r] EXCEPT !.cancel = TRUE]
    <3>1. st.cancel
      BY <1>0, TimedOutCancels
    <3>2. Finish(r, st, "cancelled") \/ FinishFails(r, st)
          \/ (state' = [state EXCEPT ![r] = st] /\ UNCHANGED <<input, held, deadlines>>)
      BY <2>2 DEF Cancel, rowVars
    <3>3. CASE Finish(r, st, "cancelled") \/ FinishFails(r, st)
      BY <1>0, <3>1, <3>3, FinishRows, FinishFailsRows
    <3>4. CASE state' = [state EXCEPT ![r] = st] /\ UNCHANGED <<input, held, deadlines>>
      <4>1. state'[r].cancel /\ \A q \in Runs \ {r} : state'[q] = state[q]
        BY <1>0, <3>1, <3>4 DEF TypeOK
      <4>. QED  BY <3>4, <4>1 DEF OtherRows, Rows
    <3>. QED  BY <3>2, <3>3, <3>4
  <2>. QED  BY <2>1, <2>2
<1>3. Later /\ \A q \in Runs : OnWay(q) => OnWay(q)'
  BY <1>0, <1>1 DEF Later, OnWay, TypeOK
<1>. QED  BY <1>0, <1>2, <1>3, EndWatched DEF Watched

(* The deadline thread: what it pops is overdue or somebody's business. *)
LEMMA SchedulerWatched ==
  ASSUME IInv, AllWatched, Scheduler
  PROVE  AllWatched'
<1>0. TypeOK
  BY IInvParts
<1>1. thread' = thread /\ clock' = clock /\ mode = "up"
  BY DEF Scheduler, SchedulerPop, SchedulerExpire, SchedulerRetry, SchedulerNotify, Publish, ControlFree, worldVars
<1>2. \A q \in Runs : OnWay(q) => OnWay(q)'
  BY <1>1 DEF OnWay
<1>3. sched.pc # "idle" => sched.run \in Runs
  BY <1>0, IInvParts DEF SchedOK, TypeOK, Ids
<1>4. ASSUME NEW r \in Runs, SchedulerPop(r) PROVE AllWatched'
  <2>1. /\ UNCHANGED <<input, held, state>> /\ deadlines' = [deadlines EXCEPT ![r] = NoDeadline]
        /\ sched.pc = "idle" /\ sched' = [pc |-> "expire", run |-> r] /\ Due(r)
    BY <1>4 DEF SchedulerPop, rowVars
  <2>2. Watched(r)'
    <3>1. Timed(r) => Overdue(r)
      BY <2>1 DEF Timed, Due, Overdue
    <3>2. Overdue(r) => Overdue(r)'
      BY <1>1, <2>1 DEF Overdue, Approvals, Pending
    <3>3. Approvals(r)' = Approvals(r)
      BY <2>1 DEF Approvals, Pending
    <3>4. Watched(r) /\ ~Popped(r)
      BY <2>1 DEF AllWatched, Popped
    <3>. QED  BY <1>2, <2>1, <3>1, <3>2, <3>3, <3>4 DEF Watched, Popped
  <2>3. OtherRows(r)
    BY <1>0, <2>1 DEF OtherRows, Rows, TypeOK
  <2>4. Later
    BY <1>0, <1>1, <2>1 DEF Later, TypeOK
  <2>. QED  BY <1>0, <1>2, <2>2, <2>3, <2>4, EndWatched
<1>5. CASE SchedulerExpire
  <2>0. PICK r \in Runs : r = sched.run
    BY <1>3, <1>5 DEF SchedulerExpire
  <2>1. Expire(r) /\ sched.pc = "expire"
    BY <1>5, <2>0 DEF SchedulerExpire
  <2>2. OtherRows(r)
    BY <2>1, ExpireRows
  <2>3. ASSUME NEW q \in Runs, q # r PROVE Watched(q)'
    <3>1. Rows(q) /\ Watched(q) /\ ~Popped(q)
      BY <2>0, <2>2, <2>3 DEF OtherRows, AllWatched, Popped
    <3>2. Approvals(q)' = Approvals(q) /\ \A i \in Approvals(q) : input'[i] = input[i]
      BY <3>1 DEF Rows, Approvals, Pending
    <3>3. Timed(q) => Timed(q)'
      BY <3>1, <3>2 DEF Rows, Timed
    <3>. QED  BY <1>2, <3>1, <3>2, <3>3 DEF Watched, Rows
  <2>4. Watched(r)'
    <3>1. CASE MustExpire(r)
      BY <2>1, <3>1, ExpireRows DEF Watched
    <3>2. CASE ~MustExpire(r)
      <4>1. UNCHANGED <<input, held, deadlines, state>>
        BY <2>1, <3>2 DEF Expire, rowVars
      <4>2. Approvals(r)' = Approvals(r) /\ (Timed(r) => Timed(r)')
        BY <4>1 DEF Approvals, Pending, Timed
      <4>3. Popped(r) /\ r \in held => state[r].cancel
        BY <3>2 DEF Popped, MustExpire
      <4>. QED  BY <1>2, <4>1, <4>2, <4>3 DEF AllWatched, Watched
    <3>. QED  BY <3>1, <3>2
  <2>. QED  BY <2>3, <2>4 DEF AllWatched
<1>6. CASE SchedulerRetry
  <2>0. PICK r \in Runs : r = sched.run
    BY <1>3, <1>6 DEF SchedulerRetry
  <2>1. /\ sched.pc = "expire" /\ UNCHANGED <<input, held>> /\ state' = [state EXCEPT ![r] = TimedOut(r)]
        /\ deadlines' = [deadlines EXCEPT ![r] = clock + 1]
    BY <1>6, <2>0 DEF SchedulerRetry, rowVars
  <2>2. state'[r].cancel /\ \A q \in Runs \ {r} : state'[q] = state[q] /\ deadlines'[q] = deadlines[q]
    BY <1>0, <2>1, TimedOutCancels DEF TypeOK
  <2>3. ASSUME NEW q \in Runs, q # r PROVE Watched(q)'
    <3>1. Watched(q) /\ ~Popped(q)
      BY <2>0, <2>3 DEF AllWatched, Popped
    <3>2. Approvals(q)' = Approvals(q)
      BY <2>1 DEF Approvals, Pending
    <3>3. Timed(q) => Timed(q)'
      BY <2>1, <2>2, <2>3, <3>2 DEF Timed
    <3>. QED  BY <1>2, <2>1, <2>2, <2>3, <3>1, <3>2, <3>3 DEF Watched
  <2>. QED  BY <2>2, <2>3 DEF AllWatched, Watched
<1>7. CASE SchedulerNotify
  <2>1. /\ sched.pc = "notify" /\ sched.run \in Runs /\ Publish(sched.run)
        /\ UNCHANGED <<input, held, deadlines>>
    BY <1>3, <1>7 DEF SchedulerNotify, rowVars
  <2>2. \A q \in Runs : state'[q].cancel = state[q].cancel
    BY <2>1, PublishFrozen
  <2>3. Later
    BY <1>0, <1>1, <2>1 DEF Later, TypeOK
  <2>4. \A q \in Runs : Rows(q)
    BY <2>1, <2>2 DEF Rows
  <2>. QED  BY <1>0, <1>2, <2>3, <2>4, StayWatched
<1>. QED  BY <1>4, <1>5, <1>6, <1>7 DEF Scheduler

-----------------------------------------------------------------------------
(* A restart schedules every restored run before it serves. *)
LEMMA RestartWatch ==
  ASSUME IInv, WatchOK, Restart
  PROVE  WatchOK'
<1>0. TypeOK
  BY IInvParts
<1>1. CASE Crash
  <2>1. mode' = "recovering" /\ deadlines' = [r \in Runs |-> NoDeadline]
    BY <1>1 DEF Crash
  <2>. QED  BY <2>1 DEF WatchOK, ApprovalsWatched
<1>2. ASSUME NEW r \in Runs, NEW ids \in SUBSET Inputs, NEW reissue \in [ids -> Inputs], Restore(r, reissue)
      PROVE  WatchOK'
  <2>1. mode = "recovering" /\ mode' = mode /\ deadlines' = deadlines
    BY <1>2 DEF Restore, worldVars
  <2>. QED  BY <2>1 DEF WatchOK, ApprovalsWatched
<1>3. CASE Recover
  <2>1. mode = "recovering" /\ mode' = "arming" /\ deadlines' = deadlines /\ held' = held
    BY <1>3 DEF Recover
  <2>. QED  BY <1>0, <2>1 DEF WatchOK, ApprovalsWatched, TypeOK
<1>4. ASSUME NEW r \in Runs, ArmRestored(r) PROVE WatchOK'
  <2>1. mode = "arming" /\ mode' = mode
    BY <1>4 DEF ArmRestored, worldVars
  <2>2. \A q \in held : deadlines[q] = NoDeadline \/ Timed(q)
    BY <2>1 DEF WatchOK
  <2>3. ASSUME NEW q \in Runs, q \in held', q # r, OtherRows(r)
        PROVE  deadlines'[q] = NoDeadline \/ Timed(q)'
    <3>1. Rows(q) /\ q \in held
      BY <2>3 DEF OtherRows, Rows
    <3>2. Approvals(q)' = Approvals(q) /\ \A i \in Approvals(q) : input'[i] = input[i]
      BY <3>1 DEF Rows, Approvals, Pending
    <3>. QED  BY <2>2, <3>1, <3>2 DEF Rows, Timed
  <2>4. CASE Overdue(r)
    <3>1. OtherRows(r) /\ r \notin held'
      BY <1>4, <2>4, FinishRows DEF ArmRestored
    <3>2. \A q \in held' : q \in Runs
      BY <1>0, <1>4, <2>4 DEF ArmRestored, Finish, TypeOK
    <3>. QED  BY <2>1, <2>3, <3>1, <3>2 DEF WatchOK, ApprovalsWatched
  <2>5. CASE ~Overdue(r)
    <3>1. Arm(r) /\ UNCHANGED <<input, held, state>>
      BY <1>4, <2>5 DEF ArmRestored, rowVars
    <3>2. Approvals(r) # {}
      BY <1>4 DEF ArmRestored, Unarmed
    <3>3. Timed(r)' /\ OtherRows(r)
      BY <1>0, <3>1, <3>2, ArmTimes DEF OtherRows, Rows
    <3>. QED  BY <1>0, <2>1, <2>3, <3>1, <3>3 DEF WatchOK, ApprovalsWatched, TypeOK
  <2>. QED  BY <2>4, <2>5
<1>5. CASE Serve
  <2>1. mode = "arming" /\ Unarmed = {} /\ mode' = "up"
        /\ UNCHANGED <<input, held, deadlines, state>>
    BY <1>5 DEF Serve, rowVars
  <2>2. ASSUME NEW q \in Runs, q \in held, Approvals(q) # {} PROVE Timed(q)
    BY <2>1, <2>2 DEF WatchOK, Unarmed
  <2>3. \A q \in Runs : Approvals(q)' = Approvals(q) /\ (Timed(q) => Timed(q)')
    BY <2>1 DEF Approvals, Pending, Timed
  <2>. QED  BY <2>1, <2>2, <2>3 DEF WatchOK, ApprovalsWatched, Watched
<1>. QED  BY <1>1, <1>2, <1>3, <1>4, <1>5 DEF Restart

LEMMA WatchStep ==
  ASSUME IInv, ReturnOK, WatchOK, Next
  PROVE  WatchOK'
<1>0. TypeOK
  BY IInvParts
<1>1. ASSUME mode = "up" PROVE AllWatched
  BY <1>1 DEF WatchOK, ApprovalsWatched, AllWatched
<1>2. ASSUME mode' = "up", AllWatched' PROVE WatchOK'
  BY <1>2 DEF WatchOK, ApprovalsWatched, AllWatched
<1>3. ASSUME NEW w \in Workers, Start(w) \/ Close(w) PROVE mode = "up" /\ mode' = "up"
  BY <1>3 DEF Start, Close, StartRequest, StartCreate, StartRefused, CloseRequest,
     CloseRun, CloseDone, Accept, At, ControlFree, worldVars
<1>4. ASSUME NEW w \in Workers, Resume(w) PROVE mode = "up" /\ mode' = "up"
  BY <1>4 DEF Resume, ResumeRequest, ResumeOverdue, ResumeRefused, ResumeStale,
     ResumeAdmit, ResumeCommit, ResumeTooLate, ResumeInvalid, ResumeExpire, ResumeArm,
     Accept, Admit, Admissible, ControlFree, worldVars
<1>5. ASSUME NEW w \in Workers, Execute(w) PROVE mode = "up" /\ mode' = "up"
  BY <1>5 DEF Execute, ReserveWorktree, BeginCancelled, BeginBusy, BeginStale, Begin,
     DriveWrite, DriveComplete, DriveFail, DriveStop, DrivePause, Wait, WaitCommit,
     DriveReturn, LeaveWorktree, StopExecuting, PostExecute, ReleaseWorktree,
     ReleaseLock, NotifyTimeout, Publish, FinishRaised, FinishInside, At, ControlFree,
     worldVars
<1>6. ASSUME Scheduler \/ \E r \in Runs : Cancel(r) PROVE mode = "up" /\ mode' = "up"
  BY <1>6 DEF Scheduler, SchedulerPop, SchedulerExpire, SchedulerRetry, SchedulerNotify,
     Publish, Cancel, ControlFree, worldVars
<1>7. ASSUME NEW w \in Workers, Start(w) PROVE WatchOK'
  BY <1>1, <1>2, <1>3, <1>7, StartWatched
<1>8. ASSUME NEW w \in Workers, Resume(w) PROVE WatchOK'
  BY <1>1, <1>2, <1>4, <1>8, ResumeWatched
<1>9. ASSUME NEW w \in Workers, Execute(w) PROVE WatchOK'
  BY <1>1, <1>2, <1>5, <1>9, ExecuteWatched
<1>10. ASSUME NEW w \in Workers, Close(w) PROVE WatchOK'
  <2>1. ASSUME NEW s \in Sessions, CloseRequest(w, s) PROVE Moves(w)
    BY <1>0, <2>1 DEF CloseRequest, Accept, TypeOK, IdleThread, OthersStay, rowVars, Moves, OnWayAt
  <2>2. CASE CloseDone(w)
    <3>1. /\ OthersStay(w) /\ thread[w].pc = "close" /\ UNCHANGED <<input, held, deadlines, sched, clock, state>>
      BY <1>0, <2>2 DEF CloseDone, At, Goto, TypeOK, OthersStay, rowVars, worldVars
    <3>2. Moves(w)
      BY <3>1 DEF Moves, OnWayAt
    <3>. QED  BY <1>0, <1>1, <1>2, <1>3, <1>10, <3>2, MovesWatched
  <2>3. (\E r \in Runs : CloseRun(w, r)) => AllWatched'
    BY <1>1, <1>3, <1>10, OthersWatched
  <2>. QED  BY <1>0, <1>1, <1>2, <1>3, <1>10, <2>1, <2>2, <2>3, MovesWatched DEF Close
<1>11. ASSUME NEW r \in Runs, Cancel(r) PROVE WatchOK'
  BY <1>1, <1>2, <1>6, <1>11, OthersWatched
<1>12. CASE Scheduler
  BY <1>1, <1>2, <1>6, <1>12, SchedulerWatched
<1>13. CASE Restart
  BY <1>13, RestartWatch
<1>14. CASE Tick \/ \E root \in Roots : OutsideEdit(root)
  <2>1. /\ UNCHANGED <<input, held, deadlines, sched, state, thread, mode>>
        /\ clock' \in Nat /\ clock <= clock'
    BY <1>0, <1>14 DEF Tick, OutsideEdit, rowVars, TypeOK
  <2>2. mode = "up" => AllWatched'
    <3>1. Later /\ \A q \in Runs : Rows(q) /\ (OnWay(q) => OnWay(q)')
      BY <2>1 DEF Later, Rows, OnWay
    <3>. QED  BY <1>0, <1>1, <3>1, StayWatched
  <2>3. \A q \in Runs : Timed(q) => Timed(q)'
    BY <2>1 DEF Timed, Approvals, Pending
  <2>. QED  BY <1>0, <2>1, <2>2, <2>3 DEF WatchOK, ApprovalsWatched, AllWatched, TypeOK
<1>. QED
  BY <1>7, <1>8, <1>9, <1>10, <1>11, <1>12, <1>13, <1>14 DEF Next

LEMMA ReturnInvariant == Spec => []ReturnOK
<1>1. Init => ReturnOK
  BY DEF Init, ReturnOK, IdleThread
<1>2. IInv /\ ReturnOK /\ [Next]_vars => ReturnOK'
  BY ReturnStep DEF vars, rowVars, ReturnOK
<1>. QED  BY <1>1, <1>2, Invariant, PTL DEF Spec

(* While requests are served, a held run with an open approval has the     *)
(* earliest of them scheduled, or was asked to stop, or is what the        *)
(* deadline thread is about to end, or has a thread with `arm' ahead:      *)
(* responses, pauses, pops, failing transactions and restarts in any order *)
(* leave no approval that nobody will ever look at again.                  *)
THEOREM ApprovalsWatchedTheorem == Spec => []ApprovalsWatched
<1>1. Init => WatchOK
  BY DEF Init, WatchOK, ApprovalsWatched, Watched
<1>2. IInv /\ ReturnOK /\ WatchOK /\ [Next]_vars => WatchOK'
  <2>1. ASSUME UNCHANGED vars, WatchOK PROVE WatchOK'
    BY <2>1 DEF vars, rowVars, lockVars, worldVars, WatchOK, ApprovalsWatched, Watched, Timed, Popped, OnWay,
       Overdue, Approvals, Pending
  <2>. QED  BY <2>1, WatchStep
<1>3. WatchOK => ApprovalsWatched
  BY DEF WatchOK
<1>. QED  BY <1>1, <1>2, <1>3, Invariant, ReturnInvariant, PTL DEF Spec

-----------------------------------------------------------------------------
(***************************************************************************)
(* Who hears a stop.  cancel and expire_approvals only set a flag when the *)
(* run executes; they may, because its thread looks at the flag once more  *)
(* in its closing section.  The exception is a thread that leaves because  *)
(* the transaction of _finish failed: it skips that section.               *)
(***************************************************************************)
HearPcs == ExecPcs \cup {"post"}
Hears(r) == \E w \in Workers : thread[w].run = r /\ thread[w].pc \in HearPcs
Stopped(r) == r \in held /\ state[r].cancel
Heard(r) == Stopped(r) => Hears(r)
AllHeard == \A r \in Runs : Heard(r)
StopsAreHeard ==
  mode = "up" /\ spent.faults = 0 =>
    \A r \in Runs : Stopped(r) =>
      \E w \in Workers : /\ lock[owner[r]] = w
                         /\ thread[w].run = r /\ thread[w].pc \in HearPcs
NoRaise == \A w \in Workers : ~thread[w].raised

(* Who executes hears. *)
LEMMA ExecutorHears ==
  ASSUME IInv, NEW r \in Runs, state[r].executing
  PROVE  Hears(r)
BY DEF IInv, ExecutorOK, Hears, HearPcs

(* A step that sets no flag, and leaves the thread where it hears. *)
HearsOn(w) ==
  /\ OthersStay(w)
  /\ thread[w].pc \in HearPcs =>
       thread'[w].pc \in HearPcs /\ thread'[w].run = thread[w].run
NoStop(r) == Stopped(r)' => Stopped(r)

LEMMA RowsNoStop ==
  ASSUME NEW r, Rows(r)
  PROVE  NoStop(r)
BY DEF Rows, NoStop, Stopped

LEMMA GoneNoStop ==
  ASSUME NEW r \in Runs, OtherRows(r), r \notin held'
  PROVE  \A q \in Runs : NoStop(q)
BY DEF OtherRows, Rows, NoStop, Stopped

LEMMA HearsOnHeard ==
  ASSUME AllHeard, NEW w \in Workers, HearsOn(w), \A q \in Runs : NoStop(q)
  PROVE  AllHeard'
BY DEF AllHeard, Heard, NoStop, Hears, HearsOn, OthersStay

LEMMA SameHeard ==
  ASSUME IInv, AllHeard, thread' = thread,
         \A q \in Runs : NoStop(q) \/ state[q].executing
  PROVE  AllHeard'
<1>. SUFFICES ASSUME NEW q \in Runs, Stopped(q)' PROVE Hears(q)'
  BY DEF AllHeard, Heard
<1>1. Hears(q)
  BY ExecutorHears DEF NoStop, AllHeard, Heard
<1>. QED  BY <1>1 DEF Hears

LEMMA SameEntries ==
  ASSUME held' = held, \A q \in Runs : state'[q].cancel = state[q].cancel
  PROVE  \A q \in Runs : NoStop(q)
BY DEF NoStop, Stopped

(* A thread that hears nothing moves, and leaves the entries alone. *)
LEMMA RestHeard ==
  ASSUME AllHeard, NEW w \in Workers, OthersStay(w), held' = held, state' = state,
         thread[w].pc \in {"idle", "start", "admit", "commit", "close"}
  PROVE  AllHeard'
<1>1. HearsOn(w)
  BY DEF HearsOn, HearPcs, ExecPcs
<1>. QED  BY <1>1, SameEntries, HearsOnHeard

-----------------------------------------------------------------------------
LEMMA FinishNoStop ==
  ASSUME IInv, NEW r \in Runs, NEW st, NEW wanted, Finish(r, st, wanted)
  PROVE  \A q \in Runs : NoStop(q)
BY FinishRows, GoneNoStop

LEMMA ExpireNoStop ==
  ASSUME IInv, NEW r \in Runs, Expire(r)
  PROVE  /\ \A q \in Runs : NoStop(q) \/ state[q].executing
         /\ ~state[r].executing => \A q \in Runs : NoStop(q)
<1>1. OtherRows(r) /\ (Rows(r) \/ r \notin held' \/ state[r].executing)
  BY ExpireRows
<1>2. \A q \in Runs \ {r} : NoStop(q)
  BY <1>1, RowsNoStop DEF OtherRows
<1>3. NoStop(r) \/ state[r].executing
  BY <1>1, RowsNoStop, GoneNoStop
<1>. QED  BY <1>2, <1>3

(* No thread has left by an exception while every transaction went through. *)
LEMMA FailsSpends ==
  ASSUME IInv, NEW r \in Runs, NEW st, FinishFails(r, st)
  PROVE  spent'.faults # 0
<1>1. spent \in [requests : Nat, crashes : Nat, faults : Nat] /\ spent.faults + 1 # 0
  BY IInvParts DEF TypeOK
<1>. QED  BY <1>1 DEF FinishFails

LEMMA NoRaiseStep ==
  ASSUME IInv, NoRaise, Next, spent'.faults = 0
  PROVE  NoRaise'
<1>0. TypeOK
  BY IInvParts
<1>1. ASSUME NEW w \in Workers, OthersStay(w), ~thread'[w].raised PROVE NoRaise'
  BY <1>1 DEF NoRaise, OthersStay
<1>2. ASSUME NEW w \in Workers, NEW pc, Goto(w, pc) PROVE NoRaise'
  <2>1. OthersStay(w) /\ thread'[w].raised = thread[w].raised
    BY <1>0, <1>2 DEF Goto, TypeOK, Thread, OthersStay
  <2>. QED  BY <1>1, <2>1 DEF NoRaise
<1>3. ASSUME thread' = thread PROVE NoRaise'
  BY <1>3 DEF NoRaise
<1>4. ASSUME NEW w \in Workers, Start(w) PROVE NoRaise'
  <2>1. CASE StartRefused(w)
    BY <1>2, <2>1 DEF StartRefused
  <2>2. ASSUME NEW s \in Sessions, NEW k \in Keys \cup {NoKey}, StartRequest(w, s, k)
        PROVE  OthersStay(w) /\ ~thread'[w].raised
    BY <1>0, <2>2 DEF StartRequest, TypeOK, IdleThread, OthersStay
  <2>3. ASSUME NEW r \in Runs, StartCreate(w, r)
        PROVE  OthersStay(w) /\ ~thread'[w].raised
    BY <1>0, <2>3 DEF StartCreate, TypeOK, Thread, OthersStay, NoRaise
  <2>. QED  BY <1>1, <1>4, <2>1, <2>2, <2>3 DEF Start
<1>5. ASSUME NEW w \in Workers, Resume(w) PROVE NoRaise'
  <2>1. CASE ResumeOverdue(w) \/ ResumeCommit(w) \/ ResumeTooLate(w) \/ ResumeInvalid(w)
             \/ ResumeExpire(w) \/ ResumeArm(w)
    BY <1>2, <2>1 DEF ResumeOverdue, ResumeCommit, ResumeTooLate, ResumeInvalid, ResumeExpire, ResumeArm
  <2>2. ASSUME NEW r \in Runs, NEW i \in Inputs, NEW a \in BOOLEAN, ResumeRequest(w, r, i, a)
        PROVE  OthersStay(w) /\ ~thread'[w].raised
    BY <1>0, <2>2 DEF ResumeRequest, TypeOK, IdleThread, OthersStay
  <2>3. CASE ResumeRefused(w)
    <3>1. OthersStay(w) /\ thread'[w].raised = thread[w].raised
      BY <1>0, <2>3 DEF ResumeRefused, TypeOK, Thread, OthersStay
    <3>. QED  BY <1>1, <3>1 DEF NoRaise
  <2>4. CASE ResumeStale(w) \/ ResumeAdmit(w)
    <3>1. OthersStay(w) /\ thread'[w].raised = thread[w].raised
      BY <1>0, <2>4 DEF ResumeStale, ResumeAdmit, TypeOK, Thread, OthersStay
    <3>. QED  BY <1>1, <3>1 DEF NoRaise
  <2>. QED  BY <1>1, <1>5, <2>1, <2>2, <2>3, <2>4 DEF Resume
<1>6. ASSUME NEW w \in Workers, Execute(w) PROVE NoRaise'
  <2>1. CASE BeginCancelled(w) \/ BeginBusy(w) \/ DriveFail(w) \/ DriveStop(w)
    <3>1. PICK r \in Runs : r = thread[w].run
      BY <2>1, ThreadRun DEF BeginCancelled, BeginBusy, DriveFail, DriveStop, At, RunPcs, Pcs
    <3>2. Goto(w, "leave") \/ \E st : FinishFails(r, st)
      BY <2>1, <3>1 DEF BeginCancelled, BeginBusy, DriveFail, DriveStop, FinishRaised
    <3>. QED  BY <1>2, <3>2, FailsSpends
  <2>2. CASE BeginStale(w) \/ DriveComplete(w) \/ Begin(w) \/ DrivePause(w) \/ DriveReturn(w)
             \/ StopExecuting(w) \/ PostExecute(w) \/ Wait(w)
    BY <1>2, <2>2 DEF BeginStale, DriveComplete, FinishInside, Begin, DrivePause, DriveReturn,
       StopExecuting, PostExecute, Wait, WaitCommit
  <2>3. ASSUME ReserveWorktree(w) \/ LeaveWorktree(w) \/ ReleaseWorktree(w) \/ ReleaseLock(w) \/ NotifyTimeout(w)
        PROVE  OthersStay(w) /\ ~thread'[w].raised
    BY <1>0, <2>3 DEF ReserveWorktree, LeaveWorktree, ReleaseWorktree, ReleaseLock, NotifyTimeout, TypeOK, Thread,
       IdleThread, OthersStay, NoRaise
  <2>4. CASE DriveWrite(w)
    BY <1>3, <2>4 DEF DriveWrite
  <2>. QED  BY <1>1, <1>6, <2>1, <2>2, <2>3, <2>4 DEF Execute
<1>7. ASSUME NEW w \in Workers, Close(w) PROVE NoRaise'
  <2>1. CASE CloseDone(w)
    BY <1>2, <2>1 DEF CloseDone
  <2>2. CASE \E r \in Runs : CloseRun(w, r)
    BY <1>3, <2>2 DEF CloseRun
  <2>3. ASSUME NEW s \in Sessions, CloseRequest(w, s) PROVE OthersStay(w) /\ ~thread'[w].raised
    BY <1>0, <2>3 DEF CloseRequest, Accept, TypeOK, IdleThread, OthersStay
  <2>. QED  BY <1>1, <1>7, <2>1, <2>2, <2>3 DEF Close
<1>8. CASE Crash
  <2>1. \A w \in Workers : thread'[w] = IdleThread
    BY <1>8 DEF Crash
  <2>. QED  BY <2>1 DEF NoRaise, IdleThread
<1>9. CASE Restart /\ ~Crash
  BY <1>3, <1>9 DEF Restart, Restore, Recover, ArmRestored, Serve
<1>10. CASE Scheduler \/ Tick \/ (\E r \in Runs : Cancel(r)) \/ (\E root \in Roots : OutsideEdit(root))
  BY <1>3, <1>10 DEF Scheduler, SchedulerPop, SchedulerExpire, SchedulerRetry, SchedulerNotify, Tick, Cancel,
     OutsideEdit
<1>. QED  BY <1>4, <1>5, <1>6, <1>7, <1>8, <1>9, <1>10 DEF Next

-----------------------------------------------------------------------------
(* A thread that ends its run need not hear any more. *)
LEMMA ThreadEndHeard ==
  ASSUME IInv, AllHeard, spent'.faults = 0, NEW w \in Workers,
         \/ ResumeOverdue(w) \/ ResumeStale(w) \/ ResumeExpire(w)
         \/ BeginCancelled(w) \/ BeginBusy(w) \/ BeginStale(w) \/ DriveComplete(w)
         \/ DriveFail(w) \/ DriveStop(w) \/ PostExecute(w)
  PROVE  AllHeard'
<1>0. TypeOK
  BY IInvParts
<1>1. ThreadEnds(w)
  BY ThreadEndsRun
<1>. PICK r \in Runs : r = thread[w].run
  BY <1>1 DEF ThreadEnds
<1>2. CASE ResumeOverdue(w) \/ ResumeExpire(w)
  <2>1. thread[w].pc \in {"admit", "expired"}
    BY <1>2 DEF ResumeOverdue, ResumeExpire, Admit
  <2>2. ~state[r].executing
    <3>1. lock[owner[r]] = w
      BY <2>1, IInvParts DEF ThreadsOK, LockPcs, RunPcs, Pcs
    <3>. QED  BY <2>1, <3>1 DEF IInv, ExecutorOK, ExecPcs
  <2>3. \A q \in Runs : NoStop(q)
    BY <1>2, <2>2, ExpireNoStop, FailsSpends DEF ResumeOverdue, ResumeExpire
  <2>4. HearsOn(w)
    BY <1>1, <2>1 DEF ThreadEnds, HearsOn, OthersStay, HearPcs, ExecPcs
  <2>. QED  BY <2>3, <2>4, HearsOnHeard
<1>3. CASE ResumeStale(w) \/ BeginCancelled(w) \/ BeginBusy(w) \/ BeginStale(w) \/ DriveComplete(w)
           \/ DriveFail(w) \/ DriveStop(w)
  <2>1. \E st, wanted : Finish(r, st, wanted)
    BY <1>3, FailsSpends DEF ResumeStale, BeginCancelled, BeginBusy, BeginStale, DriveComplete, DriveFail,
       DriveStop, FinishRaised, FinishInside
  <2>2. thread[w].pc # "post"
    BY <1>3 DEF ResumeStale, Admissible, Admit, BeginCancelled, BeginBusy, BeginStale, DriveComplete, DriveFail,
       DriveStop, At
  <2>3. HearsOn(w)
    BY <1>1, <2>2 DEF ThreadEnds, HearsOn, OthersStay, HearPcs, ExecPcs
  <2>. QED  BY <2>1, <2>3, FinishNoStop, HearsOnHeard
<1>4. CASE PostExecute(w)
  <2>1. ASSUME \E st, wanted : Finish(r, st, wanted)
        PROVE  (\A q \in Runs : NoStop(q)) /\ ~Stopped(r)'
    BY <2>1, FinishNoStop, FinishRows DEF Stopped
  <2>2. CASE LateStop(r) \/ (status[r] = "waiting" /\ MustExpire(r))
    <3>1. \E st, wanted : Finish(r, st, wanted)
      BY <1>4, <2>2 DEF PostExecute
    <3>. QED  BY <1>1, <2>1, <3>1 DEF AllHeard, Heard, NoStop, Hears, ThreadEnds
  <2>3. CASE ~LateStop(r) /\ ~(status[r] = "waiting" /\ MustExpire(r))
    <3>1. state' = state /\ held' = held /\ ~state[r].cancel
      BY <1>4, <2>3 DEF PostExecute, LateStop, rowVars
    <3>. QED  BY <1>1, <3>1 DEF AllHeard, Heard, Stopped, Hears, ThreadEnds
  <2>. QED  BY <2>2, <2>3
<1>. QED  BY <1>2, <1>3, <1>4

LEMMA StartHeard ==
  ASSUME IInv, AllHeard, NEW w \in Workers, Start(w)
  PROVE  AllHeard'
<1>0. TypeOK
  BY IInvParts
<1>1. ASSUME NEW s \in Sessions, NEW k \in Keys \cup {NoKey}, StartRequest(w, s, k) PROVE AllHeard'
  <2>1. OthersStay(w) /\ thread[w].pc = "idle" /\ held' = held /\ state' = state
    BY <1>0, <1>1 DEF StartRequest, Accept, TypeOK, IdleThread, OthersStay
  <2>. QED  BY <2>1, RestHeard
<1>3. CASE StartRefused(w)
  <2>1. OthersStay(w) /\ thread[w].pc = "start" /\ held' = held /\ state' = state
    BY <1>0, <1>3 DEF StartRefused, Goto, TypeOK, OthersStay
  <2>. QED  BY <2>1, RestHeard
<1>2. ASSUME NEW r \in Runs, StartCreate(w, r) PROVE AllHeard'
  <2>1. /\ OthersStay(w) /\ thread[w].pc = "start" /\ held' = held \cup {r}
        /\ ~state'[r].cancel /\ \A q \in Runs \ {r} : state'[q] = state[q]
    BY <1>0, <1>2 DEF StartCreate, TypeOK, OthersStay, IdleState
  <2>2. HearsOn(w)
    BY <2>1 DEF HearsOn, HearPcs, ExecPcs
  <2>3. \A q \in Runs : NoStop(q)
    BY <2>1 DEF NoStop, Stopped
  <2>. QED  BY <2>2, <2>3, HearsOnHeard
<1>. QED  BY <1>1, <1>2, <1>3 DEF Start

LEMMA ResumeHeard ==
  ASSUME IInv, AllHeard, spent'.faults = 0, NEW w \in Workers, Resume(w)
  PROVE  AllHeard'
<1>0. TypeOK
  BY IInvParts
<1>1. ASSUME NEW r \in Runs, NEW i \in Inputs, NEW a \in BOOLEAN, ResumeRequest(w, r, i, a)
      PROVE  AllHeard'
  <2>1. OthersStay(w) /\ thread[w].pc = "idle" /\ held' = held /\ state' = state
    BY <1>0, <1>1 DEF ResumeRequest, Accept, TypeOK, IdleThread, OthersStay
  <2>. QED  BY <2>1, RestHeard
<1>5. CASE ResumeRefused(w) \/ ResumeAdmit(w)
  <2>1. OthersStay(w) /\ thread[w].pc = "admit" /\ held' = held /\ state' = state
    BY <1>0, <1>5 DEF ResumeRefused, ResumeAdmit, Admissible, Admit, TypeOK, OthersStay
  <2>. QED  BY <2>1, RestHeard
<1>6. CASE ResumeInvalid(w)
  <2>1. OthersStay(w) /\ thread[w].pc = "commit" /\ held' = held /\ state' = state
    BY <1>0, <1>6 DEF ResumeInvalid, Goto, TypeOK, OthersStay
  <2>. QED  BY <2>1, RestHeard
<1>2. CASE ResumeCommit(w) \/ ResumeTooLate(w)
  <2>. PICK r \in Runs : r = thread[w].run
    BY <1>2, CommitRun DEF ResumeCommit, ResumeTooLate
  <2>1. state[r] \in State
    BY <1>0 DEF TypeOK
  <2>2. /\ Answered(w).cancel = state[r].cancel
        /\ [Answered(w) EXCEPT !.manual = FALSE, !.executing = TRUE].cancel = state[r].cancel
    BY <2>1 DEF Answered, State
  <2>3. /\ OthersStay(w) /\ thread[w].pc = "commit" /\ held' = held
        /\ \A q \in Runs : state'[q].cancel = state[q].cancel
    BY <1>0, <1>2, <2>2 DEF ResumeCommit, ResumeTooLate, Goto, TypeOK, OthersStay
  <2>4. HearsOn(w)
    BY <2>3 DEF HearsOn, HearPcs, ExecPcs
  <2>. QED  BY <2>3, <2>4, SameEntries, HearsOnHeard
<1>3. CASE ResumeArm(w)
  <2>1. /\ OthersStay(w) /\ held' = held /\ state' = state
        /\ thread'[w].pc = "begin" /\ thread'[w].run = thread[w].run
    BY <1>0, <1>3 DEF ResumeArm, Goto, TypeOK, Thread, OthersStay
  <2>2. HearsOn(w)
    BY <2>1 DEF HearsOn, HearPcs, ExecPcs
  <2>. QED  BY <2>1, <2>2, SameEntries, HearsOnHeard
<1>4. CASE ResumeOverdue(w) \/ ResumeStale(w) \/ ResumeExpire(w)
  BY <1>4, ThreadEndHeard
<1>. QED  BY <1>1, <1>2, <1>3, <1>4, <1>5, <1>6 DEF Resume

LEMMA ExecuteHeard ==
  ASSUME IInv, NoRaise, AllHeard, spent'.faults = 0, NEW w \in Workers, Execute(w)
  PROVE  AllHeard'
<1>0. TypeOK
  BY IInvParts
<1>1. CASE ReserveWorktree(w) \/ DrivePause(w) \/ DriveReturn(w) \/ LeaveWorktree(w)
  <2>1. /\ OthersStay(w) /\ held' = held /\ state' = state
        /\ thread'[w].pc \in {"begin", "wait", "leave", "unset"} /\ thread'[w].run = thread[w].run
    BY <1>0, <1>1 DEF ReserveWorktree, DrivePause, DriveReturn, LeaveWorktree, Goto, TypeOK, Thread, OthersStay
  <2>2. HearsOn(w)
    BY <2>1 DEF HearsOn, HearPcs, ExecPcs
  <2>. QED  BY <2>1, <2>2, SameEntries, HearsOnHeard
<1>2. CASE Begin(w) \/ StopExecuting(w) \/ Wait(w)
  <2>. PICK r \in Runs : r = thread[w].run
    BY <1>2, ThreadRun DEF Begin, StopExecuting, Wait, WaitCommit, At, RunPcs, Pcs
  <2>1. state[r] \in State
    BY <1>0 DEF TypeOK
  <2>2. held' = held
    BY <1>2 DEF Begin, StopExecuting, Wait, WaitCommit
  <2>3. \A q \in Runs : state'[q].cancel = state[q].cancel
    <3>1. CASE Begin(w)
      <4>1. state' = [state EXCEPT ![r].frozen = NoTree]
        BY <3>1 DEF Begin
      <4>. QED  BY <1>0, <4>1 DEF TypeOK, State
    <3>2. CASE StopExecuting(w)
      <4>1. state' = [state EXCEPT ![r].executing = FALSE]
        BY <3>2 DEF StopExecuting
      <4>. QED  BY <1>0, <4>1 DEF TypeOK, State
    <3>3. CASE Wait(w)
      <4>1. PICK manual \in BOOLEAN :
              state' = [state EXCEPT ![r].manual = manual, ![r].frozen = tree[Root(r)]]
        BY <3>3 DEF Wait, WaitCommit
      <4>. QED  BY <1>0, <4>1 DEF TypeOK, State
    <3>. QED  BY <1>2, <3>1, <3>2, <3>3
  <2>4. \E pc \in {"drive", "post", "check"} : Goto(w, pc)
    BY <1>2 DEF Begin, StopExecuting, Wait, WaitCommit, NoRaise
  <2>5. OthersStay(w) /\ thread'[w].pc \in {"drive", "post", "check"} /\ thread'[w].run = thread[w].run
    BY <1>0, <2>4 DEF Goto, TypeOK, Thread, OthersStay
  <2>6. HearsOn(w)
    BY <2>5 DEF HearsOn, HearPcs, ExecPcs
  <2>. QED  BY <2>2, <2>3, <2>6, SameEntries, HearsOnHeard
<1>3. CASE ReleaseWorktree(w) \/ ReleaseLock(w)
  <2>1. OthersStay(w) /\ held' = held /\ state' = state /\ thread[w].pc \in {"release", "unlock"}
    BY <1>0, <1>3 DEF ReleaseWorktree, ReleaseLock, At, TypeOK, OthersStay
  <2>2. HearsOn(w)
    BY <2>1 DEF HearsOn, HearPcs, ExecPcs
  <2>. QED  BY <2>1, <2>2, SameEntries, HearsOnHeard
<1>4. CASE NotifyTimeout(w)
  <2>1. OthersStay(w) /\ held' = held /\ thread[w].pc = "notify"
    BY <1>0, <1>4 DEF NotifyTimeout, TypeOK, OthersStay
  <2>2. \A q \in Runs : state'[q].cancel = state[q].cancel
    BY <1>4, <2>1, ThreadRun, PublishFrozen DEF NotifyTimeout, RunPcs, Pcs
  <2>3. HearsOn(w)
    BY <2>1 DEF HearsOn, HearPcs, ExecPcs
  <2>. QED  BY <2>1, <2>2, <2>3, SameEntries, HearsOnHeard
<1>5. CASE DriveWrite(w)
  <2>1. UNCHANGED <<thread, held, state>>
    BY <1>5 DEF DriveWrite
  <2>. QED  BY <2>1, SameEntries, SameHeard
<1>6. CASE BeginCancelled(w) \/ BeginBusy(w) \/ BeginStale(w) \/ DriveComplete(w)
           \/ DriveFail(w) \/ DriveStop(w) \/ PostExecute(w)
  BY <1>6, ThreadEndHeard
<1>. QED  BY <1>1, <1>2, <1>3, <1>4, <1>5, <1>6 DEF Execute

(* The others leave a run that executes to its thread. *)
LEMMA OthersHeard ==
  ASSUME IInv, AllHeard, spent'.faults = 0,
         Scheduler \/ (\E r \in Runs : Cancel(r) \/ \E w \in Workers : CloseRun(w, r))
  PROVE  AllHeard'
<1>0. TypeOK
  BY IInvParts
<1>1. thread' = thread
  BY DEF Scheduler, SchedulerPop, SchedulerExpire, SchedulerRetry, SchedulerNotify, Cancel, CloseRun
<1>2. sched.pc # "idle" => sched.run \in Runs
  BY <1>0, IInvParts DEF SchedOK, TypeOK, Ids
<1>3. ASSUME NEW r \in Runs, NEW w \in Workers, CloseRun(w, r) PROVE AllHeard'
  BY <1>1, <1>3, FinishNoStop, SameHeard DEF CloseRun
<1>4. ASSUME NEW r \in Runs, Cancel(r) PROVE AllHeard'
  <2>1. CASE EndsAtOnce(r)
    <3>1. Finish(r, [state[r] EXCEPT !.cancel = TRUE], "cancelled")
      BY <1>4, <2>1, FailsSpends DEF Cancel
    <3>. QED  BY <1>1, <3>1, FinishNoStop, SameHeard
  <2>2. CASE ~EndsAtOnce(r)
    <3>1. held' = held /\ state[r].executing /\ \A q \in Runs \ {r} : state'[q] = state[q]
      BY <1>0, <1>4, <2>2 DEF Cancel, EndsAtOnce, TypeOK
    <3>2. \A q \in Runs : NoStop(q) \/ state[q].executing
      BY <3>1 DEF NoStop, Stopped
    <3>. QED  BY <1>1, <3>2, SameHeard
  <2>. QED  BY <2>1, <2>2
<1>5. CASE \E r \in Runs : SchedulerPop(r)
  <2>1. UNCHANGED <<held, state>>
    BY <1>5 DEF SchedulerPop
  <2>. QED  BY <1>1, <2>1, SameEntries, SameHeard
<1>6. CASE SchedulerExpire
  BY <1>1, <1>2, <1>6, ExpireNoStop, SameHeard DEF SchedulerExpire
<1>7. CASE SchedulerRetry
  <2>1. spent \in [requests : Nat, crashes : Nat, faults : Nat] /\ spent.faults + 1 # 0
    BY <1>0 DEF TypeOK
  <2>. QED  BY <1>7, <2>1 DEF SchedulerRetry
<1>8. CASE SchedulerNotify
  <2>1. \A q \in Runs : state'[q].cancel = state[q].cancel
    BY <1>2, <1>8, PublishFrozen DEF SchedulerNotify
  <2>2. held' = held
    BY <1>8 DEF SchedulerNotify
  <2>. QED  BY <1>1, <2>1, <2>2, SameEntries, SameHeard
<1>. QED  BY <1>3, <1>4, <1>5, <1>6, <1>7, <1>8 DEF Scheduler

(* Only a crash and the recovery change the mode. *)
LEMMA UpStep ==
  ASSUME Next
  PROVE  mode' = mode \/ Restart
<1>1. ASSUME NEW w \in Workers, Start(w) \/ Close(w) PROVE mode' = mode
  BY <1>1 DEF Start, Close, StartRequest, StartCreate, StartRefused, CloseRequest, CloseRun, CloseDone, worldVars
<1>2. ASSUME NEW w \in Workers, Resume(w) PROVE mode' = mode
  BY <1>2 DEF Resume, ResumeRequest, ResumeOverdue, ResumeRefused, ResumeStale, ResumeAdmit, ResumeCommit,
     ResumeTooLate, ResumeInvalid, ResumeExpire, ResumeArm, worldVars
<1>3. ASSUME NEW w \in Workers, Execute(w) PROVE mode' = mode
  BY <1>3 DEF Execute, ReserveWorktree, BeginCancelled, BeginBusy, BeginStale, Begin, DriveWrite, DriveComplete,
     DriveFail, DriveStop, DrivePause, Wait, WaitCommit, DriveReturn, LeaveWorktree, StopExecuting, PostExecute,
     ReleaseWorktree, ReleaseLock, NotifyTimeout, FinishRaised, FinishInside, worldVars
<1>4. ASSUME Scheduler \/ Tick \/ (\E r \in Runs : Cancel(r)) \/ (\E root \in Roots : OutsideEdit(root))
      PROVE  mode' = mode
  BY <1>4 DEF Scheduler, SchedulerPop, SchedulerExpire, SchedulerRetry, SchedulerNotify, Tick, Cancel, OutsideEdit,
     worldVars
<1>. QED  BY <1>1, <1>2, <1>3, <1>4 DEF Next

LEMMA HeardStep ==
  ASSUME IInv, QuietOK, NoRaise, mode = "up" => AllHeard, spent'.faults = 0, Next
  PROVE  mode' = "up" => AllHeard'
<1>. SUFFICES ASSUME mode' = "up" PROVE AllHeard'
  OBVIOUS
<1>0. TypeOK
  BY IInvParts
<1>1. CASE Serve
  <2>1. mode = "arming" /\ held' = held /\ state' = state
    BY <1>1 DEF Serve
  <2>. QED  BY <2>1 DEF QuietOK, AllHeard, Heard, Stopped
<1>2. ASSUME ~Serve PROVE mode = "up"
  <2>1. mode' = mode \/ Restart
    BY UpStep
  <2>2. Restart => mode = "up"
    BY <1>2 DEF Restart, Crash, Restore, Recover, ArmRestored, worldVars
  <2>. QED  BY <2>1, <2>2
<1>3. ASSUME NEW w \in Workers, Close(w), AllHeard PROVE AllHeard'
  <2>1. ASSUME CloseDone(w) PROVE AllHeard'
    <3>1. OthersStay(w) /\ thread[w].pc = "close" /\ held' = held /\ state' = state
      BY <1>0, <2>1 DEF CloseDone, At, Goto, TypeOK, OthersStay
    <3>. QED  BY <1>3, <3>1, RestHeard
  <2>2. ASSUME NEW s \in Sessions, CloseRequest(w, s) PROVE AllHeard'
    <3>1. OthersStay(w) /\ thread[w].pc = "idle" /\ held' = held /\ state' = state
      BY <1>0, <2>2 DEF CloseRequest, Accept, TypeOK, IdleThread, OthersStay
    <3>. QED  BY <1>3, <3>1, RestHeard
  <2>. QED  BY <1>3, <2>1, <2>2, OthersHeard DEF Close
<1>4. ASSUME Tick \/ \E root \in Roots : OutsideEdit(root), AllHeard PROVE AllHeard'
  <2>1. UNCHANGED <<thread, held, state>>
    BY <1>4 DEF Tick, OutsideEdit
  <2>. QED  BY <1>4, <2>1, SameEntries, SameHeard
<1>5. ASSUME Restart, ~Serve PROVE FALSE
  BY <1>5 DEF Restart, Crash, Restore, Recover, ArmRestored, worldVars
<1>. QED
  BY <1>1, <1>2, <1>3, <1>4, <1>5, StartHeard, ResumeHeard, ExecuteHeard, OthersHeard DEF Next

(* While no transaction of _finish has failed and requests are served, a   *)
(* held run that was asked to stop has a thread that has a safe point or   *)
(* the closing section ahead, and that thread holds the session's          *)
(* execution lock: a flag that only a later request would look at does not *)
(* exist.                                                                  *)
THEOREM StopsAreHeardTheorem == Spec => []StopsAreHeard
<1>. DEFINE Inv == spent.faults = 0 => NoRaise /\ (mode = "up" => AllHeard)
<1>1. Init => Inv
  BY DEF Init, NoRaise, IdleThread, AllHeard, Heard, Stopped
<1>2. IInv /\ QuietOK /\ Inv /\ [Next]_vars => Inv'
  <2>1. CASE Next
    BY <2>1, NoRaiseStep, HeardStep, FaultsStep
  <2>2. CASE UNCHANGED vars
    BY <2>2 DEF vars, worldVars, NoRaise, AllHeard, Heard, Stopped, Hears
  <2>. QED  BY <2>1, <2>2
<1>3. IInv /\ Inv => StopsAreHeard
  <2>1. ASSUME IInv, NEW w \in Workers, thread[w].pc \in HearPcs
        PROVE  lock[owner[thread[w].run]] = w
    <3>1. thread[w].pc \in LockPcs \cap RunPcs
      BY <2>1 DEF HearPcs, ExecPcs, LockPcs, RunPcs, Pcs
    <3>. QED  BY <2>1, <3>1, ThreadRun, IInvParts DEF ThreadsOK
  <2>. QED  BY <2>1 DEF StopsAreHeard, AllHeard, Heard, Hears
<1>. HIDE DEF Inv
<1>. QED  BY <1>1, <1>2, <1>3, Invariant, QuietInvariant, PTL DEF Spec

-----------------------------------------------------------------------------
(***************************************************************************)
(* What a request takes it gives back on every path: a session whose       *)
(* execution lock, control lock or worktree stayed taken would answer      *)
(* RUN_BUSY until the process restarts.                                    *)
(***************************************************************************)
HasLock(w, s)    == thread[w].session = s /\ thread[w].pc \in LockPcs
HasControl(w, s) == thread[w].session = s /\ thread[w].pc = "commit"
HasRoot(w, root) == thread[w].reserved /\ RootOf[thread[w].session] = root

NothingIsLeaked ==
  /\ \A s \in Sessions : lock[s] # Nobody => HasLock(lock[s], s)
  /\ \A s \in Sessions : control[s] # Nobody => HasControl(control[s], s)
  /\ \A root \in worktrees : \E w \in Workers : HasRoot(w, root)

(* What the thread w loses it had, and what it has it keeps account of. *)
LocksFollow(w) ==
  \A s \in Sessions : \/ lock'[s] = Nobody
                      \/ lock'[s] = w /\ HasLock(w, s)'
                      \/ lock'[s] = lock[s] /\ lock[s] # w
ControlFollows(w) ==
  \A s \in Sessions : \/ control'[s] = Nobody
                      \/ control'[s] = w /\ HasControl(w, s)'
                      \/ control'[s] = control[s] /\ control[s] # w
RootsFollow(w) ==
  \A root \in worktrees' : HasRoot(w, root)' \/ (root \in worktrees /\ ~HasRoot(w, root))

LEMMA FollowLeak ==
  ASSUME TypeOK, NothingIsLeaked, NEW w \in Workers, OthersStay(w),
         LocksFollow(w), ControlFollows(w), RootsFollow(w)
  PROVE  NothingIsLeaked'
<1>1. ASSUME NEW s \in Sessions, lock'[s] # Nobody PROVE HasLock(lock[s], s)'
  BY <1>1 DEF NothingIsLeaked, LocksFollow, HasLock, OthersStay, TypeOK
<1>2. ASSUME NEW s \in Sessions, control'[s] # Nobody PROVE HasControl(control[s], s)'
  BY <1>2 DEF NothingIsLeaked, ControlFollows, HasControl, OthersStay, TypeOK
<1>3. ASSUME NEW root \in worktrees' PROVE \E v \in Workers : HasRoot(v, root)'
  BY DEF NothingIsLeaked, RootsFollow, HasRoot, OthersStay
<1>. QED  BY <1>1, <1>2, <1>3 DEF NothingIsLeaked

LEMMA SameLeak ==
  ASSUME NothingIsLeaked, UNCHANGED <<thread, lock, control, worktrees>>
  PROVE  NothingIsLeaked'
BY DEF NothingIsLeaked, HasLock, HasControl, HasRoot

(* The thread goes on with what it has. *)
GoesOn(w) ==
  /\ OthersStay(w) /\ UNCHANGED lockVars
  /\ thread[w].pc # "commit" /\ thread'[w].pc \in LockPcs
  /\ thread'[w].session = thread[w].session
  /\ thread'[w].reserved = thread[w].reserved

LEMMA GoesOnLeak ==
  ASSUME IInv, NothingIsLeaked, NEW w \in Workers, GoesOn(w)
  PROVE  NothingIsLeaked'
<1>0. TypeOK /\ Nobody \notin Workers
  BY IInvParts DEF ConstantsOK
<1>1. LocksFollow(w) /\ ControlFollows(w)
  BY <1>0 DEF GoesOn, lockVars, LocksFollow, ControlFollows, NothingIsLeaked, HasLock, HasControl
<1>2. RootsFollow(w)
  BY DEF GoesOn, lockVars, RootsFollow, HasRoot
<1>. QED  BY <1>0, <1>1, <1>2, FollowLeak DEF GoesOn

LEMMA GotoGoesOn ==
  ASSUME TypeOK, NEW w \in Workers, NEW pc \in LockPcs, Goto(w, pc), UNCHANGED lockVars,
         thread[w].pc # "commit"
  PROVE  GoesOn(w)
BY DEF Goto, GoesOn, TypeOK, Thread, OthersStay

(* A request takes the execution lock of a session that is free. *)
LEMMA AcceptLeak ==
  ASSUME IInv, NothingIsLeaked, NEW w \in Workers, NEW s \in Sessions, Accept(w, s), OthersStay(w),
         thread'[w].pc \in LockPcs, thread'[w].session = s,
         control' = control, worktrees' = worktrees
  PROVE  NothingIsLeaked'
<1>0. TypeOK /\ Nobody \notin Workers
  BY IInvParts DEF ConstantsOK
<1>1. thread[w].pc = "idle" /\ ~thread[w].reserved /\ lock' = [lock EXCEPT ![s] = w]
  BY DEF Accept, IdleThread
<1>2. LocksFollow(w)
  BY <1>0, <1>1 DEF LocksFollow, NothingIsLeaked, HasLock, TypeOK, LockPcs
<1>3. ControlFollows(w) /\ RootsFollow(w)
  BY <1>0, <1>1 DEF ControlFollows, RootsFollow, NothingIsLeaked, HasControl, HasRoot
<1>. QED  BY <1>0, <1>2, <1>3, FollowLeak

LEMMA StartLeak ==
  ASSUME IInv, NothingIsLeaked, NEW w \in Workers, Start(w)
  PROVE  NothingIsLeaked'
<1>0. TypeOK
  BY IInvParts
<1>1. ASSUME NEW s \in Sessions, NEW k \in Keys \cup {NoKey}, StartRequest(w, s, k)
      PROVE  NothingIsLeaked'
  <2>1. /\ Accept(w, s) /\ OthersStay(w) /\ thread'[w].pc \in LockPcs /\ thread'[w].session = s
        /\ control' = control /\ worktrees' = worktrees
    BY <1>0, <1>1 DEF StartRequest, TypeOK, IdleThread, OthersStay, LockPcs, Pcs
  <2>. QED  BY <2>1, AcceptLeak
<1>2. ASSUME NEW r \in Runs, StartCreate(w, r) PROVE NothingIsLeaked'
  <2>1. GoesOn(w)
    BY <1>0, <1>2 DEF StartCreate, GoesOn, TypeOK, Thread, OthersStay, LockPcs, Pcs
  <2>. QED  BY <2>1, GoesOnLeak
<1>3. CASE StartRefused(w)
  <2>1. Goto(w, "unlock") /\ UNCHANGED lockVars /\ thread[w].pc # "commit" /\ "unlock" \in LockPcs
    BY <1>3 DEF StartRefused, LockPcs, Pcs
  <2>. QED  BY <1>0, <2>1, GotoGoesOn, GoesOnLeak
<1>. QED  BY <1>1, <1>2, <1>3 DEF Start

LEMMA ResumeLeak ==
  ASSUME IInv, NothingIsLeaked, NEW w \in Workers, Resume(w)
  PROVE  NothingIsLeaked'
<1>0. TypeOK /\ Nobody \notin Workers
  BY IInvParts DEF ConstantsOK
<1>1. ASSUME NEW r \in Runs, NEW i \in Inputs, NEW accept \in BOOLEAN,
             ResumeRequest(w, r, i, accept)
      PROVE  NothingIsLeaked'
  <2>1. owner[r] \in Sessions
    <3>1. Accept(w, owner[r]) /\ status[r] # "none"
      BY <1>1 DEF ResumeRequest
    <3>. QED  BY <3>1, IInvParts DEF RowsOK
  <2>2. /\ Accept(w, owner[r]) /\ OthersStay(w) /\ thread'[w].pc \in LockPcs
        /\ thread'[w].session = owner[r] /\ control' = control /\ worktrees' = worktrees
    BY <1>0, <1>1 DEF ResumeRequest, TypeOK, IdleThread, OthersStay, LockPcs, Pcs
  <2>. QED  BY <2>1, <2>2, AcceptLeak
<1>2. CASE ResumeOverdue(w) \/ ResumeExpire(w) \/ ResumeArm(w)
  <2>1. /\ UNCHANGED lockVars /\ thread[w].pc # "commit"
        /\ \E pc \in {"unlock", "release", "begin"} : Goto(w, pc)
    BY <1>2 DEF ResumeOverdue, ResumeExpire, ResumeArm, Admit
  <2>2. {"unlock", "release", "begin"} \subseteq LockPcs
    BY DEF LockPcs, Pcs
  <2>. QED  BY <1>0, <2>1, <2>2, GotoGoesOn, GoesOnLeak
<1>3. CASE ResumeRefused(w)
  <2>1. GoesOn(w)
    BY <1>0, <1>3 DEF ResumeRefused, Admit, GoesOn, TypeOK, Thread, OthersStay, LockPcs, Pcs
  <2>. QED  BY <2>1, GoesOnLeak
<1>4. CASE ResumeStale(w) \/ ResumeAdmit(w)
  <2>1. thread[w].pc = "admit"
    BY <1>4 DEF ResumeStale, ResumeAdmit, Admissible, Admit
  <2>2. owner[thread[w].run] = thread[w].session /\ thread[w].session \in Sessions
    BY <2>1, ThreadRun DEF RunPcs, Pcs
  <2>3. /\ lock' = lock /\ OthersStay(w) /\ thread'[w].session = thread[w].session /\ thread'[w].reserved
        /\ worktrees' = worktrees \cup {RootOf[thread[w].session]} /\ thread'[w].pc \in LockPcs
    BY <1>0, <1>4, <2>2 DEF ResumeStale, ResumeAdmit, Root, TypeOK, Thread, OthersStay, LockPcs, Pcs
  <2>4. LocksFollow(w) /\ RootsFollow(w)
    BY <1>0, <2>3 DEF LocksFollow, RootsFollow, NothingIsLeaked, HasLock, HasRoot
  <2>5. \/ control' = control
        \/ control' = [control EXCEPT ![thread[w].session] = w] /\ thread'[w].pc = "commit"
    BY <1>0, <1>4, <2>2 DEF ResumeStale, ResumeAdmit, TypeOK, Thread
  <2>6. ControlFollows(w)
    BY <1>0, <2>1, <2>2, <2>3, <2>5 DEF ControlFollows, NothingIsLeaked, HasControl, TypeOK
  <2>. QED  BY <1>0, <2>3, <2>4, <2>6, FollowLeak
<1>5. CASE ResumeCommit(w) \/ ResumeTooLate(w) \/ ResumeInvalid(w)
  <2>1. thread[w].pc = "commit"
    BY <1>5 DEF ResumeCommit, ResumeTooLate, ResumeInvalid
  <2>2. owner[thread[w].run] = thread[w].session /\ thread[w].session \in Sessions
    BY <2>1, ThreadRun DEF RunPcs, Pcs
  <2>3. /\ lock' = lock /\ worktrees' = worktrees
        /\ control' = [control EXCEPT ![thread[w].session] = Nobody]
        /\ \E pc \in {"arm", "expired", "release"} : Goto(w, pc)
    BY <1>5, <2>2 DEF ResumeCommit, ResumeTooLate, ResumeInvalid
  <2>4. /\ OthersStay(w) /\ thread'[w].session = thread[w].session /\ thread'[w].pc \in LockPcs
        /\ thread'[w].reserved = thread[w].reserved
    BY <1>0, <2>3 DEF Goto, TypeOK, Thread, OthersStay, LockPcs, Pcs
  <2>5. LocksFollow(w) /\ RootsFollow(w)
    BY <1>0, <2>3, <2>4 DEF LocksFollow, RootsFollow, NothingIsLeaked, HasLock, HasRoot
  <2>6. ControlFollows(w)
    BY <1>0, <2>2, <2>3 DEF ControlFollows, NothingIsLeaked, HasControl, TypeOK
  <2>. QED  BY <1>0, <2>4, <2>5, <2>6, FollowLeak
<1>. QED  BY <1>1, <1>2, <1>3, <1>4, <1>5 DEF Resume

LEMMA ExecuteLeak ==
  ASSUME IInv, ReservedOK, NothingIsLeaked, NEW w \in Workers, Execute(w)
  PROVE  NothingIsLeaked'
<1>0. TypeOK /\ Nobody \notin Workers
  BY IInvParts DEF ConstantsOK
<1>1. CASE ReserveWorktree(w) \/ LeaveWorktree(w) \/ ReleaseWorktree(w)
  <2>1. /\ lock' = lock /\ control' = control /\ OthersStay(w)
        /\ thread[w].pc # "commit" /\ thread'[w].pc \in LockPcs /\ thread'[w].session = thread[w].session
    BY <1>0, <1>1 DEF ReserveWorktree, LeaveWorktree, ReleaseWorktree, At, TypeOK, Thread, OthersStay, LockPcs, Pcs
  <2>2. LocksFollow(w) /\ ControlFollows(w)
    BY <1>0, <2>1 DEF LocksFollow, ControlFollows, NothingIsLeaked, HasLock, HasControl
  <2>3. RootsFollow(w)
    <3>1. CASE ReserveWorktree(w)
      <4>1. thread[w].pc \notin HoldPcs
        BY <3>1 DEF ReserveWorktree, At, HoldPcs
      <4>2. ~thread[w].reserved
        BY <4>1 DEF ReservedOK
      <4>3. /\ thread'[w].reserved = CanReserve(thread[w].session)
            /\ worktrees' = IF CanReserve(thread[w].session)
                            THEN worktrees \cup {RootOf[thread[w].session]} ELSE worktrees
        BY <1>0, <3>1 DEF ReserveWorktree, TypeOK, Thread
      <4>. QED  BY <2>1, <4>2, <4>3 DEF RootsFollow, HasRoot
    <3>2. CASE LeaveWorktree(w)
      <4>1. /\ thread'[w].reserved = (thread[w].reserved /\ ~thread[w].started)
            /\ worktrees' = IF thread[w].started /\ thread[w].reserved
                            THEN worktrees \ {RootOf[thread[w].session]} ELSE worktrees
        BY <1>0, <3>2 DEF LeaveWorktree, TypeOK, Thread
      <4>. QED  BY <2>1, <4>1 DEF RootsFollow, HasRoot
    <3>3. CASE ReleaseWorktree(w)
      <4>1. worktrees' = IF thread[w].reserved
                         THEN worktrees \ {RootOf[thread[w].session]} ELSE worktrees
        BY <3>3 DEF ReleaseWorktree
      <4>. QED  BY <4>1 DEF RootsFollow, HasRoot
    <3>. QED  BY <1>1, <3>1, <3>2, <3>3
  <2>. QED  BY <1>0, <2>1, <2>2, <2>3, FollowLeak
<1>2. CASE BeginCancelled(w) \/ BeginBusy(w) \/ BeginStale(w) \/ DriveComplete(w)
           \/ DriveFail(w) \/ DriveStop(w)
  <2>1. /\ UNCHANGED lockVars /\ thread[w].pc \in DrivePcs \cup {"begin"}
        /\ Goto(w, "leave") \/ thread' = [thread EXCEPT ![w].pc = "leave", ![w].raised = TRUE]
    BY <1>2 DEF BeginCancelled, BeginBusy, BeginStale, DriveComplete, DriveFail,
       DriveStop, FinishRaised, FinishInside, At, DrivePcs
  <2>2. GoesOn(w)
    BY <1>0, <2>1 DEF Goto, GoesOn, TypeOK, Thread, OthersStay, LockPcs, Pcs, DrivePcs
  <2>. QED  BY <2>2, GoesOnLeak
<1>3. CASE Begin(w) \/ DrivePause(w) \/ Wait(w) \/ DriveReturn(w) \/ StopExecuting(w) \/ PostExecute(w)
  <2>1. /\ UNCHANGED lockVars /\ thread[w].pc # "commit"
        /\ \E pc \in {"drive", "wait", "check", "leave", "post", "release"} : Goto(w, pc)
    BY <1>3 DEF Begin, DrivePause, Wait, WaitCommit, DriveReturn, StopExecuting, PostExecute, At
  <2>2. {"drive", "wait", "check", "leave", "post", "release"} \subseteq LockPcs
    BY DEF LockPcs, Pcs
  <2>. QED  BY <1>0, <2>1, <2>2, GotoGoesOn, GoesOnLeak
<1>4. CASE DriveWrite(w)
  BY <1>4, SameLeak DEF DriveWrite, lockVars
<1>5. CASE ReleaseLock(w) \/ NotifyTimeout(w)
  <2>1. thread[w].pc \in {"unlock", "notify"}
    BY <1>5 DEF ReleaseLock, NotifyTimeout, At
  <2>2. ~thread[w].reserved
    BY <2>1 DEF ReservedOK, HoldPcs
  <2>3. OthersStay(w) /\ control' = control /\ worktrees' = worktrees
    BY <1>0, <1>5 DEF ReleaseLock, NotifyTimeout, lockVars, TypeOK, OthersStay
  <2>4. ControlFollows(w) /\ RootsFollow(w)
    BY <1>0, <2>1, <2>2, <2>3 DEF ControlFollows, RootsFollow, NothingIsLeaked, HasControl, HasRoot
  <2>5. CASE ReleaseLock(w)
    <3>1. lock' = [lock EXCEPT ![thread[w].session] = Nobody]
      BY <2>5 DEF ReleaseLock
    <3>2. LocksFollow(w)
      BY <1>0, <3>1 DEF LocksFollow, NothingIsLeaked, HasLock, TypeOK
    <3>. QED  BY <1>0, <2>3, <2>4, <3>2, FollowLeak
  <2>6. CASE NotifyTimeout(w)
    <3>1. lock' = lock /\ thread[w].pc = "notify"
      BY <2>6 DEF NotifyTimeout, lockVars
    <3>2. LocksFollow(w)
      BY <1>0, <3>1 DEF LocksFollow, NothingIsLeaked, HasLock, LockPcs
    <3>. QED  BY <1>0, <2>3, <2>4, <3>2, FollowLeak
  <2>. QED  BY <1>5, <2>5, <2>6
<1>. QED  BY <1>1, <1>2, <1>3, <1>4, <1>5 DEF Execute

LEMMA LeakStep ==
  ASSUME IInv, ReservedOK, NothingIsLeaked, Next
  PROVE  NothingIsLeaked'
<1>0. TypeOK
  BY IInvParts
<1>1. ASSUME NEW w \in Workers, Close(w) PROVE NothingIsLeaked'
  <2>1. ASSUME NEW s \in Sessions, CloseRequest(w, s) PROVE NothingIsLeaked'
    <3>1. /\ Accept(w, s) /\ OthersStay(w) /\ thread'[w].pc \in LockPcs /\ thread'[w].session = s
          /\ control' = control /\ worktrees' = worktrees
      BY <1>0, <2>1 DEF CloseRequest, TypeOK, IdleThread, OthersStay, LockPcs, Pcs
    <3>. QED  BY <3>1, AcceptLeak
  <2>2. CASE CloseDone(w)
    <3>1. Goto(w, "unlock") /\ UNCHANGED lockVars /\ thread[w].pc # "commit" /\ "unlock" \in LockPcs
      BY <2>2 DEF CloseDone, At, LockPcs, Pcs
    <3>. QED  BY <1>0, <3>1, GotoGoesOn, GoesOnLeak
  <2>3. CASE \E r \in Runs : CloseRun(w, r)
    BY <2>3, SameLeak DEF CloseRun, lockVars
  <2>. QED  BY <1>1, <2>1, <2>2, <2>3 DEF Close
<1>2. CASE \E r \in Runs : Cancel(r)
  BY <1>2, SameLeak DEF Cancel, lockVars
<1>3. CASE Scheduler
  BY <1>3, SameLeak DEF Scheduler, SchedulerPop, SchedulerExpire, SchedulerRetry, SchedulerNotify, lockVars
<1>4. CASE Crash
  <2>1. /\ \A s \in Sessions : lock'[s] = Nobody /\ control'[s] = Nobody
        /\ worktrees' = {}
    BY <1>4 DEF Crash
  <2>. QED  BY <2>1 DEF NothingIsLeaked
<1>5. CASE Restart /\ ~Crash
  BY <1>5, SameLeak DEF Restart, Restore, Recover, ArmRestored, Serve, lockVars
<1>6. CASE Tick \/ \E root \in Roots : OutsideEdit(root)
  BY <1>6, SameLeak DEF Tick, OutsideEdit, lockVars
<1>. QED
  BY <1>1, <1>2, <1>3, <1>4, <1>5, <1>6, StartLeak, ResumeLeak, ExecuteLeak DEF Next

(* Every lock that is taken and every worktree that is reserved has the    *)
(* thread that took it, at a step from which it gives it back: whatever    *)
(* way a start, a resume or a close ends, it leaves nothing taken behind   *)
(* (the finally blocks of start, resume, _execute and close).              *)
THEOREM NothingIsLeakedTheorem == Spec => []NothingIsLeaked
<1>1. Init => NothingIsLeaked
  BY DEF Init, NothingIsLeaked
<1>2. IInv /\ ReservedOK /\ NothingIsLeaked /\ [Next]_vars => NothingIsLeaked'
  <2>1. CASE Next
    BY <2>1, LeakStep
  <2>2. CASE UNCHANGED vars
    BY <2>2, SameLeak DEF vars, lockVars
  <2>. QED  BY <2>1, <2>2
<1>. QED  BY <1>1, <1>2, Invariant, ReservedInvariant, PTL DEF Spec
=============================================================================
