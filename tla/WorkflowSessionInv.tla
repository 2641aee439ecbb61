------------------------- MODULE WorkflowSessionInv -------------------------
(***************************************************************************)
(* Safety of WorkflowSession for every number of sessions, runs, inputs    *)
(* and threads.  The invariants that are checked are not inductive alone:  *)
(* whether a run may be ended depends on who executes it, that on who      *)
(* holds the execution lock, and that on where the threads stand.  IInv    *)
(* says this for every thread and every row.                               *)
(***************************************************************************)
EXTENDS WorkflowSession, TLAPS, WellFoundedInduction

(* Where a thread holds the execution lock, has a run, executes it, and    *)
(* where that run is still running.                                        *)
LockPcs == Pcs \ {"idle", "notify"}
RunPcs  == Pcs \ {"idle", "start", "close", "unlock"}
ExecPcs == {"arm", "reserve", "begin", "drive", "wait", "check", "leave", "unset"}
LivePcs == {"arm", "reserve", "begin", "drive", "wait"}

(* Who a thread works for and which lock it holds. *)
ThreadsOK ==
  \A w \in Workers :
    /\ thread[w].pc # "idle" => mode = "up" /\ thread[w].session \in Sessions
    /\ thread[w].pc \in LockPcs => lock[thread[w].session] = w
    /\ thread[w].pc \in RunPcs => thread[w].run # Nobody
    /\ thread[w].run # Nobody =>
         /\ owner[thread[w].run] = thread[w].session
         /\ status[thread[w].run] # "none"
    /\ thread[w].pc \in {"admit", "commit"} => thread[w].input \in Inputs

SchedOK == sched.pc # "idle" => sched.run # Nobody

(* A run that executes has its thread, which holds the execution lock. *)
ExecutorOK ==
  \A r \in Runs : state[r].executing =>
    /\ lock[owner[r]] \in Workers
    /\ thread[lock[owner[r]]].run = r
    /\ thread[lock[owner[r]]].pc \in ExecPcs

(* A thread that executes a run finds it in the status it left it. *)
ExecutionOK ==
  \A w \in Workers :
    /\ thread[w].pc \in ExecPcs => state[thread[w].run].executing
    /\ thread[w].pc \in LivePcs => status[thread[w].run] = "running"
    /\ thread[w].pc = "check" => status[thread[w].run] = "waiting"

(* Between its check and its transaction a resume is alone. *)
CommitOK ==
  \A w \in Workers : thread[w].pc = "commit" =>
    /\ control[thread[w].session] = w
    /\ status[thread[w].run] = "waiting"
    /\ thread[w].input \in Pending(thread[w].run)

HeldOK ==
  IF mode = "recovering" THEN \A r \in held : status[r] = "waiting"
                         ELSE held = {r \in Runs : status[r] \in Live}

RowsOK ==
  /\ \A r \in Runs : status[r] # "none" => owner[r] \in Sessions
  /\ \A r \in Runs : saved[r] # NoTree => status[r] = "waiting"
  /\ \A i \in Inputs : input[i].status = "pending" =>
       /\ input[i].run # Nobody
       /\ status[input[i].run] \in Live
       /\ input[i].verdict = "none"

IInv == /\ TypeOK /\ ThreadsOK /\ SchedOK /\ ExecutorOK /\ ExecutionOK /\ CommitOK
        /\ HeldOK /\ RowsOK /\ WaitingHasInput /\ OneLiveRun

-----------------------------------------------------------------------------
(* Nobody is a value of its own.                                           *)
LEMMA NobodyElse == Nobody \notin Workers /\ Nobody \notin Runs /\ Nobody \notin Sessions
BY ConstantsOK DEF ConstantsOK

(* The part of TypeOK that ending a run can disturb. *)
RunsType ==
  /\ status \in [Runs -> {"none"} \cup Live \cup Terminal]
  /\ owner \in [Runs -> Sessions \cup {Nobody}]
  /\ keyOf \in [Runs -> Keys \cup {NoKey}]
  /\ input \in [Inputs -> Input]
  /\ saved \in [Runs -> Trees \cup {NoTree}]
  /\ held \subseteq Runs
  /\ state \in [Runs -> State]
  /\ deadlines \in [Runs -> Nat]
  /\ before \in [Runs -> Trees \cup {NoTree}]
  /\ after \in [Runs -> Trees \cup {NoTree}]

(* A set of natural numbers has a least one.                               *)
LEMMA Minimum ==
  ASSUME NEW T \in SUBSET Nat, T # {}
  PROVE  \E d \in T : \A e \in T : d <= e
<1>1. PICK x \in T : \A y \in T : ~ (<<y, x>> \in OpToRel(<, Nat))
  BY NatLessThanWellFounded, WFMin
<1>2. ASSUME NEW y \in T
      PROVE  x <= y
  <2>1. y < x => <<y, x>> \in OpToRel(<, Nat)
    BY DEF OpToRel
  <2>2. ~(y < x)
    BY <1>1, <2>1, Zenon
  <2>. QED  BY <2>2
<1>. QED  BY <1>2

(* The deadline arm schedules is one of the run's approvals.               *)
LEMMA EarliestType ==
  ASSUME TypeOK, NEW r \in Runs, Approvals(r) # {}
  PROVE  Earliest(r) \in Nat
<1>. DEFINE T == {input[i].expires : i \in Approvals(r)}
<1>1. T \in SUBSET Nat
  BY DEF Approvals, Pending, TypeOK, Input
<1>2. PICK d \in T : \A e \in T : d <= e
  <2>1. T # {}
    OBVIOUS
  <2>. QED  BY <1>1, <2>1, Minimum
<1>3. \A i \in Approvals(r) : d <= input[i].expires
  BY <1>2
<1>4. Earliest(r) \in T
  BY <1>3, Zenon DEF Earliest
<1>. QED  BY <1>1, <1>4

(* arm keeps the deadlines natural numbers.                                *)
LEMMA ArmType ==
  ASSUME ConstantsOK, TypeOK, NEW r \in Runs, Arm(r)
  PROVE  deadlines' \in [Runs -> Nat]
BY EarliestType DEF Arm, TypeOK, NoDeadline, ConstantsOK

(* _finish keeps the types.                                                *)
LEMMA FinishType ==
  ASSUME ConstantsOK, TypeOK, RowsOK, NEW r \in Runs, NEW st \in State,
         NEW wanted \in Terminal, Finish(r, st, wanted)
  PROVE  RunsType'
<1>1. Dropped(st) \in State
  BY DEF Dropped, State
<1>2. FinalStatus(st, wanted) \in Terminal
  BY DEF FinalStatus, Terminal
<1>3. \A row \in Input : Reject(row) \in Input
  BY DEF Reject, Input
<1>4. NoDeadline \in Nat
  BY DEF NoDeadline, ConstantsOK
<1>5. state' \in [Runs -> State]
  BY <1>1 DEF Finish, TypeOK
<1>6. CASE status[r] \in Live
  <2>1. tree[Root(r)] \in Trees
    BY <1>6 DEF Live, Root, RowsOK, TypeOK, ConstantsOK
  <2>2. state[r].frozen \in Trees \cup {NoTree}
    BY DEF TypeOK, State
  <2>3. after' \in [Runs -> Trees \cup {NoTree}]
    BY <1>6, <2>1, <2>2 DEF Finish, FinishGit, TypeOK
  <2>4. input' \in [Inputs -> Input]
    BY <1>3, <1>6 DEF Finish, TypeOK
  <2>5. status' \in [Runs -> {"none"} \cup Live \cup Terminal]
    BY <1>2, <1>6 DEF Finish, TypeOK
  <2>6. saved' \in [Runs -> Trees \cup {NoTree}] /\ held' \subseteq Runs
    BY <1>6 DEF Finish, TypeOK
  <2>7. deadlines' \in [Runs -> Nat]
    BY <1>4, <1>6 DEF Finish, TypeOK
  <2>. QED  BY <1>5, <2>3, <2>4, <2>5, <2>6, <2>7 DEF Finish, RunsType, TypeOK
<1>7. CASE status[r] \notin Live
  BY <1>5, <1>7 DEF Finish, RunsType, TypeOK
<1>. QED  BY <1>6, <1>7

(* A failing transaction of _finish keeps the types.                       *)
LEMMA FinishFailsType ==
  ASSUME TypeOK, NEW r \in Runs, NEW st \in State, FinishFails(r, st)
  PROVE  RunsType' /\ spent' \in [requests : Nat, crashes : Nat, faults : Nat]
BY DEF FinishFails, RunsType, TypeOK, rowVars

-----------------------------------------------------------------------------
(* What the steps of _finish and expire_approvals leave to the rest of the *)
(* proof: either the run r ends, or no row and no held run changes.        *)
Ends(r) ==
  /\ owner' = owner /\ keyOf' = keyOf
  /\ \A q \in Runs : state'[q].executing = state[q].executing
  /\ \/ UNCHANGED <<status, input, saved, held>>
     \/ /\ r \in Runs /\ status[r] \in Live
        /\ \A q \in Runs : IF q = r THEN status'[q] \in Terminal
                                    ELSE status'[q] = status[q]
        /\ \A i \in Inputs : input'[i] = IF i \in Pending(r) THEN Reject(input[i])
                                                        ELSE input[i]
        /\ saved' = [saved EXCEPT ![r] = NoTree]
        /\ held' = held \ {r}

(* _finish ends the run or leaves the rows alone.                          *)
LEMMA FinishEnds ==
  ASSUME TypeOK, NEW r \in Runs, NEW st, st.executing = state[r].executing,
         NEW wanted \in Terminal, Finish(r, st, wanted)
  PROVE  Ends(r)
<1>1. Dropped(st).executing = st.executing
  BY DEF Dropped
<1>2. FinalStatus(st, wanted) \in Terminal
  BY DEF FinalStatus, Terminal
<1>3. \A q \in Runs : state'[q].executing = state[q].executing
  BY <1>1 DEF Finish, TypeOK
<1>4. CASE status[r] \in Live
  <2>1. \A q \in Runs : IF q = r THEN status'[q] \in Terminal
                                ELSE status'[q] = status[q]
    BY <1>2, <1>4 DEF Finish, TypeOK
  <2>2. \A i \in Inputs : input'[i] = IF i \in Pending(r) THEN Reject(input[i])
                                                     ELSE input[i]
    BY <1>4 DEF Finish, Closed
  <2>. QED  BY <1>3, <1>4, <2>1, <2>2 DEF Finish, Ends
<1>5. CASE status[r] \notin Live
  BY <1>3, <1>5 DEF Finish, Ends
<1>. QED  BY <1>4, <1>5

(* A failing transaction of _finish leaves the rows alone.                 *)
LEMMA FinishFailsEnds ==
  ASSUME TypeOK, NEW r \in Runs, NEW st, st.executing = state[r].executing,
         FinishFails(r, st)
  PROVE  Ends(r)
BY DEF FinishFails, Ends, TypeOK, rowVars

(* Accepting a timeout does not touch the executing flag.                  *)
LEMMA TimedOutExecutes ==
  ASSUME TypeOK, NEW r \in Runs
  PROVE  TimedOut(r).executing = state[r].executing /\ TimedOut(r) \in State
<1>1. state[r] \in State
  BY DEF TypeOK
<1>. QED  BY <1>1 DEF TimedOut, State

(* Publishing a timeout does not touch the executing flag.                 *)
LEMMA PublishKeeps ==
  ASSUME TypeOK, NEW r \in Runs, Publish(r)
  PROVE  \A q \in Runs : state'[q].executing = state[q].executing
<1>1. state[r] \in State
  BY DEF TypeOK
<1>2. [state[r] EXCEPT !.notify = FALSE].executing = state[r].executing
  BY <1>1 DEF State
<1>. QED  BY <1>2 DEF Publish, TypeOK

(* expire_approvals ends the run, and only one that does not execute.      *)
LEMMA ExpireEnds ==
  ASSUME TypeOK, NEW r \in Runs, Expire(r)
  PROVE  /\ Ends(r)
         /\ status[r] \in Live => status'[r] = status[r] \/ ~state[r].executing
<1>1. CASE MustExpire(r) /\ EndsAtOnce(r)
  BY <1>1, FinishEnds, TimedOutExecutes DEF Expire, Terminal, EndsAtOnce
<1>2. CASE ~(MustExpire(r) /\ EndsAtOnce(r))
  BY <1>2, TimedOutExecutes DEF Expire, Ends, rowVars, TypeOK
<1>. QED  BY <1>1, <1>2

(* A rejected input is settled and stays with its run.                     *)
LEMMA RejectSettles ==
  ASSUME NEW row \in Input
  PROVE  Reject(row).status = "expired" /\ Reject(row).run = row.run
BY DEF Reject, Input

(* Ending a run keeps the rows consistent: its inputs and its checkpoint go. *)
LEMMA EndsRows ==
  ASSUME TypeOK, RowsOK, NEW r, Ends(r)
  PROVE  RowsOK'
<1>1. CASE UNCHANGED <<status, input, saved, held>>
  BY <1>1 DEF RowsOK, Ends
<1>2. CASE ~UNCHANGED <<status, input, saved, held>>
  <2>1. \A q \in Runs : status[q] # "none" => owner'[q] \in Sessions
    BY DEF Ends, RowsOK
  <2>2. \A q \in Runs : status'[q] # "none" => status[q] # "none"
    BY <1>2 DEF Ends, Live
  <2>3. \A q \in Runs : saved'[q] # NoTree => status'[q] = "waiting"
    BY <1>2 DEF Ends, RowsOK, TypeOK
  <2>4. ASSUME NEW i \in Inputs, input'[i].status = "pending"
        PROVE  input'[i] = input[i] /\ input[i].run # r
    BY <1>2, <2>4, RejectSettles DEF Ends, Pending, TypeOK
  <2>5. ASSUME NEW i \in Inputs, input[i].status = "pending", input[i].run # r
        PROVE  status'[input[i].run] = status[input[i].run]
    BY <1>2, <2>5 DEF Ends, RowsOK, TypeOK, Input, Ids
  <2>. QED  BY <2>1, <2>2, <2>3, <2>4, <2>5 DEF RowsOK
<1>. QED  BY <1>1, <1>2

(* Ending a run takes no input of another run.                             *)
LEMMA EndsWaiting ==
  ASSUME TypeOK, WaitingHasInput, NEW r, Ends(r)
  PROVE  WaitingHasInput'
<1>1. CASE UNCHANGED <<status, input, saved, held>>
  BY <1>1 DEF WaitingHasInput, Pending
<1>2. CASE ~UNCHANGED <<status, input, saved, held>>
  <2>1. ASSUME NEW q \in Runs, status'[q] = "waiting"
        PROVE  q # r /\ status[q] = "waiting"
    BY <1>2, <2>1 DEF Ends, Terminal
  <2>2. ASSUME NEW q \in Runs, q # r, NEW i \in Pending(q)
        PROVE  i \in Pending(q)'
    BY <1>2, <2>2 DEF Ends, Pending
  <2>. QED  BY <2>1, <2>2 DEF WaitingHasInput
<1>. QED  BY <1>1, <1>2

(* A run that stays waiting keeps its open inputs when another one ends.   *)
LEMMA EndsPending ==
  ASSUME NEW r, Ends(r), NEW q \in Runs, status[q] = "waiting",
         status'[q] = status[q], NEW i \in Pending(q)
  PROVE  input'[i] = input[i]
<1>1. CASE UNCHANGED <<status, input, saved, held>>
  BY <1>1
<1>2. CASE ~UNCHANGED <<status, input, saved, held>>
  <2>1. status'[r] \in Terminal
    BY <1>2 DEF Ends
  <2>2. q # r
    BY <2>1 DEF Terminal
  <2>3. i \in Inputs /\ i \notin Pending(r)
    BY <2>2 DEF Pending
  <2>. QED  BY <1>2, <2>3 DEF Ends
<1>. QED  BY <1>1, <1>2

(* A run that ends is released by the session.                             *)
LEMMA EndsHeld ==
  ASSUME TypeOK, HeldOK, NEW r, Ends(r), mode' = mode
  PROVE  HeldOK'
<1>1. CASE UNCHANGED <<status, input, saved, held>>
  BY <1>1 DEF HeldOK
<1>2. CASE ~UNCHANGED <<status, input, saved, held>>
  <2>1. /\ held' = held \ {r} /\ r \in Runs
        /\ status'[r] \notin Live
        /\ \A q \in Runs : q # r => status'[q] = status[q]
    BY <1>2 DEF Ends, Live, Terminal
  <2>. QED  BY <2>1 DEF HeldOK, TypeOK
<1>. QED  BY <1>1, <1>2

(* Ending a run makes no run live.                                         *)
LEMMA EndsOneLiveRun ==
  ASSUME OneLiveRun, NEW r, Ends(r)
  PROVE  OneLiveRun'
<1>1. \A q \in Runs : status'[q] \in Live => status[q] \in Live
  BY DEF Ends, Live, Terminal
<1>. QED  BY <1>1 DEF Ends, OneLiveRun

(* A restored run keeps an open input, and the copies are open inputs of it. *)
LEMMA RestoreInputs ==
  ASSUME TypeOK, NEW r \in Runs, NEW ids \in SUBSET Inputs,
         NEW reissue \in [ids -> Inputs], Restore(r, reissue)
  PROVE  /\ \A k \in Inputs :
              \/ input'[k] = input[k]
              \/ k \in Pending(r) /\ input'[k] = Reject(input[k])
              \/ /\ input[k].status = "free"
                 /\ \E i \in Pending(r) : input'[k] = input[i]
         /\ \A q \in Runs : Pending(q) # {} => Pending(q)' # {}
         /\ input' \in [Inputs -> Input]
<1>. DEFINE source(k) == CHOOSE i \in DOMAIN reissue : reissue[i] = k
            target(k) == \E i \in DOMAIN reissue : reissue[i] = k
<1>1. DOMAIN reissue \subseteq Pending(r) /\ DOMAIN reissue \subseteq Inputs
  BY DEF Restore
<1>2. \A k \in Inputs : target(k) => source(k) \in Pending(r) /\ source(k) \in Inputs
  BY <1>1
<1>3. \A k \in Inputs :
        input'[k] = IF k \in DOMAIN reissue THEN Reject(input[k])
                    ELSE IF target(k) THEN input[source(k)] ELSE input[k]
  BY DEF Restore, Reissued
<1>4. \A i \in DOMAIN reissue : reissue[i] \in Inputs /\ input[reissue[i]].status = "free"
  BY DEF Restore
<1>. HIDE DEF source, target
<1>5. ASSUME NEW k \in Inputs
      PROVE  \/ input'[k] = input[k]
             \/ k \in Pending(r) /\ input'[k] = Reject(input[k])
             \/ /\ input[k].status = "free"
                /\ \E i \in Pending(r) : input'[k] = input[i]
  <2>1. target(k) => input[k].status = "free"
    BY <1>4 DEF target
  <2>. QED  BY <1>1, <1>2, <1>3, <2>1
<1>6. ASSUME NEW q \in Runs, NEW i \in Pending(q), q # r
      PROVE  Pending(q)' # {}
  <2>1. i \notin DOMAIN reissue /\ ~target(i)
    BY <1>1, <1>4, <1>6 DEF Pending, target
  <2>. QED  BY <1>3, <2>1 DEF Pending
<1>7. ASSUME NEW i \in Pending(r)
      PROVE  Pending(r)' # {}
  <2>1. CASE i \in DOMAIN reissue
    <3>1. /\ reissue[i] \in Inputs /\ reissue[i] \notin DOMAIN reissue
          /\ target(reissue[i])
      BY <1>1, <1>4, <2>1 DEF Pending, target
    <3>2. input'[reissue[i]] = input[source(reissue[i])]
      BY <1>3, <3>1
    <3>. QED  BY <1>2, <3>1, <3>2 DEF Pending
  <2>2. CASE i \notin DOMAIN reissue
    <3>1. DOMAIN reissue = {}
      BY <2>2 DEF Restore
    <3>. QED  BY <1>3, <3>1 DEF Pending, target
  <2>. QED  BY <2>1, <2>2
<1>8. \A row \in Input : Reject(row) \in Input
  BY DEF Reject, Input
<1>9. input' \in [Inputs -> Input]
  <2>1. \A k \in Inputs : input'[k] \in Input
    BY <1>2, <1>3, <1>8 DEF TypeOK
  <2>2. input' = [k \in Inputs |-> input'[k]]
    BY DEF Restore
  <2>. QED  BY <2>1, <2>2
<1>. QED  BY <1>5, <1>6, <1>7, <1>9

(* expire_approvals keeps the types.                                       *)
LEMMA ExpireType ==
  ASSUME ConstantsOK, TypeOK, RowsOK, NEW r \in Runs, Expire(r)
  PROVE  RunsType'
<1>1. CASE MustExpire(r) /\ EndsAtOnce(r)
  BY <1>1, FinishType, TimedOutExecutes DEF Expire, Terminal
<1>2. CASE ~(MustExpire(r) /\ EndsAtOnce(r))
  BY <1>2, TimedOutExecutes, SMTT(60) DEF Expire, RunsType, rowVars, TypeOK
<1>. QED  BY <1>1, <1>2

(* A thread ends its run, or fails to, and goes on to its way out. *)
ThreadEnds(w) ==
  /\ thread[w].run \in Runs /\ Ends(thread[w].run)
  /\ thread[w].pc \in RunPcs \ {"commit", "notify"}
  /\ thread'[w].pc \in {"leave", "unlock", "release"}
  /\ thread[w].pc \in ExecPcs <=> thread'[w].pc = "leave"
  /\ thread'[w].run = thread[w].run /\ thread'[w].session = thread[w].session
  /\ \A v \in Workers \ {w} : thread'[v] = thread[v]
  /\ UNCHANGED <<lock, control, sched, mode>>

(* The ten actions in which a thread ends its run, or fails to.            *)
LEMMA ThreadEndsRun ==
  ASSUME IInv, NEW w \in Workers,
         \/ ResumeOverdue(w) \/ ResumeStale(w) \/ ResumeExpire(w)
         \/ BeginCancelled(w) \/ BeginBusy(w) \/ BeginStale(w) \/ DriveComplete(w)
         \/ DriveFail(w) \/ DriveStop(w) \/ PostExecute(w)
  PROVE  ThreadEnds(w)
<1>. DEFINE r == thread[w].run
<1>0. TypeOK /\ ThreadsOK
  BY DEF IInv
<1>1. r \in Runs
  BY <1>0 DEF ThreadsOK, TypeOK, Thread, Ids, RunPcs, Pcs, At, Admit,
     Admissible,
     ResumeOverdue, ResumeStale, ResumeExpire, BeginCancelled, BeginBusy,
     BeginStale, DriveComplete, DriveFail, DriveStop, PostExecute
<1>2. [state[r] EXCEPT !.cancel = TRUE].executing = state[r].executing
  BY <1>0, <1>1 DEF TypeOK, State
<1>. USE DEF RunPcs, ExecPcs, Pcs
<1>3. CASE ResumeOverdue(w)
  <2>1. Ends(r)
    BY <1>0, <1>1, <1>3, ExpireEnds, FinishFailsEnds, TimedOutExecutes DEF
       ResumeOverdue
  <2>. QED
    BY <1>0, <1>1, <1>3, <2>1
       DEF ResumeOverdue, Admit, Goto, ThreadEnds, TypeOK, Thread, lockVars
<1>4. CASE ResumeStale(w)
  <2>1. Ends(r)
    BY <1>0, <1>1, <1>4, FinishEnds DEF ResumeStale, Terminal
  <2>. QED
    BY <1>0, <1>1, <1>4, <2>1
       DEF ResumeStale, Admissible, Admit, ThreadEnds, TypeOK, Thread, worldVars
<1>5. CASE ResumeExpire(w)
  <2>1. Ends(r)
    BY <1>0, <1>1, <1>5, ExpireEnds DEF ResumeExpire
  <2>. QED
    BY <1>0, <1>1, <1>5, <2>1
       DEF ResumeExpire, Goto, ThreadEnds, TypeOK, Thread, lockVars, worldVars
<1>6. CASE BeginCancelled(w) \/ BeginBusy(w) \/ DriveFail(w) \/ DriveStop(w)
  <2>1. Ends(r)
    BY <1>0, <1>1, <1>2, <1>6, FinishEnds, FinishFailsEnds
       DEF BeginCancelled, BeginBusy, DriveFail, DriveStop, FinishRaised, Terminal
  <2>2. /\ thread'[w].pc = "leave"
        /\ thread'[w].run = r /\ thread'[w].session = thread[w].session
        /\ \A v \in Workers \ {w} : thread'[v] = thread[v]
        /\ UNCHANGED <<lock, control, sched, mode>>
    BY <1>0, <1>6 DEF BeginCancelled, BeginBusy, DriveFail, DriveStop,
       FinishRaised, Goto, TypeOK, Thread, lockVars
  <2>. QED
    BY <1>1, <1>6, <2>1, <2>2
       DEF BeginCancelled, BeginBusy, DriveFail, DriveStop, At, ThreadEnds
<1>7. CASE BeginStale(w) \/ DriveComplete(w)
  <2>1. Ends(r)
    BY <1>0, <1>1, <1>7, FinishEnds
       DEF BeginStale, DriveComplete, FinishInside, Terminal
  <2>. QED
    BY <1>0, <1>1, <1>7, <2>1 DEF BeginStale, DriveComplete, FinishInside, At,
       Goto, ThreadEnds, TypeOK, Thread, lockVars, worldVars
<1>8. CASE PostExecute(w)
  <2>1. Ends(r)
    BY <1>0, <1>1, <1>8, FinishEnds, TimedOutExecutes
       DEF PostExecute, Terminal, Ends, rowVars
  <2>. QED
    BY <1>0, <1>1, <1>8, <2>1
       DEF PostExecute, Goto, ThreadEnds, TypeOK, Thread, lockVars, worldVars
<1>. QED  BY <1>3, <1>4, <1>5, <1>6, <1>7, <1>8

(* A run is ended from outside, which nobody does to a run that executes   *)
(* or is about to.                                                         *)
OthersEnd(r) ==
  /\ Ends(r)
  /\ status'[r] # status[r] =>
       \A w \in Workers : thread[w].run = r => thread[w].pc \notin ExecPcs \cup {"commit"}
  /\ sched'.pc # "idle" => sched.pc # "idle" /\ sched'.run = sched.run
  /\ UNCHANGED <<lock, control, thread, mode>>

(* The actions in which somebody else ends a run.                          *)
LEMMA OthersEndRun ==
  ASSUME IInv, NEW r \in Runs,
         \/ \E w \in Workers : CloseRun(w, r)
         \/ Cancel(r) \/ ArmRestored(r)
         \/ SchedulerExpire /\ r = sched.run
  PROVE  OthersEnd(r)
<1>0. TypeOK /\ ThreadsOK /\ ExecutionOK /\ CommitOK
  BY DEF IInv
<1>1. ~state[r].executing =>
        \A w \in Workers : thread[w].run = r => thread[w].pc \notin ExecPcs
  BY <1>0 DEF ExecutionOK
<1>2. mode = "up" /\ control[owner[r]] = Nobody =>
        \A w \in Workers : thread[w].run = r => thread[w].pc # "commit"
  BY <1>0, ConstantsOK DEF CommitOK, ThreadsOK, RunPcs, Pcs
<1>3. CASE \E w \in Workers : CloseRun(w, r)
  <2>. PICK w \in Workers : CloseRun(w, r)
    BY <1>3
  <2>1. Ends(r)
    BY <1>0, FinishEnds DEF CloseRun, Terminal
  <2>2. \A v \in Workers : thread[v].run = r => thread[v].pc \notin ExecPcs
    BY <1>0 DEF CloseRun, ThreadsOK, LockPcs, RunPcs, ExecPcs, Pcs
  <2>. QED
    BY <1>2, <2>1, <2>2 DEF CloseRun, ControlFree, OthersEnd, lockVars,
       worldVars
<1>4. CASE Cancel(r)
  <2>1. [state[r] EXCEPT !.cancel = TRUE].executing = state[r].executing
    BY <1>0 DEF TypeOK, State
  <2>2. Ends(r)
    BY <1>0, <1>4, <2>1, FinishEnds, FinishFailsEnds
       DEF Cancel, Terminal, Ends, rowVars, TypeOK
  <2>3. status'[r] # status[r] => ~state[r].executing
    BY <1>4 DEF Cancel, EndsAtOnce, rowVars
  <2>. QED
    BY <1>1, <1>2, <1>4, <2>2, <2>3 DEF Cancel, ControlFree, OthersEnd, lockVars
<1>5. CASE ArmRestored(r)
  <2>1. [TimedOut(r) EXCEPT !.notify = FALSE].executing = state[r].executing
    BY <1>0, TimedOutExecutes DEF State
  <2>2. Ends(r)
    BY <1>0, <1>5, <2>1, FinishEnds DEF ArmRestored, Terminal, Ends, rowVars
  <2>3. \A w \in Workers : thread[w].pc = "idle"
    BY <1>0, <1>5 DEF ArmRestored, ThreadsOK
  <2>. QED
    BY <1>5, <2>2, <2>3 DEF ArmRestored, OthersEnd, ExecPcs, lockVars, worldVars
<1>6. CASE SchedulerExpire /\ r = sched.run
  <2>1. Ends(r) /\ (status[r] \in Live => status'[r] = status[r] \/ ~state[r].executing)
    BY <1>0, <1>6, ExpireEnds DEF SchedulerExpire
  <2>2. status'[r] # status[r] => ~state[r].executing
    BY <2>1 DEF Ends
  <2>. QED
    BY <1>0, <1>1, <1>2, <1>6, <2>1, <2>2
       DEF SchedulerExpire, ControlFree, OthersEnd, lockVars, worldVars, TypeOK
<1>. QED  BY <1>3, <1>4, <1>5, <1>6

-----------------------------------------------------------------------------
(***************************************************************************)
(* Every step of WorkflowSession keeps TypeOK.  The actions that end a run *)
(* are treated first, then the four parts of TypeOK: threads, entries,     *)
(* rows and the rest.  Each lemma has a step for every action that writes  *)
(* its part and says of the other actions that they leave it alone.        *)
(***************************************************************************)
(* The conjuncts of IInv the type lemmas need.                             *)
LEMMA IInvParts == IInv => TypeOK /\ ThreadsOK /\ SchedOK /\ RowsOK /\ ConstantsOK
BY ConstantsOK DEF IInv

(* The rest of TypeOK: the rows, and what is neither a row, a thread nor an *)
(* entry.                                                                   *)
RowsType ==
  /\ status \in [Runs -> {"none"} \cup Live \cup Terminal]
  /\ owner \in [Runs -> Sessions \cup {Nobody}]
  /\ keyOf \in [Runs -> Keys \cup {NoKey}]
  /\ input \in [Inputs -> Input]
  /\ saved \in [Runs -> Trees \cup {NoTree}]

RestType ==
  /\ held \subseteq Runs
  /\ lock \in [Sessions -> Workers \cup {Nobody}]
  /\ control \in [Sessions -> Workers \cup {Nobody}]
  /\ worktrees \subseteq Roots
  /\ deadlines \in [Runs -> Nat]
  /\ sched \in [pc : {"idle", "expire", "notify"}, run : Ids]
  /\ clock \in Nat
  /\ tree \in [Roots -> Trees]
  /\ before \in [Runs -> Trees \cup {NoTree}]
  /\ after \in [Runs -> Trees \cup {NoTree}]
  /\ notified \subseteq Runs
  /\ mode \in {"up", "recovering", "arming"}
  /\ spent \in [requests : Nat, crashes : Nat, faults : Nat]

(* The records the actions write. *)
LEMMA ThreadEdit ==
  \A t \in Thread, pc \in Pcs, b \in BOOLEAN, r \in Ids :
    /\ [t EXCEPT !.pc = pc] \in Thread
    /\ [t EXCEPT !.pc = pc, !.reserved = b] \in Thread
    /\ [t EXCEPT !.pc = pc, !.run = r] \in Thread
BY DEF Thread

(* What an idle thread and a new entry look like.                          *)
LEMMA IdleType == IdleThread \in Thread /\ IdleState \in State
BY ConstantsOK DEF IdleThread, Thread, Pcs, Ids, IdleState, State

(* A worker that accepts a request becomes one of the three threads.       *)
LEMMA RequestType ==
  ASSUME NEW s \in Sessions \cup {Nobody}
  PROVE  /\ [IdleThread EXCEPT !.pc = "close", !.session = s] \in Thread
         /\ \A k \in Keys \cup {NoKey} :
              [IdleThread EXCEPT !.pc = "start", !.session = s, !.key = k,
                                 !.started = TRUE] \in Thread
         /\ \A r \in Ids, i \in Inputs, a \in BOOLEAN :
              [IdleThread EXCEPT !.pc = "admit", !.session = s, !.run = r,
                                 !.input = i, !.accept = a] \in Thread
<1>. {"start", "admit", "close"} \subseteq Pcs
  BY DEF Pcs
<1>1. \A t \in Thread, pc \in Pcs, k \in Keys \cup {NoKey} :
        [t EXCEPT !.pc = pc, !.session = s, !.key = k, !.started = TRUE] \in Thread
  BY DEF Thread
<1>2. \A t \in Thread, pc \in Pcs, r \in Ids,
         i \in Inputs, a \in BOOLEAN :
        [t EXCEPT !.pc = pc, !.session = s, !.run = r, !.input = i,
                  !.accept = a] \in Thread
  BY DEF Thread
<1>3. \A t \in Thread, pc \in Pcs :
        [t EXCEPT !.pc = pc, !.session = s] \in Thread
  BY DEF Thread
<1>. QED  BY <1>1, <1>2, <1>3, IdleType

(* Moving a thread on keeps its type.                                      *)
LEMMA GotoType ==
  ASSUME TypeOK, NEW w \in Workers, NEW pc \in Pcs, Goto(w, pc)
  PROVE  thread' \in [Workers -> Thread]
BY ThreadEdit DEF Goto, TypeOK

(* The entries the actions write.                                          *)
LEMMA StateEdit ==
  ASSUME NEW st \in State, NEW b \in BOOLEAN
  PROVE  /\ [st EXCEPT !.cancelled = b] \in State
         /\ [st EXCEPT !.executing = b] \in State
         /\ [st EXCEPT !.notify = b] \in State
         /\ [st EXCEPT !.manual = FALSE, !.executing = b] \in State
         /\ \A f \in Trees \cup {NoTree} : /\ [st EXCEPT !.frozen = f] \in State
                                         /\ [st EXCEPT !.manual = b, !.frozen = f] \in State
<1>1. [st EXCEPT !.cancelled = b] \in State /\ [st EXCEPT !.executing = b] \in State
  BY DEF State
<1>2. [st EXCEPT !.notify = b] \in State
  BY DEF State
<1>3. [st EXCEPT !.manual = FALSE, !.executing = b] \in State
  BY DEF State
<1>4. ASSUME NEW f \in Trees \cup {NoTree}
      PROVE  /\ [st EXCEPT !.frozen = f] \in State
             /\ [st EXCEPT !.manual = b, !.frozen = f] \in State
  BY DEF State
<1>. QED  BY <1>1, <1>2, <1>3, <1>4

(* After a crash the entry keeps the kind of the pause only.               *)
LEMMA IdleManual ==
  \A st \in State : [IdleState EXCEPT !.manual = st.manual] \in State
BY IdleType DEF State

(* Publishing keeps the types.                                             *)
LEMMA PublishType ==
  ASSUME TypeOK, NEW r \in Runs, Publish(r)
  PROVE  state' \in [Runs -> State] /\ notified' \subseteq Runs
<1>1. [state[r] EXCEPT !.notify = FALSE] \in State
  BY StateEdit DEF TypeOK
<1>2. state' = state \/ state' = [state EXCEPT ![r] = [@ EXCEPT !.notify = FALSE]]
  BY DEF Publish
<1>3. state' \in [Runs -> State]
  BY <1>1, <1>2 DEF TypeOK
<1>4. notified' \subseteq Runs
  BY DEF Publish, TypeOK
<1>. QED  BY <1>3, <1>4

(* A rejected input is an input.                                           *)
LEMMA RejectType == \A row \in Input : Reject(row) \in Input
BY DEF Reject, Input

(* A resolved input is an input.                                           *)
LEMMA SettleType ==
  \A row \in Input, v \in {"none", "approved", "rejected"} :
    [row EXCEPT !.status = "resolved", !.verdict = v] \in Input
BY DEF Input

(* A new interaction is an input.                                          *)
LEMMA NewInputType ==
  ASSUME TypeOK, NEW r \in Runs, NEW kind \in {"approval", "decision"}
  PROVE  NewInput(r, kind) \in Input
BY ConstantsOK DEF NewInput, Input, TypeOK, Ids, NoDeadline, ConstantsOK

(* The request a worker accepted.                                          *)
LEMMA KeyType == TypeOK => \A w \in Workers : /\ thread[w].key \in Keys \cup {NoKey}
                                             /\ thread[w].session \in Sessions \cup {Nobody}
BY DEF TypeOK, Thread

(* The worktree of a run that was started. *)
LEMMA RootType ==
  ASSUME IInv, NEW r \in Runs, status[r] # "none"
  PROVE  Root(r) \in Roots /\ tree[Root(r)] \in Trees
BY IInvParts DEF RowsOK, Root, ConstantsOK, TypeOK

(* The run of a thread that works on one.                                  *)
LEMMA ThreadRun ==
  ASSUME IInv, NEW w \in Workers, thread[w].pc \in RunPcs
  PROVE  /\ thread[w].run \in Runs /\ status[thread[w].run] # "none"
         /\ thread[w].session \in Sessions /\ owner[thread[w].run] = thread[w].session
BY IInvParts DEF ThreadsOK, RunPcs, TypeOK, Thread, Ids

(* What a resume that was admitted relies on.                               *)
LEMMA CommitRun ==
  ASSUME IInv, NEW w \in Workers, thread[w].pc = "commit"
  PROVE  /\ control[thread[w].session] = w /\ status[thread[w].run] = "waiting"
         /\ thread[w].run \in Runs /\ thread[w].input \in Pending(thread[w].run)
BY ThreadRun DEF IInv, CommitOK, RunPcs, Pcs

-----------------------------------------------------------------------------
LEMMA CancelType ==
  ASSUME TypeOK, NEW r \in Runs
  PROVE  state[r] \in State /\ [state[r] EXCEPT !.cancel = TRUE] \in State
<1>1. state[r] \in State
  BY DEF TypeOK
<1>2. \A st \in State : [st EXCEPT !.cancel = TRUE] \in State
  BY DEF State
<1>. QED  BY <1>1, <1>2

(* The actions in which a thread ends its run keep TypeOK.                 *)
LEMMA ThreadEndsType ==
  ASSUME IInv, NEW w \in Workers,
         \/ ResumeOverdue(w) \/ ResumeStale(w) \/ ResumeExpire(w)
         \/ BeginCancelled(w) \/ BeginBusy(w) \/ BeginStale(w) \/ DriveComplete(w)
         \/ DriveFail(w) \/ DriveStop(w) \/ PostExecute(w)
  PROVE  TypeOK'
<1>. DEFINE r == thread[w].run
<1>0. TypeOK /\ ThreadsOK /\ RowsOK /\ ConstantsOK
  BY ConstantsOK DEF IInv
<1>1. r \in Runs /\ owner[r] \in Sessions /\ Root(r) \in Roots
  <2>1. r \in Runs
    BY ThreadEndsRun DEF ThreadEnds
  <2>2. owner[r] \in Sessions
    BY <1>0, <2>1, NobodyElse DEF ThreadsOK, RowsOK
  <2>. QED  BY <1>0, <2>1, <2>2 DEF Root, ConstantsOK
<1>2. state[r] \in State /\ [state[r] EXCEPT !.cancel = TRUE] \in State
  BY <1>0, <1>1, CancelType
<1>3. \A t \in Thread, pc \in Pcs :
        /\ [t EXCEPT !.pc = pc] \in Thread
        /\ [t EXCEPT !.pc = pc, !.reserved = TRUE] \in Thread
        /\ [t EXCEPT !.pc = pc, !.raised = TRUE] \in Thread
  BY DEF Thread
<1>4. {"leave", "unlock", "release"} \subseteq Pcs
  BY DEF Pcs
<1>5. CASE ResumeOverdue(w)
  <2>1. RunsType' /\ spent' \in [requests : Nat, crashes : Nat, faults : Nat]
    BY <1>0, <1>1, <1>5, ExpireType, FinishFailsType, TimedOutExecutes
       DEF ResumeOverdue, TypeOK
  <2>. QED
    BY <1>0, <1>3, <1>4, <1>5, <2>1
       DEF ResumeOverdue, Goto, RunsType, TypeOK, lockVars
<1>6. CASE ResumeStale(w)
  <2>1. RunsType'
    BY <1>0, <1>1, <1>2, <1>6, FinishType DEF ResumeStale, Terminal
  <2>. QED
    BY <1>0, <1>1, <1>3, <1>4, <1>6, <2>1
       DEF ResumeStale, RunsType, TypeOK, worldVars
<1>7. CASE ResumeExpire(w)
  <2>1. RunsType'
    BY <1>0, <1>1, <1>7, ExpireType DEF ResumeExpire
  <2>. QED
    BY <1>0, <1>3, <1>4, <1>7, <2>1
       DEF ResumeExpire, Goto, RunsType, TypeOK, lockVars, worldVars
<1>8. CASE BeginCancelled(w) \/ BeginBusy(w) \/ DriveFail(w) \/ DriveStop(w)
  <2>1. RunsType' /\ spent' \in [requests : Nat, crashes : Nat, faults : Nat]
    BY <1>0, <1>1, <1>2, <1>8, FinishType, FinishFailsType
       DEF BeginCancelled, BeginBusy, DriveFail, DriveStop, FinishRaised,
           Terminal, TypeOK
  <2>2. \/ thread' = [thread EXCEPT ![w].pc = "leave"]
        \/ thread' = [thread EXCEPT ![w].pc = "leave", ![w].raised = TRUE]
    BY <1>8
       DEF BeginCancelled, BeginBusy, DriveFail, DriveStop, FinishRaised, Goto
  <2>3. thread' \in [Workers -> Thread]
    <3>1. [thread EXCEPT ![w].pc = "leave"] \in [Workers -> Thread]
      BY <1>0, <1>3, <1>4 DEF TypeOK
    <3>2. [thread EXCEPT ![w].pc = "leave", ![w].raised = TRUE] \in [Workers -> Thread]
      BY <1>0, <1>3, <1>4 DEF TypeOK
    <3>. QED  BY <2>2, <3>1, <3>2
  <2>. QED
    BY <1>0, <1>8, <2>1, <2>3
       DEF BeginCancelled, BeginBusy, DriveFail, DriveStop, FinishRaised,
           RunsType, TypeOK, lockVars
<1>9. CASE BeginStale(w) \/ DriveComplete(w)
  <2>1. RunsType'
    BY <1>0, <1>1, <1>2, <1>9, FinishType
       DEF BeginStale, DriveComplete, FinishInside, Terminal
  <2>2. thread' = [thread EXCEPT ![w].pc = "leave"]
    BY <1>9 DEF BeginStale, DriveComplete, FinishInside, Goto
  <2>3. thread' \in [Workers -> Thread]
    BY <1>0, <1>3, <1>4, <2>2 DEF TypeOK
  <2>. QED
    BY <1>0, <1>9, <2>1, <2>3
       DEF BeginStale, DriveComplete, FinishInside, RunsType, TypeOK,
           lockVars, worldVars
<1>10. CASE PostExecute(w)
  <2>1. RunsType'
    BY <1>0, <1>1, <1>2, <1>10, FinishType, ArmType, TimedOutExecutes
       DEF PostExecute, Terminal, RunsType, TypeOK, rowVars
  <2>. QED
    BY <1>0, <1>3, <1>4, <1>10, <2>1
       DEF PostExecute, Goto, RunsType, TypeOK, lockVars, worldVars
<1>. QED  BY <1>5, <1>6, <1>7, <1>8, <1>9, <1>10

(* The actions in which somebody else ends a run keep TypeOK.              *)
LEMMA OthersEndType ==
  ASSUME IInv, NEW r \in Runs,
         \/ \E w \in Workers : CloseRun(w, r)
         \/ Cancel(r) \/ ArmRestored(r)
         \/ SchedulerExpire /\ r = sched.run
  PROVE  TypeOK'
<1>0. TypeOK /\ RowsOK /\ ConstantsOK
  BY ConstantsOK DEF IInv
<1>1. state[r] \in State /\ [state[r] EXCEPT !.cancel = TRUE] \in State
  BY <1>0, CancelType
<1>2. CASE \E w \in Workers : CloseRun(w, r)
  <2>1. RunsType'
    BY <1>0, <1>1, <1>2, FinishType DEF CloseRun, Terminal
  <2>. QED
    BY <1>0, <1>2, <2>1 DEF CloseRun, RunsType, TypeOK, lockVars, worldVars
<1>3. CASE Cancel(r)
  <2>1. CASE EndsAtOnce(r)
    BY <1>0, <1>1, <1>3, <2>1, FinishType, FinishFailsType
       DEF Cancel, Terminal, RunsType, TypeOK, lockVars
  <2>2. CASE ~EndsAtOnce(r)
    <3>1. state' \in [Runs -> State]
      <4>1. state' = [state EXCEPT ![r] = [state[r] EXCEPT !.cancel = TRUE]]
        BY <1>3, <2>2 DEF Cancel
      <4>. QED  BY <1>0, <1>1, <4>1 DEF TypeOK
    <3>2. UNCHANGED <<rowVars, held, deadlines, before, after, spent, lockVars,
                      thread, sched, clock, tree, mode, notified>>
      BY <1>3, <2>2 DEF Cancel
    <3>. QED  BY <1>0, <3>1, <3>2 DEF TypeOK, rowVars, lockVars
  <2>. QED
    BY <2>1, <2>2
<1>4. CASE ArmRestored(r)
  <2>1. [TimedOut(r) EXCEPT !.notify = FALSE] \in State
    BY <1>0, TimedOutExecutes, StateEdit
  <2>2. RunsType' /\ notified' \subseteq Runs
    BY <1>0, <1>4, <2>1, FinishType, ArmType, SMTT(60)
       DEF ArmRestored, Terminal, RunsType, TypeOK, rowVars
  <2>. QED
    BY <1>0, <1>4, <2>2 DEF ArmRestored, RunsType, TypeOK, lockVars, worldVars
<1>5. CASE SchedulerExpire /\ r = sched.run
  <2>1. RunsType'
    BY <1>0, <1>5, ExpireType DEF SchedulerExpire
  <2>2. sched' \in [pc : {"idle", "expire", "notify"}, run : Ids]
    BY <1>0, <1>5 DEF SchedulerExpire, TypeOK, Ids
  <2>. QED
    BY <1>0, <1>5, <2>1, <2>2
       DEF SchedulerExpire, RunsType, TypeOK, lockVars, worldVars
<1>. QED  BY <1>2, <1>3, <1>4, <1>5

-----------------------------------------------------------------------------
(* Every step writes threads that are threads.                             *)
LEMMA ThreadTypeStep ==
  ASSUME IInv, Next
  PROVE  thread' \in [Workers -> Thread]
<1>1. ASSUME NEW w \in Workers, NEW s \in Sessions,
             NEW k \in Keys \cup {NoKey}, StartRequest(w, s, k)
      PROVE  thread' \in [Workers -> Thread]
  BY <1>1, IInvParts, RequestType DEF StartRequest, Ids, TypeOK
<1>2. ASSUME NEW w \in Workers, NEW r \in Runs, StartCreate(w, r)
      PROVE  thread' \in [Workers -> Thread]
  BY <1>2, IInvParts, ThreadEdit DEF StartCreate, Pcs, Ids, TypeOK
<1>3. ASSUME NEW w \in Workers, StartRefused(w)
      PROVE  thread' \in [Workers -> Thread]
  BY <1>3, GotoType, IInvParts DEF StartRefused, Pcs
<1>4. ASSUME NEW w \in Workers, NEW r \in Runs, NEW i \in Inputs,
             NEW accept \in BOOLEAN, ResumeRequest(w, r, i, accept)
      PROVE  thread' \in [Workers -> Thread]
  BY <1>4, IInvParts, RequestType DEF ResumeRequest, Ids, TypeOK
<1>5. ASSUME NEW w \in Workers, ResumeRefused(w)
      PROVE  thread' \in [Workers -> Thread]
  BY <1>5, IInvParts, ThreadEdit DEF ResumeRefused, Pcs, Noticed, Ids,
     TypeOK
<1>6. ASSUME NEW w \in Workers, ResumeAdmit(w)
      PROVE  thread' \in [Workers -> Thread]
  BY <1>6, IInvParts, ThreadEdit DEF ResumeAdmit, Pcs, CanReserve, TypeOK
<1>7. ASSUME NEW w \in Workers, ResumeCommit(w)
      PROVE  thread' \in [Workers -> Thread]
  BY <1>7, GotoType, IInvParts DEF ResumeCommit, Pcs
<1>8. ASSUME NEW w \in Workers, ResumeTooLate(w)
      PROVE  thread' \in [Workers -> Thread]
  BY <1>8, GotoType, IInvParts DEF ResumeTooLate, Pcs
<1>9. ASSUME NEW w \in Workers, ResumeInvalid(w)
      PROVE  thread' \in [Workers -> Thread]
  BY <1>9, GotoType, IInvParts DEF ResumeInvalid, Pcs
<1>10. ASSUME NEW w \in Workers, ResumeArm(w)
       PROVE  thread' \in [Workers -> Thread]
  BY <1>10, GotoType, IInvParts DEF ResumeArm, Pcs
<1>11. ASSUME NEW w \in Workers, ReserveWorktree(w)
       PROVE  thread' \in [Workers -> Thread]
  BY <1>11, IInvParts, ThreadEdit DEF ReserveWorktree, Pcs, CanReserve,
     TypeOK
<1>12. ASSUME NEW w \in Workers, Begin(w) PROVE thread' \in [Workers -> Thread]
  BY <1>12, GotoType, IInvParts DEF Begin, Pcs
<1>13. ASSUME NEW w \in Workers, DrivePause(w)
       PROVE  thread' \in [Workers -> Thread]
  BY <1>13, GotoType, IInvParts DEF DrivePause, Pcs
<1>14. ASSUME NEW w \in Workers, NEW new \in SUBSET Inputs,
              NEW kind \in {"approval", "decision"}, NEW manual \in BOOLEAN,
              WaitCommit(w, new, kind, manual)
       PROVE  thread' \in [Workers -> Thread]
  BY <1>14, GotoType, IInvParts DEF WaitCommit, Pcs
<1>15. ASSUME NEW w \in Workers, DriveReturn(w)
       PROVE  thread' \in [Workers -> Thread]
  BY <1>15, GotoType, IInvParts DEF DriveReturn, Pcs
<1>16. ASSUME NEW w \in Workers, LeaveWorktree(w)
       PROVE  thread' \in [Workers -> Thread]
  BY <1>16, IInvParts, ThreadEdit DEF LeaveWorktree, Pcs, CanReserve, TypeOK
<1>17. ASSUME NEW w \in Workers, StopExecuting(w)
       PROVE  thread' \in [Workers -> Thread]
  BY <1>17, GotoType, IInvParts DEF StopExecuting, Pcs
<1>18. ASSUME NEW w \in Workers, ReleaseWorktree(w)
       PROVE  thread' \in [Workers -> Thread]
  BY <1>18, IInvParts, ThreadEdit DEF ReleaseWorktree, Pcs, CanReserve,
     TypeOK
<1>19. ASSUME NEW w \in Workers, ReleaseLock(w)
       PROVE  thread' \in [Workers -> Thread]
  BY <1>19, IInvParts, ThreadEdit, IdleType DEF ReleaseLock, Pcs, TypeOK
<1>20. ASSUME NEW w \in Workers, NotifyTimeout(w)
       PROVE  thread' \in [Workers -> Thread]
  BY <1>20, IInvParts, IdleType DEF NotifyTimeout, TypeOK
<1>21. ASSUME NEW w \in Workers, NEW s \in Sessions, CloseRequest(w, s)
       PROVE  thread' \in [Workers -> Thread]
  BY <1>21, IInvParts, RequestType DEF CloseRequest, Ids, TypeOK
<1>22. ASSUME NEW w \in Workers, CloseDone(w)
       PROVE  thread' \in [Workers -> Thread]
  BY <1>22, GotoType, IInvParts DEF CloseDone, Pcs
<1>23. ASSUME Crash PROVE thread' \in [Workers -> Thread]
  BY <1>23, IInvParts, IdleType DEF Crash, TypeOK
<1>24. ASSUME NEW w \in Workers, Start(w) PROVE thread' \in [Workers -> Thread]
  BY <1>24, <1>1, <1>2, <1>3, IInvParts DEF Start, TypeOK
<1>25. ASSUME NEW w \in Workers, Resume(w) PROVE thread' \in [Workers -> Thread]
  BY <1>25, <1>4, <1>5, <1>6, <1>7, <1>8, <1>9, <1>10, ThreadEndsType,
     IInvParts DEF Resume, TypeOK
<1>26. ASSUME NEW w \in Workers, Execute(w)
       PROVE  thread' \in [Workers -> Thread]
  <2>1. Wait(w) => thread' \in [Workers -> Thread]
    BY <1>14 DEF Wait
  <2>2. DriveWrite(w)
          => UNCHANGED thread
    BY DEF DriveWrite, rowVars, lockVars, worldVars
  <2>. QED
    BY <1>26, <1>11, <1>12, <1>13, <1>15, <1>16, <1>17, <1>18, <1>19, <1>20,
       ThreadEndsType, <2>1, <2>2, IInvParts DEF Execute, TypeOK
<1>27. ASSUME NEW w \in Workers, Close(w) PROVE thread' \in [Workers -> Thread]
  BY <1>27, <1>21, <1>22, OthersEndType, IInvParts DEF Close, TypeOK
<1>28. ASSUME Scheduler PROVE thread' \in [Workers -> Thread]
  <2>1. SchedulerExpire => sched.run \in Runs
    BY DEF SchedulerExpire, IInv, SchedOK, TypeOK, Ids
  <2>2. (\E r \in Runs : SchedulerPop(r)) \/ SchedulerRetry \/
        SchedulerNotify
          => UNCHANGED thread
    BY DEF SchedulerPop, SchedulerRetry, SchedulerNotify, rowVars, lockVars,
       worldVars
  <2>. QED
    BY <1>28, OthersEndType, <2>1, <2>2, IInvParts DEF Scheduler, TypeOK
<1>29. ASSUME Restart PROVE thread' \in [Workers -> Thread]
  <2>1. (\E r \in Runs, ids \in SUBSET Inputs : \E reissue \in [ids ->
        Inputs] : Restore(r, reissue)) \/ Recover \/ Serve
          => UNCHANGED thread
    BY DEF Restore, Recover, Serve, rowVars, lockVars, worldVars
  <2>. QED
    BY <1>29, <1>23, OthersEndType, <2>1, IInvParts DEF Restart, TypeOK
<1>. QED
  BY <1>24, <1>25, <1>26, <1>27, <1>28, <1>29, OthersEndType, IInvParts DEF
     Next, TypeOK, Tick, OutsideEdit, rowVars, lockVars, worldVars

(* Every step writes entries that are entries.                             *)
LEMMA StateTypeStep ==
  ASSUME IInv, Next
  PROVE  state' \in [Runs -> State]
<1>1. ASSUME NEW w \in Workers, NEW r \in Runs, StartCreate(w, r)
      PROVE  state' \in [Runs -> State]
  BY <1>1, IInvParts DEF StartCreate, IdleState, State, Trees, TypeOK
<1>2. ASSUME NEW w \in Workers, ResumeCommit(w) PROVE state' \in [Runs -> State]
  BY <1>2, IInvParts, StateEdit, ThreadRun DEF ResumeCommit, Answered,
     TypeOK
<1>3. ASSUME NEW w \in Workers, ResumeTooLate(w)
      PROVE  state' \in [Runs -> State]
  BY <1>3, IInvParts, StateEdit DEF ResumeTooLate, Answered, TypeOK
<1>4. ASSUME NEW w \in Workers, Begin(w) PROVE state' \in [Runs -> State]
  BY <1>4, IInvParts, StateEdit DEF Begin, TypeOK
<1>5. ASSUME NEW w \in Workers, NEW new \in SUBSET Inputs,
             NEW kind \in {"approval", "decision"}, NEW manual \in BOOLEAN,
             WaitCommit(w, new, kind, manual)
      PROVE  state' \in [Runs -> State]
  <2>1. thread[w].run \in Runs /\ tree[Root(thread[w].run)] \in Trees
    BY <1>5, ThreadRun, RootType DEF WaitCommit, At, RunPcs, Pcs
  <2>2. state' = [state EXCEPT ![thread[w].run] = [@ EXCEPT
                    !.manual = manual, !.frozen = tree[Root(thread[w].run)]]]
    BY <1>5 DEF WaitCommit
  <2>. QED  BY <2>1, <2>2, IInvParts, StateEdit DEF TypeOK
<1>6. ASSUME NEW w \in Workers, StopExecuting(w)
      PROVE  state' \in [Runs -> State]
  BY <1>6, IInvParts, StateEdit DEF StopExecuting, TypeOK
<1>7. ASSUME NEW w \in Workers, NotifyTimeout(w)
      PROVE  state' \in [Runs -> State]
  BY <1>7, IInvParts, PublishType, ThreadRun DEF NotifyTimeout, RunPcs, Pcs
<1>8. ASSUME SchedulerRetry PROVE state' \in [Runs -> State]
  BY <1>8, IInvParts, TimedOutExecutes DEF SchedulerRetry, TypeOK, SchedOK,
     Ids
<1>9. ASSUME SchedulerNotify PROVE state' \in [Runs -> State]
  BY <1>9, IInvParts, PublishType DEF SchedulerNotify, SchedOK, TypeOK, Ids
<1>10. ASSUME Crash PROVE state' \in [Runs -> State]
  BY <1>10, IInvParts, IdleType, IdleManual DEF Crash, TypeOK
<1>11. ASSUME NEW r \in Runs, NEW ids \in SUBSET Inputs,
              NEW reissue \in [ids -> Inputs], Restore(r, reissue)
       PROVE  state' \in [Runs -> State]
  BY <1>11, IInvParts, StateEdit, RootType DEF Restore, TypeOK
<1>12. ASSUME NEW w \in Workers, Start(w) PROVE state' \in [Runs -> State]
  <2>1. (\E s \in Sessions, k \in Keys \cup {NoKey} : StartRequest(w, s, k))
        \/ StartRefused(w)
          => UNCHANGED state
    BY DEF StartRequest, Accept, StartRefused, rowVars, lockVars, worldVars
  <2>. QED
    BY <1>12, <1>1, <2>1, IInvParts DEF Start, TypeOK
<1>13. ASSUME NEW w \in Workers, Resume(w) PROVE state' \in [Runs -> State]
  <2>1. (\E r \in Runs, i \in Inputs, accept \in BOOLEAN : ResumeRequest(w,
        r, i, accept)) \/ ResumeRefused(w) \/ ResumeAdmit(w) \/
        ResumeInvalid(w) \/ ResumeArm(w)
          => UNCHANGED state
    BY DEF ResumeRequest, Accept, ResumeRefused, ResumeAdmit, ResumeInvalid,
       ResumeArm, rowVars, lockVars, worldVars
  <2>. QED
    BY <1>13, <1>2, <1>3, ThreadEndsType, <2>1, IInvParts DEF Resume, TypeOK
<1>14. ASSUME NEW w \in Workers, Execute(w) PROVE state' \in [Runs -> State]
  <2>1. Wait(w) => state' \in [Runs -> State]
    BY <1>5 DEF Wait
  <2>2. ReserveWorktree(w) \/ DriveWrite(w) \/ DrivePause(w) \/
        DriveReturn(w) \/ LeaveWorktree(w) \/ ReleaseWorktree(w) \/
        ReleaseLock(w)
          => UNCHANGED state
    BY DEF ReserveWorktree, DriveWrite, DrivePause, DriveReturn,
       LeaveWorktree, ReleaseWorktree, ReleaseLock, rowVars, lockVars,
       worldVars
  <2>. QED
    BY <1>14, <1>4, <1>6, <1>7, ThreadEndsType, <2>1, <2>2, IInvParts DEF
       Execute, TypeOK
<1>15. ASSUME NEW w \in Workers, Close(w) PROVE state' \in [Runs -> State]
  <2>1. (\E s \in Sessions : CloseRequest(w, s)) \/ CloseDone(w)
          => UNCHANGED state
    BY DEF CloseRequest, Accept, CloseDone, rowVars, lockVars, worldVars
  <2>. QED
    BY <1>15, OthersEndType, <2>1, IInvParts DEF Close, TypeOK
<1>16. ASSUME Scheduler PROVE state' \in [Runs -> State]
  <2>1. SchedulerExpire => sched.run \in Runs
    BY DEF SchedulerExpire, IInv, SchedOK, TypeOK, Ids
  <2>2. (\E r \in Runs : SchedulerPop(r))
          => UNCHANGED state
    BY DEF SchedulerPop, rowVars, lockVars, worldVars
  <2>. QED
    BY <1>16, <1>8, <1>9, OthersEndType, <2>1, <2>2, IInvParts DEF Scheduler,
       TypeOK
<1>17. ASSUME Restart PROVE state' \in [Runs -> State]
  <2>1. Recover \/ Serve
          => UNCHANGED state
    BY DEF Recover, Serve, rowVars, lockVars, worldVars
  <2>. QED
    BY <1>17, <1>10, <1>11, OthersEndType, <2>1, IInvParts DEF Restart, TypeOK
<1>. QED
  BY <1>12, <1>13, <1>14, <1>15, <1>16, <1>17, OthersEndType, IInvParts DEF
     Next, TypeOK, Tick, OutsideEdit, rowVars, lockVars, worldVars

(* Every step writes rows that are rows.                                   *)
LEMMA RowsTypeStep ==
  ASSUME IInv, Next
  PROVE  RowsType'
<1>1. ASSUME NEW w \in Workers, NEW r \in Runs, StartCreate(w, r)
      PROVE  RowsType'
  BY <1>1, IInvParts, KeyType DEF StartCreate, RowsType, TypeOK, Live
<1>2. ASSUME NEW w \in Workers, ResumeCommit(w) PROVE RowsType'
  BY <1>2, IInvParts, SettleType DEF ResumeCommit, RowsType, TypeOK, Live,
     Trees
<1>3. ASSUME NEW w \in Workers, NEW new \in SUBSET Inputs,
             NEW kind \in {"approval", "decision"}, NEW manual \in BOOLEAN,
             WaitCommit(w, new, kind, manual)
      PROVE  RowsType'
  <2>1. \A i \in new : NewInput(thread[w].run, kind) \in Input
    BY IInvParts, ThreadRun, NewInputType, <1>3 DEF WaitCommit, At, RunPcs, Pcs
  <2>2. tree[Root(thread[w].run)] \in Trees
    BY <1>3, ThreadRun, RootType DEF WaitCommit, At, RunPcs, Pcs
  <2>3. input' \in [Inputs -> Input]
    BY <1>3, <2>1, IInvParts DEF WaitCommit, TypeOK
  <2>4. saved' \in [Runs -> Trees \cup {NoTree}]
    BY <1>3, <2>2, IInvParts DEF WaitCommit, TypeOK
  <2>5. status' \in [Runs -> {"none"} \cup Live \cup Terminal]
    BY <1>3, IInvParts DEF WaitCommit, TypeOK, Live
  <2>. QED
    BY <1>3, <2>3, <2>4, <2>5, IInvParts DEF WaitCommit, RowsType, TypeOK
<1>4. ASSUME NEW r \in Runs, NEW ids \in SUBSET Inputs,
             NEW reissue \in [ids -> Inputs], Restore(r, reissue)
      PROVE  RowsType'
  BY <1>4, IInvParts, RestoreInputs DEF Restore, RowsType, TypeOK
<1>5. ASSUME Recover PROVE RowsType'
  BY <1>5, IInvParts, RejectType DEF Recover, RowsType, TypeOK, Terminal
<1>6. ASSUME NEW w \in Workers, Start(w) PROVE RowsType'
  <2>1. (\E s \in Sessions, k \in Keys \cup {NoKey} : StartRequest(w, s, k))
        \/ StartRefused(w)
          => UNCHANGED rowVars
    BY DEF StartRequest, Accept, StartRefused, rowVars, lockVars, worldVars
  <2>. QED
    BY <1>6, <1>1, <2>1, IInvParts DEF Start, TypeOK, RowsType, rowVars
<1>7. ASSUME NEW w \in Workers, Resume(w) PROVE RowsType'
  <2>1. (\E r \in Runs, i \in Inputs, accept \in BOOLEAN : ResumeRequest(w,
        r, i, accept)) \/ ResumeRefused(w) \/ ResumeAdmit(w) \/
        ResumeTooLate(w) \/ ResumeInvalid(w) \/ ResumeArm(w)
          => UNCHANGED rowVars
    BY DEF ResumeRequest, Accept, ResumeRefused, ResumeAdmit, ResumeTooLate,
       ResumeInvalid, ResumeArm, rowVars, lockVars, worldVars
  <2>. QED
    BY <1>7, <1>2, ThreadEndsType, <2>1, IInvParts DEF Resume, TypeOK,
       RowsType, rowVars
<1>8. ASSUME NEW w \in Workers, Execute(w) PROVE RowsType'
  <2>1. Wait(w) => RowsType'
    BY <1>3 DEF Wait
  <2>2. ReserveWorktree(w) \/ Begin(w) \/ DriveWrite(w) \/ DrivePause(w) \/
        DriveReturn(w) \/ LeaveWorktree(w) \/ StopExecuting(w) \/
        ReleaseWorktree(w) \/ ReleaseLock(w) \/ NotifyTimeout(w)
          => UNCHANGED rowVars
    BY DEF ReserveWorktree, Begin, DriveWrite, DrivePause, DriveReturn,
       LeaveWorktree, StopExecuting, ReleaseWorktree, ReleaseLock,
       NotifyTimeout, rowVars, lockVars, worldVars
  <2>. QED
    BY <1>8, ThreadEndsType, <2>1, <2>2, IInvParts DEF Execute, TypeOK,
       RowsType, rowVars
<1>9. ASSUME NEW w \in Workers, Close(w) PROVE RowsType'
  <2>1. (\E s \in Sessions : CloseRequest(w, s)) \/ CloseDone(w)
          => UNCHANGED rowVars
    BY DEF CloseRequest, Accept, CloseDone, rowVars, lockVars, worldVars
  <2>. QED
    BY <1>9, OthersEndType, <2>1, IInvParts DEF Close, TypeOK, RowsType,
       rowVars
<1>10. ASSUME Scheduler PROVE RowsType'
  <2>1. SchedulerExpire => sched.run \in Runs
    BY DEF SchedulerExpire, IInv, SchedOK, TypeOK, Ids
  <2>2. (\E r \in Runs : SchedulerPop(r)) \/ SchedulerRetry \/
        SchedulerNotify
          => UNCHANGED rowVars
    BY DEF SchedulerPop, SchedulerRetry, SchedulerNotify, rowVars, lockVars,
       worldVars
  <2>. QED
    BY <1>10, OthersEndType, <2>1, <2>2, IInvParts DEF Scheduler, TypeOK,
       RowsType, rowVars
<1>11. ASSUME Restart PROVE RowsType'
  <2>1. Crash \/ Serve
          => UNCHANGED rowVars
    BY DEF Crash, Serve, rowVars, lockVars, worldVars
  <2>. QED
    BY <1>11, <1>4, <1>5, OthersEndType, <2>1, IInvParts DEF Restart, TypeOK,
       RowsType, rowVars
<1>. QED
  BY <1>6, <1>7, <1>8, <1>9, <1>10, <1>11, OthersEndType, IInvParts DEF
     Next, TypeOK, RowsType, rowVars, Tick, OutsideEdit, lockVars, worldVars

(* Locks, deadlines, clock and worktrees keep their types.                 *)
LEMMA RestTypeStep ==
  ASSUME IInv, Next
  PROVE  RestType'
<1>1. ASSUME NEW w \in Workers, NEW s \in Sessions,
             NEW k \in Keys \cup {NoKey}, StartRequest(w, s, k)
      PROVE  RestType'
  BY <1>1, IInvParts DEF StartRequest, Accept, RestType, TypeOK, rowVars,
     lockVars, worldVars
<1>2. ASSUME NEW w \in Workers, NEW r \in Runs, StartCreate(w, r)
      PROVE  RestType'
  BY <1>2, IInvParts DEF StartCreate, RestType, TypeOK, rowVars, lockVars,
     worldVars
<1>3. ASSUME NEW w \in Workers, NEW r \in Runs, NEW i \in Inputs,
             NEW accept \in BOOLEAN, ResumeRequest(w, r, i, accept)
      PROVE  RestType'
  BY <1>3, IInvParts DEF ResumeRequest, Accept, RowsOK, RestType, TypeOK,
     rowVars, lockVars, worldVars
<1>4. ASSUME NEW w \in Workers, ResumeAdmit(w) PROVE RestType'
  <2>1. Root(thread[w].run) \in Roots
    BY <1>4, ThreadRun, RootType DEF ResumeAdmit, Admissible, Admit, RunPcs, Pcs
  <2>. QED
    BY <1>4, <2>1, IInvParts DEF ResumeAdmit, RestType, TypeOK, rowVars,
       lockVars, worldVars
<1>5. ASSUME NEW w \in Workers, ResumeCommit(w) PROVE RestType'
  BY <1>5, IInvParts DEF ResumeCommit, RestType, TypeOK, rowVars, lockVars,
     worldVars
<1>6. ASSUME NEW w \in Workers, ResumeTooLate(w) PROVE RestType'
  BY <1>6, IInvParts DEF ResumeTooLate, RestType, TypeOK, rowVars, lockVars,
     worldVars
<1>7. ASSUME NEW w \in Workers, ResumeInvalid(w) PROVE RestType'
  BY <1>7, IInvParts DEF ResumeInvalid, RestType, TypeOK, rowVars, lockVars,
     worldVars
<1>8. ASSUME NEW w \in Workers, ResumeArm(w) PROVE RestType'
  <2>1. deadlines' \in [Runs -> Nat]
    BY <1>8, ThreadRun, ArmType, IInvParts DEF ResumeArm, RunPcs, Pcs
  <2>. QED
    BY <1>8, <2>1, IInvParts DEF ResumeArm, RestType, TypeOK, rowVars,
       lockVars, worldVars
<1>9. ASSUME NEW w \in Workers, ReserveWorktree(w) PROVE RestType'
  <2>1. RootOf[thread[w].session] \in Roots
    BY <1>9, ThreadRun, IInvParts DEF ReserveWorktree, At, RunPcs, Pcs,
       ConstantsOK
  <2>. QED
    BY <1>9, <2>1, IInvParts DEF ReserveWorktree, RestType, TypeOK, rowVars,
       lockVars, worldVars
<1>10. ASSUME NEW w \in Workers, Begin(w) PROVE RestType'
  <2>1. Root(thread[w].run) \in Roots /\ thread[w].run \in Runs
        /\ tree[Root(thread[w].run)] \in Trees
    BY <1>10, ThreadRun, RootType DEF Begin, At, RunPcs, Pcs
  <2>. QED
    BY <1>10, <2>1, IInvParts DEF Begin, RestType, TypeOK, rowVars, lockVars,
       worldVars
<1>11. ASSUME NEW w \in Workers, DriveWrite(w) PROVE RestType'
  <2>1. Root(thread[w].run) \in Roots /\ thread[w].run \in Runs
        /\ tree[Root(thread[w].run)] \in Trees
    BY <1>11, ThreadRun, RootType DEF DriveWrite, At, RunPcs, Pcs
  <2>. QED
    BY <1>11, <2>1, IInvParts DEF DriveWrite, RestType, TypeOK, rowVars,
       lockVars, worldVars, Trees
<1>12. ASSUME NEW w \in Workers, NEW new \in SUBSET Inputs,
              NEW kind \in {"approval", "decision"}, NEW manual \in BOOLEAN,
              WaitCommit(w, new, kind, manual)
       PROVE  RestType'
  <2>1. Root(thread[w].run) \in Roots /\ thread[w].run \in Runs
        /\ tree[Root(thread[w].run)] \in Trees
    BY <1>12, ThreadRun, RootType DEF WaitCommit, At, RunPcs, Pcs
  <2>. QED
    BY <1>12, <2>1, IInvParts DEF WaitCommit, RestType, TypeOK, rowVars,
       lockVars, worldVars
<1>13. ASSUME NEW w \in Workers, LeaveWorktree(w) PROVE RestType'
  BY <1>13, IInvParts DEF LeaveWorktree, RestType, TypeOK, rowVars,
     lockVars, worldVars
<1>14. ASSUME NEW w \in Workers, ReleaseWorktree(w) PROVE RestType'
  BY <1>14, IInvParts DEF ReleaseWorktree, RestType, TypeOK, rowVars,
     lockVars, worldVars
<1>15. ASSUME NEW w \in Workers, ReleaseLock(w) PROVE RestType'
  BY <1>15, IInvParts DEF ReleaseLock, RestType, TypeOK, rowVars, lockVars,
     worldVars
<1>16. ASSUME NEW w \in Workers, NotifyTimeout(w) PROVE RestType'
  <2>1. notified' \subseteq Runs
    BY <1>16, ThreadRun, PublishType, IInvParts DEF NotifyTimeout, RunPcs, Pcs
  <2>. QED
    BY <1>16, <2>1, IInvParts DEF NotifyTimeout, RestType, TypeOK, rowVars,
       lockVars, worldVars
<1>17. ASSUME NEW w \in Workers, NEW s \in Sessions, CloseRequest(w, s)
       PROVE  RestType'
  BY <1>17, IInvParts DEF CloseRequest, Accept, RestType, TypeOK, rowVars,
     lockVars, worldVars
<1>18. ASSUME NEW r \in Runs, SchedulerPop(r) PROVE RestType'
  BY <1>18, IInvParts DEF SchedulerPop, NoDeadline, Ids, ConstantsOK,
     RestType, TypeOK, rowVars, lockVars, worldVars
<1>19. ASSUME SchedulerRetry PROVE RestType'
  <2>1. sched' \in [pc : {"idle", "expire", "notify"}, run : Ids]
    BY <1>19 DEF SchedulerRetry, Ids
  <2>0. deadlines' \in [Runs -> Nat]
    <3>1. clock + 1 \in Nat /\ deadlines \in [Runs -> Nat]
      BY IInvParts DEF TypeOK
    <3>2. deadlines' = [deadlines EXCEPT ![sched.run] = clock + 1]
      BY <1>19 DEF SchedulerRetry
    <3>. QED  BY <3>1, <3>2
  <2>2. spent' \in [requests : Nat, crashes : Nat, faults : Nat]
    BY <1>19, IInvParts DEF SchedulerRetry, TypeOK
  <2>. QED
    BY <1>19, <2>0, <2>1, <2>2, IInvParts DEF SchedulerRetry, RestType,
       TypeOK, rowVars, lockVars, worldVars
<1>20. ASSUME SchedulerNotify PROVE RestType'
  <2>1. notified' \subseteq Runs
    BY <1>20, PublishType, IInvParts DEF SchedulerNotify, SchedOK, TypeOK, Ids
  <2>. QED
    BY <1>20, <2>1, IInvParts DEF SchedulerNotify, Ids, RestType, TypeOK,
       rowVars, lockVars, worldVars
<1>21. ASSUME Crash PROVE RestType'
  BY <1>21, IInvParts DEF Crash, NoDeadline, Ids, ConstantsOK, RestType,
     TypeOK, rowVars, lockVars, worldVars
<1>22. ASSUME NEW r \in Runs, NEW ids \in SUBSET Inputs,
              NEW reissue \in [ids -> Inputs], Restore(r, reissue)
       PROVE  RestType'
  BY <1>22, IInvParts DEF Restore, RestType, TypeOK, rowVars, lockVars,
     worldVars
<1>23. ASSUME Recover PROVE RestType'
  BY <1>23, IInvParts DEF Recover, RestType, TypeOK, rowVars, lockVars,
     worldVars
<1>24. ASSUME Serve PROVE RestType'
  BY <1>24, IInvParts DEF Serve, RestType, TypeOK, rowVars, lockVars,
     worldVars
<1>25. ASSUME Tick PROVE RestType'
  BY <1>25, IInvParts DEF Tick, RestType, TypeOK, rowVars, lockVars,
     worldVars
<1>26. ASSUME NEW root \in Roots, OutsideEdit(root) PROVE RestType'
  BY <1>26, IInvParts DEF OutsideEdit, Trees, RestType, TypeOK, rowVars,
     lockVars, worldVars
<1>27. ASSUME NEW w \in Workers, Start(w) PROVE RestType'
  <2>1. StartRefused(w)
          => UNCHANGED <<held, lockVars, deadlines, sched, worldVars, before, after,
                        notified>>
    BY DEF StartRefused, rowVars, lockVars, worldVars
  <2>. QED
    BY <1>27, <1>1, <1>2, <2>1, IInvParts DEF Start, TypeOK, RestType,
       lockVars, worldVars
<1>28. ASSUME NEW w \in Workers, Resume(w) PROVE RestType'
  <2>1. ResumeRefused(w)
          => UNCHANGED <<held, lockVars, deadlines, sched, worldVars, before, after,
                        notified>>
    BY DEF ResumeRefused, rowVars, lockVars, worldVars
  <2>. QED
    BY <1>28, <1>3, <1>4, <1>5, <1>6, <1>7, <1>8, ThreadEndsType, <2>1,
       IInvParts DEF Resume, TypeOK, RestType, lockVars, worldVars
<1>29. ASSUME NEW w \in Workers, Execute(w) PROVE RestType'
  <2>1. Wait(w) => RestType'
    BY <1>12 DEF Wait
  <2>2. DrivePause(w) \/ DriveReturn(w) \/ StopExecuting(w)
          => UNCHANGED <<held, lockVars, deadlines, sched, worldVars, before, after,
                        notified>>
    BY DEF DrivePause, DriveReturn, StopExecuting, rowVars, lockVars,
       worldVars
  <2>. QED
    BY <1>29, <1>9, <1>10, <1>11, <1>13, <1>14, <1>15, <1>16, ThreadEndsType,
       <2>1, <2>2, IInvParts DEF Execute, TypeOK, RestType, lockVars,
       worldVars
<1>30. ASSUME NEW w \in Workers, Close(w) PROVE RestType'
  <2>1. CloseDone(w)
          => UNCHANGED <<held, lockVars, deadlines, sched, worldVars, before, after,
                        notified>>
    BY DEF CloseDone, rowVars, lockVars, worldVars
  <2>. QED
    BY <1>30, <1>17, OthersEndType, <2>1, IInvParts DEF Close, TypeOK,
       RestType, lockVars, worldVars
<1>31. ASSUME Scheduler PROVE RestType'
  <2>1. SchedulerExpire => sched.run \in Runs
    BY DEF SchedulerExpire, IInv, SchedOK, TypeOK, Ids
  <2>. QED
    BY <1>31, <1>18, <1>19, <1>20, OthersEndType, <2>1, IInvParts DEF
       Scheduler, TypeOK, RestType, lockVars, worldVars
<1>32. ASSUME Restart PROVE RestType'
  BY <1>32, <1>21, <1>22, <1>23, <1>24, OthersEndType, IInvParts DEF
     Restart, TypeOK, RestType, lockVars, worldVars
<1>. QED
  BY <1>27, <1>28, <1>29, <1>30, <1>31, <1>32, <1>25, <1>26, OthersEndType,
     IInvParts DEF Next, TypeOK, RestType, lockVars, worldVars

(* Every step keeps TypeOK.                                                *)
LEMMA TypeOKStep ==
  ASSUME IInv, Next
  PROVE  TypeOK'
BY ThreadTypeStep, StateTypeStep, RowsTypeStep, RestTypeStep
   DEF TypeOK, RowsType, RestType

-----------------------------------------------------------------------------
(***************************************************************************)
(* Every step of WorkflowSession keeps the conjuncts of IInv: one lemma    *)
(* for each.  ThreadEnds and OthersEnd stand for the fourteen actions that *)
(* can end a run.                                                          *)
(***************************************************************************)
(* The ApprovalManager thread keeps a run while it expires one.            *)
LEMMA SchedOKStep ==
  ASSUME IInv, Next
  PROVE  SchedOK'
<1>1. ASSUME NEW w \in Workers, ThreadEnds(w) PROVE SchedOK'
  BY <1>1, NobodyElse DEF ThreadEnds, Ends, IInv, TypeOK, Live, Terminal,
     Pcs, Thread, Ids, SchedOK
<1>2. ASSUME NEW r \in Runs, OthersEnd(r) PROVE SchedOK'
  BY <1>2, NobodyElse DEF OthersEnd, Ends, IInv, TypeOK, Live, Terminal,
     Pcs, Thread, Ids, SchedOK
<1>3. ASSUME NEW r \in Runs, SchedulerPop(r) PROVE SchedOK'
  BY <1>3, NobodyElse DEF SchedulerPop, rowVars, lockVars, worldVars, IInv,
     TypeOK, Live, Terminal, Pcs, Thread, Ids, SchedOK
<1>4. ASSUME SchedulerRetry PROVE SchedOK'
  BY <1>4, NobodyElse DEF SchedulerRetry, ControlFree, rowVars, lockVars,
     worldVars, IInv, TypeOK, Live, Terminal, Pcs, Thread, Ids, SchedOK
<1>5. ASSUME SchedulerNotify PROVE SchedOK'
  BY <1>5, NobodyElse DEF SchedulerNotify, Publish, ControlFree, rowVars,
     lockVars, worldVars, IInv, TypeOK, Live, Terminal, Pcs, Thread, Ids,
     SchedOK
<1>6. ASSUME Crash PROVE SchedOK'
  BY <1>6, NobodyElse DEF Crash, IdleState, IdleThread, rowVars, lockVars,
     worldVars, IInv, TypeOK, Live, Terminal, Pcs, Thread, Ids, SchedOK
<1>7. ASSUME NEW w \in Workers, Start(w) PROVE SchedOK'
  <2>1. (\E s \in Sessions, k \in Keys \cup {NoKey} : StartRequest(w, s, k))
        \/ (\E r \in Runs : StartCreate(w, r)) \/ StartRefused(w)
          => UNCHANGED sched
    BY DEF StartRequest, Accept, StartCreate, StartRefused, rowVars, lockVars,
       worldVars
  <2>. QED
    BY <1>7, <2>1, IInvParts DEF Start, SchedOK, IInv
<1>8. ASSUME NEW w \in Workers, Resume(w) PROVE SchedOK'
  <2>1. (\E r \in Runs, i \in Inputs, accept \in BOOLEAN : ResumeRequest(w,
        r, i, accept)) \/ ResumeRefused(w) \/ ResumeAdmit(w) \/
        ResumeCommit(w) \/ ResumeTooLate(w) \/ ResumeInvalid(w) \/
        ResumeArm(w)
          => UNCHANGED sched
    BY DEF ResumeRequest, Accept, ResumeRefused, ResumeAdmit, ResumeCommit,
       ResumeTooLate, ResumeInvalid, ResumeArm, rowVars, lockVars, worldVars
  <2>. QED
    BY <1>8, <1>1, ThreadEndsRun, <2>1, IInvParts DEF Resume, SchedOK, IInv
<1>9. ASSUME NEW w \in Workers, Execute(w) PROVE SchedOK'
  <2>1. ReserveWorktree(w) \/ Begin(w) \/ DriveWrite(w) \/ DrivePause(w) \/
        Wait(w) \/ DriveReturn(w) \/ LeaveWorktree(w) \/
        StopExecuting(w) \/ ReleaseWorktree(w) \/ ReleaseLock(w) \/
        NotifyTimeout(w)
          => UNCHANGED sched
    BY DEF ReserveWorktree, Begin, DriveWrite, DrivePause, WaitCommit,
       DriveReturn, LeaveWorktree, StopExecuting, ReleaseWorktree,
       ReleaseLock, NotifyTimeout, Wait, rowVars, lockVars, worldVars
  <2>. QED
    BY <1>9, <1>1, ThreadEndsRun, <2>1, IInvParts DEF Execute, SchedOK, IInv
<1>10. ASSUME NEW w \in Workers, Close(w) PROVE SchedOK'
  <2>1. (\E s \in Sessions : CloseRequest(w, s)) \/ CloseDone(w)
          => UNCHANGED sched
    BY DEF CloseRequest, Accept, CloseDone, rowVars, lockVars, worldVars
  <2>. QED
    BY <1>10, <1>2, OthersEndRun, <2>1, IInvParts DEF Close, SchedOK, IInv
<1>11. ASSUME Scheduler PROVE SchedOK'
  <2>1. SchedulerExpire => sched.run \in Runs
    BY DEF SchedulerExpire, IInv, SchedOK, TypeOK, Ids
  <2>. QED
    BY <1>11, <1>3, <1>4, <1>5, <1>2, OthersEndRun, <2>1, IInvParts DEF
       Scheduler, SchedOK, IInv
<1>12. ASSUME Restart PROVE SchedOK'
  <2>1. (\E r \in Runs, ids \in SUBSET Inputs : \E reissue \in [ids ->
        Inputs] : Restore(r, reissue)) \/ Recover \/ Serve
          => UNCHANGED sched
    BY DEF Restore, Recover, Serve, rowVars, lockVars, worldVars
  <2>. QED
    BY <1>12, <1>6, <1>2, OthersEndRun, <2>1, IInvParts DEF Restart, SchedOK,
       IInv
<1>. QED
  BY <1>7, <1>8, <1>9, <1>10, <1>11, <1>12, <1>2, OthersEndRun, IInvParts
     DEF Next, SchedOK, IInv, Tick, OutsideEdit, rowVars, lockVars,
     worldVars

(* A thread keeps its lock and its run along the way.                      *)
LEMMA ThreadsOKStep ==
  ASSUME IInv, Next
  PROVE  ThreadsOK'
<1>1. ASSUME NEW w \in Workers, ThreadEnds(w) PROVE ThreadsOK'
  <2>1. \A r \in Runs : status[r] # "none" => status'[r] # "none"
    BY <1>1 DEF ThreadEnds, Ends, Terminal
  <2>. QED
    BY <1>1, <2>1, NobodyElse, SMTT(60) DEF ThreadEnds, Ends, IInv, TypeOK, Live,
       Terminal, Pcs, Thread, Ids, ThreadsOK, LockPcs, RunPcs, ExecPcs,
       HeldOK, RowsOK
<1>2. ASSUME NEW r \in Runs, OthersEnd(r) PROVE ThreadsOK'
  BY <1>2, NobodyElse DEF OthersEnd, Ends, IInv, TypeOK, Live, Terminal,
     Pcs, Thread, Ids, ThreadsOK, LockPcs, RunPcs, ExecPcs, HeldOK, RowsOK
<1>3. ASSUME NEW w \in Workers, NEW s \in Sessions,
             NEW k \in Keys \cup {NoKey}, StartRequest(w, s, k)
      PROVE  ThreadsOK'
  BY <1>3, NobodyElse DEF StartRequest, Accept, IdleThread, rowVars,
     lockVars, worldVars, IInv, TypeOK, Live, Terminal, Pcs, Thread, Ids,
     ThreadsOK, LockPcs, RunPcs, ExecPcs, HeldOK, RowsOK
<1>4. ASSUME NEW w \in Workers, NEW r \in Runs, StartCreate(w, r)
      PROVE  ThreadsOK'
  BY <1>4, NobodyElse DEF StartCreate, ControlFree, IdleState, MayCreate,
     rowVars, lockVars, worldVars, IInv, TypeOK, Live, Terminal, Pcs,
     Thread, Ids, ThreadsOK, LockPcs, RunPcs, ExecPcs, HeldOK, RowsOK
<1>5. ASSUME NEW w \in Workers, StartRefused(w) PROVE ThreadsOK'
  BY <1>5, NobodyElse DEF StartRefused, ControlFree, Goto, rowVars,
     lockVars, worldVars, IInv, TypeOK, Live, Terminal, Pcs, Thread, Ids,
     ThreadsOK, LockPcs, RunPcs, ExecPcs, HeldOK, RowsOK
<1>6. ASSUME NEW w \in Workers, NEW r \in Runs, NEW i \in Inputs,
             NEW accept \in BOOLEAN, ResumeRequest(w, r, i, accept)
      PROVE  ThreadsOK'
  BY <1>6, NobodyElse DEF ResumeRequest, Accept, IdleThread, rowVars,
     lockVars, worldVars, IInv, TypeOK, Live, Terminal, Pcs, Thread, Ids,
     ThreadsOK, LockPcs, RunPcs, ExecPcs, HeldOK, RowsOK
<1>7. ASSUME NEW w \in Workers, ResumeRefused(w) PROVE ThreadsOK'
  BY <1>7, NobodyElse DEF ResumeRefused, Admit, ControlFree, Noticed,
     rowVars, lockVars, worldVars, IInv, TypeOK, Live, Terminal, Pcs,
     Thread, Ids, ThreadsOK, LockPcs, RunPcs, ExecPcs, HeldOK, RowsOK
<1>8. ASSUME NEW w \in Workers, ResumeAdmit(w) PROVE ThreadsOK'
  BY <1>8, NobodyElse DEF ResumeAdmit, Admissible, Admit, ControlFree,
     rowVars, lockVars, worldVars, IInv, TypeOK, Live, Terminal, Pcs,
     Thread, Ids, ThreadsOK, LockPcs, RunPcs, ExecPcs, HeldOK, RowsOK
<1>9. ASSUME NEW w \in Workers, ResumeCommit(w) PROVE ThreadsOK'
  BY <1>9, NobodyElse DEF ResumeCommit, Answered, Goto, rowVars, lockVars,
     worldVars, IInv, TypeOK, Live, Terminal, Pcs, Thread, Ids, ThreadsOK,
     LockPcs, RunPcs, ExecPcs, HeldOK, RowsOK
<1>10. ASSUME NEW w \in Workers, ResumeTooLate(w) PROVE ThreadsOK'
  BY <1>10, NobodyElse DEF ResumeTooLate, Answered, Goto, rowVars, lockVars,
     worldVars, IInv, TypeOK, Live, Terminal, Pcs, Thread, Ids, ThreadsOK,
     LockPcs, RunPcs, ExecPcs, HeldOK, RowsOK
<1>11. ASSUME NEW w \in Workers, ResumeInvalid(w) PROVE ThreadsOK'
  BY <1>11, NobodyElse DEF ResumeInvalid, Goto, rowVars, lockVars, worldVars,
     IInv, TypeOK, Live, Terminal, Pcs, Thread, Ids, ThreadsOK, LockPcs,
     RunPcs, ExecPcs, HeldOK, RowsOK
<1>12. ASSUME NEW w \in Workers, ResumeArm(w) PROVE ThreadsOK'
  BY <1>12, NobodyElse DEF ResumeArm, Goto, Arm, rowVars, lockVars,
     worldVars, IInv, TypeOK, Live, Terminal, Pcs, Thread, Ids, ThreadsOK,
     LockPcs, RunPcs, ExecPcs, HeldOK, RowsOK
<1>13. ASSUME NEW w \in Workers, ReserveWorktree(w) PROVE ThreadsOK'
  BY <1>13, NobodyElse DEF ReserveWorktree, At, rowVars, lockVars, worldVars,
     IInv, TypeOK, Live, Terminal, Pcs, Thread, Ids, ThreadsOK, LockPcs,
     RunPcs, ExecPcs, HeldOK, RowsOK
<1>14. ASSUME NEW w \in Workers, Begin(w) PROVE ThreadsOK'
  BY <1>14, NobodyElse DEF Begin, At, Goto, rowVars, lockVars, worldVars,
     IInv, TypeOK, Live, Terminal, Pcs, Thread, Ids, ThreadsOK, LockPcs,
     RunPcs, ExecPcs, HeldOK, RowsOK
<1>15. ASSUME NEW w \in Workers, DriveWrite(w) PROVE ThreadsOK'
  BY <1>15, NobodyElse DEF DriveWrite, At, rowVars, lockVars, worldVars,
     IInv, TypeOK, Live, Terminal, Pcs, Thread, Ids, ThreadsOK, LockPcs,
     RunPcs, ExecPcs, HeldOK, RowsOK
<1>16. ASSUME NEW w \in Workers, DrivePause(w) PROVE ThreadsOK'
  BY <1>16, NobodyElse DEF DrivePause, At, Goto, rowVars, lockVars,
     worldVars, IInv, TypeOK, Live, Terminal, Pcs, Thread, Ids, ThreadsOK,
     LockPcs, RunPcs, ExecPcs, HeldOK, RowsOK
<1>17. ASSUME NEW w \in Workers, NEW new \in SUBSET Inputs,
              NEW kind \in {"approval", "decision"}, NEW manual \in BOOLEAN,
              WaitCommit(w, new, kind, manual)
       PROVE  ThreadsOK'
  BY <1>17, NobodyElse DEF WaitCommit, At, Goto, NewInput, rowVars, lockVars,
     worldVars, IInv, TypeOK, Live, Terminal, Pcs, Thread, Ids, ThreadsOK,
     LockPcs, RunPcs, ExecPcs, HeldOK, RowsOK
<1>18. ASSUME NEW w \in Workers, DriveReturn(w) PROVE ThreadsOK'
  BY <1>18, NobodyElse DEF DriveReturn, At, Goto, rowVars, lockVars,
     worldVars, IInv, TypeOK, Live, Terminal, Pcs, Thread, Ids, ThreadsOK,
     LockPcs, RunPcs, ExecPcs, HeldOK, RowsOK
<1>19. ASSUME NEW w \in Workers, LeaveWorktree(w) PROVE ThreadsOK'
  BY <1>19, NobodyElse DEF LeaveWorktree, At, rowVars, lockVars, worldVars,
     IInv, TypeOK, Live, Terminal, Pcs, Thread, Ids, ThreadsOK, LockPcs,
     RunPcs, ExecPcs, HeldOK, RowsOK
<1>20. ASSUME NEW w \in Workers, StopExecuting(w) PROVE ThreadsOK'
  BY <1>20, NobodyElse DEF StopExecuting, ControlFree, Goto, rowVars,
     lockVars, worldVars, IInv, TypeOK, Live, Terminal, Pcs, Thread, Ids,
     ThreadsOK, LockPcs, RunPcs, ExecPcs, HeldOK, RowsOK
<1>21. ASSUME NEW w \in Workers, ReleaseWorktree(w) PROVE ThreadsOK'
  BY <1>21, NobodyElse DEF ReleaseWorktree, At, rowVars, lockVars, worldVars,
     IInv, TypeOK, Live, Terminal, Pcs, Thread, Ids, ThreadsOK, LockPcs,
     RunPcs, ExecPcs, HeldOK, RowsOK
<1>22. ASSUME NEW w \in Workers, ReleaseLock(w) PROVE ThreadsOK'
  BY <1>22, NobodyElse DEF ReleaseLock, At, IdleThread, rowVars, lockVars,
     worldVars, IInv, TypeOK, Live, Terminal, Pcs, Thread, Ids, ThreadsOK,
     LockPcs, RunPcs, ExecPcs, HeldOK, RowsOK
<1>23. ASSUME NEW w \in Workers, NotifyTimeout(w) PROVE ThreadsOK'
  BY <1>23, NobodyElse DEF NotifyTimeout, Publish, ControlFree, IdleThread,
     rowVars, lockVars, worldVars, IInv, TypeOK, Live, Terminal, Pcs,
     Thread, Ids, ThreadsOK, LockPcs, RunPcs, ExecPcs, HeldOK, RowsOK
<1>24. ASSUME NEW w \in Workers, NEW s \in Sessions, CloseRequest(w, s)
       PROVE  ThreadsOK'
  BY <1>24, NobodyElse DEF CloseRequest, Accept, IdleThread, rowVars,
     lockVars, worldVars, IInv, TypeOK, Live, Terminal, Pcs, Thread, Ids,
     ThreadsOK, LockPcs, RunPcs, ExecPcs, HeldOK, RowsOK
<1>25. ASSUME NEW w \in Workers, CloseDone(w) PROVE ThreadsOK'
  BY <1>25, NobodyElse DEF CloseDone, At, Goto, rowVars, lockVars, worldVars,
     IInv, TypeOK, Live, Terminal, Pcs, Thread, Ids, ThreadsOK, LockPcs,
     RunPcs, ExecPcs, HeldOK, RowsOK
<1>26. ASSUME NEW r \in Runs, SchedulerPop(r) PROVE ThreadsOK'
  BY <1>26, NobodyElse DEF SchedulerPop, rowVars, lockVars, worldVars, IInv,
     TypeOK, Live, Terminal, Pcs, Thread, Ids, ThreadsOK, LockPcs, RunPcs,
     ExecPcs, HeldOK, RowsOK
<1>27. ASSUME SchedulerRetry PROVE ThreadsOK'
  BY <1>27, NobodyElse DEF SchedulerRetry, ControlFree, rowVars, lockVars,
     worldVars, IInv, TypeOK, Live, Terminal, Pcs, Thread, Ids, ThreadsOK,
     LockPcs, RunPcs, ExecPcs, HeldOK, RowsOK
<1>28. ASSUME SchedulerNotify PROVE ThreadsOK'
  BY <1>28, NobodyElse DEF SchedulerNotify, Publish, ControlFree, rowVars,
     lockVars, worldVars, IInv, TypeOK, Live, Terminal, Pcs, Thread, Ids,
     ThreadsOK, LockPcs, RunPcs, ExecPcs, HeldOK, RowsOK
<1>29. ASSUME Crash PROVE ThreadsOK'
  BY <1>29, NobodyElse DEF Crash, IdleState, IdleThread, rowVars, lockVars,
     worldVars, IInv, TypeOK, Live, Terminal, Pcs, Thread, Ids, ThreadsOK,
     LockPcs, RunPcs, ExecPcs, HeldOK, RowsOK
<1>30. ASSUME NEW r \in Runs, NEW ids \in SUBSET Inputs,
              NEW reissue \in [ids -> Inputs], Restore(r, reissue)
       PROVE  ThreadsOK'
  BY <1>30, NobodyElse DEF Restore, Reissued, rowVars, lockVars, worldVars,
     IInv, TypeOK, Live, Terminal, Pcs, Thread, Ids, ThreadsOK, LockPcs,
     RunPcs, ExecPcs, HeldOK, RowsOK
<1>31. ASSUME Recover PROVE ThreadsOK'
  BY <1>31, NobodyElse DEF Recover, Lost, Swept, rowVars, lockVars,
     worldVars, IInv, TypeOK, Live, Terminal, Pcs, Thread, Ids, ThreadsOK,
     LockPcs, RunPcs, ExecPcs, HeldOK, RowsOK
<1>32. ASSUME Serve PROVE ThreadsOK'
  BY <1>32, NobodyElse DEF Serve, rowVars, lockVars, worldVars, IInv, TypeOK,
     Live, Terminal, Pcs, Thread, Ids, ThreadsOK, LockPcs, RunPcs, ExecPcs,
     HeldOK, RowsOK
<1>33. ASSUME Tick PROVE ThreadsOK'
  BY <1>33, NobodyElse DEF Tick, rowVars, lockVars, worldVars, IInv, TypeOK,
     Live, Terminal, Pcs, Thread, Ids, ThreadsOK, LockPcs, RunPcs, ExecPcs,
     HeldOK, RowsOK
<1>34. ASSUME NEW root \in Roots, OutsideEdit(root) PROVE ThreadsOK'
  BY <1>34, NobodyElse DEF OutsideEdit, rowVars, lockVars, worldVars, IInv,
     TypeOK, Live, Terminal, Pcs, Thread, Ids, ThreadsOK, LockPcs, RunPcs,
     ExecPcs, HeldOK, RowsOK
<1>35. ASSUME NEW w \in Workers, Start(w) PROVE ThreadsOK'
  BY <1>35, <1>3, <1>4, <1>5 DEF Start
<1>36. ASSUME NEW w \in Workers, Resume(w) PROVE ThreadsOK'
  BY <1>36, <1>6, <1>7, <1>8, <1>9, <1>10, <1>11, <1>12, <1>1, ThreadEndsRun
     DEF Resume
<1>37. ASSUME NEW w \in Workers, Execute(w) PROVE ThreadsOK'
  BY <1>37, <1>13, <1>14, <1>15, <1>16, <1>17, <1>18, <1>19, <1>20, <1>21,
     <1>22, <1>23, <1>1, ThreadEndsRun DEF Execute, Wait
<1>38. ASSUME NEW w \in Workers, Close(w) PROVE ThreadsOK'
  BY <1>38, <1>24, <1>25, <1>2, OthersEndRun DEF Close
<1>39. ASSUME Scheduler PROVE ThreadsOK'
  <2>1. SchedulerExpire => sched.run \in Runs
    BY DEF SchedulerExpire, IInv, SchedOK, TypeOK, Ids
  <2>. QED
    BY <1>39, <1>26, <1>27, <1>28, <1>2, OthersEndRun, <2>1 DEF Scheduler
<1>40. ASSUME Restart PROVE ThreadsOK'
  BY <1>40, <1>29, <1>30, <1>31, <1>32, <1>2, OthersEndRun DEF Restart
<1>. QED
  BY <1>35, <1>36, <1>37, <1>38, <1>39, <1>40, <1>33, <1>34, <1>2,
     OthersEndRun DEF Next

(* A run that executes keeps its thread: nobody else takes the lock or     *)
(* clears the flag.                                                        *)
LEMMA ExecutorOKStep ==
  ASSUME IInv, Next
  PROVE  ExecutorOK'
<1>1. ASSUME NEW w \in Workers, ThreadEnds(w) PROVE ExecutorOK'
  <2>1. \A r \in Runs : state'[r].executing => state[r].executing
    BY <1>1 DEF ThreadEnds, Ends
  <2>2. ASSUME NEW r \in Runs, state'[r].executing
       PROVE  /\ lock'[owner'[r]] \in Workers
              /\ thread'[lock'[owner'[r]]].run = r
              /\ thread'[lock'[owner'[r]]].pc \in ExecPcs
    BY <1>1, <2>1, <2>2 DEF IInv, ExecutorOK, ThreadEnds, Ends, ExecPcs
  <2>. QED
    BY <2>2 DEF ExecutorOK
<1>2. ASSUME NEW r \in Runs, OthersEnd(r) PROVE ExecutorOK'
  BY <1>2, NobodyElse DEF OthersEnd, Ends, IInv, TypeOK, Live, Terminal,
     Pcs, Thread, Ids, ExecutorOK, ThreadsOK, LockPcs, RunPcs, ExecPcs,
     State
<1>3. ASSUME NEW w \in Workers, NEW s \in Sessions,
             NEW k \in Keys \cup {NoKey}, StartRequest(w, s, k)
      PROVE  ExecutorOK'
  BY <1>3, NobodyElse DEF StartRequest, Accept, IdleThread, rowVars,
     lockVars, worldVars, IInv, TypeOK, Live, Terminal, Pcs, Thread, Ids,
     ExecutorOK, ThreadsOK, LockPcs, RunPcs, ExecPcs, State
<1>4. ASSUME NEW w \in Workers, NEW r \in Runs, StartCreate(w, r)
      PROVE  ExecutorOK'
  BY <1>4, NobodyElse DEF StartCreate, ControlFree, IdleState, MayCreate,
     rowVars, lockVars, worldVars, IInv, TypeOK, Live, Terminal, Pcs,
     Thread, Ids, ExecutorOK, ThreadsOK, LockPcs, RunPcs, ExecPcs, State
<1>5. ASSUME NEW w \in Workers, StartRefused(w) PROVE ExecutorOK'
  BY <1>5, NobodyElse DEF StartRefused, ControlFree, Goto, rowVars,
     lockVars, worldVars, IInv, TypeOK, Live, Terminal, Pcs, Thread, Ids,
     ExecutorOK, ThreadsOK, LockPcs, RunPcs, ExecPcs, State
<1>6. ASSUME NEW w \in Workers, NEW r \in Runs, NEW i \in Inputs,
             NEW accept \in BOOLEAN, ResumeRequest(w, r, i, accept)
      PROVE  ExecutorOK'
  BY <1>6, NobodyElse DEF ResumeRequest, Accept, IdleThread, rowVars,
     lockVars, worldVars, IInv, TypeOK, Live, Terminal, Pcs, Thread, Ids,
     ExecutorOK, ThreadsOK, LockPcs, RunPcs, ExecPcs, State
<1>7. ASSUME NEW w \in Workers, ResumeRefused(w) PROVE ExecutorOK'
  BY <1>7, NobodyElse DEF ResumeRefused, Admit, ControlFree, Noticed,
     rowVars, lockVars, worldVars, IInv, TypeOK, Live, Terminal, Pcs,
     Thread, Ids, ExecutorOK, ThreadsOK, LockPcs, RunPcs, ExecPcs, State
<1>8. ASSUME NEW w \in Workers, ResumeAdmit(w) PROVE ExecutorOK'
  BY <1>8, NobodyElse DEF ResumeAdmit, Admissible, Admit, ControlFree,
     rowVars, lockVars, worldVars, IInv, TypeOK, Live, Terminal, Pcs,
     Thread, Ids, ExecutorOK, ThreadsOK, LockPcs, RunPcs, ExecPcs, State
<1>9. ASSUME NEW w \in Workers, ResumeCommit(w) PROVE ExecutorOK'
  BY <1>9, NobodyElse DEF ResumeCommit, Answered, Goto, rowVars, lockVars,
     worldVars, IInv, TypeOK, Live, Terminal, Pcs, Thread, Ids, ExecutorOK,
     ThreadsOK, LockPcs, RunPcs, ExecPcs, State
<1>10. ASSUME NEW w \in Workers, ResumeTooLate(w) PROVE ExecutorOK'
  BY <1>10, NobodyElse DEF ResumeTooLate, Answered, Goto, rowVars, lockVars,
     worldVars, IInv, TypeOK, Live, Terminal, Pcs, Thread, Ids, ExecutorOK,
     ThreadsOK, LockPcs, RunPcs, ExecPcs, State
<1>11. ASSUME NEW w \in Workers, ResumeInvalid(w) PROVE ExecutorOK'
  BY <1>11, NobodyElse DEF ResumeInvalid, Goto, rowVars, lockVars, worldVars,
     IInv, TypeOK, Live, Terminal, Pcs, Thread, Ids, ExecutorOK, ThreadsOK,
     LockPcs, RunPcs, ExecPcs, State
<1>12. ASSUME NEW w \in Workers, ResumeArm(w) PROVE ExecutorOK'
  BY <1>12, NobodyElse DEF ResumeArm, Goto, Arm, rowVars, lockVars,
     worldVars, IInv, TypeOK, Live, Terminal, Pcs, Thread, Ids, ExecutorOK,
     ThreadsOK, LockPcs, RunPcs, ExecPcs, State
<1>13. ASSUME NEW w \in Workers, ReserveWorktree(w) PROVE ExecutorOK'
  BY <1>13, NobodyElse DEF ReserveWorktree, At, rowVars, lockVars, worldVars,
     IInv, TypeOK, Live, Terminal, Pcs, Thread, Ids, ExecutorOK, ThreadsOK,
     LockPcs, RunPcs, ExecPcs, State
<1>14. ASSUME NEW w \in Workers, Begin(w) PROVE ExecutorOK'
  BY <1>14, NobodyElse DEF Begin, At, Goto, rowVars, lockVars, worldVars,
     IInv, TypeOK, Live, Terminal, Pcs, Thread, Ids, ExecutorOK, ThreadsOK,
     LockPcs, RunPcs, ExecPcs, State
<1>15. ASSUME NEW w \in Workers, DriveWrite(w) PROVE ExecutorOK'
  BY <1>15, NobodyElse DEF DriveWrite, At, rowVars, lockVars, worldVars,
     IInv, TypeOK, Live, Terminal, Pcs, Thread, Ids, ExecutorOK, ThreadsOK,
     LockPcs, RunPcs, ExecPcs, State
<1>16. ASSUME NEW w \in Workers, DrivePause(w) PROVE ExecutorOK'
  BY <1>16, NobodyElse DEF DrivePause, At, Goto, rowVars, lockVars,
     worldVars, IInv, TypeOK, Live, Terminal, Pcs, Thread, Ids, ExecutorOK,
     ThreadsOK, LockPcs, RunPcs, ExecPcs, State
<1>17. ASSUME NEW w \in Workers, NEW new \in SUBSET Inputs,
              NEW kind \in {"approval", "decision"}, NEW manual \in BOOLEAN,
              WaitCommit(w, new, kind, manual)
       PROVE  ExecutorOK'
  BY <1>17, NobodyElse DEF WaitCommit, At, Goto, NewInput, rowVars, lockVars,
     worldVars, IInv, TypeOK, Live, Terminal, Pcs, Thread, Ids, ExecutorOK,
     ThreadsOK, LockPcs, RunPcs, ExecPcs, State
<1>18. ASSUME NEW w \in Workers, DriveReturn(w) PROVE ExecutorOK'
  BY <1>18, NobodyElse DEF DriveReturn, At, Goto, rowVars, lockVars,
     worldVars, IInv, TypeOK, Live, Terminal, Pcs, Thread, Ids, ExecutorOK,
     ThreadsOK, LockPcs, RunPcs, ExecPcs, State
<1>19. ASSUME NEW w \in Workers, LeaveWorktree(w) PROVE ExecutorOK'
  BY <1>19, NobodyElse DEF LeaveWorktree, At, rowVars, lockVars, worldVars,
     IInv, TypeOK, Live, Terminal, Pcs, Thread, Ids, ExecutorOK, ThreadsOK,
     LockPcs, RunPcs, ExecPcs, State
<1>20. ASSUME NEW w \in Workers, StopExecuting(w) PROVE ExecutorOK'
  BY <1>20, NobodyElse DEF StopExecuting, ControlFree, Goto, rowVars,
     lockVars, worldVars, IInv, TypeOK, Live, Terminal, Pcs, Thread, Ids,
     ExecutorOK, ThreadsOK, LockPcs, RunPcs, ExecPcs, State
<1>21. ASSUME NEW w \in Workers, ReleaseWorktree(w) PROVE ExecutorOK'
  BY <1>21, NobodyElse DEF ReleaseWorktree, At, rowVars, lockVars, worldVars,
     IInv, TypeOK, Live, Terminal, Pcs, Thread, Ids, ExecutorOK, ThreadsOK,
     LockPcs, RunPcs, ExecPcs, State
<1>22. ASSUME NEW w \in Workers, ReleaseLock(w) PROVE ExecutorOK'
  BY <1>22, NobodyElse DEF ReleaseLock, At, IdleThread, rowVars, lockVars,
     worldVars, IInv, TypeOK, Live, Terminal, Pcs, Thread, Ids, ExecutorOK,
     ThreadsOK, LockPcs, RunPcs, ExecPcs, State
<1>23. ASSUME NEW w \in Workers, NotifyTimeout(w) PROVE ExecutorOK'
  <2>1. \A q \in Runs : state'[q].executing = state[q].executing
    BY <1>23, PublishKeeps DEF NotifyTimeout, IInv, TypeOK, ThreadsOK, RunPcs,
       Pcs, Thread, Ids
  <2>. QED
    BY <1>23, <2>1, NobodyElse DEF NotifyTimeout, ControlFree, IdleThread,
       rowVars, lockVars, worldVars, IInv, TypeOK, Live, Terminal, Pcs,
       Thread, Ids, ExecutorOK, ThreadsOK, LockPcs, RunPcs, ExecPcs
<1>24. ASSUME NEW w \in Workers, NEW s \in Sessions, CloseRequest(w, s)
       PROVE  ExecutorOK'
  BY <1>24, NobodyElse DEF CloseRequest, Accept, IdleThread, rowVars,
     lockVars, worldVars, IInv, TypeOK, Live, Terminal, Pcs, Thread, Ids,
     ExecutorOK, ThreadsOK, LockPcs, RunPcs, ExecPcs, State
<1>25. ASSUME NEW w \in Workers, CloseDone(w) PROVE ExecutorOK'
  BY <1>25, NobodyElse DEF CloseDone, At, Goto, rowVars, lockVars, worldVars,
     IInv, TypeOK, Live, Terminal, Pcs, Thread, Ids, ExecutorOK, ThreadsOK,
     LockPcs, RunPcs, ExecPcs, State
<1>26. ASSUME NEW r \in Runs, SchedulerPop(r) PROVE ExecutorOK'
  BY <1>26, NobodyElse DEF SchedulerPop, rowVars, lockVars, worldVars, IInv,
     TypeOK, Live, Terminal, Pcs, Thread, Ids, ExecutorOK, ThreadsOK,
     LockPcs, RunPcs, ExecPcs, State
<1>27. ASSUME SchedulerRetry PROVE ExecutorOK'
  <2>1. \A q \in Runs : state'[q].executing = state[q].executing
    BY <1>27, TimedOutExecutes DEF SchedulerRetry, IInv, TypeOK, SchedOK, Ids
  <2>. QED
    BY <1>27, <2>1, NobodyElse DEF SchedulerRetry, ControlFree, rowVars,
       lockVars, worldVars, IInv, TypeOK, Live, Terminal, Pcs, Thread, Ids,
       ExecutorOK, ThreadsOK, LockPcs, RunPcs, ExecPcs
<1>28. ASSUME SchedulerNotify PROVE ExecutorOK'
  <2>1. \A q \in Runs : state'[q].executing = state[q].executing
    BY <1>28, PublishKeeps DEF SchedulerNotify, IInv, TypeOK, SchedOK, Ids
  <2>. QED
    BY <1>28, <2>1, NobodyElse DEF SchedulerNotify, ControlFree, rowVars,
       lockVars, worldVars, IInv, TypeOK, Live, Terminal, Pcs, Thread, Ids,
       ExecutorOK, ThreadsOK, LockPcs, RunPcs, ExecPcs
<1>29. ASSUME Crash PROVE ExecutorOK'
  BY <1>29, NobodyElse DEF Crash, IdleState, IdleThread, rowVars, lockVars,
     worldVars, IInv, TypeOK, Live, Terminal, Pcs, Thread, Ids, ExecutorOK,
     ThreadsOK, LockPcs, RunPcs, ExecPcs, State
<1>30. ASSUME NEW r \in Runs, NEW ids \in SUBSET Inputs,
              NEW reissue \in [ids -> Inputs], Restore(r, reissue)
       PROVE  ExecutorOK'
  BY <1>30, NobodyElse DEF Restore, Reissued, rowVars, lockVars, worldVars,
     IInv, TypeOK, Live, Terminal, Pcs, Thread, Ids, ExecutorOK, ThreadsOK,
     LockPcs, RunPcs, ExecPcs, State
<1>31. ASSUME Recover PROVE ExecutorOK'
  BY <1>31, NobodyElse DEF Recover, Lost, Swept, rowVars, lockVars,
     worldVars, IInv, TypeOK, Live, Terminal, Pcs, Thread, Ids, ExecutorOK,
     ThreadsOK, LockPcs, RunPcs, ExecPcs, State
<1>32. ASSUME Serve PROVE ExecutorOK'
  BY <1>32, NobodyElse DEF Serve, rowVars, lockVars, worldVars, IInv, TypeOK,
     Live, Terminal, Pcs, Thread, Ids, ExecutorOK, ThreadsOK, LockPcs,
     RunPcs, ExecPcs, State
<1>33. ASSUME Tick PROVE ExecutorOK'
  BY <1>33, NobodyElse DEF Tick, rowVars, lockVars, worldVars, IInv, TypeOK,
     Live, Terminal, Pcs, Thread, Ids, ExecutorOK, ThreadsOK, LockPcs,
     RunPcs, ExecPcs, State
<1>34. ASSUME NEW root \in Roots, OutsideEdit(root) PROVE ExecutorOK'
  BY <1>34, NobodyElse DEF OutsideEdit, rowVars, lockVars, worldVars, IInv,
     TypeOK, Live, Terminal, Pcs, Thread, Ids, ExecutorOK, ThreadsOK,
     LockPcs, RunPcs, ExecPcs, State
<1>35. ASSUME NEW w \in Workers, Start(w) PROVE ExecutorOK'
  BY <1>35, <1>3, <1>4, <1>5 DEF Start
<1>36. ASSUME NEW w \in Workers, Resume(w) PROVE ExecutorOK'
  BY <1>36, <1>6, <1>7, <1>8, <1>9, <1>10, <1>11, <1>12, <1>1, ThreadEndsRun
     DEF Resume
<1>37. ASSUME NEW w \in Workers, Execute(w) PROVE ExecutorOK'
  BY <1>37, <1>13, <1>14, <1>15, <1>16, <1>17, <1>18, <1>19, <1>20, <1>21,
     <1>22, <1>23, <1>1, ThreadEndsRun DEF Execute, Wait
<1>38. ASSUME NEW w \in Workers, Close(w) PROVE ExecutorOK'
  BY <1>38, <1>24, <1>25, <1>2, OthersEndRun DEF Close
<1>39. ASSUME Scheduler PROVE ExecutorOK'
  <2>1. SchedulerExpire => sched.run \in Runs
    BY DEF SchedulerExpire, IInv, SchedOK, TypeOK, Ids
  <2>. QED
    BY <1>39, <1>26, <1>27, <1>28, <1>2, OthersEndRun, <2>1 DEF Scheduler
<1>40. ASSUME Restart PROVE ExecutorOK'
  BY <1>40, <1>29, <1>30, <1>31, <1>32, <1>2, OthersEndRun DEF Restart
<1>. QED
  BY <1>35, <1>36, <1>37, <1>38, <1>39, <1>40, <1>33, <1>34, <1>2,
     OthersEndRun DEF Next

(* A thread that executes finds its run in the status it left it, since    *)
(* nobody ends a run that executes.                                        *)
LEMMA ExecutionOKStep ==
  ASSUME IInv, Next
  PROVE  ExecutionOK'
<1>1. ASSUME NEW w \in Workers, ThreadEnds(w) PROVE ExecutionOK'
  BY <1>1, NobodyElse DEF ThreadEnds, Ends, IInv, TypeOK, Live, Terminal,
     Pcs, Thread, Ids, ExecutionOK, ThreadsOK, LockPcs, RunPcs, ExecPcs,
     LivePcs, CommitOK, State
<1>2. ASSUME NEW r \in Runs, OthersEnd(r) PROVE ExecutionOK'
  BY <1>2, NobodyElse DEF OthersEnd, Ends, IInv, TypeOK, Live, Terminal,
     Pcs, Thread, Ids, ExecutionOK, ThreadsOK, LockPcs, RunPcs, ExecPcs,
     LivePcs, CommitOK, State
<1>3. ASSUME NEW w \in Workers, NEW s \in Sessions,
             NEW k \in Keys \cup {NoKey}, StartRequest(w, s, k)
      PROVE  ExecutionOK'
  BY <1>3, NobodyElse DEF StartRequest, Accept, IdleThread, rowVars,
     lockVars, worldVars, IInv, TypeOK, Live, Terminal, Pcs, Thread, Ids,
     ExecutionOK, ThreadsOK, LockPcs, RunPcs, ExecPcs, LivePcs, CommitOK,
     State
<1>4. ASSUME NEW w \in Workers, NEW r \in Runs, StartCreate(w, r)
      PROVE  ExecutionOK'
  BY <1>4, NobodyElse DEF StartCreate, ControlFree, IdleState, MayCreate,
     rowVars, lockVars, worldVars, IInv, TypeOK, Live, Terminal, Pcs,
     Thread, Ids, ExecutionOK, ThreadsOK, LockPcs, RunPcs, ExecPcs, LivePcs,
     CommitOK, State
<1>5. ASSUME NEW w \in Workers, StartRefused(w) PROVE ExecutionOK'
  BY <1>5, NobodyElse DEF StartRefused, ControlFree, Goto, rowVars,
     lockVars, worldVars, IInv, TypeOK, Live, Terminal, Pcs, Thread, Ids,
     ExecutionOK, ThreadsOK, LockPcs, RunPcs, ExecPcs, LivePcs, CommitOK,
     State
<1>6. ASSUME NEW w \in Workers, NEW r \in Runs, NEW i \in Inputs,
             NEW accept \in BOOLEAN, ResumeRequest(w, r, i, accept)
      PROVE  ExecutionOK'
  BY <1>6, NobodyElse DEF ResumeRequest, Accept, IdleThread, rowVars,
     lockVars, worldVars, IInv, TypeOK, Live, Terminal, Pcs, Thread, Ids,
     ExecutionOK, ThreadsOK, LockPcs, RunPcs, ExecPcs, LivePcs, CommitOK,
     State
<1>7. ASSUME NEW w \in Workers, ResumeRefused(w) PROVE ExecutionOK'
  BY <1>7, NobodyElse DEF ResumeRefused, Admit, ControlFree, Noticed,
     rowVars, lockVars, worldVars, IInv, TypeOK, Live, Terminal, Pcs,
     Thread, Ids, ExecutionOK, ThreadsOK, LockPcs, RunPcs, ExecPcs, LivePcs,
     CommitOK, State
<1>8. ASSUME NEW w \in Workers, ResumeAdmit(w) PROVE ExecutionOK'
  BY <1>8, NobodyElse DEF ResumeAdmit, Admissible, Admit, ControlFree,
     rowVars, lockVars, worldVars, IInv, TypeOK, Live, Terminal, Pcs,
     Thread, Ids, ExecutionOK, ThreadsOK, LockPcs, RunPcs, ExecPcs, LivePcs,
     CommitOK, State
<1>9. ASSUME NEW w \in Workers, ResumeCommit(w) PROVE ExecutionOK'
  BY <1>9, NobodyElse, SMTT(60) DEF ResumeCommit, Answered, Goto, rowVars, lockVars,
     worldVars, IInv, TypeOK, Live, Terminal, Pcs, Thread, Ids, ExecutionOK,
     ThreadsOK, LockPcs, RunPcs, ExecPcs, LivePcs, CommitOK, State
<1>10. ASSUME NEW w \in Workers, ResumeTooLate(w) PROVE ExecutionOK'
  BY <1>10, NobodyElse DEF ResumeTooLate, Answered, Goto, rowVars, lockVars,
     worldVars, IInv, TypeOK, Live, Terminal, Pcs, Thread, Ids, ExecutionOK,
     ThreadsOK, LockPcs, RunPcs, ExecPcs, LivePcs, CommitOK, State
<1>11. ASSUME NEW w \in Workers, ResumeInvalid(w) PROVE ExecutionOK'
  BY <1>11, NobodyElse DEF ResumeInvalid, Goto, rowVars, lockVars, worldVars,
     IInv, TypeOK, Live, Terminal, Pcs, Thread, Ids, ExecutionOK, ThreadsOK,
     LockPcs, RunPcs, ExecPcs, LivePcs, CommitOK, State
<1>12. ASSUME NEW w \in Workers, ResumeArm(w) PROVE ExecutionOK'
  BY <1>12, NobodyElse DEF ResumeArm, Goto, Arm, rowVars, lockVars,
     worldVars, IInv, TypeOK, Live, Terminal, Pcs, Thread, Ids, ExecutionOK,
     ThreadsOK, LockPcs, RunPcs, ExecPcs, LivePcs, CommitOK, State
<1>13. ASSUME NEW w \in Workers, ReserveWorktree(w) PROVE ExecutionOK'
  BY <1>13, NobodyElse DEF ReserveWorktree, At, rowVars, lockVars, worldVars,
     IInv, TypeOK, Live, Terminal, Pcs, Thread, Ids, ExecutionOK, ThreadsOK,
     LockPcs, RunPcs, ExecPcs, LivePcs, CommitOK, State
<1>14. ASSUME NEW w \in Workers, Begin(w) PROVE ExecutionOK'
  BY <1>14, NobodyElse DEF Begin, At, Goto, rowVars, lockVars, worldVars,
     IInv, TypeOK, Live, Terminal, Pcs, Thread, Ids, ExecutionOK, ThreadsOK,
     LockPcs, RunPcs, ExecPcs, LivePcs, CommitOK, State
<1>15. ASSUME NEW w \in Workers, DriveWrite(w) PROVE ExecutionOK'
  BY <1>15, NobodyElse DEF DriveWrite, At, rowVars, lockVars, worldVars,
     IInv, TypeOK, Live, Terminal, Pcs, Thread, Ids, ExecutionOK, ThreadsOK,
     LockPcs, RunPcs, ExecPcs, LivePcs, CommitOK, State
<1>16. ASSUME NEW w \in Workers, DrivePause(w) PROVE ExecutionOK'
  BY <1>16, NobodyElse DEF DrivePause, At, Goto, rowVars, lockVars,
     worldVars, IInv, TypeOK, Live, Terminal, Pcs, Thread, Ids, ExecutionOK,
     ThreadsOK, LockPcs, RunPcs, ExecPcs, LivePcs, CommitOK, State
<1>17. ASSUME NEW w \in Workers, NEW new \in SUBSET Inputs,
              NEW kind \in {"approval", "decision"}, NEW manual \in BOOLEAN,
              WaitCommit(w, new, kind, manual)
       PROVE  ExecutionOK'
  <2>1. thread[w].run \in Runs /\ lock[thread[w].session] = w
    BY <1>17 DEF IInv, TypeOK, ThreadsOK, WaitCommit, At, LockPcs, RunPcs, Pcs,
       Thread, Ids
  <2>2. [state[thread[w].run] EXCEPT !.manual = manual, !.frozen = tree[Root(thread[w].run)]].executing
         = state[thread[w].run].executing
    BY <2>1 DEF IInv, TypeOK, State
  <2>3. \A q \in Runs : state'[q].executing = state[q].executing
    BY <1>17, <2>1, <2>2 DEF WaitCommit, IInv, TypeOK
  <2>4. \A v \in Workers : v # w /\ thread[v].pc \in ExecPcs => thread[v].run # thread[w].run
    BY <2>1 DEF IInv, ThreadsOK, LockPcs, RunPcs, ExecPcs, Pcs
  <2>5. /\ \A v \in Workers \ {w} : thread'[v] = thread[v]
       /\ thread'[w].pc = "check" /\ thread'[w].run = thread[w].run
       /\ thread[w].pc = "wait"
       /\ status' = [status EXCEPT ![thread[w].run] = "waiting"]
    BY <1>17 DEF WaitCommit, At, Goto, IInv, TypeOK, Thread
  <2>. QED
    BY <2>1, <2>3, <2>4, <2>5 DEF IInv, TypeOK, ExecutionOK, ThreadsOK,
       ExecPcs, LivePcs, RunPcs, Pcs, Thread, Ids
<1>18. ASSUME NEW w \in Workers, DriveReturn(w) PROVE ExecutionOK'
  BY <1>18, NobodyElse DEF DriveReturn, At, Goto, rowVars, lockVars,
     worldVars, IInv, TypeOK, Live, Terminal, Pcs, Thread, Ids, ExecutionOK,
     ThreadsOK, LockPcs, RunPcs, ExecPcs, LivePcs, CommitOK, State
<1>19. ASSUME NEW w \in Workers, LeaveWorktree(w) PROVE ExecutionOK'
  BY <1>19, NobodyElse DEF LeaveWorktree, At, rowVars, lockVars, worldVars,
     IInv, TypeOK, Live, Terminal, Pcs, Thread, Ids, ExecutionOK, ThreadsOK,
     LockPcs, RunPcs, ExecPcs, LivePcs, CommitOK, State
<1>20. ASSUME NEW w \in Workers, StopExecuting(w) PROVE ExecutionOK'
  BY <1>20, NobodyElse, SMTT(60) DEF StopExecuting, ControlFree, Goto, rowVars,
     lockVars, worldVars, IInv, TypeOK, Live, Terminal, Pcs, Thread, Ids,
     ExecutionOK, ThreadsOK, LockPcs, RunPcs, ExecPcs, LivePcs, CommitOK,
     State
<1>21. ASSUME NEW w \in Workers, ReleaseWorktree(w) PROVE ExecutionOK'
  BY <1>21, NobodyElse DEF ReleaseWorktree, At, rowVars, lockVars, worldVars,
     IInv, TypeOK, Live, Terminal, Pcs, Thread, Ids, ExecutionOK, ThreadsOK,
     LockPcs, RunPcs, ExecPcs, LivePcs, CommitOK, State
<1>22. ASSUME NEW w \in Workers, ReleaseLock(w) PROVE ExecutionOK'
  BY <1>22, NobodyElse DEF ReleaseLock, At, IdleThread, rowVars, lockVars,
     worldVars, IInv, TypeOK, Live, Terminal, Pcs, Thread, Ids, ExecutionOK,
     ThreadsOK, LockPcs, RunPcs, ExecPcs, LivePcs, CommitOK, State
<1>23. ASSUME NEW w \in Workers, NotifyTimeout(w) PROVE ExecutionOK'
  <2>1. \A q \in Runs : state'[q].executing = state[q].executing
    BY <1>23, PublishKeeps DEF NotifyTimeout, IInv, TypeOK, ThreadsOK, RunPcs,
       Pcs, Thread, Ids
  <2>. QED
    BY <1>23, <2>1, NobodyElse, SMTT(60) DEF NotifyTimeout, ControlFree, IdleThread,
       rowVars, lockVars, worldVars, IInv, TypeOK, Live, Terminal, Pcs,
       Thread, Ids, ExecutionOK, ThreadsOK, LockPcs, RunPcs, ExecPcs, LivePcs,
       CommitOK
<1>24. ASSUME NEW w \in Workers, NEW s \in Sessions, CloseRequest(w, s)
       PROVE  ExecutionOK'
  BY <1>24, NobodyElse DEF CloseRequest, Accept, IdleThread, rowVars,
     lockVars, worldVars, IInv, TypeOK, Live, Terminal, Pcs, Thread, Ids,
     ExecutionOK, ThreadsOK, LockPcs, RunPcs, ExecPcs, LivePcs, CommitOK,
     State
<1>25. ASSUME NEW w \in Workers, CloseDone(w) PROVE ExecutionOK'
  BY <1>25, NobodyElse DEF CloseDone, At, Goto, rowVars, lockVars, worldVars,
     IInv, TypeOK, Live, Terminal, Pcs, Thread, Ids, ExecutionOK, ThreadsOK,
     LockPcs, RunPcs, ExecPcs, LivePcs, CommitOK, State
<1>26. ASSUME NEW r \in Runs, SchedulerPop(r) PROVE ExecutionOK'
  BY <1>26, NobodyElse DEF SchedulerPop, rowVars, lockVars, worldVars, IInv,
     TypeOK, Live, Terminal, Pcs, Thread, Ids, ExecutionOK, ThreadsOK,
     LockPcs, RunPcs, ExecPcs, LivePcs, CommitOK, State
<1>27. ASSUME SchedulerRetry PROVE ExecutionOK'
  <2>1. \A q \in Runs : state'[q].executing = state[q].executing
    BY <1>27, TimedOutExecutes DEF SchedulerRetry, IInv, TypeOK, SchedOK, Ids
  <2>. QED
    BY <1>27, <2>1, NobodyElse DEF SchedulerRetry, ControlFree, rowVars,
       lockVars, worldVars, IInv, TypeOK, Live, Terminal, Pcs, Thread, Ids,
       ExecutionOK, ThreadsOK, LockPcs, RunPcs, ExecPcs, LivePcs, CommitOK
<1>28. ASSUME SchedulerNotify PROVE ExecutionOK'
  <2>1. \A q \in Runs : state'[q].executing = state[q].executing
    BY <1>28, PublishKeeps DEF SchedulerNotify, IInv, TypeOK, SchedOK, Ids
  <2>. QED
    BY <1>28, <2>1, NobodyElse DEF SchedulerNotify, ControlFree, rowVars,
       lockVars, worldVars, IInv, TypeOK, Live, Terminal, Pcs, Thread, Ids,
       ExecutionOK, ThreadsOK, LockPcs, RunPcs, ExecPcs, LivePcs, CommitOK
<1>29. ASSUME Crash PROVE ExecutionOK'
  BY <1>29, NobodyElse DEF Crash, IdleState, IdleThread, rowVars, lockVars,
     worldVars, IInv, TypeOK, Live, Terminal, Pcs, Thread, Ids, ExecutionOK,
     ThreadsOK, LockPcs, RunPcs, ExecPcs, LivePcs, CommitOK, State
<1>30. ASSUME NEW r \in Runs, NEW ids \in SUBSET Inputs,
              NEW reissue \in [ids -> Inputs], Restore(r, reissue)
       PROVE  ExecutionOK'
  BY <1>30, NobodyElse DEF Restore, Reissued, rowVars, lockVars, worldVars,
     IInv, TypeOK, Live, Terminal, Pcs, Thread, Ids, ExecutionOK, ThreadsOK,
     LockPcs, RunPcs, ExecPcs, LivePcs, CommitOK, State
<1>31. ASSUME Recover PROVE ExecutionOK'
  BY <1>31, NobodyElse DEF Recover, Lost, Swept, rowVars, lockVars,
     worldVars, IInv, TypeOK, Live, Terminal, Pcs, Thread, Ids, ExecutionOK,
     ThreadsOK, LockPcs, RunPcs, ExecPcs, LivePcs, CommitOK, State
<1>32. ASSUME Serve PROVE ExecutionOK'
  BY <1>32, NobodyElse DEF Serve, rowVars, lockVars, worldVars, IInv, TypeOK,
     Live, Terminal, Pcs, Thread, Ids, ExecutionOK, ThreadsOK, LockPcs,
     RunPcs, ExecPcs, LivePcs, CommitOK, State
<1>33. ASSUME Tick PROVE ExecutionOK'
  BY <1>33, NobodyElse DEF Tick, rowVars, lockVars, worldVars, IInv, TypeOK,
     Live, Terminal, Pcs, Thread, Ids, ExecutionOK, ThreadsOK, LockPcs,
     RunPcs, ExecPcs, LivePcs, CommitOK, State
<1>34. ASSUME NEW root \in Roots, OutsideEdit(root) PROVE ExecutionOK'
  BY <1>34, NobodyElse DEF OutsideEdit, rowVars, lockVars, worldVars, IInv,
     TypeOK, Live, Terminal, Pcs, Thread, Ids, ExecutionOK, ThreadsOK,
     LockPcs, RunPcs, ExecPcs, LivePcs, CommitOK, State
<1>35. ASSUME NEW w \in Workers, Start(w) PROVE ExecutionOK'
  BY <1>35, <1>3, <1>4, <1>5 DEF Start
<1>36. ASSUME NEW w \in Workers, Resume(w) PROVE ExecutionOK'
  BY <1>36, <1>6, <1>7, <1>8, <1>9, <1>10, <1>11, <1>12, <1>1, ThreadEndsRun
     DEF Resume
<1>37. ASSUME NEW w \in Workers, Execute(w) PROVE ExecutionOK'
  BY <1>37, <1>13, <1>14, <1>15, <1>16, <1>17, <1>18, <1>19, <1>20, <1>21,
     <1>22, <1>23, <1>1, ThreadEndsRun DEF Execute, Wait
<1>38. ASSUME NEW w \in Workers, Close(w) PROVE ExecutionOK'
  BY <1>38, <1>24, <1>25, <1>2, OthersEndRun DEF Close
<1>39. ASSUME Scheduler PROVE ExecutionOK'
  <2>1. SchedulerExpire => sched.run \in Runs
    BY DEF SchedulerExpire, IInv, SchedOK, TypeOK, Ids
  <2>. QED
    BY <1>39, <1>26, <1>27, <1>28, <1>2, OthersEndRun, <2>1 DEF Scheduler
<1>40. ASSUME Restart PROVE ExecutionOK'
  BY <1>40, <1>29, <1>30, <1>31, <1>32, <1>2, OthersEndRun DEF Restart
<1>. QED
  BY <1>35, <1>36, <1>37, <1>38, <1>39, <1>40, <1>33, <1>34, <1>2,
     OthersEndRun DEF Next

(* A resume that was admitted is alone until its transaction.              *)
LEMMA CommitOKStep ==
  ASSUME IInv, Next
  PROVE  CommitOK'
<1>1. ASSUME NEW w \in Workers, ThreadEnds(w) PROVE CommitOK'
  <2>. SUFFICES ASSUME NEW v \in Workers, thread'[v].pc = "commit"
                PROVE  /\ v # w
                       /\ status'[thread[v].run] = "waiting"
                       /\ input'[thread[v].input] = input[thread[v].input]
    BY <1>1, CommitRun DEF ThreadEnds, CommitOK, Pending
  <2>1. v # w /\ thread[v].pc = "commit"
    BY <1>1 DEF ThreadEnds
  <2>2. /\ thread[v].run \in Runs /\ thread[v].input \in Pending(thread[v].run)
        /\ status[thread[v].run] = "waiting"
    BY <2>1, CommitRun
  <2>3. thread[v].run # thread[w].run
    BY <1>1, <2>1, IInvParts DEF ThreadEnds, ThreadsOK, LockPcs, RunPcs, Pcs
  <2>4. status'[thread[v].run] = status[thread[v].run]
    BY <1>1, <2>2, <2>3 DEF ThreadEnds, Ends
  <2>. QED  BY <1>1, <2>1, <2>2, <2>4, EndsPending, IInvParts DEF ThreadEnds
<1>2. ASSUME NEW r \in Runs, OthersEnd(r) PROVE CommitOK'
  <2>. SUFFICES ASSUME NEW w \in Workers, thread[w].pc = "commit"
                PROVE  /\ control[thread[w].session] = w
                       /\ status'[thread[w].run] = "waiting"
                       /\ input'[thread[w].input] = input[thread[w].input]
    BY <1>2, CommitRun DEF OthersEnd, CommitOK, Pending
  <2>1. /\ control[thread[w].session] = w /\ status[thread[w].run] = "waiting"
        /\ thread[w].run \in Runs /\ thread[w].input \in Pending(thread[w].run)
    BY CommitRun
  <2>2. status'[thread[w].run] = status[thread[w].run]
    <3>1. CASE thread[w].run = r
      BY <1>2, <3>1 DEF OthersEnd
    <3>2. CASE thread[w].run # r
      BY <1>2, <2>1, <3>2 DEF OthersEnd, Ends
    <3>. QED  BY <3>1, <3>2
  <2>. QED  BY <1>2, <2>1, <2>2, EndsPending, IInvParts DEF OthersEnd
<1>3. ASSUME NEW w \in Workers, NEW s \in Sessions,
             NEW k \in Keys \cup {NoKey}, StartRequest(w, s, k)
      PROVE  CommitOK'
  BY <1>3, NobodyElse DEF StartRequest, Accept, IdleThread, rowVars,
     lockVars, worldVars, IInv, TypeOK, Live, Terminal, Pcs, Thread, Ids,
     CommitOK, ThreadsOK, LockPcs, RunPcs, ExecPcs, LivePcs, Pending
<1>4. ASSUME NEW w \in Workers, NEW r \in Runs, StartCreate(w, r)
      PROVE  CommitOK'
  BY <1>4, NobodyElse DEF StartCreate, ControlFree, IdleState, MayCreate,
     rowVars, lockVars, worldVars, IInv, TypeOK, Live, Terminal, Pcs,
     Thread, Ids, CommitOK, ThreadsOK, LockPcs, RunPcs, ExecPcs, LivePcs,
     Pending
<1>5. ASSUME NEW w \in Workers, StartRefused(w) PROVE CommitOK'
  BY <1>5, NobodyElse DEF StartRefused, ControlFree, Goto, rowVars,
     lockVars, worldVars, IInv, TypeOK, Live, Terminal, Pcs, Thread, Ids,
     CommitOK, ThreadsOK, LockPcs, RunPcs, ExecPcs, LivePcs, Pending
<1>6. ASSUME NEW w \in Workers, NEW r \in Runs, NEW i \in Inputs,
             NEW accept \in BOOLEAN, ResumeRequest(w, r, i, accept)
      PROVE  CommitOK'
  BY <1>6, NobodyElse DEF ResumeRequest, Accept, IdleThread, rowVars,
     lockVars, worldVars, IInv, TypeOK, Live, Terminal, Pcs, Thread, Ids,
     CommitOK, ThreadsOK, LockPcs, RunPcs, ExecPcs, LivePcs, Pending
<1>7. ASSUME NEW w \in Workers, ResumeRefused(w) PROVE CommitOK'
  BY <1>7, NobodyElse DEF ResumeRefused, Admit, ControlFree, Noticed,
     rowVars, lockVars, worldVars, IInv, TypeOK, Live, Terminal, Pcs,
     Thread, Ids, CommitOK, ThreadsOK, LockPcs, RunPcs, ExecPcs, LivePcs,
     Pending
<1>8. ASSUME NEW w \in Workers, ResumeAdmit(w) PROVE CommitOK'
  BY <1>8, NobodyElse DEF ResumeAdmit, Admissible, Admit, ControlFree,
     rowVars, lockVars, worldVars, IInv, TypeOK, Live, Terminal, Pcs,
     Thread, Ids, CommitOK, ThreadsOK, LockPcs, RunPcs, ExecPcs, LivePcs,
     Pending
<1>9. ASSUME NEW w \in Workers, ResumeCommit(w) PROVE CommitOK'
  BY <1>9, NobodyElse DEF ResumeCommit, Answered, Goto, rowVars, lockVars,
     worldVars, IInv, TypeOK, Live, Terminal, Pcs, Thread, Ids, CommitOK,
     ThreadsOK, LockPcs, RunPcs, ExecPcs, LivePcs, Pending
<1>10. ASSUME NEW w \in Workers, ResumeTooLate(w) PROVE CommitOK'
  BY <1>10, NobodyElse DEF ResumeTooLate, Answered, Goto, rowVars, lockVars,
     worldVars, IInv, TypeOK, Live, Terminal, Pcs, Thread, Ids, CommitOK,
     ThreadsOK, LockPcs, RunPcs, ExecPcs, LivePcs, Pending
<1>11. ASSUME NEW w \in Workers, ResumeInvalid(w) PROVE CommitOK'
  BY <1>11, NobodyElse DEF ResumeInvalid, Goto, rowVars, lockVars, worldVars,
     IInv, TypeOK, Live, Terminal, Pcs, Thread, Ids, CommitOK, ThreadsOK,
     LockPcs, RunPcs, ExecPcs, LivePcs, Pending
<1>12. ASSUME NEW w \in Workers, ResumeArm(w) PROVE CommitOK'
  BY <1>12, NobodyElse DEF ResumeArm, Goto, Arm, rowVars, lockVars,
     worldVars, IInv, TypeOK, Live, Terminal, Pcs, Thread, Ids, CommitOK,
     ThreadsOK, LockPcs, RunPcs, ExecPcs, LivePcs, Pending
<1>13. ASSUME NEW w \in Workers, ReserveWorktree(w) PROVE CommitOK'
  BY <1>13, NobodyElse DEF ReserveWorktree, At, rowVars, lockVars, worldVars,
     IInv, TypeOK, Live, Terminal, Pcs, Thread, Ids, CommitOK, ThreadsOK,
     LockPcs, RunPcs, ExecPcs, LivePcs, Pending
<1>14. ASSUME NEW w \in Workers, Begin(w) PROVE CommitOK'
  BY <1>14, NobodyElse DEF Begin, At, Goto, rowVars, lockVars, worldVars,
     IInv, TypeOK, Live, Terminal, Pcs, Thread, Ids, CommitOK, ThreadsOK,
     LockPcs, RunPcs, ExecPcs, LivePcs, Pending
<1>15. ASSUME NEW w \in Workers, DriveWrite(w) PROVE CommitOK'
  BY <1>15, NobodyElse DEF DriveWrite, At, rowVars, lockVars, worldVars,
     IInv, TypeOK, Live, Terminal, Pcs, Thread, Ids, CommitOK, ThreadsOK,
     LockPcs, RunPcs, ExecPcs, LivePcs, Pending
<1>16. ASSUME NEW w \in Workers, DrivePause(w) PROVE CommitOK'
  BY <1>16, NobodyElse DEF DrivePause, At, Goto, rowVars, lockVars,
     worldVars, IInv, TypeOK, Live, Terminal, Pcs, Thread, Ids, CommitOK,
     ThreadsOK, LockPcs, RunPcs, ExecPcs, LivePcs, Pending
<1>17. ASSUME NEW w \in Workers, NEW new \in SUBSET Inputs,
              NEW kind \in {"approval", "decision"}, NEW manual \in BOOLEAN,
              WaitCommit(w, new, kind, manual)
       PROVE  CommitOK'
  BY <1>17, NobodyElse DEF WaitCommit, At, Goto, NewInput, rowVars, lockVars,
     worldVars, IInv, TypeOK, Live, Terminal, Pcs, Thread, Ids, CommitOK,
     ThreadsOK, LockPcs, RunPcs, ExecPcs, LivePcs, Pending
<1>18. ASSUME NEW w \in Workers, DriveReturn(w) PROVE CommitOK'
  BY <1>18, NobodyElse DEF DriveReturn, At, Goto, rowVars, lockVars,
     worldVars, IInv, TypeOK, Live, Terminal, Pcs, Thread, Ids, CommitOK,
     ThreadsOK, LockPcs, RunPcs, ExecPcs, LivePcs, Pending
<1>19. ASSUME NEW w \in Workers, LeaveWorktree(w) PROVE CommitOK'
  BY <1>19, NobodyElse DEF LeaveWorktree, At, rowVars, lockVars, worldVars,
     IInv, TypeOK, Live, Terminal, Pcs, Thread, Ids, CommitOK, ThreadsOK,
     LockPcs, RunPcs, ExecPcs, LivePcs, Pending
<1>20. ASSUME NEW w \in Workers, StopExecuting(w) PROVE CommitOK'
  BY <1>20, NobodyElse DEF StopExecuting, ControlFree, Goto, rowVars,
     lockVars, worldVars, IInv, TypeOK, Live, Terminal, Pcs, Thread, Ids,
     CommitOK, ThreadsOK, LockPcs, RunPcs, ExecPcs, LivePcs, Pending
<1>21. ASSUME NEW w \in Workers, ReleaseWorktree(w) PROVE CommitOK'
  BY <1>21, NobodyElse DEF ReleaseWorktree, At, rowVars, lockVars, worldVars,
     IInv, TypeOK, Live, Terminal, Pcs, Thread, Ids, CommitOK, ThreadsOK,
     LockPcs, RunPcs, ExecPcs, LivePcs, Pending
<1>22. ASSUME NEW w \in Workers, ReleaseLock(w) PROVE CommitOK'
  BY <1>22, NobodyElse DEF ReleaseLock, At, IdleThread, rowVars, lockVars,
     worldVars, IInv, TypeOK, Live, Terminal, Pcs, Thread, Ids, CommitOK,
     ThreadsOK, LockPcs, RunPcs, ExecPcs, LivePcs, Pending
<1>23. ASSUME NEW w \in Workers, NotifyTimeout(w) PROVE CommitOK'
  BY <1>23, NobodyElse DEF NotifyTimeout, Publish, ControlFree, IdleThread,
     rowVars, lockVars, worldVars, IInv, TypeOK, Live, Terminal, Pcs,
     Thread, Ids, CommitOK, ThreadsOK, LockPcs, RunPcs, ExecPcs, LivePcs,
     Pending
<1>24. ASSUME NEW w \in Workers, NEW s \in Sessions, CloseRequest(w, s)
       PROVE  CommitOK'
  BY <1>24, NobodyElse DEF CloseRequest, Accept, IdleThread, rowVars,
     lockVars, worldVars, IInv, TypeOK, Live, Terminal, Pcs, Thread, Ids,
     CommitOK, ThreadsOK, LockPcs, RunPcs, ExecPcs, LivePcs, Pending
<1>25. ASSUME NEW w \in Workers, CloseDone(w) PROVE CommitOK'
  BY <1>25, NobodyElse DEF CloseDone, At, Goto, rowVars, lockVars, worldVars,
     IInv, TypeOK, Live, Terminal, Pcs, Thread, Ids, CommitOK, ThreadsOK,
     LockPcs, RunPcs, ExecPcs, LivePcs, Pending
<1>26. ASSUME NEW r \in Runs, SchedulerPop(r) PROVE CommitOK'
  BY <1>26, NobodyElse DEF SchedulerPop, rowVars, lockVars, worldVars, IInv,
     TypeOK, Live, Terminal, Pcs, Thread, Ids, CommitOK, ThreadsOK, LockPcs,
     RunPcs, ExecPcs, LivePcs, Pending
<1>27. ASSUME SchedulerRetry PROVE CommitOK'
  BY <1>27, NobodyElse DEF SchedulerRetry, ControlFree, rowVars, lockVars,
     worldVars, IInv, TypeOK, Live, Terminal, Pcs, Thread, Ids, CommitOK,
     ThreadsOK, LockPcs, RunPcs, ExecPcs, LivePcs, Pending
<1>28. ASSUME SchedulerNotify PROVE CommitOK'
  BY <1>28, NobodyElse DEF SchedulerNotify, Publish, ControlFree, rowVars,
     lockVars, worldVars, IInv, TypeOK, Live, Terminal, Pcs, Thread, Ids,
     CommitOK, ThreadsOK, LockPcs, RunPcs, ExecPcs, LivePcs, Pending
<1>29. ASSUME Crash PROVE CommitOK'
  BY <1>29, NobodyElse DEF Crash, IdleState, IdleThread, rowVars, lockVars,
     worldVars, IInv, TypeOK, Live, Terminal, Pcs, Thread, Ids, CommitOK,
     ThreadsOK, LockPcs, RunPcs, ExecPcs, LivePcs, Pending
<1>30. ASSUME NEW r \in Runs, NEW ids \in SUBSET Inputs,
              NEW reissue \in [ids -> Inputs], Restore(r, reissue)
       PROVE  CommitOK'
  BY <1>30, NobodyElse DEF Restore, Reissued, rowVars, lockVars, worldVars,
     IInv, TypeOK, Live, Terminal, Pcs, Thread, Ids, CommitOK, ThreadsOK,
     LockPcs, RunPcs, ExecPcs, LivePcs, Pending
<1>31. ASSUME Recover PROVE CommitOK'
  BY <1>31, NobodyElse DEF Recover, Lost, Swept, rowVars, lockVars,
     worldVars, IInv, TypeOK, Live, Terminal, Pcs, Thread, Ids, CommitOK,
     ThreadsOK, LockPcs, RunPcs, ExecPcs, LivePcs, Pending
<1>32. ASSUME Serve PROVE CommitOK'
  BY <1>32, NobodyElse DEF Serve, rowVars, lockVars, worldVars, IInv, TypeOK,
     Live, Terminal, Pcs, Thread, Ids, CommitOK, ThreadsOK, LockPcs, RunPcs,
     ExecPcs, LivePcs, Pending
<1>33. ASSUME Tick PROVE CommitOK'
  BY <1>33, NobodyElse DEF Tick, rowVars, lockVars, worldVars, IInv, TypeOK,
     Live, Terminal, Pcs, Thread, Ids, CommitOK, ThreadsOK, LockPcs, RunPcs,
     ExecPcs, LivePcs, Pending
<1>34. ASSUME NEW root \in Roots, OutsideEdit(root) PROVE CommitOK'
  BY <1>34, NobodyElse DEF OutsideEdit, rowVars, lockVars, worldVars, IInv,
     TypeOK, Live, Terminal, Pcs, Thread, Ids, CommitOK, ThreadsOK, LockPcs,
     RunPcs, ExecPcs, LivePcs, Pending
<1>35. ASSUME NEW w \in Workers, Start(w) PROVE CommitOK'
  BY <1>35, <1>3, <1>4, <1>5 DEF Start
<1>36. ASSUME NEW w \in Workers, Resume(w) PROVE CommitOK'
  BY <1>36, <1>6, <1>7, <1>8, <1>9, <1>10, <1>11, <1>12, <1>1, ThreadEndsRun
     DEF Resume
<1>37. ASSUME NEW w \in Workers, Execute(w) PROVE CommitOK'
  BY <1>37, <1>13, <1>14, <1>15, <1>16, <1>17, <1>18, <1>19, <1>20, <1>21,
     <1>22, <1>23, <1>1, ThreadEndsRun DEF Execute, Wait
<1>38. ASSUME NEW w \in Workers, Close(w) PROVE CommitOK'
  BY <1>38, <1>24, <1>25, <1>2, OthersEndRun DEF Close
<1>39. ASSUME Scheduler PROVE CommitOK'
  <2>1. SchedulerExpire => sched.run \in Runs
    BY DEF SchedulerExpire, IInv, SchedOK, TypeOK, Ids
  <2>. QED
    BY <1>39, <1>26, <1>27, <1>28, <1>2, OthersEndRun, <2>1 DEF Scheduler
<1>40. ASSUME Restart PROVE CommitOK'
  BY <1>40, <1>29, <1>30, <1>31, <1>32, <1>2, OthersEndRun DEF Restart
<1>. QED
  BY <1>35, <1>36, <1>37, <1>38, <1>39, <1>40, <1>33, <1>34, <1>2,
     OthersEndRun DEF Next

(* The live runs stay the held ones.                                       *)
LEMMA HeldOKStep ==
  ASSUME IInv, Next
  PROVE  HeldOK'
<1>1. ASSUME NEW w \in Workers, ThreadEnds(w) PROVE HeldOK'
  <2>1. Ends(thread[w].run) /\ TypeOK /\ HeldOK /\ mode' = mode
    BY <1>1 DEF ThreadEnds, IInv
  <2>. QED  BY <2>1, EndsHeld
<1>2. ASSUME NEW r \in Runs, OthersEnd(r) PROVE HeldOK'
  <2>1. Ends(r) /\ TypeOK /\ HeldOK /\ mode' = mode
    BY <1>2 DEF OthersEnd, IInv
  <2>. QED  BY <2>1, EndsHeld
<1>3. ASSUME NEW w \in Workers, NEW r \in Runs, StartCreate(w, r) PROVE HeldOK'
  BY <1>3, NobodyElse DEF StartCreate, ControlFree, IdleState, MayCreate,
     rowVars, lockVars, worldVars, IInv, TypeOK, Live, Terminal, Pcs,
     Thread, Ids, HeldOK, RowsOK, ThreadsOK, ExecutionOK, CommitOK, RunPcs,
     LivePcs
<1>4. ASSUME NEW w \in Workers, ResumeCommit(w) PROVE HeldOK'
  BY <1>4, NobodyElse DEF ResumeCommit, Answered, Goto, rowVars, lockVars,
     worldVars, IInv, TypeOK, Live, Terminal, Pcs, Thread, Ids, HeldOK,
     RowsOK, ThreadsOK, ExecutionOK, CommitOK, RunPcs, LivePcs
<1>5. ASSUME NEW w \in Workers, NEW new \in SUBSET Inputs,
             NEW kind \in {"approval", "decision"}, NEW manual \in BOOLEAN,
             WaitCommit(w, new, kind, manual)
      PROVE  HeldOK'
  BY <1>5, NobodyElse DEF WaitCommit, At, Goto, NewInput, rowVars, lockVars,
     worldVars, IInv, TypeOK, Live, Terminal, Pcs, Thread, Ids, HeldOK,
     RowsOK, ThreadsOK, ExecutionOK, CommitOK, RunPcs, LivePcs
<1>6. ASSUME Crash PROVE HeldOK'
  BY <1>6, NobodyElse DEF Crash, IdleState, IdleThread, rowVars, lockVars,
     worldVars, IInv, TypeOK, Live, Terminal, Pcs, Thread, Ids, HeldOK,
     RowsOK, ThreadsOK, ExecutionOK, CommitOK, RunPcs, LivePcs
<1>7. ASSUME NEW r \in Runs, NEW ids \in SUBSET Inputs,
             NEW reissue \in [ids -> Inputs], Restore(r, reissue)
      PROVE  HeldOK'
  BY <1>7, NobodyElse DEF Restore, Reissued, rowVars, lockVars, worldVars,
     IInv, TypeOK, Live, Terminal, Pcs, Thread, Ids, HeldOK, RowsOK,
     ThreadsOK, ExecutionOK, CommitOK, RunPcs, LivePcs
<1>8. ASSUME Recover PROVE HeldOK'
  BY <1>8, NobodyElse DEF Recover, Lost, Swept, rowVars, lockVars,
     worldVars, IInv, TypeOK, Live, Terminal, Pcs, Thread, Ids, HeldOK,
     RowsOK, ThreadsOK, ExecutionOK, CommitOK, RunPcs, LivePcs
<1>9. ASSUME Serve PROVE HeldOK'
  BY <1>9, NobodyElse DEF Serve, rowVars, lockVars, worldVars, IInv, TypeOK,
     Live, Terminal, Pcs, Thread, Ids, HeldOK, RowsOK, ThreadsOK,
     ExecutionOK, CommitOK, RunPcs, LivePcs
<1>10. ASSUME NEW w \in Workers, Start(w) PROVE HeldOK'
  <2>1. (\E s \in Sessions, k \in Keys \cup {NoKey} : StartRequest(w, s, k))
        \/ StartRefused(w)
          => UNCHANGED <<status, held, mode>>
    BY DEF StartRequest, Accept, StartRefused, rowVars, lockVars, worldVars
  <2>. QED
    BY <1>10, <1>3, <2>1, IInvParts DEF Start, HeldOK, IInv
<1>11. ASSUME NEW w \in Workers, Resume(w) PROVE HeldOK'
  <2>1. (\E r \in Runs, i \in Inputs, accept \in BOOLEAN : ResumeRequest(w,
        r, i, accept)) \/ ResumeRefused(w) \/ ResumeAdmit(w) \/
        ResumeTooLate(w) \/ ResumeInvalid(w) \/ ResumeArm(w)
          => UNCHANGED <<status, held, mode>>
    BY DEF ResumeRequest, Accept, ResumeRefused, ResumeAdmit, ResumeTooLate,
       ResumeInvalid, ResumeArm, rowVars, lockVars, worldVars
  <2>. QED
    BY <1>11, <1>4, <1>1, ThreadEndsRun, <2>1, IInvParts DEF Resume, HeldOK,
       IInv
<1>12. ASSUME NEW w \in Workers, Execute(w) PROVE HeldOK'
  <2>1. Wait(w) => HeldOK'
    BY <1>5 DEF Wait
  <2>2. ReserveWorktree(w) \/ Begin(w) \/ DriveWrite(w) \/ DrivePause(w) \/
        DriveReturn(w) \/ LeaveWorktree(w) \/ StopExecuting(w) \/
        ReleaseWorktree(w) \/ ReleaseLock(w) \/ NotifyTimeout(w)
          => UNCHANGED <<status, held, mode>>
    BY DEF ReserveWorktree, Begin, DriveWrite, DrivePause, DriveReturn,
       LeaveWorktree, StopExecuting, ReleaseWorktree, ReleaseLock,
       NotifyTimeout, rowVars, lockVars, worldVars
  <2>. QED
    BY <1>12, <1>1, ThreadEndsRun, <2>1, <2>2, IInvParts DEF Execute, HeldOK,
       IInv
<1>13. ASSUME NEW w \in Workers, Close(w) PROVE HeldOK'
  <2>1. (\E s \in Sessions : CloseRequest(w, s)) \/ CloseDone(w)
          => UNCHANGED <<status, held, mode>>
    BY DEF CloseRequest, Accept, CloseDone, rowVars, lockVars, worldVars
  <2>. QED
    BY <1>13, <1>2, OthersEndRun, <2>1, IInvParts DEF Close, HeldOK, IInv
<1>14. ASSUME Scheduler PROVE HeldOK'
  <2>1. SchedulerExpire => sched.run \in Runs
    BY DEF SchedulerExpire, IInv, SchedOK, TypeOK, Ids
  <2>2. (\E r \in Runs : SchedulerPop(r)) \/ SchedulerRetry \/
        SchedulerNotify
          => UNCHANGED <<status, held, mode>>
    BY DEF SchedulerPop, SchedulerRetry, SchedulerNotify, rowVars, lockVars,
       worldVars
  <2>. QED
    BY <1>14, <1>2, OthersEndRun, <2>1, <2>2, IInvParts DEF Scheduler, HeldOK,
       IInv
<1>15. ASSUME Restart PROVE HeldOK'
  BY <1>15, <1>6, <1>7, <1>8, <1>9, <1>2, OthersEndRun, IInvParts DEF
     Restart, HeldOK, IInv
<1>. QED
  BY <1>10, <1>11, <1>12, <1>13, <1>14, <1>15, <1>2, OthersEndRun, IInvParts
     DEF Next, HeldOK, IInv, Tick, OutsideEdit, rowVars, lockVars, worldVars

(* An open input belongs to a live run, a checkpoint to a waiting one.     *)
LEMMA RowsOKStep ==
  ASSUME IInv, Next
  PROVE  RowsOK'
<1>1. ASSUME NEW w \in Workers, ThreadEnds(w) PROVE RowsOK'
  <2>1. Ends(thread[w].run) /\ TypeOK /\ RowsOK
    BY <1>1 DEF ThreadEnds, IInv
  <2>. QED  BY <2>1, EndsRows
<1>2. ASSUME NEW r \in Runs, OthersEnd(r) PROVE RowsOK'
  <2>1. Ends(r) /\ TypeOK /\ RowsOK
    BY <1>2 DEF OthersEnd, IInv
  <2>. QED  BY <2>1, EndsRows
<1>3. ASSUME NEW w \in Workers, NEW r \in Runs, StartCreate(w, r) PROVE RowsOK'
  BY <1>3, NobodyElse DEF StartCreate, ControlFree, IdleState, MayCreate,
     rowVars, lockVars, worldVars, IInv, TypeOK, Live, Terminal, Pcs,
     Thread, Ids, RowsOK, ThreadsOK, ExecutionOK, CommitOK, HeldOK, LivePcs,
     RunPcs, Pending, Reject, Input
<1>4. ASSUME NEW w \in Workers, ResumeCommit(w) PROVE RowsOK'
  BY <1>4, NobodyElse DEF ResumeCommit, Answered, Goto, rowVars, lockVars,
     worldVars, IInv, TypeOK, Live, Terminal, Pcs, Thread, Ids, RowsOK,
     ThreadsOK, ExecutionOK, CommitOK, HeldOK, LivePcs, RunPcs, Pending,
     Reject, Input
<1>5. ASSUME NEW w \in Workers, NEW new \in SUBSET Inputs,
             NEW kind \in {"approval", "decision"}, NEW manual \in BOOLEAN,
             WaitCommit(w, new, kind, manual)
      PROVE  RowsOK'
  BY <1>5, NobodyElse, SMTT(60) DEF WaitCommit, At, Goto, NewInput, rowVars, lockVars,
     worldVars, IInv, TypeOK, Live, Terminal, Pcs, Thread, Ids, RowsOK,
     ThreadsOK, ExecutionOK, CommitOK, HeldOK, LivePcs, RunPcs, Pending,
     Reject, Input
<1>6. ASSUME NEW r \in Runs, NEW ids \in SUBSET Inputs,
             NEW reissue \in [ids -> Inputs], Restore(r, reissue)
      PROVE  RowsOK'
  <2>1. RowsOK /\ TypeOK /\ UNCHANGED <<status, owner, saved>>
    BY <1>6 DEF Restore, IInv
  <2>2. ASSUME NEW k \in Inputs, input'[k].status = "pending"
        PROVE  \E i \in Inputs : input'[k] = input[i]
    <3>1. \/ input'[k] = input[k] \/ input'[k] = Reject(input[k])
          \/ \E i \in Pending(r) : input'[k] = input[i]
      BY <1>6, <2>1, RestoreInputs
    <3>2. Reject(input[k]).status = "expired"
      BY <2>1, RejectSettles DEF TypeOK
    <3>. QED  BY <2>2, <3>1, <3>2 DEF Pending
  <2>. QED  BY <2>1, <2>2 DEF RowsOK
<1>7. ASSUME Recover PROVE RowsOK'
  <2>1. RowsOK /\ TypeOK
    BY DEF IInv
  <2>2. ASSUME NEW i \in Inputs, input'[i].status = "pending"
        PROVE  input'[i] = input[i] /\ input[i].run \notin Lost
    BY <1>7, <2>1, <2>2, RejectSettles DEF Recover, Swept, TypeOK
  <2>3. \A q \in Runs : q \notin Lost => status'[q] = status[q] /\ saved'[q] = saved[q]
    BY <1>7 DEF Recover
  <2>4. \A q \in Runs : q \in Lost => status[q] # "none" /\ saved'[q] = NoTree
    BY <1>7 DEF Recover, Lost, Live
  <2>5. \A i \in Inputs : input[i].status = "pending" => input[i].run \in Runs
    BY <2>1 DEF RowsOK, TypeOK, Input, Ids
  <2>. QED
    BY <1>7, <2>1, <2>2, <2>3, <2>4, <2>5 DEF Recover, RowsOK
<1>8. ASSUME NEW w \in Workers, Start(w) PROVE RowsOK'
  <2>1. (\E s \in Sessions, k \in Keys \cup {NoKey} : StartRequest(w, s, k))
        \/ StartRefused(w)
          => UNCHANGED rowVars
    BY DEF StartRequest, Accept, StartRefused, rowVars, lockVars, worldVars
  <2>. QED
    BY <1>8, <1>3, <2>1, IInvParts DEF Start, RowsOK, rowVars, IInv
<1>9. ASSUME NEW w \in Workers, Resume(w) PROVE RowsOK'
  <2>1. (\E r \in Runs, i \in Inputs, accept \in BOOLEAN : ResumeRequest(w,
        r, i, accept)) \/ ResumeRefused(w) \/ ResumeAdmit(w) \/
        ResumeTooLate(w) \/ ResumeInvalid(w) \/ ResumeArm(w)
          => UNCHANGED rowVars
    BY DEF ResumeRequest, Accept, ResumeRefused, ResumeAdmit, ResumeTooLate,
       ResumeInvalid, ResumeArm, rowVars, lockVars, worldVars
  <2>. QED
    BY <1>9, <1>4, <1>1, ThreadEndsRun, <2>1, IInvParts DEF Resume, RowsOK,
       rowVars, IInv
<1>10. ASSUME NEW w \in Workers, Execute(w) PROVE RowsOK'
  <2>1. Wait(w) => RowsOK'
    BY <1>5 DEF Wait
  <2>2. ReserveWorktree(w) \/ Begin(w) \/ DriveWrite(w) \/ DrivePause(w) \/
        DriveReturn(w) \/ LeaveWorktree(w) \/ StopExecuting(w) \/
        ReleaseWorktree(w) \/ ReleaseLock(w) \/ NotifyTimeout(w)
          => UNCHANGED rowVars
    BY DEF ReserveWorktree, Begin, DriveWrite, DrivePause, DriveReturn,
       LeaveWorktree, StopExecuting, ReleaseWorktree, ReleaseLock,
       NotifyTimeout, rowVars, lockVars, worldVars
  <2>. QED
    BY <1>10, <1>1, ThreadEndsRun, <2>1, <2>2, IInvParts DEF Execute, RowsOK,
       rowVars, IInv
<1>11. ASSUME NEW w \in Workers, Close(w) PROVE RowsOK'
  <2>1. (\E s \in Sessions : CloseRequest(w, s)) \/ CloseDone(w)
          => UNCHANGED rowVars
    BY DEF CloseRequest, Accept, CloseDone, rowVars, lockVars, worldVars
  <2>. QED
    BY <1>11, <1>2, OthersEndRun, <2>1, IInvParts DEF Close, RowsOK, rowVars,
       IInv
<1>12. ASSUME Scheduler PROVE RowsOK'
  <2>1. SchedulerExpire => sched.run \in Runs
    BY DEF SchedulerExpire, IInv, SchedOK, TypeOK, Ids
  <2>2. (\E r \in Runs : SchedulerPop(r)) \/ SchedulerRetry \/
        SchedulerNotify
          => UNCHANGED rowVars
    BY DEF SchedulerPop, SchedulerRetry, SchedulerNotify, rowVars, lockVars,
       worldVars
  <2>. QED
    BY <1>12, <1>2, OthersEndRun, <2>1, <2>2, IInvParts DEF Scheduler, RowsOK,
       rowVars, IInv
<1>13. ASSUME Restart PROVE RowsOK'
  <2>1. Crash \/ Serve
          => UNCHANGED rowVars
    BY DEF Crash, Serve, rowVars, lockVars, worldVars
  <2>. QED
    BY <1>13, <1>6, <1>7, <1>2, OthersEndRun, <2>1, IInvParts DEF Restart,
       RowsOK, rowVars, IInv
<1>. QED
  BY <1>8, <1>9, <1>10, <1>11, <1>12, <1>13, <1>2, OthersEndRun, IInvParts
     DEF Next, RowsOK, rowVars, IInv, Tick, OutsideEdit, lockVars, worldVars

(* A waiting run keeps an open input.                                      *)
LEMMA WaitingHasInputStep ==
  ASSUME IInv, Next
  PROVE  WaitingHasInput'
<1>1. ASSUME NEW w \in Workers, ThreadEnds(w) PROVE WaitingHasInput'
  <2>1. Ends(thread[w].run) /\ TypeOK /\ WaitingHasInput
    BY <1>1 DEF ThreadEnds, IInv
  <2>. QED  BY <2>1, EndsWaiting
<1>2. ASSUME NEW r \in Runs, OthersEnd(r) PROVE WaitingHasInput'
  <2>1. Ends(r) /\ TypeOK /\ WaitingHasInput
    BY <1>2 DEF OthersEnd, IInv
  <2>. QED  BY <2>1, EndsWaiting
<1>3. ASSUME NEW w \in Workers, NEW r \in Runs, StartCreate(w, r)
      PROVE  WaitingHasInput'
  BY <1>3, NobodyElse DEF StartCreate, ControlFree, IdleState, MayCreate,
     rowVars, lockVars, worldVars, IInv, TypeOK, Live, Terminal, Pcs,
     Thread, Ids, WaitingHasInput, RowsOK, CommitOK, HeldOK, Pending
<1>4. ASSUME NEW w \in Workers, ResumeCommit(w) PROVE WaitingHasInput'
  BY <1>4, NobodyElse DEF ResumeCommit, Answered, Goto, rowVars, lockVars,
     worldVars, IInv, TypeOK, Live, Terminal, Pcs, Thread, Ids,
     WaitingHasInput, RowsOK, CommitOK, HeldOK, Pending
<1>5. ASSUME NEW w \in Workers, NEW new \in SUBSET Inputs,
             NEW kind \in {"approval", "decision"}, NEW manual \in BOOLEAN,
             WaitCommit(w, new, kind, manual)
      PROVE  WaitingHasInput'
  <2>1. ASSUME NEW q \in Runs, NEW i \in Pending(q)
        PROVE  i \in Pending(q)'
    <3>1. i \notin new
      BY <1>5 DEF WaitCommit, Pending
    <3>2. input' = [j \in Inputs |-> IF j \in new THEN NewInput(thread[w].run, kind) ELSE input[j]]
      BY <1>5 DEF WaitCommit
    <3>. QED  BY <3>1, <3>2 DEF Pending
  <2>2. ASSUME NEW q \in Runs, q = thread[w].run, NEW i \in new
        PROVE  i \in Pending(q)'
    BY <1>5, <2>2 DEF WaitCommit, NewInput, Pending
  <2>3. Pending(thread[w].run) \cup new # {}
    BY <1>5 DEF WaitCommit
  <2>4. \A q \in Runs : status'[q] = "waiting" => q = thread[w].run \/ status[q] = "waiting"
    BY <1>5 DEF WaitCommit, IInv, TypeOK
  <2>. QED  BY <2>1, <2>2, <2>3, <2>4 DEF IInv, WaitingHasInput
<1>6. ASSUME NEW r \in Runs, NEW ids \in SUBSET Inputs,
             NEW reissue \in [ids -> Inputs], Restore(r, reissue)
      PROVE  WaitingHasInput'
  <2>1. \A q \in Runs : Pending(q) # {} => Pending(q)' # {}
    BY <1>6, RestoreInputs DEF IInv
  <2>2. status' = status
    BY <1>6 DEF Restore
  <2>. QED
    BY <2>1, <2>2 DEF IInv, WaitingHasInput
<1>7. ASSUME Recover PROVE WaitingHasInput'
  <2>1. ASSUME NEW q \in Runs, status'[q] = "waiting"
        PROVE  status[q] = "waiting" /\ q \notin Lost
    BY <1>7, <2>1 DEF Recover
  <2>2. ASSUME NEW q \in Runs, q \notin Lost, NEW i \in Pending(q)
        PROVE  i \in Pending(q)'
    BY <1>7, <2>2 DEF Recover, Swept, Pending
  <2>. QED  BY <2>1, <2>2 DEF IInv, WaitingHasInput
<1>8. ASSUME NEW w \in Workers, Start(w) PROVE WaitingHasInput'
  <2>1. (\E s \in Sessions, k \in Keys \cup {NoKey} : StartRequest(w, s, k))
        \/ StartRefused(w)
          => UNCHANGED rowVars
    BY DEF StartRequest, Accept, StartRefused, rowVars, lockVars, worldVars
  <2>. QED
    BY <1>8, <1>3, <2>1, IInvParts DEF Start, WaitingHasInput, Pending,
       rowVars, IInv
<1>9. ASSUME NEW w \in Workers, Resume(w) PROVE WaitingHasInput'
  <2>1. (\E r \in Runs, i \in Inputs, accept \in BOOLEAN : ResumeRequest(w,
        r, i, accept)) \/ ResumeRefused(w) \/ ResumeAdmit(w) \/
        ResumeTooLate(w) \/ ResumeInvalid(w) \/ ResumeArm(w)
          => UNCHANGED rowVars
    BY DEF ResumeRequest, Accept, ResumeRefused, ResumeAdmit, ResumeTooLate,
       ResumeInvalid, ResumeArm, rowVars, lockVars, worldVars
  <2>. QED
    BY <1>9, <1>4, <1>1, ThreadEndsRun, <2>1, IInvParts DEF Resume,
       WaitingHasInput, Pending, rowVars, IInv
<1>10. ASSUME NEW w \in Workers, Execute(w) PROVE WaitingHasInput'
  <2>1. Wait(w) => WaitingHasInput'
    BY <1>5 DEF Wait
  <2>2. ReserveWorktree(w) \/ Begin(w) \/ DriveWrite(w) \/ DrivePause(w) \/
        DriveReturn(w) \/ LeaveWorktree(w) \/ StopExecuting(w) \/
        ReleaseWorktree(w) \/ ReleaseLock(w) \/ NotifyTimeout(w)
          => UNCHANGED rowVars
    BY DEF ReserveWorktree, Begin, DriveWrite, DrivePause, DriveReturn,
       LeaveWorktree, StopExecuting, ReleaseWorktree, ReleaseLock,
       NotifyTimeout, rowVars, lockVars, worldVars
  <2>. QED
    BY <1>10, <1>1, ThreadEndsRun, <2>1, <2>2, IInvParts DEF Execute,
       WaitingHasInput, Pending, rowVars, IInv
<1>11. ASSUME NEW w \in Workers, Close(w) PROVE WaitingHasInput'
  <2>1. (\E s \in Sessions : CloseRequest(w, s)) \/ CloseDone(w)
          => UNCHANGED rowVars
    BY DEF CloseRequest, Accept, CloseDone, rowVars, lockVars, worldVars
  <2>. QED
    BY <1>11, <1>2, OthersEndRun, <2>1, IInvParts DEF Close, WaitingHasInput,
       Pending, rowVars, IInv
<1>12. ASSUME Scheduler PROVE WaitingHasInput'
  <2>1. SchedulerExpire => sched.run \in Runs
    BY DEF SchedulerExpire, IInv, SchedOK, TypeOK, Ids
  <2>2. (\E r \in Runs : SchedulerPop(r)) \/ SchedulerRetry \/
        SchedulerNotify
          => UNCHANGED rowVars
    BY DEF SchedulerPop, SchedulerRetry, SchedulerNotify, rowVars, lockVars,
       worldVars
  <2>. QED
    BY <1>12, <1>2, OthersEndRun, <2>1, <2>2, IInvParts DEF Scheduler,
       WaitingHasInput, Pending, rowVars, IInv
<1>13. ASSUME Restart PROVE WaitingHasInput'
  <2>1. Crash \/ Serve
          => UNCHANGED rowVars
    BY DEF Crash, Serve, rowVars, lockVars, worldVars
  <2>. QED
    BY <1>13, <1>6, <1>7, <1>2, OthersEndRun, <2>1, IInvParts, SMTT(60) DEF Restart,
       WaitingHasInput, Pending, rowVars, IInv
<1>. QED
  BY <1>8, <1>9, <1>10, <1>11, <1>12, <1>13, <1>2, OthersEndRun, IInvParts
     DEF Next, WaitingHasInput, Pending, rowVars, IInv, Tick, OutsideEdit,
     lockVars, worldVars

(* A session does not get a second live run.                               *)
LEMMA OneLiveRunStep ==
  ASSUME IInv, Next
  PROVE  OneLiveRun'
<1>1. ASSUME NEW w \in Workers, ThreadEnds(w) PROVE OneLiveRun'
  <2>1. Ends(thread[w].run) /\ OneLiveRun
    BY <1>1 DEF ThreadEnds, IInv
  <2>. QED  BY <2>1, EndsOneLiveRun
<1>2. ASSUME NEW r \in Runs, OthersEnd(r) PROVE OneLiveRun'
  <2>1. Ends(r) /\ OneLiveRun
    BY <1>2 DEF OthersEnd, IInv
  <2>. QED  BY <2>1, EndsOneLiveRun
<1>3. ASSUME NEW w \in Workers, NEW r \in Runs, StartCreate(w, r)
      PROVE  OneLiveRun'
  BY <1>3, NobodyElse DEF StartCreate, ControlFree, IdleState, MayCreate,
     rowVars, lockVars, worldVars, IInv, TypeOK, Live, Terminal, Pcs,
     Thread, Ids, OneLiveRun, RowsOK, ExecutionOK, CommitOK, ThreadsOK,
     RunPcs, LivePcs, Idle
<1>4. ASSUME NEW w \in Workers, ResumeCommit(w) PROVE OneLiveRun'
  BY <1>4, NobodyElse DEF ResumeCommit, Answered, Goto, rowVars, lockVars,
     worldVars, IInv, TypeOK, Live, Terminal, Pcs, Thread, Ids, OneLiveRun,
     RowsOK, ExecutionOK, CommitOK, ThreadsOK, RunPcs, LivePcs, Idle
<1>5. ASSUME NEW w \in Workers, NEW new \in SUBSET Inputs,
             NEW kind \in {"approval", "decision"}, NEW manual \in BOOLEAN,
             WaitCommit(w, new, kind, manual)
      PROVE  OneLiveRun'
  BY <1>5, NobodyElse DEF WaitCommit, At, Goto, NewInput, rowVars, lockVars,
     worldVars, IInv, TypeOK, Live, Terminal, Pcs, Thread, Ids, OneLiveRun,
     RowsOK, ExecutionOK, CommitOK, ThreadsOK, RunPcs, LivePcs, Idle
<1>6. ASSUME NEW r \in Runs, NEW ids \in SUBSET Inputs,
             NEW reissue \in [ids -> Inputs], Restore(r, reissue)
      PROVE  OneLiveRun'
  BY <1>6, NobodyElse DEF Restore, Reissued, rowVars, lockVars, worldVars,
     IInv, TypeOK, Live, Terminal, Pcs, Thread, Ids, OneLiveRun, RowsOK,
     ExecutionOK, CommitOK, ThreadsOK, RunPcs, LivePcs, Idle
<1>7. ASSUME Recover PROVE OneLiveRun'
  BY <1>7, NobodyElse DEF Recover, Lost, Swept, rowVars, lockVars,
     worldVars, IInv, TypeOK, Live, Terminal, Pcs, Thread, Ids, OneLiveRun,
     RowsOK, ExecutionOK, CommitOK, ThreadsOK, RunPcs, LivePcs, Idle
<1>8. ASSUME NEW w \in Workers, Start(w) PROVE OneLiveRun'
  <2>1. (\E s \in Sessions, k \in Keys \cup {NoKey} : StartRequest(w, s, k))
        \/ StartRefused(w)
          => UNCHANGED rowVars
    BY DEF StartRequest, Accept, StartRefused, rowVars, lockVars, worldVars
  <2>. QED
    BY <1>8, <1>3, <2>1, IInvParts DEF Start, OneLiveRun, rowVars, IInv
<1>9. ASSUME NEW w \in Workers, Resume(w) PROVE OneLiveRun'
  <2>1. (\E r \in Runs, i \in Inputs, accept \in BOOLEAN : ResumeRequest(w,
        r, i, accept)) \/ ResumeRefused(w) \/ ResumeAdmit(w) \/
        ResumeTooLate(w) \/ ResumeInvalid(w) \/ ResumeArm(w)
          => UNCHANGED rowVars
    BY DEF ResumeRequest, Accept, ResumeRefused, ResumeAdmit, ResumeTooLate,
       ResumeInvalid, ResumeArm, rowVars, lockVars, worldVars
  <2>. QED
    BY <1>9, <1>4, <1>1, ThreadEndsRun, <2>1, IInvParts DEF Resume,
       OneLiveRun, rowVars, IInv
<1>10. ASSUME NEW w \in Workers, Execute(w) PROVE OneLiveRun'
  <2>1. Wait(w) => OneLiveRun'
    BY <1>5 DEF Wait
  <2>2. ReserveWorktree(w) \/ Begin(w) \/ DriveWrite(w) \/ DrivePause(w) \/
        DriveReturn(w) \/ LeaveWorktree(w) \/ StopExecuting(w) \/
        ReleaseWorktree(w) \/ ReleaseLock(w) \/ NotifyTimeout(w)
          => UNCHANGED rowVars
    BY DEF ReserveWorktree, Begin, DriveWrite, DrivePause, DriveReturn,
       LeaveWorktree, StopExecuting, ReleaseWorktree, ReleaseLock,
       NotifyTimeout, rowVars, lockVars, worldVars
  <2>. QED
    BY <1>10, <1>1, ThreadEndsRun, <2>1, <2>2, IInvParts DEF Execute,
       OneLiveRun, rowVars, IInv
<1>11. ASSUME NEW w \in Workers, Close(w) PROVE OneLiveRun'
  <2>1. (\E s \in Sessions : CloseRequest(w, s)) \/ CloseDone(w)
          => UNCHANGED rowVars
    BY DEF CloseRequest, Accept, CloseDone, rowVars, lockVars, worldVars
  <2>. QED
    BY <1>11, <1>2, OthersEndRun, <2>1, IInvParts DEF Close, OneLiveRun,
       rowVars, IInv
<1>12. ASSUME Scheduler PROVE OneLiveRun'
  <2>1. SchedulerExpire => sched.run \in Runs
    BY DEF SchedulerExpire, IInv, SchedOK, TypeOK, Ids
  <2>2. (\E r \in Runs : SchedulerPop(r)) \/ SchedulerRetry \/
        SchedulerNotify
          => UNCHANGED rowVars
    BY DEF SchedulerPop, SchedulerRetry, SchedulerNotify, rowVars, lockVars,
       worldVars
  <2>. QED
    BY <1>12, <1>2, OthersEndRun, <2>1, <2>2, IInvParts DEF Scheduler,
       OneLiveRun, rowVars, IInv
<1>13. ASSUME Restart PROVE OneLiveRun'
  <2>1. Crash \/ Serve
          => UNCHANGED rowVars
    BY DEF Crash, Serve, rowVars, lockVars, worldVars
  <2>. QED
    BY <1>13, <1>6, <1>7, <1>2, OthersEndRun, <2>1, IInvParts DEF Restart,
       OneLiveRun, rowVars, IInv
<1>. QED
  BY <1>8, <1>9, <1>10, <1>11, <1>12, <1>13, <1>2, OthersEndRun, IInvParts
     DEF Next, OneLiveRun, rowVars, IInv, Tick, OutsideEdit, lockVars,
     worldVars
=============================================================================
