---------------------------- MODULE RetryProofs ----------------------------
(***************************************************************************)
(* Whatever way a run ends, its rows can be retried: what RetryPlan reads  *)
(* off the rows of the run is consistent, and the tasks it chooses are the *)
(* right ones.                                                             *)
(***************************************************************************)
EXTENDS DelegationProofs, RetryPlan

-----------------------------------------------------------------------------
(* Tasks have rows. *)
RowsAre == \A r \in Roles, t \in Tasks : row[r][t] # "none" <=> t \in Planned(r)

(* A role whose tasks are all through has results for all of them, unless  *)
(* it stopped at a failure; one that succeeded has good ones only.         *)
Through(r) == \/ \A t \in Planned(r) : result[r][t] # "none"
              \/ \E t \in Planned(r) : result[r][t] = "bad"
AllOk(r)   == \A t \in Planned(r) : result[r][t] = "ok"

SummaryOK == \A r \in Roles : node[r] = "summarize" => Through(r)
DoneOK    == \A r \in Roles : node[r] = "done" => AllOk(r)

(* A task that called an agent is not idle before it has a result, and     *)
(* succeeds only when the role it called does.                             *)
BehindOK ==
  \A r \in Roles, t \in Tasks :
    Child(r, t) \in Roles /\ node[Child(r, t)] # "absent" =>
      /\ phase[r][t] # "exec"
      /\ phase[r][t] # "idle" \/ result[r][t] # "none"
      /\ phase[r][t] = "ok" \/ result[r][t] = "ok" => node[Child(r, t)] = "done"

(* The rows of a run that has ended say completed for good results, after  *)
(* everything they needed.                                                 *)
EndedOK ==
  run \in Terminal => \A r \in Roles : \A t \in Planned(r) :
    /\ result[r][t] = "ok" => row[r][t] = "completed"
    /\ row[r][t] = "completed" => result[r][t] = "ok" \/ phase[r][t] = "ok"
    /\ row[r][t] = "completed" => \A d \in Deps(r, t) : row[r][d] = "completed"

-----------------------------------------------------------------------------
LEMMA RowsAreStay ==
  ASSUME RowsAre, UNCHANGED plan,
         \A r \in Roles, t \in Tasks : row'[r][t] # "none" <=> row[r][t] # "none"
  PROVE  RowsAre'
BY SamePlans DEF RowsAre

LEMMA EnteringRows ==
  ASSUME TInv, RowsAre, NEW r \in Roles, NEW t \in Tasks, Entering(r, t), UNCHANGED plan
  PROVE  RowsAre'
<1>1. row' = [row EXCEPT ![r][t] = IF @ \in Settled THEN @ ELSE "running"] /\ t \in Planned(r)
  BY DEF Entering, Started
<1>2. row[r][t] # "none" /\ row'[r][t] # "none"
  BY <1>1 DEF RowsAre, TInv, OtherTypes, Settled
<1>3. \A x \in Roles, u \in Tasks : ~(x = r /\ u = t) => row'[x][u] = row[x][u]
  BY <1>1 DEF TInv, OtherTypes
<1> QED BY <1>2, <1>3, RowsAreStay

LEMMA EndRunRows ==
  ASSUME TInv, RowsAre, NEW status \in Terminal, EndRun(status), UNCHANGED plan
  PROVE  RowsAre'
<1>1. run' \in Terminal
  BY DEF EndRun, Terminal
<1>2. ASSUME NEW r \in Roles, NEW t \in Tasks PROVE row'[r][t] # "none" <=> row[r][t] # "none"
  <2>1. row'[r][t] = IF row[r][t] \in Unended THEN run' ELSE row[r][t]
    BY DEF EndRun
  <2> QED BY <1>1, <2>1 DEF Unended, Terminal
<1> QED BY <1>2, RowsAreStay

LEMMA LeaveRowsAre ==
  ASSUME TInv, RowsAre, NEW r \in Roles, NEW outcome, Leave(r, outcome) PROVE RowsAre'
<1>1. UNCHANGED plan
  BY DEF Leave
<1>2. CASE r = Root
  <2>1. PICK status \in Terminal : EndRun(status)
    BY <1>2 DEF Leave, Terminal
  <2> QED BY <1>1, <2>1, EndRunRows
<1>3. CASE r # Root
  BY <1>1, <1>3, RowsAreStay DEF Leave
<1> QED BY <1>2, <1>3

LEMMA PauseRowsAre ==
  ASSUME TInv, RowsAre, NEW r \in Roles, NEW item, Pause(r, item) PROVE RowsAre'
<1>1. UNCHANGED plan /\ (EndRun("cancelled") \/ row' = WaitForInput(r))
  BY DEF Pause
<1>2. CASE EndRun("cancelled")
  BY <1>1, <1>2, EndRunRows DEF Terminal
<1>3. CASE row' = WaitForInput(r)
  <2>1. \A x \in Roles, u \in Tasks : row'[x][u] = row[x][u] \/ (row'[x][u] = "waiting" /\ row[x][u] = "running")
    BY <1>3 DEF WaitForInput, TInv, OtherTypes
  <2> QED BY <1>1, <2>1, RowsAreStay
<1> QED BY <1>1, <1>2, <1>3

LEMMA StepRowsAre ==
  ASSUME ConstantsOK, Types, TInv, RowsAre, NEW r \in Roles, Step(r) PROVE RowsAre'
<1>1. CASE MakePlan(r)
  <2>1. PICK p : /\ p \in Plan /\ plan' = [plan EXCEPT ![r] = p]
                 /\ row' = [row EXCEPT ![r] = [t \in Tasks |->
                              IF t <= Len(p.tasks) THEN "queued" ELSE "none"]]
    BY <1>1 DEF MakePlan, ConstantsOK, IsPlan, Types
  <2>2. Planned(r)' = 1 .. Len(p.tasks) /\ Len(p.tasks) \in Nat
    BY <2>1 DEF Planned, Size, Types, Plan
  <2>3. \A t \in Tasks : row'[r][t] # "none" <=> t \in Planned(r)'
    BY <2>1, <2>2 DEF TInv, OtherTypes, Tasks, ConstantsOK
  <2>4. \A x \in Roles : x # r => row'[x] = row[x] /\ Planned(x)' = Planned(x)
    BY <2>1 DEF TInv, OtherTypes, Planned, Size, Types
  <2> QED BY <2>3, <2>4 DEF RowsAre
<1>2. CASE RefusePlan(r) \/ PlannerFails(r) \/ RaiseWave(r) \/ StopNode(r) \/ Summarize(r)
  BY <1>2, LeaveRowsAre DEF RefusePlan, PlannerFails, RaiseWave, StopNode, Summarize
<1>3. CASE Clarify(r) \/ EndWave(r)
  BY <1>3, RowsAreStay DEF Clarify, EndWave
<1>4. CASE AskUser(r) \/ PauseWave(r)
  BY <1>4, PauseRowsAre DEF AskUser, PauseWave
<1>5. CASE Dispatch(r)
  <2>1. CASE Leave(r, "raised")
    BY <2>1, LeaveRowsAre
  <2>2. CASE Send(r)
    <3>1. PICK lost \in SUBSET Planned(r) :
            row' = [row EXCEPT ![r] = [t \in Tasks |-> IF t \in lost THEN "blocked" ELSE row[r][t]]]
      <4> DEFINE lost == IF plan[r].declared THEN Blocked(r) ELSE {}
      <4>1. row' = [row EXCEPT ![r] = [t \in Tasks |-> IF t \in lost THEN "blocked" ELSE row[r][t]]]
        BY <2>2 DEF Send, Block
      <4>2. lost \in SUBSET Planned(r)
        BY DEF Blocked, Open
      <4> HIDE DEF lost
      <4> QED BY <4>1, <4>2
    <3>2. \A t \in Tasks : row'[r][t] # "none" <=> row[r][t] # "none"
      BY <3>1 DEF TInv, OtherTypes, RowsAre
    <3>3. \A x \in Roles : x # r => row'[x] = row[x]
      BY <3>1 DEF TInv, OtherTypes
    <3> QED BY <2>2, <3>2, <3>3, RowsAreStay DEF Send
  <2> QED BY <1>5, <2>1, <2>2 DEF Dispatch
<1> QED BY <1>1, <1>2, <1>3, <1>4, <1>5 DEF Step

LEMMA TaskStepRowsAre ==
  ASSUME ConstantsOK, Types, TInv, RowsAre, NEW r \in Roles, NEW t \in Tasks, TaskStep(r, t)
  PROVE  RowsAre'
<1>1. UNCHANGED plan
  BY DEF TaskStep, RunTool, AskApproval, CallAgent, AskAgain, ResumeAgent, ToolReturns, RecordResult, StopTask
<1>2. CASE Entering(r, t)
  BY <1>1, <1>2, EnteringRows
<1>3. CASE ToolReturns(r, t) \/ StopTask(r, t)
  BY <1>1, <1>3, RowsAreStay DEF ToolReturns, StopTask
<1>4. CASE RecordResult(r, t)
  <2>1. row' = [row EXCEPT ![r][t] = Outcome(phase[r][t])] /\ t \in Planned(r)
    BY <1>4 DEF RecordResult
  <2>2. row[r][t] # "none" /\ row'[r][t] # "none"
    BY <2>1 DEF RowsAre, TInv, OtherTypes, Outcome
  <2>3. \A x \in Roles, u \in Tasks : ~(x = r /\ u = t) => row'[x][u] = row[x][u]
    BY <2>1 DEF TInv, OtherTypes
  <2> QED BY <1>1, <2>2, <2>3, RowsAreStay
<1> QED BY <1>2, <1>3, <1>4 DEF TaskStep, RunTool, AskApproval, CallAgent, AskAgain, ResumeAgent

LEMMA NextRowsAre == ConstantsOK /\ Types /\ TInv /\ RowsAre /\ [Next]_vars => RowsAre'
<1> SUFFICES ASSUME ConstantsOK, Types, TInv, RowsAre, [Next]_vars PROVE RowsAre'
  OBVIOUS
<1>1. CASE Work
  BY <1>1, StepRowsAre, TaskStepRowsAre DEF Work
<1>2. CASE Respond
  BY <1>2, RowsAreStay DEF Respond, Answer
<1>3. CASE Cancel
  BY <1>3, EndRunRows, RowsAreStay DEF Cancel, Terminal
<1>4. CASE UNCHANGED vars
  BY <1>4, RowsAreStay DEF vars
<1> QED BY <1>1, <1>2, <1>3, <1>4 DEF Next

-----------------------------------------------------------------------------
(* Roles that are through. *)
Same(r) == plan'[r] = plan[r] /\ result'[r] = result[r]

LEMMA DoneMoves ==
  ASSUME SummaryOK, DoneOK,
         \A x \in Roles : node'[x] = "summarize" => (node[x] = "summarize" /\ Same(x)) \/ Through(x)',
         \A x \in Roles : node'[x] = "done" => (node[x] = "done" /\ Same(x)) \/ AllOk(x)'
  PROVE  SummaryOK' /\ DoneOK'
<1>1. ASSUME NEW x \in Roles, Same(x)
      PROVE  (Through(x) => Through(x)') /\ (AllOk(x) => AllOk(x)')
  <2>1. Planned(x)' = Planned(x)
    BY <1>1, KeptTool DEF Same
  <2> QED BY <1>1, <2>1 DEF Same, Through, AllOk
<1>2. SummaryOK'
  BY <1>1 DEF SummaryOK
<1>3. DoneOK'
  BY <1>1 DEF DoneOK
<1> QED BY <1>2, <1>3

(* What ends a role: a good outcome needs good results. *)
LEMMA LeaveDone ==
  ASSUME ConstantsOK, Types, SummaryOK, DoneOK, NEW r \in Roles, NEW outcome, Leave(r, outcome),
         outcome = "ok" => AllOk(r)
  PROVE  SummaryOK' /\ DoneOK'
<1>1. UNCHANGED <<plan, result>> /\ node' = [node EXCEPT ![r] = IF outcome = "ok" THEN "done" ELSE "failed"]
  BY DEF Leave
<1>2. \A x \in Roles : x # r => node'[x] = node[x]
  BY <1>1 DEF Types
<1>3. node'[r] = (IF outcome = "ok" THEN "done" ELSE "failed") /\ (AllOk(r) => AllOk(r)')
  BY <1>1, SamePlans DEF Types, AllOk
<1> QED BY <1>1, <1>2, <1>3, DoneMoves DEF Same

(* At the end of a wave there are results, and a role is through when none *)
(* of its tasks is open, or one of an old plan has failed.                 *)
LEMMA ExhaustedThrough ==
  ASSUME Types, ShapesOK, NEW r \in Roles, Exhausted(r), Send(r)
  PROVE  Through(r)'
<1> DEFINE lost == IF plan[r].declared THEN Blocked(r) ELSE {}
<1>1. /\ result' = [result EXCEPT ![r] = [t \in Tasks |-> IF t \in lost THEN "blocked" ELSE result[r][t]]]
      /\ UNCHANGED plan
  BY DEF Send, Block
<1>2. Planned(r)' = Planned(r) /\ Planned(r) \subseteq Tasks
  BY <1>1, SamePlans DEF ShapesOK
<1>3. \A t \in Planned(r) : result'[r][t] = IF t \in lost THEN "blocked" ELSE result[r][t]
  BY <1>1, <1>2 DEF Types
<1>4. CASE plan[r].declared
  <2>1. \A t \in Planned(r) : result[r][t] = "none" => t \in lost
    BY <1>4 DEF Exhausted, Open
  <2> HIDE DEF lost
  <2> QED BY <1>2, <1>3, <2>1 DEF Through
<1>5. CASE ~plan[r].declared
  <2>1. \A t \in Planned(r) : result'[r][t] = result[r][t]
    BY <1>3, <1>5
  <2> QED BY <1>2, <1>5, <2>1 DEF Exhausted, Through, Open, Stopped
<1> QED BY <1>4, <1>5

LEMMA StepDone ==
  ASSUME ConstantsOK, Types, ShapesOK, ResultsOK, SummaryOK, DoneOK, NEW r \in Roles, Step(r)
  PROVE  SummaryOK' /\ DoneOK'
<1>1. CASE MakePlan(r) \/ Clarify(r)
  <2>1. /\ UNCHANGED result /\ node[r] \in {"plan", "clarify"}
        /\ \E n \in {"clarify", "ask_user", "dispatch"} : node' = [node EXCEPT ![r] = n]
        /\ \A x \in Roles : x # r => plan'[x] = plan[x]
    BY <1>1 DEF MakePlan, Clarify, At, Types
  <2>2. node'[r] \notin {"summarize", "done"} /\ \A x \in Roles : x # r => node'[x] = node[x]
    BY <2>1 DEF Types
  <2> QED BY <2>1, <2>2, DoneMoves DEF Same
<1>2. CASE RefusePlan(r) \/ PlannerFails(r) \/ StopNode(r) \/ RaiseWave(r)
  BY <1>2, LeaveDone DEF RefusePlan, PlannerFails, StopNode, RaiseWave
<1>3. CASE AskUser(r) \/ PauseWave(r)
  <2>1. UNCHANGED <<node, plan, result>>
    BY <1>3 DEF AskUser, PauseWave, Pause
  <2> QED BY <2>1, DoneMoves DEF Same
<1>4. CASE Summarize(r)
  <2>1. PICK outcome : /\ Leave(r, outcome) /\ node[r] = "summarize"
                       /\ outcome = "ok" => \A t \in Planned(r) : result[r][t] \in {"none", "ok"}
    BY <1>4 DEF Summarize, At
  <2>2. outcome = "ok" => AllOk(r)
    BY <2>1 DEF SummaryOK, Through, AllOk
  <2> QED BY <2>1, <2>2, LeaveDone
<1>5. CASE Dispatch(r)
  <2>1. CASE Leave(r, "raised")
    BY <2>1, LeaveDone
  <2>2. CASE Send(r)
    <3>1. /\ UNCHANGED plan /\ \E f : result' = [result EXCEPT ![r] = f]
          /\ node' = [node EXCEPT ![r] = IF Exhausted(r) THEN "summarize" ELSE "execute"]
      BY <2>2 DEF Send, Block
    <3>2. \A x \in Roles : x # r => node'[x] = node[x] /\ Same(x)
      BY <3>1 DEF Types, Same
    <3>3. node'[r] # "done" /\ (node'[r] = "summarize" => Exhausted(r))
      BY <3>1 DEF Types
    <3> QED BY <2>2, <3>2, <3>3, ExhaustedThrough, DoneMoves
  <2> QED BY <1>5, <2>1, <2>2 DEF Dispatch
<1>6. CASE EndWave(r)
  <2>1. /\ UNCHANGED plan /\ result' = [result EXCEPT ![r] = Merged(r)]
        /\ node' = [node EXCEPT ![r] = "dispatch"]
    BY <1>6 DEF EndWave
  <2>2. node'[r] = "dispatch" /\ \A x \in Roles : x # r => node'[x] = node[x] /\ Same(x)
    BY <2>1 DEF Types, Same
  <2> QED BY <2>2, DoneMoves
<1> QED BY <1>1, <1>2, <1>3, <1>4, <1>5, <1>6 DEF Step

LEMMA NextDone ==
  ConstantsOK /\ Types /\ ShapesOK /\ ResultsOK /\ SummaryOK /\ DoneOK /\ [Next]_vars => SummaryOK' /\ DoneOK'
<1> SUFFICES ASSUME ConstantsOK, Types, ShapesOK, ResultsOK, SummaryOK, DoneOK, [Next]_vars
             PROVE  SummaryOK' /\ DoneOK'
  OBVIOUS
<1>1. ASSUME NEW r \in Roles, NEW t \in Tasks, TaskStep(r, t) PROVE SummaryOK' /\ DoneOK'
  <2>1. /\ UNCHANGED <<plan, result>>
        /\ \/ UNCHANGED node
           \/ \E c, n : /\ n \notin {"summarize", "done"} \/ node[c] = n
                        /\ node' = [node EXCEPT ![c] = n]
    <3>1. CASE CallAgent(r, t)
      BY <3>1 DEF CallAgent
    <3>2. CASE ResumeAgent(r, t)
      <4>1. PICK c : node' = [node EXCEPT ![c] = IF Replan(c) THEN "plan" ELSE @] /\ UNCHANGED <<plan, result>>
        BY <3>2 DEF ResumeAgent, Deliver
      <4> QED BY <4>1
    <3> QED BY <1>1, <3>1, <3>2 DEF TaskStep, RunTool, AskApproval, AskAgain, ToolReturns, RecordResult, StopTask
  <2>2. \A x \in Roles : node'[x] \in {"summarize", "done"} => node'[x] = node[x]
    BY <2>1 DEF Types
  <2> QED BY <2>1, <2>2, DoneMoves DEF Same
<1>2. CASE Work
  BY <1>1, <1>2, StepDone DEF Work
<1>3. CASE Respond
  <2>1. UNCHANGED <<plan, result>> /\ node' = [node EXCEPT ![Root] = IF Replan(Root) THEN "plan" ELSE @]
    BY <1>3 DEF Respond, Answer, Deliver
  <2>2. \A x \in Roles : node'[x] \in {"summarize", "done"} => node'[x] = node[x]
    BY <2>1 DEF Types
  <2> QED BY <2>1, <2>2, DoneMoves DEF Same
<1>4. CASE Cancel \/ UNCHANGED vars
  <2>1. UNCHANGED <<node, plan, result>>
    BY <1>4 DEF Cancel, vars
  <2> QED BY <2>1, DoneMoves DEF Same
<1> QED BY <1>2, <1>3, <1>4 DEF Next

-----------------------------------------------------------------------------
(* What a step makes of a task with a role behind it. *)
Follows(x, u) ==
  \/ phase'[x][u] = phase[x][u] /\ result'[x][u] = result[x][u]
  \/ /\ phase'[x][u] \notin {"idle", "exec"} /\ result'[x][u] = result[x][u]
     /\ phase'[x][u] = "ok" => phase[x][u] = "ok" \/ node'[Child(x, u)] = "done"
  \/ /\ phase'[x][u] = "idle" /\ result'[x][u] # "none"
     /\ result'[x][u] = "ok" => phase[x][u] = "ok" \/ result[x][u] = "ok"

Lasts(x) == node[x] = "done" => node'[x] = "done"

LEMMA BehindMoves ==
  ASSUME ConstantsOK, BehindOK,
         \A x \in Roles : Lasts(x) /\ (node'[x] # "absent" => node[x] # "absent"),
         \A x \in Roles, u \in Tasks :
           Child(x, u) \in Roles /\ node[Child(x, u)] # "absent" => Follows(x, u)
  PROVE  BehindOK'
<1> SUFFICES ASSUME NEW x \in Roles, NEW u \in Tasks,
                    Child(x, u) \in Roles, node'[Child(x, u)] # "absent"
             PROVE  /\ phase'[x][u] # "exec"
                    /\ phase'[x][u] # "idle" \/ result'[x][u] # "none"
                    /\ phase'[x][u] = "ok" \/ result'[x][u] = "ok" => node'[Child(x, u)] = "done"
  BY DEF BehindOK, Child
<1>1. Follows(x, u) /\ Lasts(Child(x, u))
  OBVIOUS
<1>2. /\ phase[x][u] # "exec"
      /\ phase[x][u] # "idle" \/ result[x][u] # "none"
      /\ phase[x][u] = "ok" \/ result[x][u] = "ok" => node[Child(x, u)] = "done"
  BY DEF BehindOK
<1> QED BY <1>1, <1>2 DEF Follows, Lasts

LEMMA LeaveBehind ==
  ASSUME ConstantsOK, Types, BehindOK, NEW r \in Roles, NEW outcome \in {"ok", "bad", "raised"},
         node[r] \notin {"absent", "done"}, Leave(r, outcome)
  PROVE  BehindOK'
<1>1. node' = [node EXCEPT ![r] = IF outcome = "ok" THEN "done" ELSE "failed"] /\ UNCHANGED result
  BY DEF Leave
<1>2. \A x \in Roles : Lasts(x) /\ (node'[x] # "absent" => node[x] # "absent")
  BY <1>1 DEF Types, Lasts
<1>3. \A x \in Roles, u \in Tasks : Follows(x, u)
  <2>1. CASE r = Root
    BY <1>1, <2>1 DEF Leave, Follows
  <2>2. CASE r # Root
    <3>1. PICK a \in Roles, b \in Tasks : phase' = [phase EXCEPT ![a][b] = outcome] /\ Child(a, b) = r
      BY <2>2, CallerFacts DEF Leave
    <3>2. \A x \in Roles, u \in Tasks : ~(x = a /\ u = b) => phase'[x][u] = phase[x][u]
      BY <3>1 DEF Types
    <3>3. phase'[a][b] = outcome /\ (outcome = "ok" => node'[r] = "done")
      BY <1>1, <3>1 DEF Types
    <3> QED BY <1>1, <3>1, <3>2, <3>3 DEF Follows
  <2> QED BY <2>1, <2>2
<1> QED BY <1>2, <1>3, BehindMoves

LEMMA PauseBehind ==
  ASSUME ConstantsOK, Types, BehindOK, NEW r \in Roles, NEW item, Pause(r, item)
  PROVE  BehindOK'
<1>1. UNCHANGED <<node, result>>
  BY DEF Pause
<1>2. \A x \in Roles, u \in Tasks : Follows(x, u)
  <2>1. CASE UNCHANGED phase
    BY <1>1, <2>1 DEF Follows
  <2>2. CASE r # Root
    <3>1. PICK a \in Roles, b \in Tasks : phase' = [phase EXCEPT ![a][b] = "ask"]
      BY <2>2, CallerFacts DEF Pause
    <3>2. \A x \in Roles, u \in Tasks : phase'[x][u] \in {phase[x][u], "ask"}
      BY <3>1 DEF Types
    <3> QED BY <1>1, <3>2 DEF Follows
  <2>3. UNCHANGED phase \/ r # Root
    BY DEF Pause
  <2> QED BY <2>1, <2>2, <2>3
<1> QED BY <1>1, <1>2, BehindMoves DEF Lasts

LEMMA StepBehind ==
  ASSUME ConstantsOK, Types, PhasesOK, WaveOK, ShapesOK, CalleesOK, BehindOK, NEW r \in Roles, Step(r)
  PROVE  BehindOK'
<1>1. CASE MakePlan(r) \/ Clarify(r)
  <2>1. /\ UNCHANGED <<phase, result>> /\ node[r] \in {"plan", "clarify"}
        /\ \E n \in {"clarify", "ask_user", "dispatch"} : node' = [node EXCEPT ![r] = n]
    BY <1>1 DEF MakePlan, Clarify, At
  <2>2. \A x \in Roles : Lasts(x) /\ (node'[x] # "absent" => node[x] # "absent")
    BY <2>1 DEF Types, Lasts
  <2> QED BY <2>1, <2>2, BehindMoves DEF Follows
<1>2. CASE RefusePlan(r) \/ PlannerFails(r) \/ StopNode(r) \/ RaiseWave(r) \/ Summarize(r)
  BY <1>2, LeaveBehind DEF RefusePlan, PlannerFails, StopNode, RaiseWave, Summarize, At, Executing
<1>3. CASE AskUser(r) \/ PauseWave(r)
  BY <1>3, PauseBehind DEF AskUser, PauseWave
<1>4. CASE Dispatch(r)
  <2>1. CASE Leave(r, "raised")
    BY <1>4, <2>1, LeaveBehind DEF Dispatch, DeadEnd, At, Send
  <2>2. CASE Send(r)
    <3> DEFINE lost == IF plan[r].declared THEN Blocked(r) ELSE {}
    <3>1. /\ node[r] = "dispatch" /\ node' = [node EXCEPT ![r] = IF Exhausted(r) THEN "summarize" ELSE "execute"]
          /\ result' = [result EXCEPT ![r] = [t \in Tasks |-> IF t \in lost THEN "blocked" ELSE result[r][t]]]
          /\ \/ UNCHANGED phase
             \/ phase' = [phase EXCEPT ![r] = [t \in Tasks |-> IF t \in NextWave(r) THEN "sent" ELSE "idle"]]
      BY <1>4, <2>2 DEF Dispatch, DeadEnd, At, Send, Block
    <3>2. \A x \in Roles : Lasts(x) /\ (node'[x] # "absent" => node[x] # "absent")
      BY <3>1 DEF Types, Lasts
    <3>3. ASSUME NEW x \in Roles, NEW u \in Tasks, Child(x, u) \in Roles, node[Child(x, u)] # "absent"
          PROVE  Follows(x, u)
      <4>1. CASE x # r
        BY <3>1, <4>1 DEF Types, Follows
      <4>2. CASE x = r
        <5>1. phase[r][u] = "idle" /\ result[r][u] # "none"
          BY <3>1, <3>3, <4>2 DEF PhasesOK, BehindOK
        <5>2. u \notin lost /\ u \notin NextWave(r)
          BY <5>1, WaveIsOpen DEF Blocked, Open
        <5> HIDE DEF lost
        <5>3. result'[r][u] = result[r][u] /\ phase'[r][u] = "idle"
          BY <3>1, <5>1, <5>2 DEF Types
        <5> QED BY <4>2, <5>1, <5>3 DEF Follows
      <4> QED BY <4>1, <4>2
    <3> QED BY <3>2, <3>3, BehindMoves
  <2> QED BY <1>4, <2>1, <2>2 DEF Dispatch
<1>5. CASE EndWave(r)
  <2>1. /\ node[r] = "execute" /\ node' = [node EXCEPT ![r] = "dispatch"]
        /\ result' = [result EXCEPT ![r] = Merged(r)]
        /\ phase' = [phase EXCEPT ![r] = [t \in Tasks |-> "idle"]]
        /\ InWave(r, {"sent", "exec", "call", "ask", "raised"}) = {}
    BY <1>5 DEF EndWave, Executing
  <2>2. \A x \in Roles : Lasts(x) /\ (node'[x] # "absent" => node[x] # "absent")
    BY <2>1 DEF Types, Lasts
  <2>3. ASSUME NEW x \in Roles, NEW u \in Tasks, Child(x, u) \in Roles, node[Child(x, u)] # "absent"
        PROVE  Follows(x, u)
    <3>1. CASE x # r
      BY <2>1, <3>1 DEF Types, Follows
    <3>2. CASE x = r
      <4>1. phase[r][u] \in {"idle", "ok", "bad"}
        BY <2>1, <3>2 DEF InWave, Types, Phases, PhasesOK
      <4>2. phase[r][u] = "idle" => result[r][u] # "none"
        BY <2>3, <3>2 DEF BehindOK
      <4>3. phase'[r][u] = "idle" /\ result'[r][u] = (IF phase[r][u] \in {"ok", "bad"} THEN phase[r][u] ELSE result[r][u])
        BY <2>1 DEF Types, Merged
      <4> QED BY <3>2, <4>1, <4>2, <4>3 DEF Follows
    <3> QED BY <3>1, <3>2
  <2> QED BY <2>2, <2>3, BehindMoves
<1> QED BY <1>1, <1>2, <1>3, <1>4, <1>5 DEF Step

LEMMA TaskStepBehind ==
  ASSUME ConstantsOK, Types, WaveOK, CalleesOK, BehindOK, NEW r \in Roles, NEW t \in Tasks, TaskStep(r, t)
  PROVE  BehindOK'
<1>1. CASE RunTool(r, t)
  <2>1. /\ UNCHANGED <<node, result>> /\ phase' = [phase EXCEPT ![r][t] = "exec"] /\ Tool(r, t) \notin Agents
    BY <1>1 DEF RunTool
  <2>2. Child(r, t) \in Roles => node[Child(r, t)] = "absent"
    BY <2>1 DEF CalleesOK, Types
  <2>3. \A x \in Roles, u \in Tasks : ~(x = r /\ u = t) => phase'[x][u] = phase[x][u]
    BY <2>1 DEF Types
  <2> QED BY <2>1, <2>2, <2>3, BehindMoves DEF Follows, Lasts
<1>2. CASE ToolReturns(r, t)
  <2>1. /\ UNCHANGED <<node, result>> /\ phase[r][t] = "exec" /\ \E v : phase' = [phase EXCEPT ![r][t] = v]
    BY <1>2 DEF ToolReturns
  <2>2. Child(r, t) \in Roles => node[Child(r, t)] = "absent"
    BY <2>1 DEF BehindOK
  <2>3. \A x \in Roles, u \in Tasks : ~(x = r /\ u = t) => phase'[x][u] = phase[x][u]
    BY <2>1 DEF Types
  <2> QED BY <2>1, <2>2, <2>3, BehindMoves DEF Follows, Lasts
<1>3. CASE AskApproval(r, t) \/ AskAgain(r, t) \/ StopTask(r, t)
  <2>1. UNCHANGED <<node, result>> /\ \E v \in {"ask", "bad", "raised"} : phase' = [phase EXCEPT ![r][t] = v]
    BY <1>3 DEF AskApproval, AskAgain, StopTask
  <2>2. \A x \in Roles, u \in Tasks : phase'[x][u] = phase[x][u] \/ phase'[x][u] \in {"ask", "bad", "raised"}
    BY <2>1 DEF Types
  <2> QED BY <2>1, <2>2, BehindMoves DEF Follows, Lasts
<1>4. CASE RecordResult(r, t)
  BY <1>4, BehindMoves DEF RecordResult, Follows, Lasts
<1>5. CASE ResumeAgent(r, t)
  <2>1. PICK c \in Roles : /\ UNCHANGED result
                           /\ node' = [node EXCEPT ![c] = IF Replan(c) THEN "plan" ELSE @]
                           /\ phase' = [phase EXCEPT ![r][t] = "call", ![c] = Resent(c)]
    BY <1>5 DEF ResumeAgent, Deliver
  <2>2. \A x \in Roles : Lasts(x) /\ (node'[x] # "absent" => node[x] # "absent")
    BY <2>1 DEF Types, Lasts, Replan
  <2>3. \A x \in Roles, u \in Tasks : phase'[x][u] = phase[x][u] \/ phase'[x][u] \in {"sent", "call"}
    BY <2>1 DEF Types, Resent
  <2> QED BY <2>1, <2>2, <2>3, BehindMoves DEF Follows
<1>6. CASE CallAgent(r, t)
  <2>1. UNCHANGED result /\ phase[r][t] = "sent" /\ node[r] = "execute"
    BY <1>6 DEF CallAgent, Entering, Executing
  <2>2. CASE UNCHANGED node
    <3>1. \E v \in {"bad", "raised", "call"} : phase' = [phase EXCEPT ![r][t] = v]
      BY <1>6 DEF CallAgent
    <3>2. \A x \in Roles, u \in Tasks : phase'[x][u] = phase[x][u] \/ phase'[x][u] \in {"bad", "raised", "call"}
      BY <3>1 DEF Types
    <3> QED BY <2>1, <2>2, <3>2, BehindMoves DEF Follows, Lasts
  <2>3. CASE ~UNCHANGED node
    <3> DEFINE c == Child(r, t)
    <3>1. /\ node[c] = "absent" /\ node' = [node EXCEPT ![c] = "plan"]
          /\ phase' = [phase EXCEPT ![r][t] = "call"]
      BY <1>6, <2>3 DEF CallAgent
    <3>2. \A x \in Roles, u \in Tasks : Child(x, u) = c => x = r /\ u = t
      BY ChildFacts
    <3> HIDE DEF c
    <3>3. phase'[r][t] = "call" /\ result'[r][t] = "none"
      BY <2>1, <3>1 DEF Types, WaveOK
    <3>4. \A x \in Roles, u \in Tasks : ~(x = r /\ u = t) => phase'[x][u] = phase[x][u]
      BY <3>1 DEF Types
    <3>5. \A x \in Roles : x # c => node'[x] = node[x]
      BY <3>1 DEF Types
    <3> SUFFICES ASSUME NEW x \in Roles, NEW u \in Tasks,
                        Child(x, u) \in Roles, node'[Child(x, u)] # "absent"
                 PROVE  /\ phase'[x][u] # "exec"
                        /\ phase'[x][u] # "idle" \/ result'[x][u] # "none"
                        /\ phase'[x][u] = "ok" \/ result'[x][u] = "ok" => node'[Child(x, u)] = "done"
      BY DEF BehindOK, Child
    <3>6. CASE x = r /\ u = t
      BY <3>3, <3>6
    <3>7. CASE ~(x = r /\ u = t)
      <4>1. Child(x, u) # c
        BY <3>2, <3>7
      <4> QED BY <2>1, <3>4, <3>5, <3>7, <4>1 DEF BehindOK
    <3> QED BY <3>6, <3>7
  <2> QED BY <2>2, <2>3
<1> QED BY <1>1, <1>2, <1>3, <1>4, <1>5, <1>6 DEF TaskStep

LEMMA NextBehind ==
  ConstantsOK /\ IInv /\ SInv /\ PhasesOK /\ BehindOK /\ [Next]_vars => BehindOK'
<1> SUFFICES ASSUME ConstantsOK, IInv, SInv, PhasesOK, BehindOK, [Next]_vars PROVE BehindOK'
  OBVIOUS
<1>1. Types /\ WaveOK /\ ShapesOK /\ CalleesOK
  BY DEF IInv, SInv
<1>2. CASE Work
  BY <1>1, <1>2, StepBehind, TaskStepBehind DEF Work
<1>3. CASE Respond
  <2>1. /\ UNCHANGED result /\ node' = [node EXCEPT ![Root] = IF Replan(Root) THEN "plan" ELSE @]
        /\ phase' = [phase EXCEPT ![Root] = Resent(Root)]
    BY <1>3 DEF Respond, Answer, Deliver
  <2>2. \A x \in Roles : Lasts(x) /\ (node'[x] # "absent" => node[x] # "absent")
    BY <1>1, <2>1 DEF Types, Lasts, Replan
  <2>3. \A x \in Roles, u \in Tasks : phase'[x][u] = phase[x][u] \/ phase'[x][u] = "sent"
    BY <1>1, <2>1 DEF Types, Resent
  <2> QED BY <2>1, <2>2, <2>3, BehindMoves DEF Follows
<1>4. CASE Cancel \/ UNCHANGED vars
  <2>1. UNCHANGED <<node, phase, result>>
    BY <1>4 DEF Cancel, vars
  <2> QED BY <2>1, BehindMoves DEF Follows, Lasts
<1> QED BY <1>2, <1>3, <1>4 DEF Next

-----------------------------------------------------------------------------
(* The end of a run. *)
LEMMA Frozen ==
  ASSUME ConstantsOK, ActiveOK, run \notin {"running", "waiting"}, [Next]_vars PROVE UNCHANGED vars
<1>1. ASSUME NEW r \in Roles, Driven(r) PROVE FALSE
  <2>1. Len(r) \in Nat /\ 0 \in 0 .. Len(r) /\ Prefix(r, 0) = Root
    BY RolesAreSeqs, WholePrefix
  <2>2. Driven(Root)
    BY <1>1, <2>1, DrivenAbove
  <2> QED BY <2>2 DEF Driven
<1>2. \A r \in Roles : ~Step(r)
  BY <1>1 DEF Step, At, Executing, MakePlan, RefusePlan, PlannerFails, Clarify, AskUser, Dispatch,
              EndWave, PauseWave, RaiseWave, StopNode, Summarize
<1>3. \A r \in Roles, t \in Tasks : ~TaskStep(r, t)
  BY <1>1 DEF TaskStep, Executing, Entering, RunTool, AskApproval, CallAgent, AskAgain, ResumeAgent,
              ToolReturns, RecordResult, StopTask
<1>4. ~Respond /\ ~Cancel
  BY DEF Respond, Answer, Cancel
<1> QED BY <1>2, <1>3, <1>4 DEF Next, Work

(* A run is completed only when its root is through with good results. *)
Ends(status) == /\ EndRun(status) /\ UNCHANGED <<plan, phase, result>>
                /\ status = "completed" => node[Root] = "summarize" /\ AllOk(Root)

LEMMA LeaveEnds ==
  ASSUME run \notin Terminal, run' \in Terminal, NEW r \in Roles, NEW outcome, Leave(r, outcome),
         outcome = "ok" => node[r] = "summarize" /\ AllOk(r)
  PROVE  \E status \in Terminal : Ends(status)
<1>1. r = Root
  BY DEF Leave
<1>2. EndRun(IF outcome = "ok" THEN "completed" ELSE "failed") /\ UNCHANGED <<plan, phase, result>>
  BY <1>1 DEF Leave
<1> QED BY <1>1, <1>2 DEF Ends, Terminal

LEMMA HowRunsEnd ==
  ASSUME ConstantsOK, SummaryOK, [Next]_vars, run \notin Terminal, run' \in Terminal
  PROVE  \E status \in Terminal : Ends(status)
<1>1. ASSUME NEW r \in Roles, Step(r) PROVE \E status \in Terminal : Ends(status)
  <2>1. CASE RefusePlan(r) \/ PlannerFails(r) \/ StopNode(r) \/ RaiseWave(r) \/ (Dispatch(r) /\ DeadEnd(r))
    BY <2>1, LeaveEnds DEF RefusePlan, PlannerFails, StopNode, RaiseWave, Dispatch
  <2>2. CASE Summarize(r)
    <3>1. PICK outcome : /\ Leave(r, outcome) /\ node[r] = "summarize"
                         /\ outcome = "ok" => \A t \in Planned(r) : result[r][t] \in {"none", "ok"}
      BY <2>2 DEF Summarize, At
    <3>2. outcome = "ok" => AllOk(r)
      BY <3>1 DEF SummaryOK, Through, AllOk
    <3> QED BY <3>1, <3>2, LeaveEnds
  <2>3. CASE AskUser(r) \/ PauseWave(r)
    <3>1. PICK item : Pause(r, item)
      BY <2>3 DEF AskUser, PauseWave
    <3>2. EndRun("cancelled") /\ UNCHANGED <<plan, phase, result>>
      BY <3>1 DEF Pause, Terminal
    <3> QED BY <3>2 DEF Ends, Terminal
  <2>4. CASE MakePlan(r) \/ Clarify(r) \/ EndWave(r) \/ Send(r)
    BY <2>4 DEF MakePlan, Clarify, EndWave, Send
  <2> QED BY <1>1, <2>1, <2>2, <2>3, <2>4 DEF Step, Dispatch
<1>2. ASSUME NEW r \in Roles, NEW t \in Tasks, TaskStep(r, t) PROVE FALSE
  BY <1>2 DEF TaskStep, RunTool, AskApproval, CallAgent, AskAgain, ResumeAgent, ToolReturns, RecordResult, StopTask
<1>3. CASE Work
  BY <1>1, <1>2, <1>3 DEF Work
<1>4. CASE Respond
  BY <1>4 DEF Respond, Answer, Terminal
<1>5. CASE Cancel
  BY <1>5 DEF Cancel, Ends, Terminal
<1>6. CASE UNCHANGED vars
  BY <1>6 DEF vars
<1> QED BY <1>3, <1>4, <1>5, <1>6 DEF Next

(* Then every role of the run is. *)
LEMMA AllDone ==
  ASSUME ConstantsOK, Types, ShapesOK, CalleesOK, PhasesOK, DoneOK, BehindOK,
         node[Root] = "summarize", AllOk(Root), NEW r \in Roles
  PROVE  AllOk(r)
<1>1. CASE node[r] = "absent"
  BY <1>1 DEF ShapesOK, AllOk
<1>2. CASE node[r] # "absent"
  <2> DEFINE S == {k \in 1 .. Len(r) : ~AllOk(Prefix(r, k))}
  <2>1. Len(r) \in Nat /\ Prefix(r, Len(r)) = r /\ Prefix(r, 0) = Root
    BY RolesAreSeqs, WholePrefix
  <2>2. ASSUME S # {} PROVE FALSE
    <3>1. PICK m \in S : \A u \in S : m <= u
      BY <2>1, <2>2, Least
    <3>2. m \in 1 .. Len(r) /\ m - 1 \in 0 .. Len(r) /\ m - 1 \notin S /\ m \in 0 .. Len(r)
      BY <2>1, <3>1
    <3> DEFINE p == Prefix(r, m - 1)
               c == Prefix(r, m)
    <3>3. ~AllOk(c) /\ c \in Roles /\ p \in Roles /\ c = Child(p, r[m]) /\ r[m] \in Tasks
      BY <3>1, <3>2, PrefixSteps, PrefixFacts
    <3>4. AllOk(p)
      <4>1. CASE m - 1 = 0
        BY <2>1, <4>1
      <4>2. CASE m - 1 # 0
        BY <2>1, <3>2, <4>2
      <4> QED BY <4>1, <4>2
    <3>5. node[c] # "absent" /\ node[p] # "absent"
      BY <1>2, <3>2, Ancestors
    <3>6. r[m] \in Planned(p)
      BY <3>3, <3>5 DEF CalleesOK
    <3>7. result[p][r[m]] = "ok"
      BY <3>4, <3>6 DEF AllOk
    <3>8. node[c] = "done"
      BY <3>3, <3>5, <3>7 DEF BehindOK
    <3> QED BY <3>3, <3>8 DEF DoneOK
  <2>3. CASE r = Root
    BY <2>3
  <2>4. CASE r # Root
    <3>1. Len(r) \in 1 .. Len(r)
      BY <2>1, <2>4, RolesAreSeqs, EmptySeq DEF Root
    <3> QED BY <2>1, <2>2, <3>1
  <2> QED BY <2>3, <2>4
<1> QED BY <1>1, <1>2

LEMMA NextEnded ==
  ConstantsOK /\ IInv /\ TInv /\ SInv /\ WInv /\ RInv /\ SummaryOK /\ DoneOK /\ BehindOK /\ EndedOK /\ [Next]_vars
    => EndedOK'
<1> SUFFICES ASSUME ConstantsOK, IInv, TInv, SInv, WInv, RInv, SummaryOK, DoneOK, BehindOK, EndedOK, [Next]_vars,
                    run' \in Terminal
             PROVE  EndedOK'
  BY DEF EndedOK
<1>1. /\ Types /\ ShapesOK /\ CalleesOK /\ PhasesOK /\ ActiveOK /\ RowsOK
  BY DEF IInv, SInv, WInv, RInv
<1>2. CASE run \in Terminal
  <2>1. UNCHANGED vars
    BY <1>1, <1>2, Frozen DEF Terminal
  <2>2. UNCHANGED <<run, row, plan, result, phase>>
    BY <2>1 DEF vars
  <2> QED BY <2>2, SamePlans DEF EndedOK
<1>3. CASE run \notin Terminal
  <2>1. PICK status \in Terminal : Ends(status)
    BY <1>3, HowRunsEnd
  <2>2. run \in {"running", "waiting"}
    BY <1>3 DEF TInv, OtherTypes
  <2>3. /\ run' = (IF stop THEN "cancelled" ELSE status) /\ UNCHANGED <<plan, phase, result>>
        /\ \A r \in Roles, t \in Tasks : row'[r][t] = IF row[r][t] \in Unended THEN run' ELSE row[r][t]
    BY <2>1 DEF Ends, EndRun
  <2>4. ASSUME NEW r \in Roles, NEW t \in Planned(r), t \in Tasks
        PROVE  row'[r][t] = "completed" <=> row[r][t] = "completed"
    <3>1. CASE run' # "completed"
      BY <2>3, <2>4, <3>1 DEF Unended
    <3>2. CASE run' = "completed"
      <4>1. AllOk(r)
        BY <1>1, <2>1, <2>3, <3>2, AllDone DEF Ends
      <4>2. row[r][t] = "completed"
        BY <1>1, <2>2, <4>1 DEF AllOk, RowsOK
      <4> QED BY <2>3, <2>4, <4>2 DEF Unended
    <3> QED BY <3>1, <3>2
  <2> SUFFICES ASSUME NEW r \in Roles, NEW t \in Planned(r)'
               PROVE  /\ result'[r][t] = "ok" => row'[r][t] = "completed"
                      /\ row'[r][t] = "completed" => result'[r][t] = "ok" \/ phase'[r][t] = "ok"
                      /\ row'[r][t] = "completed" => \A d \in Deps(r, t)' : row'[r][d] = "completed"
    BY DEF EndedOK
  <2>5. /\ t \in Planned(r) /\ t \in Tasks /\ Deps(r, t)' = Deps(r, t)
        /\ \A d \in Deps(r, t) : d \in Planned(r) /\ d \in Tasks
    BY <1>1, <2>3, SamePlans DEF ShapesOK
  <2>6. /\ result[r][t] = "ok" => row[r][t] = "completed"
        /\ row[r][t] = "completed" => result[r][t] = "ok" \/ phase[r][t] = "ok"
        /\ row[r][t] = "completed" => \A d \in Deps(r, t) : row[r][d] = "completed"
    BY <1>1, <2>2, <2>5 DEF RowsOK, Begun
  <2> QED BY <2>3, <2>4, <2>5, <2>6
<1> QED BY <1>2, <1>3

RetryInv == RowInv /\ RowsAre /\ SummaryOK /\ DoneOK /\ BehindOK /\ EndedOK

LEMMA InitRetry == ConstantsOK /\ Init => RowsAre /\ SummaryOK /\ DoneOK /\ BehindOK /\ EndedOK
<1> SUFFICES ASSUME ConstantsOK, Init PROVE RowsAre /\ SummaryOK /\ DoneOK /\ BehindOK /\ EndedOK
  OBVIOUS
<1>1. \A r \in Roles : Planned(r) = {} /\ \A t \in Tasks : row[r][t] = "none"
  BY DEF Init, Planned, Size, NoPlan
<1>2. \A r \in Roles : node[r] \in {"plan", "absent"} /\ (node[r] # "absent" => r = Root)
  BY DEF Init
<1>3. BehindOK
  BY <1>2, ChildFacts DEF BehindOK
<1> QED BY <1>1, <1>2, <1>3 DEF Init, Terminal, RowsAre, SummaryOK, DoneOK, EndedOK

(* The rows of a run stay in step with the results of its roles until the  *)
(* run has ended, and are left alone from then on.                         *)
THEOREM RetryInvariant == Spec => []RetryInv
<1>1. Init => RetryInv
  BY ConstantsOK, InitIInv, InitTree, InitWork, InitTypes, InitRows, InitRetry DEF TreeInv, RowInv, RetryInv
<1>2. RetryInv /\ [Next]_vars => RetryInv'
  <2> SUFFICES ASSUME RetryInv, [Next]_vars PROVE RetryInv'
    OBVIOUS
  <2>1. /\ IInv /\ TInv /\ SInv /\ WInv /\ RInv /\ RowsAre /\ SummaryOK /\ DoneOK /\ BehindOK /\ EndedOK
        /\ Types /\ ShapesOK /\ PhasesOK /\ ResultsOK
    BY DEF RetryInv, RowInv, TreeInv, IInv, SInv, WInv, RInv
  <2>2. SInv' /\ RowInv'
    BY <2>1, ConstantsOK, NextKeeps, NextTree, NextWork, NextTypes, NextRows DEF TreeInv, RowInv
  <2>3. RowsAre' /\ SummaryOK' /\ DoneOK'
    BY <2>1, ConstantsOK, NextRowsAre, NextDone
  <2>4. BehindOK' /\ EndedOK'
    BY <2>1, ConstantsOK, NextBehind, NextEnded
  <2> QED BY <2>2, <2>3, <2>4 DEF RetryInv
<1> QED BY <1>1, <1>2, PTL DEF Spec

-----------------------------------------------------------------------------
(* What a retry chooses.  The definition of Chosen walks down from the     *)
(* role the retry starts with; in the end a role is reached when every     *)
(* call on the way to it is chosen.                                        *)
Body(q, selected, chosen) ==
  [r \in Roles |->
     IF r = q THEN retry_scope(r, selected, Forced(q, selected, r))
     ELSE IF Below(q, r) /\ CallOf(r) \in chosen[Caller(r)]
     THEN retry_scope(r, Whole, Forced(q, selected, r))
     ELSE {}]

Scope(q, selected, r) == retry_scope(r, IF r = q THEN selected ELSE Whole, Forced(q, selected, r))
Reached(q, selected, r) ==
  \A k \in Len(q) + 1 .. Len(r) : r[k] \in Scope(q, selected, Prefix(r, k - 1))
Walk(q, selected) ==
  [r \in Roles |-> IF r = q \/ (Below(q, r) /\ Reached(q, selected, r)) THEN Scope(q, selected, r) ELSE {}]

(* The caller of a role below q is q or below it. *)
LEMMA BelowSteps ==
  ASSUME ConstantsOK, NEW q \in Roles, NEW r \in Roles, Below(q, r)
  PROVE  /\ r # q /\ r # Root /\ Caller(r) \in Roles /\ CallOf(r) \in Tasks
         /\ Len(r) \in Len(q) + 1 .. Len(r) /\ Caller(r) = Prefix(r, Len(r) - 1)
         /\ CallOf(r) = r[Len(r)]
         /\ Caller(r) = q \/ Below(q, Caller(r))
         /\ \A k \in Len(q) + 1 .. Len(r) : /\ Prefix(r, k - 1) \in Roles /\ r[k] \in Tasks
                                            /\ Prefix(r, k - 1) = q \/ Below(q, Prefix(r, k - 1))
<1>1. Len(q) \in Nat /\ Len(r) \in Nat /\ Len(q) < Len(r) /\ Prefix(r, Len(q)) = q
  BY RolesAreSeqs DEF Below, Prefix
<1>2. r # q /\ r # Root
  BY <1>1 DEF Root
<1>3. Len(r) \in Len(q) + 1 .. Len(r) /\ Len(r) \in 1 .. Len(r)
  BY <1>1
<1>4. /\ Caller(r) = Prefix(r, Len(r) - 1) /\ CallOf(r) = r[Len(r)]
      /\ Caller(r) \in Roles /\ CallOf(r) \in Tasks
  BY <1>2, CallerFacts DEF Caller, CallOf, Prefix
<1>5. ASSUME NEW k \in Len(q) + 1 .. Len(r)
      PROVE  /\ Prefix(r, k - 1) \in Roles /\ r[k] \in Tasks
             /\ Prefix(r, k - 1) = q \/ Below(q, Prefix(r, k - 1))
  <2>1. k \in 1 .. Len(r) /\ k - 1 \in 0 .. Len(r) /\ Len(q) \in 0 .. k - 1
    BY <1>1
  <2>2. Prefix(r, k - 1) \in Roles /\ r[k] \in Tasks
    BY <2>1, PrefixSteps
  <2>3. Len(Prefix(r, k - 1)) = k - 1 /\ Prefix(Prefix(r, k - 1), Len(q)) = q
    BY <1>1, <2>1, PrefixFacts
  <2>4. CASE k - 1 = Len(q)
    BY <1>1, <2>2, <2>4
  <2>5. CASE k - 1 # Len(q)
    <3>1. \A m, n \in Nat : m \in 0 .. n /\ n # m => m < n
      OBVIOUS
    <3>2. Len(q) < k - 1
      BY <1>1, <2>1, <2>5, <3>1
    <3> QED BY <2>2, <2>3, <3>2 DEF Below, Prefix
  <2> QED BY <2>2, <2>4, <2>5
<1> QED BY <1>2, <1>3, <1>4, <1>5

LEMMA WalkIsBody ==
  ASSUME ConstantsOK, NEW q \in Roles, NEW selected
  PROVE  Walk(q, selected) = Body(q, selected, Walk(q, selected))
<1> SUFFICES ASSUME NEW r \in Roles
             PROVE  Walk(q, selected)[r] = Body(q, selected, Walk(q, selected))[r]
  BY DEF Walk, Body
<1>1. CASE r = q
  BY <1>1 DEF Walk, Body, Scope
<1>2. CASE r # q /\ ~Below(q, r)
  BY <1>2 DEF Walk, Body
<1>3. CASE r # q /\ Below(q, r)
  <2> DEFINE p == Caller(r)
  <2>1. /\ p \in Roles /\ Len(r) \in Len(q) + 1 .. Len(r) /\ p = Prefix(r, Len(r) - 1)
        /\ CallOf(r) = r[Len(r)] /\ (p = q \/ Below(q, p))
    BY <1>3, BelowSteps
  <2>2. Len(r) \in Nat /\ Len(q) \in Nat /\ Len(r) >= 1 /\ Len(p) = Len(r) - 1
    <3>1. Len(r) \in Nat /\ Len(q) \in Nat /\ Len(r) - 1 \in 0 .. Len(r)
      BY <2>1, RolesAreSeqs
    <3> QED BY <2>1, <3>1, PrefixFacts
  <2>3. ASSUME NEW k \in Len(q) + 1 .. Len(p) PROVE p[k] = r[k] /\ Prefix(p, k - 1) = Prefix(r, k - 1)
    <3>1. k \in 1 .. Len(r) - 1 /\ k - 1 \in 0 .. Len(r) - 1 /\ Len(r) - 1 \in 0 .. Len(r)
      BY <2>2
    <3> QED BY <2>1, <3>1, PrefixFacts
  <2>4. Reached(q, selected, r) <=> Reached(q, selected, p) /\ CallOf(r) \in Scope(q, selected, p)
    <3>1. \A k \in Len(q) + 1 .. Len(r) : k = Len(r) \/ k \in Len(q) + 1 .. Len(p)
      BY <2>2
    <3>2. \A k \in Len(q) + 1 .. Len(p) : k \in Len(q) + 1 .. Len(r)
      BY <2>2
    <3> HIDE DEF p
    <3> QED BY <2>1, <2>3, <3>1, <3>2 DEF Reached
  <2>5. p = q => Reached(q, selected, p)
    BY <2>2 DEF Reached
  <2> HIDE DEF p
  <2>6. CallOf(r) \in Walk(q, selected)[p] <=> Reached(q, selected, r)
    BY <2>1, <2>4, <2>5 DEF Walk
  <2>7. Scope(q, selected, r) = retry_scope(r, Whole, Forced(q, selected, r))
    BY <1>3 DEF Scope
  <2> QED BY <1>3, <2>6, <2>7 DEF Walk, Body, p
<1> QED BY <1>1, <1>2, <1>3

LEMMA ChosenIsBody ==
  ASSUME ConstantsOK, NEW q \in Roles, NEW selected
  PROVE  Chosen(q, selected) = Body(q, selected, Chosen(q, selected))
<1>1. Chosen(q, selected) = CHOOSE g : g = Body(q, selected, g)
  BY DEF Chosen, Body
<1>2. \E g : g = Body(q, selected, g)
  BY WalkIsBody
<1>3. (CHOOSE g : g = Body(q, selected, g)) = Body(q, selected, CHOOSE g : g = Body(q, selected, g))
  BY <1>2
<1> QED BY <1>1, <1>3

LEMMA ChosenIsWalk ==
  ASSUME ConstantsOK, NEW q \in Roles, NEW selected, NEW r \in Roles
  PROVE  Chosen(q, selected)[r] = Walk(q, selected)[r]
<1> DEFINE c == Chosen(q, selected)
           w == Walk(q, selected)
           S == {k \in 1 .. Len(r) : c[Prefix(r, k)] # w[Prefix(r, k)]}
<1>1. c = Body(q, selected, c) /\ w = Body(q, selected, w)
  BY ChosenIsBody, WalkIsBody
<1> HIDE DEF c, w
<1>2. ASSUME NEW x \in Roles, x = q \/ ~Below(q, x) \/ c[Caller(x)] = w[Caller(x)] PROVE c[x] = w[x]
  <2>1. c[x] = Body(q, selected, c)[x] /\ w[x] = Body(q, selected, w)[x]
    BY <1>1
  <2> QED BY <1>2, <2>1 DEF Body
<1>3. Len(r) \in Nat /\ Prefix(r, Len(r)) = r /\ Prefix(r, 0) = Root
  BY RolesAreSeqs, WholePrefix
<1>4. c[Root] = w[Root]
  <2>1. ~Below(q, Root)
    BY RolesAreSeqs DEF Below, Root
  <2> QED BY <1>2, <2>1, RootIsRole
<1>5. ASSUME S # {} PROVE FALSE
  <2>1. PICK m \in S : \A u \in S : m <= u
    BY <1>3, <1>5, Least
  <2>2. m \in 1 .. Len(r) /\ m - 1 \notin S /\ m \in 0 .. Len(r)
    BY <1>3, <2>1
  <2>3. Prefix(r, m) \in Roles /\ Caller(Prefix(r, m)) = Prefix(r, m - 1)
    BY <2>2, PrefixSteps, PrefixFacts
  <2>4. c[Prefix(r, m - 1)] = w[Prefix(r, m - 1)]
    <3>1. CASE m - 1 = 0
      BY <1>3, <1>4, <3>1
    <3>2. CASE m - 1 # 0
      BY <1>3, <2>2, <3>2
    <3> QED BY <3>1, <3>2
  <2>5. c[Prefix(r, m)] = w[Prefix(r, m)]
    BY <1>2, <2>3, <2>4
  <2> QED BY <2>1, <2>5
<1>6. CASE r = Root
  BY <1>4, <1>6 DEF c, w
<1>7. CASE r # Root
  <2>1. Len(r) \in 1 .. Len(r)
    BY <1>3, <1>7, RolesAreSeqs, EmptySeq DEF Root
  <2>2. c[r] = w[r]
    BY <1>3, <1>5, <2>1
  <2> QED BY <2>2 DEF c, w
<1> QED BY <1>6, <1>7

-----------------------------------------------------------------------------
(* What the rows of a run that has ended say. *)
LEMMA RowsOfPlan ==
  ASSUME RowsAre, ShapesOK, NEW r \in Roles
  PROVE  /\ Rows(r) = Planned(r) /\ Rows(r) \subseteq Tasks
         /\ \A t \in Rows(r) : Refs(r, t) \subseteq Rows(r)
BY DEF RowsAre, ShapesOK, Rows, Refs

LEMMA CallsDone ==
  ASSUME RetryInv, Ended, NEW p \in Roles, NEW u \in Rows(p), Child(p, u) \in Roles, Done(p, u)
  PROVE  \A t \in Rows(Child(p, u)) : Done(Child(p, u), t)
<1> DEFINE c == Child(p, u)
<1>1. ShapesOK /\ RowsAre /\ BehindOK /\ DoneOK /\ EndedOK
  BY DEF RetryInv, RowInv, TreeInv, SInv
<1>2. u \in Planned(p) /\ u \in Tasks /\ Rows(c) = Planned(c)
  BY <1>1, RowsOfPlan
<1>3. result[p][u] = "ok" \/ phase[p][u] = "ok"
  BY <1>1, <1>2 DEF EndedOK, Ended, Done
<1>4. CASE node[c] = "absent"
  BY <1>1, <1>2, <1>4 DEF ShapesOK
<1>5. CASE node[c] # "absent"
  <2>1. AllOk(c)
    BY <1>1, <1>2, <1>3, <1>5 DEF BehindOK, DoneOK
  <2> HIDE DEF c
  <2>2. c \in Roles
    BY DEF c
  <2> QED BY <1>1, <1>2, <2>1, <2>2 DEF AllOk, EndedOK, Ended, Done, c
<1> QED BY <1>4, <1>5

(* Above a row that is not done nothing is. *)
LEMMA UndoneAbove ==
  ASSUME ConstantsOK, RetryInv, Ended, NEW r \in Roles, NEW t \in Rows(r), ~Done(r, t), NEW k \in 1 .. Len(r)
  PROVE  r[k] \in Rows(Prefix(r, k - 1)) /\ ~Done(Prefix(r, k - 1), r[k])
<1>1. ShapesOK /\ CalleesOK /\ RowsAre
  BY DEF RetryInv, RowInv, TreeInv, SInv
<1>2. Len(r) \in Nat /\ Prefix(r, Len(r)) = r
  BY RolesAreSeqs, WholePrefix
<1>3. node[r] # "absent"
  BY <1>1, RowsOfPlan DEF ShapesOK
<1>4. ASSUME NEW j \in 1 .. Len(r)
      PROVE  /\ Prefix(r, j) \in Roles /\ Prefix(r, j - 1) \in Roles
             /\ Prefix(r, j) = Child(Prefix(r, j - 1), r[j]) /\ r[j] \in Rows(Prefix(r, j - 1))
  <2>1. j \in 0 .. Len(r)
    BY <1>2
  <2>2. /\ Prefix(r, j) \in Roles /\ Prefix(r, j - 1) \in Roles /\ r[j] \in Tasks
        /\ Prefix(r, j) = Child(Prefix(r, j - 1), r[j]) /\ node[Prefix(r, j)] # "absent"
    BY <1>1, <1>3, <2>1, PrefixFacts, PrefixSteps, Ancestors
  <2>3. r[j] \in Planned(Prefix(r, j - 1))
    BY <1>1, <2>2 DEF CalleesOK
  <2> QED BY <1>1, <2>2, <2>3, RowsOfPlan
<1>5. ASSUME Done(Prefix(r, k - 1), r[k]) PROVE FALSE
  <2> DEFINE S == {j \in 1 .. Len(r) : j >= k /\ \E u \in Rows(Prefix(r, j)) : ~Done(Prefix(r, j), u)}
  <2>1. Len(r) \in S /\ S \subseteq 1 .. Len(r)
    BY <1>2
  <2>2. PICK m \in S : \A u \in S : m <= u
    BY <1>2, <2>1, Least
  <2>3. m \in 1 .. Len(r) /\ m >= k /\ m - 1 \notin S
    BY <1>2, <2>2
  <2>4. ~Done(Prefix(r, m - 1), r[m])
    BY <1>4, <2>2, <2>3, CallsDone
  <2>5. m # k
    BY <1>5, <2>4
  <2>6. m - 1 \in 1 .. Len(r) /\ m - 1 >= k
    <3>1. \A a \in Nat, b \in Nat : a >= 1 /\ b >= a /\ b # a => b - 1 >= a /\ b - 1 >= 1 /\ b - 1 \in Nat
      OBVIOUS
    <3>2. m - 1 >= k /\ m - 1 >= 1 /\ m - 1 \in Nat
      BY <1>2, <2>3, <2>5, <3>1
    <3> QED BY <1>2, <2>3, <3>2
  <2> QED BY <1>4, <2>3, <2>4, <2>6
<1> QED BY <1>4, <1>5

-----------------------------------------------------------------------------
(* What a scope needs is in it or done, and what is done is in it only when*)
(* it was asked for.                                                       *)
LEMMA ScopeNeeds ==
  ASSUME RowsAre, ShapesOK, NEW q \in Roles, NEW selected, NEW r \in Roles,
         NEW t \in Scope(q, selected, r), NEW d \in Refs(r, t)
  PROVE  t \in Rows(r) /\ (d \in Scope(q, selected, r) \/ Done(r, d))
<1>1. CASE r = q /\ selected # Whole
  <2>1. Scope(q, selected, r) = Missing(q, selected)
    BY <1>1 DEF Scope, retry_scope
  <2>2. t \in Rows(q) /\ d \in Rows(q)
    BY <1>1, <2>1, RowsOfPlan DEF Missing
  <2>3. ~Done(q, d) => d \in Missing(q, selected)
    BY <1>1, <2>1, <2>2 DEF Missing
  <2> QED BY <1>1, <2>1, <2>2, <2>3
<1>2. CASE ~(r = q /\ selected # Whole)
  <2>1. PICK force : Scope(q, selected, r) = {u \in Rows(r) : force \/ ~Done(r, u)}
    BY <1>2 DEF Scope, retry_scope
  <2>2. t \in Rows(r) /\ d \in Rows(r)
    BY <2>1, RowsOfPlan
  <2> QED BY <2>1, <2>2
<1> QED BY <1>1, <1>2

LEMMA ScopeTask ==
  ASSUME RowsAre, ShapesOK, NEW q \in Roles, NEW selected \in Rows(q), selected # Whole,
         NEW t \in Scope(q, selected, q), Done(q, t)
  PROVE  t = selected
<1>1. t \in Missing(q, selected)
  BY DEF Scope, retry_scope
<1> DEFINE S == {selected} \cup {u \in Rows(q) : ~Done(q, u)}
<1>2. S \subseteq Rows(q)
  OBVIOUS
<1>3. \A u \in S : {d \in Refs(q, u) : ~Done(q, d)} \subseteq S
  BY <1>2, RowsOfPlan
<1>4. t \in S
  BY <1>1, <1>2, <1>3 DEF Missing
<1> QED BY <1>4

LEMMA ScopeDone ==
  ASSUME RowsAre, ShapesOK, NEW q \in Roles, NEW selected, selected = Whole \/ selected \in Rows(q), NEW r \in Roles,
         NEW t \in Scope(q, selected, r), Done(r, t)
  PROVE  (r = q /\ selected # Whole /\ t = selected) \/ Forced(q, selected, r)
<1>1. CASE r = q /\ selected # Whole
  BY <1>1, ScopeTask
<1>2. CASE ~(r = q /\ selected # Whole)
  BY <1>2 DEF Scope, retry_scope
<1> QED BY <1>1, <1>2

LEMMA NotForcedHere ==
  ASSUME ConstantsOK, NEW q \in Roles PROVE ~Forced(q, Whole, q)
<1>1. Len(q) + 1 .. Len(q) = {}
  BY RolesAreSeqs
<1> QED BY <1>1 DEF Forced

(* All of a role below the first is chosen only if the selected task was done. *)
LEMMA ForcedByTask ==
  ASSUME ConstantsOK, RowsAre, ShapesOK, NEW q \in Roles, NEW selected, selected = Whole \/ selected \in Rows(q),
         NEW r \in Roles, Below(q, r), Reached(q, selected, r), Forced(q, selected, r)
  PROVE  selected # Whole /\ Done(q, selected)
<1> SUFFICES ASSUME ~(selected # Whole /\ Done(q, selected)) PROVE FALSE
  OBVIOUS
<1>1. Len(q) \in Nat /\ Len(r) \in Nat
  BY RolesAreSeqs
<1> DEFINE S == {k \in Len(q) + 1 .. Len(r) : Done(Prefix(r, k - 1), r[k])}
<1>2. S # {} /\ S \subseteq 1 .. Len(r)
  BY <1>1 DEF Forced, Prefix
<1>3. PICK m \in S : \A u \in S : m <= u
  BY <1>1, <1>2, Least
<1> DEFINE p == Prefix(r, m - 1)
<1>4. m \in Len(q) + 1 .. Len(r) /\ Done(p, r[m])
  BY <1>3
<1>5. p \in Roles /\ (p = q \/ Below(q, p)) /\ r[m] \in Scope(q, selected, p)
  BY <1>4, BelowSteps DEF Reached
<1>6. m \in 1 .. Len(r) /\ m - 1 \in 0 .. Len(r) /\ Len(p) = m - 1
  <2>1. m \in 1 .. Len(r) /\ m - 1 \in 0 .. Len(r)
    BY <1>1, <1>4
  <2> QED BY <2>1, PrefixFacts
<1>7. ~Forced(q, selected, p)
  <2> SUFFICES ASSUME Forced(q, selected, p) PROVE FALSE
    OBVIOUS
  <2>1. PICK k \in Len(q) + 1 .. Len(p) : Done(Prefix(p, k - 1), p[k])
    BY DEF Forced, Prefix
  <2>2. k \in 1 .. m - 1 /\ k - 1 \in 0 .. m - 1 /\ k \in Len(q) + 1 .. Len(r)
    BY <1>1, <1>6, <2>1
  <2>3. p[k] = r[k] /\ Prefix(p, k - 1) = Prefix(r, k - 1)
    BY <1>6, <2>2, PrefixFacts
  <2>4. k \in S
    BY <2>1, <2>2, <2>3
  <2> QED BY <1>3, <1>6, <2>2, <2>4
<1>8. p = q /\ selected # Whole /\ r[m] = selected
  BY <1>4, <1>5, <1>7, ScopeDone
<1> QED BY <1>4, <1>8

(* A retry of the whole run reaches everything that is not done. *)
LEMMA WholeReaches ==
  ASSUME ConstantsOK, RetryInv, Ended, NEW r \in Roles, NEW t \in Rows(r), ~Done(r, t)
  PROVE  t \in Walk(Root, Whole)[r]
<1>1. t \in Scope(Root, Whole, r)
  BY DEF Scope, retry_scope
<1>2. Len(Root) = 0 /\ Len(r) \in Nat /\ SubSeq(r, 1, 0) = Root
  BY RolesAreSeqs, WholePrefix DEF Root, Prefix
<1>3. ASSUME r # Root PROVE Below(Root, r) /\ Reached(Root, Whole, r)
  <2>1. Len(r) # 0
    BY <1>3, RolesAreSeqs, EmptySeq DEF Root
  <2>2. Below(Root, r)
    BY <1>2, <2>1 DEF Below
  <2>3. ASSUME NEW k \in 1 .. Len(r) PROVE r[k] \in Scope(Root, Whole, Prefix(r, k - 1))
    BY UndoneAbove DEF Scope, retry_scope
  <2> QED BY <1>2, <2>2, <2>3 DEF Reached
<1> QED BY <1>1, <1>3 DEF Walk

(* Whatever way a run ends, retrying it is sound: no completed row stands  *)
(* before one it needed, a retry runs nothing before what it needs and     *)
(* repeats nothing that is done but what it was asked for, and a retry of  *)
(* the whole run leaves out nothing that is not done, in whatever role.    *)
THEOREM RetryTheorem == Spec => []RetryIsSound
<1>1. RetryInv => RetryIsSound
  <2> SUFFICES ASSUME RetryInv PROVE RetryIsSound
    OBVIOUS
  <2>1. ConstantsOK /\ ShapesOK /\ RowsAre /\ EndedOK
    BY ConstantsOK DEF RetryInv, RowInv, TreeInv, SInv
  <2>2. ASSUME Ended, NEW r \in Roles, Inconsistent(r) PROVE FALSE
    <3>1. PICK t \in Rows(r) : Done(r, t) /\ \E d \in Refs(r, t) : ~Done(r, d)
      BY <2>2 DEF Inconsistent
    <3>2. t \in Planned(r) /\ Refs(r, t) \subseteq Deps(r, t)
      BY <2>1, <3>1, RowsOfPlan DEF Refs
    <3> QED BY <2>1, <2>2, <3>1, <3>2 DEF EndedOK, Ended, Done
  <2>3. ASSUME NEW x \in Retries
        PROVE  /\ Ended /\ x[1] \in Roles /\ (x[2] = Whole \/ x[2] \in Rows(x[1]))
               /\ x[2] = Whole => x[1] = Root
    <3>1. CASE x = <<Root, Whole>> /\ Ended
      <4>1. x[1] = Root /\ x[2] = Whole
        BY <3>1
      <4> QED BY <2>1, <3>1, <4>1, RootIsRole
    <3>2. CASE x \in Roles \X Tasks /\ Ended /\ x[2] \in Rows(x[1])
      <4>1. x[2] # Whole
        BY <3>2 DEF Whole, Tasks, ConstantsOK
      <4> QED BY <3>2, <4>1
    <3> QED BY <3>1, <3>2 DEF Retries
  <2>4. ASSUME NEW q \in Roles, NEW selected, Ended, selected = Whole \/ selected \in Rows(q),
               selected = Whole => q = Root, NEW r \in Roles
        PROVE  /\ \A t \in Chosen(q, selected)[r], d \in Tasks :
                    d \in Refs(r, t) => d \in Chosen(q, selected)[r] \/ Done(r, d)
               /\ \A t \in Chosen(q, selected)[r] :
                    Done(r, t) => \/ <<r, t>> = <<q, selected>>
                                  \/ selected # Whole /\ Done(q, selected) /\ Below(q, r)
               /\ selected = Whole => \A t \in Rows(r) : Done(r, t) \/ t \in Chosen(q, selected)[r]
    <3>1. Chosen(q, selected)[r] = Walk(q, selected)[r]
      BY <2>1, ChosenIsWalk
    <3>2. CASE r = q \/ (Below(q, r) /\ Reached(q, selected, r))
      <4>1. Chosen(q, selected)[r] = Scope(q, selected, r)
        BY <3>1, <3>2 DEF Walk
      <4>2. ASSUME NEW t \in Scope(q, selected, r), Done(r, t)
            PROVE  \/ <<r, t>> = <<q, selected>>
                   \/ selected # Whole /\ Done(q, selected) /\ Below(q, r)
        <5>1. (r = q /\ selected # Whole /\ t = selected) \/ Forced(q, selected, r)
          BY <2>1, <2>4, <4>2, ScopeDone
        <5>2. CASE r = q /\ selected = Whole
          BY <2>1, <5>1, <5>2, NotForcedHere
        <5>3. CASE r = q /\ selected # Whole
          BY <2>1, <2>4, <4>2, <5>3, ScopeTask
        <5>4. CASE r # q
          BY <2>1, <2>4, <3>2, <5>1, <5>4, ForcedByTask
        <5> QED BY <5>2, <5>3, <5>4
      <4>3. \A t \in Scope(q, selected, r) : \A d \in Refs(r, t) : d \in Scope(q, selected, r) \/ Done(r, d)
        BY <2>1, ScopeNeeds
      <4>4. selected = Whole => \A t \in Rows(r) : Done(r, t) \/ t \in Chosen(q, selected)[r]
        BY <2>1, <2>4, <3>1, WholeReaches
      <4> QED BY <4>1, <4>2, <4>3, <4>4
    <3>3. CASE ~(r = q \/ (Below(q, r) /\ Reached(q, selected, r)))
      <4>1. Chosen(q, selected)[r] = {}
        BY <3>1, <3>3 DEF Walk
      <4> QED BY <2>1, <2>4, <3>1, <4>1, WholeReaches
    <3> QED BY <3>2, <3>3
  <2> QED BY <2>2, <2>3, <2>4 DEF RetryIsSound
<1> QED BY <1>1, RetryInvariant, PTL
=============================================================================
