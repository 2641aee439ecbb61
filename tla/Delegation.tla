----------------------------- MODULE Delegation -----------------------------
(***************************************************************************)
(* The task graphs of one run: build_delegation_graph, the budget of tasks *)
(* it shares with execute_delegate, the task rows, and what _code does     *)
(* around the root's graph.                                                *)
(*                                                                         *)
(* A role is an agent at work on a plan of its own.  It is named by the    *)
(* path of task numbers that leads to it from the root, <<>>.  A role's    *)
(* graph goes through its nodes one superstep at a time; the execute node  *)
(* runs a wave of tasks at once, each in a thread, and a task that calls   *)
(* an agent drives that agent's graph in its thread.  A superstep ends     *)
(* when all its tasks have: with results, with an interrupt (the graph     *)
(* pauses, and so does the task that drives it, up to the root), or with   *)
(* an error that carries a code and passes through every role.             *)
(***************************************************************************)
EXTENDS Naturals, Sequences, FiniteSets

CONSTANTS
  Agents,        \* agents of the run's snapshot
  RootAgents,    \* the agents a workflow may have in its coding stage
  Allowed,       \* which of "write" and "call" an agent's tools include
  Planner,       \* the plans each agent's language model may return
  Policies,      \* capability policies or MCP tools are configured
  Interactive,   \* root agents run in approval mode "interactive": writing tools ask first
  MaxPlan,       \* ExecutionLimits.max_plan_tasks
  MaxTotal,      \* ExecutionLimits.max_total_tasks
  MaxDepth,      \* ExecutionLimits.max_depth
  MaxRounds,     \* clarifications of one role
  NoItem         \* a role that is not interrupted

Tasks == 1 .. MaxPlan
Roles == UNION {[1 .. d -> Tasks] : d \in 0 .. MaxDepth}
Root  == <<>>

(* A task reads or writes itself, or calls an agent.  Plans without any    *)
(* depends_on are the ones of older planners.                              *)
Tools   == {"read", "write"} \cup Agents
Task    == [tool : Tools, deps : SUBSET Nat]
NoPlan  == [declared |-> TRUE, tasks |-> <<>>]
Plan    == [declared : BOOLEAN, tasks : Seq(Task)]
IsPlan(p) == /\ p \in Plan
             /\ ~p.declared => \A t \in DOMAIN p.tasks : p.tasks[t].deps = {}

ASSUME ConstantsOK ==
  /\ RootAgents \subseteq Agents /\ RootAgents # {}
  /\ Allowed \in [Agents -> SUBSET {"write", "call"}]
  /\ \A a \in Agents : \A p \in Planner[a] : IsPlan(p)
  /\ Agents \cap {"read", "write"} = {}
  /\ Policies \in BOOLEAN /\ Interactive \subseteq RootAgents
  /\ MaxPlan \in Nat \ {0} /\ MaxTotal \in Nat /\ MaxDepth \in Nat /\ MaxRounds \in Nat
  /\ NoItem \notin Nat

VARIABLES
  run,        \* Run.status
  stop,       \* the run's cancel_event
  node,       \* the node each role's graph is at
  agent,      \* the agent of each role
  plan,       \* DelegationState.tasks
  rounds,     \* DelegationState.clarification_count
  reserved,   \* TaskBudget._plans
  result,     \* DelegationState.results, by task
  phase,      \* where each task of the present wave stands
  verdict,    \* the user's answer to a task that asked
  pending,    \* child["pending"]: the task, or 0 for a clarification, a role shows
  answered,   \* the response on its way down to a role that is paused
  row,        \* Task.status
  calls,      \* how often a task's own tool was run
  consents    \* history: the tasks whose request, as shown, the user granted

vars == <<run, stop, node, agent, plan, rounds, reserved, result, phase,
          verdict, pending, answered, row, calls, consents>>

-----------------------------------------------------------------------------
Size(r)     == Len(plan[r].tasks)
Planned(r)  == 1 .. Size(r)
Tool(r, t)  == plan[r].tasks[t].tool
Deps(r, t)  == plan[r].tasks[t].deps
Child(r, t) == Append(r, t)
Caller(r)   == SubSeq(r, 1, Len(r) - 1)
CallOf(r)   == r[Len(r)]

Nodes    == {"absent", "plan", "clarify", "ask_user", "dispatch", "execute",
             "summarize", "done", "failed"}
Phases   == {"idle", "sent", "exec", "ask", "call", "ok", "bad", "raised"}
Results  == {"none", "ok", "bad", "blocked"}

Settled  == {"completed", "failed", "blocked"}
Unended  == {"queued", "running", "waiting"}
Terminal == {"completed", "failed", "cancelled"}

(* A role's graph advances in the thread of the task that called it. *)
Driven(r) == IF r = Root THEN run = "running"
                         ELSE phase[Caller(r)][CallOf(r)] = "call"
At(r, n)  == Driven(r) /\ node[r] = n /\ ~stop

(* Delegates always dispatch old plans one by one. *)
Serial(r) == r # Root \/ "call" \in Allowed[agent[Root]]

UnsafeAgents == {a \in Agents : "write" \in Allowed[a]}

(* Mutant: an agent that writes nothing itself may still call a writer. *)
ReadOnlyDirectly == Agents \ UnsafeAgents

(* Agents that can be shown to read only, from their lists of tools. *)
ReadOnlyDelegates ==
  IF Policies THEN {}
  ELSE {a \in Agents \ UnsafeAgents : "call" \in Allowed[a] => UnsafeAgents = {}}

ParallelSafe(r, t) == Tool(r, t) = "read" \/ Tool(r, t) \in ReadOnlyDelegates

-----------------------------------------------------------------------------
(* validate_plan: the size, the tools of the role, and dependencies that   *)
(* name other tasks of the plan without a cycle (a set of tasks each of    *)
(* which waits for another one of the set).                                *)
ToolAllowed(a, tool) == \/ tool = "read"
                        \/ tool = "write" /\ "write" \in Allowed[a]
                        \/ tool \in Agents /\ "call" \in Allowed[a]
Acyclic(tasks) ==
  \A S \in (SUBSET DOMAIN tasks) \ {{}} : \E t \in S : tasks[t].deps \cap S = {}

ValidPlan(a, p) ==
  /\ Len(p.tasks) \in 1 .. MaxPlan
  /\ \A t \in DOMAIN p.tasks : /\ ToolAllowed(a, p.tasks[t].tool)
                               /\ p.tasks[t].deps \subseteq DOMAIN p.tasks \ {t}
  /\ Acyclic(p.tasks)

(* TaskBudget.reserve: a new plan of a role replaces its reservation. *)
Others(r) == LET sum[S \in SUBSET Roles] ==
                   IF S = {} THEN 0
                   ELSE LET q == CHOOSE q \in S : TRUE IN reserved[q] + sum[S \ {q}]
             IN sum[{q \in Roles \ {r} : reserved[q] > 0}]

Affordable(r, n) == Others(r) + n <= MaxTotal

-----------------------------------------------------------------------------
Init ==
  /\ run = "running" /\ stop = FALSE
  /\ node = [r \in Roles |-> IF r = Root THEN "plan" ELSE "absent"]
  /\ \E a \in RootAgents : agent = [r \in Roles |-> a]
  /\ plan = [r \in Roles |-> NoPlan]
  /\ rounds = [r \in Roles |-> 0]
  /\ reserved = [r \in Roles |-> 0]
  /\ result = [r \in Roles |-> [t \in Tasks |-> "none"]]
  /\ phase = [r \in Roles |-> [t \in Tasks |-> "idle"]]
  /\ verdict = [r \in Roles |-> [t \in Tasks |-> "none"]]
  /\ pending = [r \in Roles |-> NoItem]
  /\ answered = [r \in Roles |-> "none"]
  /\ row = [r \in Roles |-> [t \in Tasks |-> "none"]]
  /\ calls = [r \in Roles |-> [t \in Tasks |-> 0]]
  /\ consents = {}

(* _finish: the run ends, and with it every row that has not. *)
EndRun(status) ==
  /\ run' = IF stop THEN "cancelled" ELSE status
  /\ row' = [r \in Roles |-> [t \in Tasks |->
               IF row[r][t] \in Unended THEN run' ELSE row[r][t]]]

(* A role's graph is over.  The root's ends the run; another one gives its *)
(* caller's task a good result, a bad one or an error with a code.         *)
Leave(r, outcome) ==
  /\ node' = [node EXCEPT ![r] = IF outcome = "ok" THEN "done" ELSE "failed"]
  /\ IF r = Root
     THEN /\ EndRun(IF outcome = "ok" THEN "completed" ELSE "failed")
          /\ UNCHANGED phase
     ELSE /\ phase' = [phase EXCEPT ![Caller(r)][CallOf(r)] = outcome]
          /\ UNCHANGED <<run, row>>
  /\ UNCHANGED <<stop, agent, plan, rounds, reserved, result, verdict, pending,
                 answered, calls, consents>>

-----------------------------------------------------------------------------
(* plan_node with its guard, and record_plan. *)
MakePlan(r) ==
  /\ At(r, "plan")
  /\ \E p \in Planner[agent[r]] :
       /\ ValidPlan(agent[r], p) /\ Affordable(r, Len(p.tasks))
       /\ plan' = [plan EXCEPT ![r] = p]
       /\ reserved' = [reserved EXCEPT ![r] = Len(p.tasks)]
       /\ row' = [row EXCEPT ![r] = [t \in Tasks |->
                    IF t <= Len(p.tasks) THEN "queued" ELSE "none"]]
  /\ node' = [node EXCEPT ![r] = "clarify"]
  /\ UNCHANGED <<run, stop, agent, rounds, result, phase, verdict, pending,
                 answered, calls, consents>>

(* A plan that is refused has a code and ends the run. *)
RefusePlan(r) ==
  /\ At(r, "plan")
  /\ \E p \in Planner[agent[r]] :
       ~(ValidPlan(agent[r], p) /\ Affordable(r, Len(p.tasks)))
  /\ Leave(r, "raised")

(* The language model fails: an error without a code. *)
PlannerFails(r) ==
  /\ At(r, "plan") \/ At(r, "clarify")
  /\ Leave(r, "bad")

Clarify(r) ==
  /\ At(r, "clarify")
  /\ \E next \in {"ask_user", "dispatch"} :
       /\ next = "ask_user" => rounds[r] < MaxRounds
       /\ node' = [node EXCEPT ![r] = next]
  /\ UNCHANGED <<run, stop, agent, plan, rounds, reserved, result, phase, verdict,
                 pending, answered, row, calls, consents>>

-----------------------------------------------------------------------------
(* dispatch_node: tasks behind a failure are blocked, and so on behind     *)
(* them: the least set of open tasks that is closed under this.            *)
Open(r)   == {t \in Planned(r) : result[r][t] = "none"}
Lost(r)   == {t \in Planned(r) : result[r][t] \in {"bad", "blocked"}}

ClosedUnderFailure(r, S) ==
  \A t \in Open(r) : Deps(r, t) \cap (Lost(r) \cup S) # {} => t \in S
(* Mutant: one pass over the plan, in which blocked tasks block no others. *)
BlockedOnce(r) == {t \in Open(r) : Deps(r, t) \cap Lost(r) # {}}

Blocked(r) == {t \in Open(r) : \A S \in SUBSET Open(r) :
                                 ClosedUnderFailure(r, S) => t \in S}

(* dispatch: ready tasks in the order of the plan up to the first one that *)
(* needs the workspace for itself, or that one alone.                      *)
Ready(r) == {t \in Open(r) \ Blocked(r) : \A d \in Deps(r, t) : result[r][d] = "ok"}
Wave(r) ==
  LET Before(t) == {u \in Ready(r) : u < t}
  IN {t \in Ready(r) : /\ \A u \in Before(t) : ParallelSafe(r, u)
                       /\ ParallelSafe(r, t) \/ Before(t) = {}}

(* Old plans: one by one until one fails, or all at once. *)
Stopped(r)    == \E t \in Planned(r) : result[r][t] = "bad"
OldWave(r)    == IF Serial(r) THEN {t \in Open(r) : \A u \in Open(r) : t <= u} ELSE Open(r)
NextWave(r)   == IF plan[r].declared THEN Wave(r) ELSE OldWave(r)
Exhausted(r)  == IF plan[r].declared THEN Open(r) = Blocked(r)
                 ELSE Open(r) = {} \/ Stopped(r)

Block(r) ==
  LET lost == IF plan[r].declared THEN Blocked(r) ELSE {} IN
  /\ result' = [result EXCEPT ![r] = [t \in Tasks |->
                  IF t \in lost THEN "blocked" ELSE result[r][t]]]
  /\ row' = [row EXCEPT ![r] = [t \in Tasks |->
               IF t \in lost THEN "blocked" ELSE row[r][t]]]

(* INVALID_DEPENDENCY_GRAPH: tasks are left and none can start. *)
DeadEnd(r) == At(r, "dispatch") /\ ~Exhausted(r) /\ NextWave(r) = {}

Send(r) ==
  /\ Block(r)
  /\ IF Exhausted(r)
     THEN /\ node' = [node EXCEPT ![r] = "summarize"]
          /\ UNCHANGED phase
     ELSE /\ node' = [node EXCEPT ![r] = "execute"]
          /\ phase' = [phase EXCEPT ![r] = [t \in Tasks |->
                         IF t \in NextWave(r) THEN "sent" ELSE "idle"]]
  /\ UNCHANGED <<run, stop, agent, plan, rounds, reserved, verdict, pending,
                 answered, calls, consents>>

Dispatch(r) == At(r, "dispatch") /\ IF DeadEnd(r) THEN Leave(r, "raised") ELSE Send(r)

-----------------------------------------------------------------------------
(* execute_node, entered in the task's thread; start_task sets the row. *)
Executing(r) == Driven(r) /\ node[r] = "execute"
Started(r, t) == [row EXCEPT ![r][t] = IF @ \in Settled THEN @ ELSE "running"]
Entering(r, t) == /\ Executing(r) /\ t \in Planned(r) /\ phase[r][t] = "sent"
                  /\ ~stop /\ row' = Started(r, t)

(* The gate lets a tool pass, asks the user, or refuses. *)
NeedsApproval(r, t) == Tool(r, t) = "write" /\ agent[Root] \in Interactive
RunTool(r, t) ==
  /\ Entering(r, t) /\ Tool(r, t) \notin Agents
  /\ NeedsApproval(r, t) => verdict[r][t] = "granted"
  /\ phase' = [phase EXCEPT ![r][t] = "exec"]
  /\ calls' = [calls EXCEPT ![r][t] = @ + 1]
  /\ UNCHANGED <<run, stop, node, agent, plan, rounds, reserved, result, verdict,
                 pending, answered, consents>>

AskApproval(r, t) ==
  /\ Entering(r, t) /\ NeedsApproval(r, t) /\ verdict[r][t] # "granted"
  /\ phase' = [phase EXCEPT ![r][t] = IF verdict[r][t] = "none" THEN "ask" ELSE "bad"]
  /\ UNCHANGED <<run, stop, node, agent, plan, rounds, reserved, result, verdict,
                 pending, answered, calls, consents>>

(* execute_delegate for a role that does not exist yet. *)
CallAgent(r, t) ==
  LET c == Child(r, t) IN
  /\ Entering(r, t) /\ Tool(r, t) \in Agents
  /\ IF Tool(r, t) = agent[r] \/ Len(c) > MaxDepth
     THEN /\ phase' = [phase EXCEPT ![r][t] = IF Tool(r, t) = agent[r] THEN "bad" ELSE "raised"]
          /\ UNCHANGED <<node, agent>>
     ELSE /\ node[c] = "absent"
          /\ node' = [node EXCEPT ![c] = "plan"]
          /\ agent' = [agent EXCEPT ![c] = Tool(r, t)]
          /\ phase' = [phase EXCEPT ![r][t] = "call"]
  /\ UNCHANGED <<run, stop, plan, rounds, reserved, result, verdict, pending,
                 answered, calls, consents>>

(* Mutant: the whole wave runs again after an interrupt. *)
ResentWhole(r) == [t \in Tasks |-> IF phase[r][t] = "idle" THEN "idle" ELSE "sent"]

(* A graph that was interrupted runs the tasks again that asked, and only  *)
(* those; one that asked for clarification plans again.                    *)
Resent(r) == [t \in Tasks |-> IF phase[r][t] = "ask" THEN "sent" ELSE phase[r][t]]
Replan(r) == node[r] = "ask_user"

(* Mutant: a response decides every request of the role that is open. *)
DecidedAll(r, item, answer) ==
  [verdict EXCEPT ![r] = [t \in Tasks |-> IF phase[r][t] = "ask" THEN answer ELSE @[t]]]

Decided(r, item, answer) == [verdict EXCEPT ![r][item] = answer]

(* A response enters a role's graph: it goes to the task that asked, or on *)
(* to the role that task drives.                                           *)
Hands(r, item) == item # 0 /\ Tool(r, item) \in Agents
Deliver(r, item, answer, left) ==
  /\ answered' = IF Hands(r, item) THEN [left EXCEPT ![Child(r, item)] = answer] ELSE left
  /\ verdict' = IF item = 0 \/ Hands(r, item) THEN verdict ELSE Decided(r, item, answer)
  /\ node' = [node EXCEPT ![r] = IF Replan(r) THEN "plan" ELSE @]
  /\ rounds' = [rounds EXCEPT ![r] = IF Replan(r) THEN @ + 1 ELSE @]

(* execute_delegate for a role that is paused: it asks again unless the    *)
(* response is there.                                                      *)
AskAgain(r, t) ==
  /\ Entering(r, t) /\ Tool(r, t) \in Agents /\ Child(r, t) \in Roles
  /\ pending[Child(r, t)] # NoItem /\ answered[Child(r, t)] = "none"
  /\ phase' = [phase EXCEPT ![r][t] = "ask"]
  /\ UNCHANGED <<run, stop, node, agent, plan, rounds, reserved, result, verdict,
                 pending, answered, calls, consents>>

ResumeAgent(r, t) ==
  LET c == Child(r, t) IN
  /\ Entering(r, t) /\ Tool(r, t) \in Agents /\ c \in Roles
  /\ pending[c] # NoItem /\ answered[c] # "none"
  /\ Deliver(c, pending[c], answered[c], [answered EXCEPT ![c] = "none"])
  /\ pending' = [pending EXCEPT ![c] = NoItem]
  /\ phase' = [phase EXCEPT ![r][t] = "call", ![c] = Resent(c)]
  /\ UNCHANGED <<run, stop, agent, plan, reserved, result, calls, consents>>

(* A tool returns or fails; after a stop its result is thrown away. *)
ToolReturns(r, t) ==
  /\ Executing(r) /\ t \in Planned(r) /\ phase[r][t] = "exec"
  /\ \E outcome \in {"ok", "bad"} :
       phase' = [phase EXCEPT ![r][t] = IF stop THEN "raised" ELSE outcome]
  /\ UNCHANGED <<run, stop, node, agent, plan, rounds, reserved, result, verdict,
                 pending, answered, row, calls, consents>>

(* The graph's stream hands a result to record_result while other tasks of *)
(* the wave still run.                                                     *)

(* Mutant: the graph's word for a result gets into the row. *)
OutcomeWord(p) == p

Outcome(p) == IF p = "ok" THEN "completed" ELSE "failed"
RecordResult(r, t) ==
  /\ Executing(r) /\ t \in Planned(r) /\ phase[r][t] \in {"ok", "bad"}
  /\ row[r][t] # Outcome(phase[r][t])
  /\ row' = [row EXCEPT ![r][t] = Outcome(phase[r][t])]
  /\ UNCHANGED <<run, stop, node, agent, plan, rounds, reserved, result, phase,
                 verdict, pending, answered, calls, consents>>

-----------------------------------------------------------------------------
InWave(r, phases) == {t \in Planned(r) : phase[r][t] \in phases}

(* Mutant: the next superstep does not wait for the stream. *)
RecordedLater(r) == TRUE

Recorded(r) == \A t \in InWave(r, {"ok", "bad"}) : row[r][t] = Outcome(phase[r][t])

(* All tasks of the wave have results: after_execute. *)
(* Mutant: only results of tasks that succeeded are kept. *)
MergedGood(r) == [t \in Tasks |-> IF phase[r][t] = "ok" THEN "ok" ELSE result[r][t]]

Merged(r) == [t \in Tasks |->
                IF phase[r][t] \in {"ok", "bad"} THEN phase[r][t] ELSE result[r][t]]
EndWave(r) ==
  /\ Executing(r)
  /\ InWave(r, {"sent", "exec", "call", "ask", "raised"}) = {} /\ Recorded(r)
  /\ result' = [result EXCEPT ![r] = Merged(r)]
  /\ phase' = [phase EXCEPT ![r] = [t \in Tasks |-> "idle"]]
  /\ node' = [node EXCEPT ![r] = "dispatch"]
  /\ UNCHANGED <<run, stop, agent, plan, rounds, reserved, verdict, pending,
                 answered, row, calls, consents>>

(* The graph stops at an interrupt: wait_for_input, and the caller's task  *)
(* asks in its turn, or the run waits.  A stop that came meanwhile ends    *)
(* the run instead.                                                        *)

WaitForInput(r) == [row EXCEPT ![r] = [t \in Tasks |->
                      IF row[r][t] = "running" THEN "waiting" ELSE row[r][t]]]
Pause(r, item) ==
  /\ pending' = [pending EXCEPT ![r] = item]
  /\ IF r # Root
     THEN /\ phase' = [phase EXCEPT ![Caller(r)][CallOf(r)] = "ask"]
          /\ row' = WaitForInput(r)
          /\ UNCHANGED run
     ELSE IF stop THEN EndRun("cancelled") /\ UNCHANGED phase
                  ELSE /\ run' = "waiting" /\ row' = WaitForInput(r)
                       /\ UNCHANGED phase
  /\ UNCHANGED <<stop, node, agent, plan, rounds, reserved, result, verdict,
                 answered, calls, consents>>

PauseWave(r) ==
  /\ Executing(r)
  /\ InWave(r, {"ask"}) # {} /\ InWave(r, {"sent", "exec", "call", "raised"}) = {}
  /\ Recorded(r)
  /\ Pause(r, CHOOSE t \in InWave(r, {"ask"}) : \A u \in InWave(r, {"ask"}) : t <= u)

AskUser(r) == At(r, "ask_user") /\ Pause(r, 0)

(* An error with a code, or a stop, leaves the graph once no thread of the *)
(* wave is at work any more.                                               *)
RaiseWave(r) ==
  /\ Executing(r)
  /\ InWave(r, {"raised"}) # {} /\ InWave(r, {"exec", "call"}) = {}
  /\ Leave(r, "raised")

(* Nodes that find the stop at their entry. *)
StopNode(r) ==
  /\ Driven(r) /\ stop
  /\ node[r] \in {"plan", "clarify", "ask_user", "dispatch", "summarize"}
  /\ Leave(r, "raised")
StopTask(r, t) ==
  /\ Executing(r) /\ stop /\ t \in Planned(r) /\ phase[r][t] = "sent"
  /\ phase' = [phase EXCEPT ![r][t] = "raised"]
  /\ UNCHANGED <<run, stop, node, agent, plan, rounds, reserved, result, verdict,
                 pending, answered, row, calls, consents>>

(* summarize, and what _code and execute_delegate make of the results. *)
Summarize(r) ==
  /\ At(r, "summarize")
  /\ Leave(r, IF \A t \in Planned(r) : result[r][t] \in {"none", "ok"} THEN "ok" ELSE "bad")

-----------------------------------------------------------------------------
(* Each interrupted task of the root shows the deepest request behind it.  *)
RootItems == IF Replan(Root) THEN {0} ELSE InWave(Root, {"ask"})
Chain(t)  == {c \in Roles \ {Root} :
                /\ c[1] = t /\ pending[c] # NoItem
                /\ \A k \in 1 .. Len(c) - 1 : pending[SubSeq(c, 1, k)] = c[k + 1]}
Deepest(t) == IF Chain(t) = {} THEN <<Root, t>>
              ELSE LET d == CHOOSE d \in Chain(t) : \A c \in Chain(t) : Len(c) <= Len(d)
                   IN <<d, pending[d]>>

(* WorkflowSession.resume: the response to one request is handed to the    *)
(* root's task that shows it, and the root's graph goes on.                *)
Answer(t, answer) ==
  /\ run = "waiting" /\ t \in RootItems
  /\ Deepest(t)[2] = 0 => answer = "granted"
  /\ run' = "running"
  /\ Deliver(Root, t, answer, answered)
  /\ pending' = [pending EXCEPT ![Root] = NoItem]
  /\ phase' = [phase EXCEPT ![Root] = Resent(Root)]
  /\ consents' = IF answer = "granted" THEN consents \cup {Deepest(t)} ELSE consents
  /\ UNCHANGED <<stop, agent, plan, reserved, result, row, calls>>

(* cancel: a waiting run ends at once, a running one by its threads. *)
Cancel ==
  /\ run \in {"running", "waiting"} /\ ~stop
  /\ stop' = TRUE
  /\ IF run = "waiting" THEN EndRun("cancelled") ELSE UNCHANGED <<run, row>>
  /\ UNCHANGED <<node, agent, plan, rounds, reserved, result, phase, verdict,
                 pending, answered, calls, consents>>

-----------------------------------------------------------------------------
Step(r) == \/ MakePlan(r) \/ RefusePlan(r) \/ PlannerFails(r) \/ Clarify(r)
           \/ AskUser(r) \/ Dispatch(r) \/ EndWave(r)
           \/ PauseWave(r) \/ RaiseWave(r) \/ StopNode(r) \/ Summarize(r)
TaskStep(r, t) == \/ RunTool(r, t) \/ AskApproval(r, t) \/ CallAgent(r, t)
                  \/ AskAgain(r, t) \/ ResumeAgent(r, t) \/ ToolReturns(r, t)
                  \/ RecordResult(r, t) \/ StopTask(r, t)
Work == \E r \in Roles : Step(r) \/ \E t \in Tasks : TaskStep(r, t)

Respond == \E t \in 0 .. MaxPlan, answer \in {"granted", "refused"} : Answer(t, answer)
Next == Work \/ Respond \/ Cancel

Spec     == Init /\ [][Next]_vars
FairSpec == Spec /\ WF_vars(Work)

-----------------------------------------------------------------------------
TypeOK ==
  /\ run \in {"running", "waiting"} \cup Terminal
  /\ stop \in BOOLEAN
  /\ node \in [Roles -> Nodes]
  /\ agent \in [Roles -> Agents]
  /\ plan \in [Roles -> Plan]
  /\ rounds \in [Roles -> 0 .. MaxRounds]
  /\ reserved \in [Roles -> 0 .. MaxPlan]
  /\ result \in [Roles -> [Tasks -> Results]]
  /\ phase \in [Roles -> [Tasks -> Phases]]
  /\ verdict \in [Roles -> [Tasks -> {"none", "granted", "refused"}]]
  /\ pending \in [Roles -> {NoItem} \cup 0 .. MaxPlan]
  /\ answered \in [Roles -> {"none", "granted", "refused"}]
  /\ row \in [Roles -> [Tasks -> {"none"} \cup Unended \cup Settled \cup Terminal]]
  /\ calls \in [Roles -> [Tasks -> Nat]]
  /\ consents \subseteq Roles \X (0 .. MaxPlan)

AllTasks == {rt \in Roles \X Tasks : rt[2] \in Planned(rt[1])}
RunningTools == {rt \in AllTasks : phase[rt[1]][rt[2]] = "exec"}

(* A tool that may write has the workspace for itself in the whole tree,   *)
(* though supersteps of several roles run at once.  Old plans of a root    *)
(* that cannot delegate are exempt: they start all their tasks together.   *)
WriterIsAlone ==
  plan[Root].declared \/ Serial(Root) =>
    \A x \in RunningTools : Tool(x[1], x[2]) = "write" => RunningTools = {x}

(* No task starts before the rows of what it depends on say completed,     *)
(* though results reach the rows by a stream of their own; and when a      *)
(* declared plan is through, a task was blocked if and only if one it      *)
(* depends on did not succeed, and every other one was executed.           *)
DependenciesDecide ==
  /\ run \in {"running", "waiting"} =>
       \A x \in AllTasks : row[x[1]][x[2]] \in {"running", "waiting", "completed"} =>
         \A d \in Deps(x[1], x[2]) : row[x[1]][d] = "completed"
  /\ \A r \in Roles : node[r] \in {"summarize", "done"} /\ plan[r].declared =>
       \A t \in Planned(r) :
         /\ result[r][t] # "none"
         /\ result[r][t] = "blocked" <=> \E d \in Deps(r, t) : result[r][d] # "ok"

(* However often the run pauses and goes on, a tool is run once at most. *)
CalledOnce == \A x \in AllTasks : calls[x[1]][x[2]] <= 1

(* In interactive mode a tool that writes runs only after the user granted *)
(* the request that was shown for this very task: a response that goes     *)
(* down through several roles reaches the task that asked, and no other    *)
(* request uses it again.                                                  *)
ConsentReachesAsker ==
  \A x \in AllTasks : calls[x[1]][x[2]] > 0 /\ NeedsApproval(x[1], x[2]) => x \in consents

(* A plan that was validated never runs into INVALID_DEPENDENCY_GRAPH. *)
NoDeadEnd == \A r \in Roles : ~DeadEnd(r)

(* A run that is not waiting for the user gets to its end or to a question. *)
EndsOrAsks == run = "running" ~> run # "running"
=============================================================================
