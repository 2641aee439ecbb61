-------------------------- MODULE DelegationProofs --------------------------
(***************************************************************************)
(* The theorems about the task graphs of a run.  First two that speak of   *)
(* one role: a validated plan never comes to a dead end, and a tool is run *)
(* once at most.  Then those that speak of the tree of roles: a tool that  *)
(* writes is alone, the rows of tasks follow their dependencies, and the   *)
(* user was asked before a tool ran.                                       *)
(***************************************************************************)
EXTENDS Delegation, FiniteSetTheorems, SequenceTheorems, TLAPS

Planning == {"absent", "plan", "clarify", "ask_user"}
HasRun   == {"exec", "ok", "bad", "raised"}

Types ==
  /\ node \in [Roles -> Nodes]
  /\ agent \in [Roles -> Agents]
  /\ plan \in [Roles -> Plan]
  /\ result \in [Roles -> [Tasks -> Results]]
  /\ phase \in [Roles -> [Tasks -> Phases]]
  /\ calls \in [Roles -> [Tasks -> Nat]]

(* A role that has its plan has validated it. *)
PlansOK ==
  \A r \in Roles : node[r] \in {"clarify", "ask_user", "dispatch", "execute", "summarize"}
                     => ValidPlan(agent[r], plan[r])

(* Only tasks without a result are in the present wave. *)
WaveOK ==
  \A r \in Roles, t \in Tasks :
    node[r] = "execute" /\ phase[r][t] # "idle" => result[r][t] = "none"

(* A tool that was run has its result, or is in a wave that has not ended. *)
Accounted(r, t) ==
  \/ result[r][t] # "none"
  \/ node[r] \in {"execute", "failed"} /\ phase[r][t] \in HasRun

CallsOK ==
  \A r \in Roles, t \in Tasks :
    /\ calls[r][t] <= 1
    /\ calls[r][t] = 1 => t \in Planned(r) /\ Accounted(r, t) /\ node[r] \notin Planning

IInv == Types /\ PlansOK /\ WaveOK /\ CallsOK

-----------------------------------------------------------------------------
(* A plan has a first task among any of its tasks: strict inclusion of the  *)
(* sets of tasks before a task is well-founded.                             *)
LEMMA Least ==
  ASSUME NEW n \in Nat, NEW S, S \subseteq 1 .. n, S # {}
  PROVE \E m \in S : \A u \in S : m <= u
<1> DEFINE Below(t) == {u \in S : u < t}
           T == {Below(t) : t \in S}
<1>1. T \subseteq FiniteSubsetsOf(S)
  <2>1. IsFiniteSet(S)
    <3>1. IsFiniteSet(1 .. n)
      BY FS_Interval
    <3> QED BY <3>1, FS_Subset
  <2>2. \A t \in S : Below(t) \subseteq S /\ IsFiniteSet(Below(t))
    BY <2>1, FS_Subset
  <2> QED BY <2>2 DEF FiniteSubsetsOf
<1>2. T # {}
  OBVIOUS
<1>3. PICK X \in T : \A Y \in T : <<Y, X>> \notin StrictSubsetOrdering(S)
  <2> HIDE DEF T
  <2> QED BY <1>1, <1>2, FS_StrictSubsetOrderingWellFounded, WFMin
<1>4. PICK m \in S : X = Below(m)
  OBVIOUS
<1>5. \A u \in S : ~(u < m)
  <2> SUFFICES ASSUME NEW u \in S, u < m PROVE FALSE
    OBVIOUS
  <2>0. S \subseteq Int
    OBVIOUS
  <2>1. Below(u) \subseteq Below(m) /\ Below(m) \subseteq S
    <3>1. \A w \in S : w < u => w < m
      <4> HIDE DEF T
      <4> QED BY <2>0
    <3> QED BY <3>1
  <2>3. u \in Below(m) /\ u \notin Below(u)
    OBVIOUS
  <2>2. <<Below(u), X>> \notin StrictSubsetOrdering(S)
    BY <1>3
  <2> QED BY <2>1, <2>2, <2>3, <1>4 DEF StrictSubsetOrdering
<1> QED
  <2>1. S \subseteq Int
    OBVIOUS
  <2> QED BY <1>5, <2>1

-----------------------------------------------------------------------------
(* Facts about one dispatch. *)

LEMMA DomainIsPlanned ==
  ASSUME Types, NEW r \in Roles
  PROVE  /\ Size(r) \in Nat
         /\ DOMAIN plan[r].tasks = Planned(r) /\ Planned(r) \subseteq Nat
BY DEF Types, Plan, Planned, Size

LEMMA PlannedIsTask ==
  ASSUME ConstantsOK, Types, NEW r \in Roles, ValidPlan(agent[r], plan[r])
  PROVE  Planned(r) \subseteq Tasks
BY DEF Types, Plan, ValidPlan, Planned, Size, Tasks, ConstantsOK

(* Among the open tasks that are not blocked one depends on no other of them, *)
(* and all it depends on has succeeded.                                       *)
LEMMA SomeReady ==
  ASSUME ConstantsOK, Types, NEW r \in Roles, ValidPlan(agent[r], plan[r]),
         Open(r) # Blocked(r)
  PROVE  Ready(r) # {}
<1> DEFINE Left == Open(r) \ Blocked(r)
<1>1. Left # {} /\ Left \subseteq Planned(r)
  BY DEF Blocked, Open
<1>2. PICK t \in Left : Deps(r, t) \cap Left = {}
  <2>1. Left \in (SUBSET DOMAIN plan[r].tasks) \ {{}}
    BY <1>1, DomainIsPlanned
  <2>2. Acyclic(plan[r].tasks)
    BY DEF ValidPlan
  <2> QED BY <2>1, <2>2 DEF Acyclic, Deps
<1>3. Deps(r, t) \subseteq Planned(r)
  BY <1>1, DomainIsPlanned DEF ValidPlan, Deps
<1>4. \A d \in Deps(r, t) : result[r][d] = "ok"
  <2> SUFFICES ASSUME NEW d \in Deps(r, t) PROVE result[r][d] = "ok"
    OBVIOUS
  <2>1. t \in Open(r) /\ t \notin Blocked(r)
    OBVIOUS
  <2>2. PICK S \in SUBSET Open(r) : ClosedUnderFailure(r, S) /\ t \notin S
    BY <2>1 DEF Blocked
  <2>3. d \notin Lost(r) /\ d \notin S
    BY <2>1, <2>2 DEF ClosedUnderFailure
  <2>4. d \notin Blocked(r)
    BY <2>2, <2>3 DEF Blocked
  <2>5. d \notin Open(r)
    BY <1>2, <2>4
  <2>6. result[r][d] \in Results
    BY <1>3, PlannedIsTask DEF Types
  <2> QED BY <1>3, <2>3, <2>5, <2>6 DEF Lost, Open, Results
<1> QED BY <1>4 DEF Ready

LEMMA SomeWave ==
  ASSUME ConstantsOK, Types, NEW r \in Roles, ValidPlan(agent[r], plan[r]), ~Exhausted(r)
  PROVE  NextWave(r) # {}
<1>1. CASE plan[r].declared
  <2>1. Ready(r) # {}
    BY <1>1, SomeReady DEF Exhausted
  <2>2. Ready(r) \subseteq 1 .. Size(r)
    BY DEF Ready, Open, Planned
  <2>3. PICK t \in Ready(r) : \A u \in Ready(r) : t <= u
    BY <2>1, <2>2, Least, DomainIsPlanned
  <2>4. {u \in Ready(r) : u < t} = {}
    <3>1. Ready(r) \subseteq Int
      BY <2>2
    <3> QED BY <2>3, <3>1
  <2>5. t \in Wave(r)
    BY <2>4 DEF Wave
  <2> QED BY <1>1, <2>5 DEF NextWave
<1>2. CASE ~plan[r].declared
  <2>1. Open(r) # {} /\ Open(r) \subseteq 1 .. Size(r)
    BY <1>2 DEF Exhausted, Open, Planned
  <2>2. PICK t \in Open(r) : \A u \in Open(r) : t <= u
    BY <2>1, Least, DomainIsPlanned
  <2> QED BY <1>2, <2>2 DEF NextWave, OldWave
<1> QED BY <1>1, <1>2

(* Tasks that are sent have no result, also when others get blocked. *)
LEMMA WaveIsOpen ==
  ASSUME NEW r \in Roles
  PROVE  /\ NextWave(r) \subseteq Open(r)
         /\ plan[r].declared => NextWave(r) \cap Blocked(r) = {}
BY DEF NextWave, Wave, OldWave, Ready

-----------------------------------------------------------------------------
(* Most actions keep plans, results and counts and move a role's node or a *)
(* task's phase only as follows.                                           *)
Moves(a, b) ==
  \/ b = a \/ b = "failed"
  \/ <<a, b>> \in {<<"absent", "plan">>, <<"ask_user", "plan">>, <<"clarify", "ask_user">>,
                   <<"clarify", "dispatch">>, <<"summarize", "done">>}
Proceeds(a, b) ==
  \/ b = a
  \/ a \in {"sent", "ask", "call"} /\ b \in Phases \ {"idle"}
  \/ a = "exec" /\ b \in {"ok", "bad", "raised"}

Mild ==
  /\ node' \in [Roles -> Nodes] /\ \A r \in Roles : Moves(node[r], node'[r])
  /\ agent' \in [Roles -> Agents]
  /\ \A r \in Roles : agent'[r] = agent[r] \/ node'[r] = "plan"
  /\ phase' \in [Roles -> [Tasks -> Phases]]
  /\ \A r \in Roles, t \in Tasks : Proceeds(phase[r][t], phase'[r][t])
  /\ UNCHANGED <<plan, result, calls>>

LEMMA MildKeeps == ASSUME IInv, Mild PROVE IInv'
<1>1. Types'
  BY DEF IInv, Types, Mild
<1>2. PlansOK'
  <2> SUFFICES ASSUME NEW r \in Roles,
                      node'[r] \in {"clarify", "ask_user", "dispatch", "execute", "summarize"}
               PROVE  ValidPlan(agent'[r], plan'[r])
    BY DEF PlansOK, ValidPlan
  <2>1. Moves(node[r], node'[r]) /\ agent'[r] = agent[r] /\ plan'[r] = plan[r]
    BY DEF Mild
  <2>2. node[r] \in {"clarify", "ask_user", "dispatch", "execute", "summarize"}
    BY <2>1 DEF Moves
  <2> QED BY <2>1, <2>2 DEF IInv, PlansOK
<1>3. WaveOK'
  BY DEF IInv, WaveOK, Mild, Moves, Proceeds
<1>4. CallsOK'
  <2> SUFFICES ASSUME NEW r \in Roles, NEW t \in Tasks
               PROVE  /\ calls'[r][t] <= 1
                      /\ calls'[r][t] = 1 => /\ t \in Planned(r)' /\ Accounted(r, t)'
                                             /\ node'[r] \notin Planning
    BY DEF CallsOK
  <2>1. calls'[r][t] <= 1
    BY DEF IInv, CallsOK, Mild
  <2>2. ASSUME calls'[r][t] = 1
        PROVE  t \in Planned(r)' /\ Accounted(r, t)' /\ node'[r] \notin Planning
    <3>1. t \in Planned(r) /\ Accounted(r, t) /\ node[r] \notin Planning
      BY <2>2 DEF IInv, CallsOK, Mild
    <3>2. Moves(node[r], node'[r]) /\ Proceeds(phase[r][t], phase'[r][t]) /\ result'[r][t] = result[r][t]
      BY DEF Mild
    <3>3. Planned(r)' = Planned(r)
      BY DEF Mild, Planned, Size
    <3>4. node'[r] \notin Planning
      BY <3>1, <3>2 DEF Moves, Planning
    <3>5. Accounted(r, t)'
      BY <3>1, <3>2 DEF Accounted, Moves, Proceeds, HasRun
    <3> QED BY <3>1, <3>3, <3>4, <3>5
  <2> QED BY <2>1, <2>2
<1> QED BY <1>1, <1>2, <1>3, <1>4 DEF IInv

-----------------------------------------------------------------------------
(* The mild actions. *)

LEMMA PhaseMoves ==
  ASSUME Types, NEW q, NEW u, NEW v \in Phases \ {"idle"},
         \/ phase[q][u] \in {"sent", "ask", "call"}
         \/ phase[q][u] = "exec" /\ v \in {"ok", "bad", "raised"},
         phase' = [phase EXCEPT ![q][u] = v]
  PROVE  /\ phase' \in [Roles -> [Tasks -> Phases]]
         /\ \A r \in Roles, t \in Tasks : Proceeds(phase[r][t], phase'[r][t])
BY DEF Types, Proceeds

LEMMA LeaveMild ==
  ASSUME Types, NEW r \in Roles, NEW outcome \in {"ok", "bad", "raised"},
         Driven(r), outcome = "ok" => node[r] = "summarize", Leave(r, outcome)
  PROVE  Mild
<1>1. /\ node' \in [Roles -> Nodes] /\ \A x \in Roles : Moves(node[x], node'[x])
      /\ UNCHANGED <<agent, plan, result, calls>>
  BY DEF Leave, Types, Moves, Nodes
<1>2. /\ phase' \in [Roles -> [Tasks -> Phases]]
      /\ \A x \in Roles, t \in Tasks : Proceeds(phase[x][t], phase'[x][t])
  <2>1. CASE r = Root
    BY <2>1 DEF Leave, Types, Proceeds
  <2>2. CASE r # Root
    <3>1. phase[Caller(r)][CallOf(r)] = "call"
      BY <2>2 DEF Driven
    <3>2. phase' = [phase EXCEPT ![Caller(r)][CallOf(r)] = outcome]
      BY <2>2 DEF Leave
    <3> QED BY <3>1, <3>2, PhaseMoves DEF Phases
  <2> QED BY <2>1, <2>2
<1> QED BY <1>1, <1>2 DEF Mild, Types

LEMMA PauseMild ==
  ASSUME Types, NEW r \in Roles, NEW item, Driven(r), Pause(r, item)
  PROVE  Mild
<1>1. UNCHANGED <<node, agent, plan, result, calls>>
  BY DEF Pause
<1>2. /\ phase' \in [Roles -> [Tasks -> Phases]]
      /\ \A x \in Roles, t \in Tasks : Proceeds(phase[x][t], phase'[x][t])
  <2>1. CASE r = Root
    BY <2>1 DEF Pause, Types, Proceeds
  <2>2. CASE r # Root
    <3>1. phase[Caller(r)][CallOf(r)] = "call"
      BY <2>2 DEF Driven
    <3>2. phase' = [phase EXCEPT ![Caller(r)][CallOf(r)] = "ask"]
      BY <2>2 DEF Pause
    <3> QED BY <3>1, <3>2, PhaseMoves DEF Phases
  <2> QED BY <2>1, <2>2
<1> QED BY <1>1, <1>2 DEF Mild, Types, Moves

(* One task of a wave changes its phase, and nothing else does. *)
LEMMA TaskMild ==
  ASSUME Types, NEW r \in Roles, NEW t \in Tasks, NEW v \in Phases \ {"idle"},
         \/ phase[r][t] = "sent"
         \/ phase[r][t] = "exec" /\ v \in {"ok", "bad", "raised"},
         phase' = [phase EXCEPT ![r][t] = v],
         UNCHANGED <<node, agent, plan, result, calls>>
  PROVE  Mild
BY PhaseMoves DEF Mild, Types, Moves

LEMMA ClarifyMild == ASSUME Types, NEW r \in Roles, Clarify(r) PROVE Mild
BY DEF Clarify, At, Types, Mild, Moves, Proceeds, Nodes

LEMMA AskApprovalMild ==
  ASSUME Types, NEW r \in Roles, NEW t \in Tasks, AskApproval(r, t) PROVE Mild
<1> DEFINE v == IF verdict[r][t] = "none" THEN "ask" ELSE "bad"
<1>1. v \in Phases \ {"idle"} /\ phase[r][t] = "sent" /\ phase' = [phase EXCEPT ![r][t] = v]
  BY DEF AskApproval, Entering, Phases
<1>2. UNCHANGED <<node, agent, plan, result, calls>>
  BY DEF AskApproval
<1> HIDE DEF v
<1> QED BY <1>1, <1>2, TaskMild

LEMMA AskAgainMild ==
  ASSUME Types, NEW r \in Roles, NEW t \in Tasks, AskAgain(r, t) PROVE Mild
BY TaskMild DEF AskAgain, Entering, Phases

LEMMA ToolReturnsMild ==
  ASSUME Types, NEW r \in Roles, NEW t \in Tasks, ToolReturns(r, t) PROVE Mild
<1>1. PICK outcome \in {"ok", "bad"} :
        phase' = [phase EXCEPT ![r][t] = IF stop THEN "raised" ELSE outcome]
  BY DEF ToolReturns
<1> DEFINE v == IF stop THEN "raised" ELSE outcome
<1>2. v \in {"ok", "bad", "raised"} /\ v \in Phases \ {"idle"}
  BY DEF Phases
<1>3. phase[r][t] = "exec" /\ UNCHANGED <<node, agent, plan, result, calls>>
  BY DEF ToolReturns
<1>4. phase' = [phase EXCEPT ![r][t] = v]
  BY <1>1
<1> HIDE DEF v
<1> QED BY <1>2, <1>3, <1>4, TaskMild

LEMMA StopTaskMild ==
  ASSUME Types, NEW r \in Roles, NEW t \in Tasks, StopTask(r, t) PROVE Mild
BY TaskMild DEF StopTask, Phases

LEMMA CallAgentMild ==
  ASSUME Types, NEW r \in Roles, NEW t \in Tasks, CallAgent(r, t) PROVE Mild
<1> DEFINE c == Child(r, t)
<1>1. phase[r][t] = "sent" /\ Tool(r, t) \in Agents /\ UNCHANGED <<plan, result, calls>>
  BY DEF CallAgent, Entering
<1>2. CASE Tool(r, t) = agent[r] \/ Len(c) > MaxDepth
  <2> DEFINE v == IF Tool(r, t) = agent[r] THEN "bad" ELSE "raised"
  <2>1. v \in Phases \ {"idle"}
    BY DEF Phases
  <2>2. phase' = [phase EXCEPT ![r][t] = v] /\ UNCHANGED <<node, agent>>
    BY <1>2 DEF CallAgent
  <2> HIDE DEF v, c
  <2> QED BY <1>1, <2>1, <2>2, TaskMild
<1>3. CASE ~(Tool(r, t) = agent[r] \/ Len(c) > MaxDepth)
  <2>1. /\ node[c] = "absent" /\ node' = [node EXCEPT ![c] = "plan"]
        /\ agent' = [agent EXCEPT ![c] = Tool(r, t)]
        /\ phase' = [phase EXCEPT ![r][t] = "call"]
    BY <1>3 DEF CallAgent
  <2> HIDE DEF c
  <2>2. /\ phase' \in [Roles -> [Tasks -> Phases]]
        /\ \A x \in Roles, u \in Tasks : Proceeds(phase[x][u], phase'[x][u])
    BY <1>1, <2>1, PhaseMoves DEF Phases
  <2>3. node' \in [Roles -> Nodes] /\ \A x \in Roles : Moves(node[x], node'[x])
    BY <2>1 DEF Types, Moves, Nodes
  <2>4. /\ agent' \in [Roles -> Agents]
        /\ \A x \in Roles : agent'[x] = agent[x] \/ node'[x] = "plan"
    BY <1>1, <2>1 DEF Types
  <2> QED BY <1>1, <2>2, <2>3, <2>4 DEF Mild
<1> QED BY <1>2, <1>3

(* A response enters the graph of role c. *)
LEMMA DeliverNode ==
  ASSUME Types, NEW c, NEW item, NEW answer, NEW left, Deliver(c, item, answer, left)
  PROVE  node' \in [Roles -> Nodes] /\ \A x \in Roles : Moves(node[x], node'[x])
BY DEF Deliver, Replan, Types, Moves, Nodes

LEMMA ResumeAgentMild ==
  ASSUME Types, NEW r \in Roles, NEW t \in Tasks, ResumeAgent(r, t) PROVE Mild
<1> DEFINE c == Child(r, t)
<1>1. /\ c \in Roles /\ phase[r][t] = "sent" /\ UNCHANGED <<agent, plan, result, calls>>
      /\ phase' = [phase EXCEPT ![r][t] = "call", ![c] = Resent(c)]
  BY DEF ResumeAgent, Entering
<1>2. node' \in [Roles -> Nodes] /\ \A x \in Roles : Moves(node[x], node'[x])
  BY DeliverNode DEF ResumeAgent
<1>3. /\ Resent(c) \in [Tasks -> Phases]
      /\ \A u \in Tasks : Proceeds(phase[c][u], Resent(c)[u])
  BY <1>1 DEF Resent, Types, Phases, Proceeds
<1> HIDE DEF c
<1>4. /\ phase' \in [Roles -> [Tasks -> Phases]]
      /\ \A x \in Roles, u \in Tasks : Proceeds(phase[x][u], phase'[x][u])
  BY <1>1, <1>3 DEF Types, Phases, Proceeds
<1> QED BY <1>1, <1>2, <1>4 DEF Mild, Types

LEMMA RootIsRole == ConstantsOK => Root \in Roles
<1> SUFFICES ASSUME ConstantsOK PROVE Root \in Roles
  OBVIOUS
<1>1. 0 \in 0 .. MaxDepth
  BY DEF ConstantsOK
<1>2. Root \in [1 .. 0 -> Tasks]
  BY DEF Root
<1> QED BY <1>1, <1>2 DEF Roles

LEMMA AnswerMild ==
  ASSUME ConstantsOK, Types, NEW t, NEW answer, Answer(t, answer) PROVE Mild
<1>1. /\ UNCHANGED <<agent, plan, result, calls>>
      /\ phase' = [phase EXCEPT ![Root] = Resent(Root)]
  BY DEF Answer
<1>2. node' \in [Roles -> Nodes] /\ \A x \in Roles : Moves(node[x], node'[x])
  BY DeliverNode DEF Answer
<1>3. /\ Resent(Root) \in [Tasks -> Phases]
      /\ \A u \in Tasks : Proceeds(phase[Root][u], Resent(Root)[u])
  BY RootIsRole DEF Resent, Types, Phases, Proceeds
<1>4. /\ phase' \in [Roles -> [Tasks -> Phases]]
      /\ \A x \in Roles, u \in Tasks : Proceeds(phase[x][u], phase'[x][u])
  BY <1>1, <1>3 DEF Types, Proceeds
<1> QED BY <1>1, <1>2, <1>4 DEF Mild, Types

LEMMA StillMild ==
  ASSUME Types, UNCHANGED <<node, agent, plan, result, phase, calls>> PROVE Mild
BY DEF Mild, Types, Moves, Proceeds

-----------------------------------------------------------------------------
(* The other actions. *)

LEMMA InitIInv == ConstantsOK /\ Init => IInv
<1> SUFFICES ASSUME ConstantsOK, Init PROVE IInv
  OBVIOUS
<1>1. NoPlan \in Plan
  BY DEF NoPlan, Plan
<1>2. Types
  BY <1>1 DEF Init, Types, Nodes, Results, Phases, ConstantsOK
<1>3. PlansOK /\ WaveOK /\ CallsOK
  BY DEF Init, PlansOK, WaveOK, CallsOK
<1> QED BY <1>2, <1>3 DEF IInv

(* A new plan: no tool of the role was run yet. *)
LEMMA MakePlanKeeps ==
  ASSUME ConstantsOK, IInv, NEW r \in Roles, MakePlan(r) PROVE IInv'
<1>1. PICK p \in Planner[agent[r]] :
        ValidPlan(agent[r], p) /\ plan' = [plan EXCEPT ![r] = p]
  BY DEF MakePlan
<1>2. p \in Plan
  BY DEF IInv, Types, ConstantsOK, IsPlan
<1>3. /\ node[r] = "plan" /\ node' = [node EXCEPT ![r] = "clarify"]
      /\ UNCHANGED <<agent, result, phase, calls>>
  BY DEF MakePlan, At
<1>4. Types'
  BY <1>1, <1>2, <1>3 DEF IInv, Types, Nodes
<1>5. PlansOK'
  <2> SUFFICES ASSUME NEW x \in Roles,
                      node'[x] \in {"clarify", "ask_user", "dispatch", "execute", "summarize"}
               PROVE  ValidPlan(agent'[x], plan'[x])
    BY DEF PlansOK, ValidPlan
  <2>1. CASE x = r
    BY <1>1, <1>3, <2>1 DEF IInv, Types
  <2>2. CASE x # r
    BY <1>1, <1>3, <2>2 DEF IInv, Types, PlansOK
  <2> QED BY <2>1, <2>2
<1>6. WaveOK'
  BY <1>3 DEF IInv, Types, WaveOK
<1>7. CallsOK'
  <2> SUFFICES ASSUME NEW x \in Roles, NEW t \in Tasks
               PROVE  /\ calls'[x][t] <= 1
                      /\ calls'[x][t] = 1 => /\ t \in Planned(x)' /\ Accounted(x, t)'
                                             /\ node'[x] \notin Planning
    BY DEF CallsOK
  <2>1. CASE x = r
    BY <1>3, <2>1 DEF IInv, CallsOK, Planning
  <2>2. CASE x # r
    BY <1>1, <1>3, <2>2 DEF IInv, Types, CallsOK, Planned, Size, Accounted
  <2> QED BY <2>1, <2>2
<1> QED BY <1>4, <1>5, <1>6, <1>7 DEF IInv

(* A wave is sent: its tasks have no result and were not run. *)
LEMMA SendKeeps ==
  ASSUME ConstantsOK, IInv, NEW r \in Roles, At(r, "dispatch"), Send(r) PROVE IInv'
<1> DEFINE lost == IF plan[r].declared THEN Blocked(r) ELSE {}
<1>1. /\ node[r] = "dispatch" /\ UNCHANGED <<agent, plan, calls>>
      /\ result' = [result EXCEPT ![r] =
                      [t \in Tasks |-> IF t \in lost THEN "blocked" ELSE result[r][t]]]
  BY DEF At, Send, Block
<1>2. \/ /\ node' = [node EXCEPT ![r] = "summarize"] /\ UNCHANGED phase
      \/ /\ node' = [node EXCEPT ![r] = "execute"]
         /\ phase' = [phase EXCEPT ![r] =
                        [t \in Tasks |-> IF t \in NextWave(r) THEN "sent" ELSE "idle"]]
  BY DEF Send
<1>3. \A t \in NextWave(r) : t \notin lost /\ result[r][t] = "none"
  BY WaveIsOpen DEF Open
<1> HIDE DEF lost
<1>4. Types'
  <2>1. node' \in [Roles -> Nodes]
    BY <1>2 DEF IInv, Types, Nodes
  <2>2. phase' \in [Roles -> [Tasks -> Phases]]
    <3>1. [t \in Tasks |-> IF t \in NextWave(r) THEN "sent" ELSE "idle"] \in [Tasks -> Phases]
      BY DEF Phases
    <3> QED BY <1>2, <3>1 DEF IInv, Types
  <2>3. [t \in Tasks |-> IF t \in lost THEN "blocked" ELSE result[r][t]] \in [Tasks -> Results]
    BY DEF IInv, Types, Results
  <2>4. result' \in [Roles -> [Tasks -> Results]]
    BY <1>1, <2>3 DEF IInv, Types
  <2> QED BY <1>1, <2>1, <2>2, <2>4 DEF IInv, Types
<1>5. PlansOK'
  BY <1>1, <1>2 DEF IInv, Types, PlansOK, ValidPlan
<1>6. WaveOK'
  BY <1>1, <1>2, <1>3 DEF IInv, Types, WaveOK
<1>7. CallsOK'
  <2> SUFFICES ASSUME NEW x \in Roles, NEW t \in Tasks
               PROVE  /\ calls'[x][t] <= 1
                      /\ calls'[x][t] = 1 => /\ t \in Planned(x)' /\ Accounted(x, t)'
                                             /\ node'[x] \notin Planning
    BY DEF CallsOK
  <2>1. Planned(x)' = Planned(x)
    BY <1>1 DEF Planned, Size
  <2>2. CASE x = r
    <3>1. node'[r] \in {"summarize", "execute"}
      BY <1>2 DEF IInv, Types
    <3>2. result[r][t] # "none" => result'[r][t] # "none"
      BY <1>1 DEF IInv, Types
    <3>3. calls[r][t] = 1 => result[r][t] # "none"
      BY <1>1 DEF IInv, CallsOK, Accounted
    <3> QED
      BY <1>1, <2>1, <2>2, <3>1, <3>2, <3>3 DEF IInv, CallsOK, Accounted, Planning
  <2>3. CASE x # r
    BY <1>1, <1>2, <2>1, <2>3 DEF IInv, Types, CallsOK, Accounted, Planning
  <2> QED BY <2>2, <2>3
<1> QED BY <1>4, <1>5, <1>6, <1>7 DEF IInv

(* A tool is run: its task was sent, so it was not run before. *)
LEMMA RunToolKeeps ==
  ASSUME IInv, NEW r \in Roles, NEW t \in Tasks, RunTool(r, t) PROVE IInv'
<1>1. /\ node[r] = "execute" /\ phase[r][t] = "sent" /\ t \in Planned(r)
      /\ phase' = [phase EXCEPT ![r][t] = "exec"]
      /\ calls' = [calls EXCEPT ![r][t] = @ + 1]
      /\ UNCHANGED <<node, agent, plan, result>>
  BY DEF RunTool, Entering, Executing
<1>2. calls[r][t] = 0
  <2>1. result[r][t] = "none"
    BY <1>1 DEF IInv, WaveOK
  <2>2. ~Accounted(r, t)
    BY <1>1, <2>1 DEF Accounted, HasRun
  <2>3. calls[r][t] \in Nat /\ calls[r][t] <= 1
    BY DEF IInv, CallsOK, Types
  <2>4. calls[r][t] # 1
    BY <2>2 DEF IInv, CallsOK
  <2> QED BY <2>3, <2>4
<1>3. Types'
  BY <1>1 DEF IInv, Types, Phases
<1>4. PlansOK'
  BY <1>1 DEF IInv, PlansOK, ValidPlan
<1>5. WaveOK'
  BY <1>1 DEF IInv, Types, WaveOK
<1>6. CallsOK'
  <2> SUFFICES ASSUME NEW x \in Roles, NEW u \in Tasks
               PROVE  /\ calls'[x][u] <= 1
                      /\ calls'[x][u] = 1 => /\ u \in Planned(x)' /\ Accounted(x, u)'
                                             /\ node'[x] \notin Planning
    BY DEF CallsOK
  <2>1. Planned(x)' = Planned(x)
    BY <1>1 DEF Planned, Size
  <2>2. CASE x = r /\ u = t
    BY <1>1, <1>2, <2>1, <2>2 DEF IInv, Types, Accounted, Planning, HasRun
  <2>3. CASE ~(x = r /\ u = t)
    <3>1. calls'[x][u] = calls[x][u] /\ phase'[x][u] = phase[x][u]
      BY <1>1, <2>3 DEF IInv, Types
    <3> QED BY <1>1, <2>1, <3>1 DEF IInv, CallsOK, Accounted
  <2> QED BY <2>2, <2>3
<1> QED BY <1>3, <1>4, <1>5, <1>6 DEF IInv

(* The end of a wave: every task that was run leaves its result. *)
LEMMA EndWaveKeeps ==
  ASSUME IInv, NEW r \in Roles, EndWave(r) PROVE IInv'
<1>1. /\ node[r] = "execute" /\ node' = [node EXCEPT ![r] = "dispatch"]
      /\ result' = [result EXCEPT ![r] = Merged(r)]
      /\ phase' = [phase EXCEPT ![r] = [t \in Tasks |-> "idle"]]
      /\ UNCHANGED <<agent, plan, calls>>
  BY DEF EndWave, Executing
<1>2. \A t \in Planned(r) : phase[r][t] \notin {"sent", "exec", "call", "ask", "raised"}
  BY DEF EndWave, InWave
<1>3. Merged(r) \in [Tasks -> Results]
  BY DEF IInv, Types, Merged, Results
<1>4. Types'
  BY <1>1, <1>3 DEF IInv, Types, Nodes, Phases
<1>5. PlansOK'
  BY <1>1 DEF IInv, Types, PlansOK, ValidPlan
<1>6. WaveOK'
  BY <1>1 DEF IInv, Types, WaveOK
<1>7. CallsOK'
  <2> SUFFICES ASSUME NEW x \in Roles, NEW t \in Tasks
               PROVE  /\ calls'[x][t] <= 1
                      /\ calls'[x][t] = 1 => /\ t \in Planned(x)' /\ Accounted(x, t)'
                                             /\ node'[x] \notin Planning
    BY DEF CallsOK
  <2>1. Planned(x)' = Planned(x) /\ calls'[x][t] = calls[x][t]
    BY <1>1 DEF Planned, Size
  <2>2. CASE x = r
    <3>1. calls[r][t] = 1 => Merged(r)[t] # "none"
      BY <1>2 DEF IInv, CallsOK, Accounted, HasRun, Merged
    <3>2. result'[r][t] = Merged(r)[t] /\ node'[r] = "dispatch"
      BY <1>1 DEF IInv, Types
    <3> QED BY <2>1, <2>2, <3>1, <3>2 DEF IInv, CallsOK, Accounted, Planning
  <2>3. CASE x # r
    BY <1>1, <2>1, <2>3 DEF IInv, Types, CallsOK, Accounted
  <2> QED BY <2>2, <2>3
<1> QED BY <1>4, <1>5, <1>6, <1>7 DEF IInv

-----------------------------------------------------------------------------
LEMMA StepKeeps ==
  ASSUME ConstantsOK, IInv, NEW r \in Roles, Step(r) PROVE IInv'
<1> USE DEF IInv
<1>1. CASE MakePlan(r)
  BY <1>1, MakePlanKeeps
<1>2. CASE RefusePlan(r)
  BY <1>2, LeaveMild, MildKeeps DEF RefusePlan, At
<1>3. CASE PlannerFails(r)
  BY <1>3, LeaveMild, MildKeeps DEF PlannerFails, At
<1>4. CASE Clarify(r)
  BY <1>4, ClarifyMild, MildKeeps
<1>5. CASE AskUser(r)
  BY <1>5, PauseMild, MildKeeps DEF AskUser, At
<1>6. CASE Dispatch(r)
  <2>1. CASE DeadEnd(r)
    BY <1>6, <2>1, LeaveMild, MildKeeps DEF Dispatch, At
  <2>2. CASE ~DeadEnd(r)
    BY <1>6, <2>2, SendKeeps DEF Dispatch
  <2> QED BY <2>1, <2>2
<1>7. CASE EndWave(r)
  BY <1>7, EndWaveKeeps
<1>8. CASE PauseWave(r)
  BY <1>8, PauseMild, MildKeeps DEF PauseWave, Executing
<1>9. CASE RaiseWave(r)
  BY <1>9, LeaveMild, MildKeeps DEF RaiseWave, Executing
<1>10. CASE StopNode(r)
  BY <1>10, LeaveMild, MildKeeps DEF StopNode
<1>11. CASE Summarize(r)
  <2>1. PICK outcome \in {"ok", "bad"} : Leave(r, outcome)
    BY <1>11 DEF Summarize
  <2>2. Driven(r) /\ node[r] = "summarize"
    BY <1>11 DEF Summarize, At
  <2> QED BY <2>1, <2>2, LeaveMild, MildKeeps
<1> QED BY <1>1, <1>2, <1>3, <1>4, <1>5, <1>6, <1>7, <1>8, <1>9, <1>10, <1>11 DEF Step

LEMMA TaskStepKeeps ==
  ASSUME IInv, NEW r \in Roles, NEW t \in Tasks, TaskStep(r, t) PROVE IInv'
<1>1. Types
  BY DEF IInv
<1>2. CASE RunTool(r, t)
  BY <1>2, RunToolKeeps
<1>3. CASE AskApproval(r, t)
  BY <1>1, <1>3, AskApprovalMild, MildKeeps
<1>4. CASE CallAgent(r, t)
  BY <1>1, <1>4, CallAgentMild, MildKeeps
<1>5. CASE AskAgain(r, t)
  BY <1>1, <1>5, AskAgainMild, MildKeeps
<1>6. CASE ResumeAgent(r, t)
  BY <1>1, <1>6, ResumeAgentMild, MildKeeps
<1>7. CASE ToolReturns(r, t)
  BY <1>1, <1>7, ToolReturnsMild, MildKeeps
<1>8. CASE RecordResult(r, t)
  BY <1>1, <1>8, StillMild, MildKeeps DEF RecordResult
<1>9. CASE StopTask(r, t)
  BY <1>1, <1>9, StopTaskMild, MildKeeps
<1> QED BY <1>2, <1>3, <1>4, <1>5, <1>6, <1>7, <1>8, <1>9 DEF TaskStep

LEMMA NextKeeps == ConstantsOK /\ IInv /\ [Next]_vars => IInv'
<1> SUFFICES ASSUME ConstantsOK, IInv, [Next]_vars PROVE IInv'
  OBVIOUS
<1>1. Types
  BY DEF IInv
<1>2. CASE Work
  BY <1>2, StepKeeps, TaskStepKeeps DEF Work
<1>3. CASE Respond
  BY <1>1, <1>3, AnswerMild, MildKeeps DEF Respond
<1>4. CASE Cancel
  BY <1>1, <1>4, StillMild, MildKeeps DEF Cancel
<1>5. CASE UNCHANGED vars
  BY <1>1, <1>5, StillMild, MildKeeps DEF vars
<1> QED BY <1>2, <1>3, <1>4, <1>5 DEF Next

THEOREM Invariant == Spec => []IInv
<1>1. Init => IInv
  BY ConstantsOK, InitIInv
<1>2. IInv /\ [Next]_vars => IInv'
  BY ConstantsOK, NextKeeps
<1> QED BY <1>1, <1>2, PTL DEF Spec

(* Whatever plans the language models return, the branch of dispatch that  *)
(* raises INVALID_DEPENDENCY_GRAPH is never taken: validate_plan has       *)
(* refused every plan in which open tasks wait for each other.             *)
THEOREM NoDeadEndTheorem == Spec => []NoDeadEnd
<1>1. IInv => NoDeadEnd
  <2> SUFFICES ASSUME IInv, NEW r \in Roles, DeadEnd(r) PROVE FALSE
    BY DEF NoDeadEnd
  <2>1. ValidPlan(agent[r], plan[r]) /\ ~Exhausted(r) /\ NextWave(r) = {}
    BY DEF IInv, PlansOK, DeadEnd, At
  <2> QED BY <2>1, SomeWave, ConstantsOK DEF IInv
<1> QED BY <1>1, Invariant, PTL

(* However often the run pauses and goes on, execute_node runs the tool of *)
(* a task once at most.                                                    *)
THEOREM CalledOnceTheorem == Spec => []CalledOnce
<1>1. IInv => CalledOnce
  BY DEF IInv, CallsOK, CalledOnce, AllTasks
<1> QED BY <1>1, Invariant, PTL

-----------------------------------------------------------------------------
(***************************************************************************)
(* The tree of roles of one run: types, who is at work below whom, that a  *)
(* tool that writes is alone, what the rows of tasks say of the roles, and *)
(* who was asked before a tool ran.                                        *)
(***************************************************************************)
-----------------------------------------------------------------------------
(* Roles are paths. *)
Prefix(r, k) == SubSeq(r, 1, k)

LEMMA RolesAreSeqs ==
  ASSUME ConstantsOK
  PROVE  /\ \A r \in Roles : r \in Seq(Tasks) /\ Len(r) \in 0 .. MaxDepth
         /\ \A s \in Seq(Tasks) : Len(s) <= MaxDepth => s \in Roles
<1>1. ASSUME NEW r \in Roles PROVE r \in Seq(Tasks) /\ Len(r) \in 0 .. MaxDepth
  <2>1. PICK d \in 0 .. MaxDepth : r \in [1 .. d -> Tasks]
    BY <1>1 DEF Roles
  <2>2. d \in Nat
    BY <2>1 DEF ConstantsOK
  <2> QED BY <2>1, <2>2
<1>2. ASSUME NEW s \in Seq(Tasks), Len(s) <= MaxDepth PROVE s \in Roles
  <2>1. s \in [1 .. Len(s) -> Tasks] /\ Len(s) \in 0 .. MaxDepth
    BY <1>2 DEF ConstantsOK
  <2> QED BY <2>1 DEF Roles
<1> QED BY <1>1, <1>2

LEMMA ChildFacts ==
  ASSUME ConstantsOK, NEW r \in Roles, NEW t \in Tasks
  PROVE  LET c == Child(r, t) IN
         /\ c \in Seq(Tasks) /\ c # Root /\ Len(c) = Len(r) + 1
         /\ c \in Roles <=> Len(c) <= MaxDepth
         /\ Caller(c) = r /\ CallOf(c) = t
         /\ \A k \in 1 .. Len(r) : Prefix(c, k) = Prefix(r, k) /\ c[k] = r[k]
<1> DEFINE c == Child(r, t)
<1>1. r \in Seq(Tasks) /\ Len(r) \in Nat
  BY RolesAreSeqs
<1>2. c \in Seq(Tasks) /\ c # Root /\ Len(c) = Len(r) + 1
  BY <1>1, AppendProperties DEF Child, Root
<1>3. c \in Roles <=> Len(c) <= MaxDepth
  BY <1>2, RolesAreSeqs
<1>4. \A k \in 0 .. Len(r) : Prefix(c, k) = Prefix(r, k)
  <2> SUFFICES ASSUME NEW k \in 0 .. Len(r) PROVE Prefix(c, k) = Prefix(r, k)
    OBVIOUS
  <2>1. c = r \o <<t>>
    BY <1>1, AppendIsConcat DEF Child
  <2>2. <<t>> \in Seq(Tasks)
    OBVIOUS
  <2> QED BY <1>1, <2>1, <2>2, SubSeqOfConcat1 DEF Prefix
<1>5. Caller(c) = r
  <2>1. Caller(c) = Prefix(c, Len(r))
    BY <1>1, <1>2 DEF Caller, Prefix
  <2> QED BY <1>1, <1>4, <2>1, SubSeqFull DEF Prefix
<1>6. CallOf(c) = t
  BY <1>1, <1>2, AppendProperties DEF CallOf, Child
<1>7. \A k \in 1 .. Len(r) : c[k] = r[k]
  BY <1>1, AppendProperties DEF Child
<1> QED BY <1>1, <1>2, <1>3, <1>4, <1>5, <1>6, <1>7

LEMMA PrefixFacts ==
  ASSUME ConstantsOK, NEW r \in Roles, NEW k \in 0 .. Len(r)
  PROVE  /\ Prefix(r, k) \in Roles /\ Len(Prefix(r, k)) = k
         /\ \A i \in 1 .. k : Prefix(r, k)[i] = r[i]
         /\ \A j \in 0 .. k : Prefix(Prefix(r, k), j) = Prefix(r, j)
<1>1. r \in Seq(Tasks) /\ Len(r) \in Nat /\ Len(r) <= MaxDepth
  BY RolesAreSeqs
<1>2. /\ Prefix(r, k) \in Seq(Tasks) /\ Len(Prefix(r, k)) = k
      /\ \A i \in 1 .. k : Prefix(r, k)[i] = r[i]
  BY <1>1, SubSeqProperties DEF Prefix
<1>3. Prefix(r, k) \in Roles
  BY <1>1, <1>2, RolesAreSeqs DEF ConstantsOK
<1>4. ASSUME NEW j \in 0 .. k PROVE Prefix(Prefix(r, k), j) = Prefix(r, j)
  <2>1. /\ Prefix(r, j) \in Seq(Tasks) /\ Len(Prefix(r, j)) = j
        /\ \A i \in 1 .. j : Prefix(r, j)[i] = r[i]
    BY <1>1, SubSeqProperties DEF Prefix
  <2>2. /\ Prefix(Prefix(r, k), j) \in Seq(Tasks) /\ Len(Prefix(Prefix(r, k), j)) = j
        /\ \A i \in 1 .. j : Prefix(Prefix(r, k), j)[i] = Prefix(r, k)[i]
    BY <1>2, SubSeqProperties DEF Prefix
  <2>3. \A i \in 1 .. j : Prefix(Prefix(r, k), j)[i] = Prefix(r, j)[i]
    BY <1>2, <2>1, <2>2
  <2> QED BY <2>1, <2>2, <2>3
<1> QED BY <1>2, <1>3, <1>4

LEMMA WholePrefix ==
  ASSUME ConstantsOK, NEW r \in Roles
  PROVE  Prefix(r, Len(r)) = r /\ Prefix(r, 0) = Root
BY RolesAreSeqs, SubSeqFull, SubSeqEmpty DEF Prefix, Root

LEMMA PrefixSteps ==
  ASSUME ConstantsOK, NEW r \in Roles, NEW k \in 1 .. Len(r)
  PROVE  /\ r[k] \in Tasks /\ Prefix(r, k - 1) \in Roles
         /\ Prefix(r, k) = Child(Prefix(r, k - 1), r[k])
         /\ Prefix(r, k) # Root
         /\ Caller(Prefix(r, k)) = Prefix(r, k - 1) /\ CallOf(Prefix(r, k)) = r[k]
<1>1. r \in Seq(Tasks) /\ Len(r) \in Nat
  BY RolesAreSeqs
<1>2. r[k] \in Tasks /\ k - 1 \in 0 .. Len(r)
  BY <1>1
<1>3. Prefix(r, k - 1) \in Roles
  BY <1>2, PrefixFacts
<1>4. Prefix(r, k) = Child(Prefix(r, k - 1), r[k])
  <2>1. Prefix(r, k) = SubSeq(r, 1, k - 1) \o <<r[k]>>
    BY <1>1, SubSeqRecursiveSecond DEF Prefix
  <2>2. Prefix(r, k - 1) \in Seq(Tasks)
    BY <1>3, RolesAreSeqs
  <2> QED BY <1>2, <2>1, <2>2, AppendIsConcat DEF Child, Prefix
<1> QED BY <1>2, <1>3, <1>4, ChildFacts

LEMMA CallerFacts ==
  ASSUME ConstantsOK, NEW r \in Roles, r # Root
  PROVE  /\ Caller(r) \in Roles /\ CallOf(r) \in Tasks
         /\ r = Child(Caller(r), CallOf(r)) /\ Len(r) = Len(Caller(r)) + 1
<1>1. r \in Seq(Tasks) /\ Len(r) \in Nat /\ Len(r) # 0
  BY RolesAreSeqs, EmptySeq DEF Root
<1>2. Len(r) \in 1 .. Len(r) /\ Prefix(r, Len(r)) = r
  BY <1>1, WholePrefix
<1>3. Caller(r) = Prefix(r, Len(r) - 1) /\ CallOf(r) = r[Len(r)]
  BY <1>2, PrefixSteps
<1>4. Caller(r) \in Roles /\ CallOf(r) \in Tasks /\ r = Child(Caller(r), CallOf(r))
  BY <1>2, <1>3, PrefixSteps
<1> QED BY <1>4, ChildFacts

-----------------------------------------------------------------------------
(* Types.  A role that asks the user has a round left. *)
RowStates == {"none"} \cup Unended \cup Settled \cup Terminal

OtherTypes ==
  /\ run \in {"running", "waiting"} \cup Terminal
  /\ stop \in BOOLEAN
  /\ rounds \in [Roles -> 0 .. MaxRounds]
  /\ reserved \in [Roles -> 0 .. MaxPlan]
  /\ verdict \in [Roles -> [Tasks -> {"none", "granted", "refused"}]]
  /\ pending \in [Roles -> {NoItem} \cup 0 .. MaxPlan]
  /\ answered \in [Roles -> {"none", "granted", "refused"}]
  /\ row \in [Roles -> [Tasks -> RowStates]]
  /\ consents \subseteq Roles \X (0 .. MaxPlan)

RoundsOK == \A r \in Roles : node[r] = "ask_user" => rounds[r] < MaxRounds

TInv == OtherTypes /\ RoundsOK

LEMMA LeaveTypes ==
  ASSUME ConstantsOK, Types, TInv, NEW r \in Roles, NEW outcome, Leave(r, outcome)
  PROVE  TInv'
<1>1. /\ run' \in {"running", "waiting"} \cup Terminal /\ row' \in [Roles -> [Tasks -> RowStates]]
  <2>1. CASE r = Root
    BY <2>1 DEF Leave, EndRun, TInv, OtherTypes, RowStates, Terminal
  <2>2. CASE r # Root
    BY <2>2 DEF Leave, TInv, OtherTypes
  <2> QED BY <2>1, <2>2
<1>2. UNCHANGED <<stop, rounds, reserved, verdict, pending, answered, consents>>
  BY DEF Leave
<1>3. \A x \in Roles : node'[x] = "ask_user" => node[x] = "ask_user"
  BY DEF Leave, Types
<1> QED BY <1>1, <1>2, <1>3 DEF TInv, OtherTypes, RoundsOK

LEMMA PauseTypes ==
  ASSUME ConstantsOK, Types, TInv, NEW r \in Roles, NEW item \in 0 .. MaxPlan, Pause(r, item)
  PROVE  TInv'
<1>1. run' \in {"running", "waiting"} \cup Terminal
  BY DEF Pause, EndRun, TInv, OtherTypes, Terminal
<1>2. row' \in [Roles -> [Tasks -> RowStates]]
  <2>1. WaitForInput(r) \in [Roles -> [Tasks -> RowStates]]
    BY DEF WaitForInput, TInv, OtherTypes, RowStates, Unended
  <2>2. EndRun("cancelled") => row' \in [Roles -> [Tasks -> RowStates]]
    BY DEF EndRun, TInv, OtherTypes, RowStates, Terminal
  <2> QED BY <2>1, <2>2 DEF Pause
<1>3. pending' \in [Roles -> {NoItem} \cup 0 .. MaxPlan]
  BY DEF Pause, TInv, OtherTypes
<1>4. UNCHANGED <<stop, node, rounds, reserved, verdict, answered, consents>>
  BY DEF Pause
<1> QED BY <1>1, <1>2, <1>3, <1>4 DEF TInv, OtherTypes, RoundsOK

LEMMA DeliverTypes ==
  ASSUME ConstantsOK, Types, TInv, NEW r \in Roles, NEW item \in 0 .. MaxPlan,
         NEW answer \in {"granted", "refused"},
         NEW left \in [Roles -> {"none", "granted", "refused"}],
         Deliver(r, item, answer, left)
  PROVE  /\ rounds' \in [Roles -> 0 .. MaxRounds] /\ RoundsOK'
         /\ verdict' \in [Roles -> [Tasks -> {"none", "granted", "refused"}]]
         /\ answered' \in [Roles -> {"none", "granted", "refused"}]
<1>1. answered' \in [Roles -> {"none", "granted", "refused"}]
  BY DEF Deliver
<1>2. verdict' \in [Roles -> [Tasks -> {"none", "granted", "refused"}]]
  BY DEF Deliver, Decided, TInv, OtherTypes
<1>3. rounds' \in [Roles -> 0 .. MaxRounds] /\ RoundsOK'
  BY DEF Deliver, Replan, TInv, OtherTypes, RoundsOK, Types, ConstantsOK
<1> QED BY <1>1, <1>2, <1>3

(* The task a wave pauses with is the first one that asked. *)
LEMMA FirstAsking ==
  ASSUME Types, NEW r \in Roles, InWave(r, {"ask"}) # {}
  PROVE  LET t == CHOOSE t \in InWave(r, {"ask"}) : \A u \in InWave(r, {"ask"}) : t <= u
         IN t \in InWave(r, {"ask"})
<1>1. InWave(r, {"ask"}) \subseteq 1 .. Size(r) /\ Size(r) \in Nat
  BY DomainIsPlanned DEF InWave, Planned
<1>2. \E t \in InWave(r, {"ask"}) : \A u \in InWave(r, {"ask"}) : t <= u
  BY <1>1, Least
<1> QED BY <1>2

LEMMA StepTypes ==
  ASSUME ConstantsOK, IInv, TInv, NEW r \in Roles, Step(r) PROVE TInv'
<1>0. Types
  BY DEF IInv
<1>1. CASE MakePlan(r)
  <2>1. PICK p \in Planner[agent[r]] :
          /\ ValidPlan(agent[r], p) /\ reserved' = [reserved EXCEPT ![r] = Len(p.tasks)]
          /\ row' = [row EXCEPT ![r] = [t \in Tasks |-> IF t <= Len(p.tasks) THEN "queued" ELSE "none"]]
    BY <1>1 DEF MakePlan
  <2>2. Len(p.tasks) \in 0 .. MaxPlan
    BY <2>1 DEF ValidPlan, ConstantsOK
  <2>3. /\ UNCHANGED <<run, stop, rounds, verdict, pending, answered, consents>>
        /\ node' = [node EXCEPT ![r] = "clarify"]
    BY <1>1 DEF MakePlan
  <2>4. reserved' \in [Roles -> 0 .. MaxPlan] /\ row' \in [Roles -> [Tasks -> RowStates]]
    BY <2>1, <2>2 DEF TInv, OtherTypes, RowStates, Unended
  <2> QED BY <1>0, <2>3, <2>4 DEF TInv, OtherTypes, RoundsOK, Types
<1>2. CASE RefusePlan(r) \/ PlannerFails(r) \/ RaiseWave(r) \/ StopNode(r) \/ Summarize(r)
  BY <1>0, <1>2, LeaveTypes DEF RefusePlan, PlannerFails, RaiseWave, StopNode, Summarize
<1>3. CASE Clarify(r)
  BY <1>0, <1>3 DEF Clarify, TInv, OtherTypes, RoundsOK, Types
<1>4. CASE AskUser(r)
  BY <1>0, <1>4, PauseTypes DEF AskUser, ConstantsOK
<1>5. CASE PauseWave(r)
  <2> DEFINE t == CHOOSE t \in InWave(r, {"ask"}) : \A u \in InWave(r, {"ask"}) : t <= u
  <2>1. InWave(r, {"ask"}) # {} /\ Pause(r, t) /\ node[r] = "execute"
    BY <1>5 DEF PauseWave, Executing
  <2>2. t \in InWave(r, {"ask"})
    BY <1>0, <2>1, FirstAsking
  <2>3. Planned(r) \subseteq Tasks
    BY <1>0, <2>1, PlannedIsTask DEF IInv, PlansOK
  <2>4. t \in 0 .. MaxPlan
    BY <2>2, <2>3 DEF InWave, Tasks, ConstantsOK
  <2> HIDE DEF t
  <2> QED BY <1>0, <2>1, <2>4, PauseTypes
<1>6. CASE Dispatch(r)
  <2>1. CASE Leave(r, "raised")
    BY <1>0, <2>1, LeaveTypes
  <2>2. CASE Send(r)
    <3>1. row' \in [Roles -> [Tasks -> RowStates]]
      BY <2>2 DEF Send, Block, TInv, OtherTypes, RowStates, Settled
    <3>2. /\ UNCHANGED <<run, stop, rounds, reserved, verdict, pending, answered, consents>>
          /\ \A x \in Roles : node'[x] = "ask_user" => node[x] = "ask_user"
      BY <1>0, <2>2 DEF Send, Types
    <3> QED BY <3>1, <3>2 DEF TInv, OtherTypes, RoundsOK
  <2> QED BY <1>6, <2>1, <2>2 DEF Dispatch
<1>7. CASE EndWave(r)
  BY <1>0, <1>7 DEF EndWave, TInv, OtherTypes, RoundsOK, Types
<1> QED BY <1>1, <1>2, <1>3, <1>4, <1>5, <1>6, <1>7 DEF Step

LEMMA StartedTypes ==
  ASSUME TInv, NEW r \in Roles, NEW t \in Tasks, Entering(r, t)
  PROVE  row' \in [Roles -> [Tasks -> RowStates]]
BY DEF Entering, Started, TInv, OtherTypes, RowStates, Unended

LEMMA TaskStepTypes ==
  ASSUME ConstantsOK, Types, TInv, NEW r \in Roles, NEW t \in Tasks, TaskStep(r, t) PROVE TInv'
<1>1. CASE RunTool(r, t) \/ AskApproval(r, t) \/ AskAgain(r, t)
  BY <1>1, StartedTypes DEF RunTool, AskApproval, AskAgain, TInv, OtherTypes, RoundsOK
<1>2. CASE CallAgent(r, t)
  <2>1. Entering(r, t) /\ UNCHANGED <<run, stop, rounds, reserved, verdict, pending, answered, consents>>
    BY <1>2 DEF CallAgent
  <2>2. \A x \in Roles : node'[x] = "ask_user" => node[x] = "ask_user"
    BY <1>2 DEF CallAgent, Types
  <2> QED BY <2>1, <2>2, StartedTypes DEF TInv, OtherTypes, RoundsOK
<1>3. CASE ResumeAgent(r, t)
  <2> DEFINE c == Child(r, t)
             left == [answered EXCEPT ![c] = "none"]
  <2>1. /\ Entering(r, t) /\ c \in Roles /\ pending[c] # NoItem /\ answered[c] # "none"
        /\ Deliver(c, pending[c], answered[c], left)
        /\ pending' = [pending EXCEPT ![c] = NoItem]
        /\ UNCHANGED <<run, stop, reserved, consents>>
    BY <1>3 DEF ResumeAgent
  <2>2. /\ left \in [Roles -> {"none", "granted", "refused"}]
        /\ pending[c] \in 0 .. MaxPlan /\ answered[c] \in {"granted", "refused"}
    BY <2>1 DEF TInv, OtherTypes
  <2> HIDE DEF c, left
  <2>3. /\ rounds' \in [Roles -> 0 .. MaxRounds] /\ RoundsOK'
        /\ verdict' \in [Roles -> [Tasks -> {"none", "granted", "refused"}]]
        /\ answered' \in [Roles -> {"none", "granted", "refused"}]
    BY <2>1, <2>2, DeliverTypes
  <2>4. pending' \in [Roles -> {NoItem} \cup 0 .. MaxPlan]
    BY <2>1 DEF TInv, OtherTypes
  <2> QED BY <2>1, <2>3, <2>4, StartedTypes DEF TInv, OtherTypes
<1>4. CASE ToolReturns(r, t) \/ StopTask(r, t)
  BY <1>4 DEF ToolReturns, StopTask, TInv, OtherTypes, RoundsOK
<1>5. CASE RecordResult(r, t)
  BY <1>5 DEF RecordResult, Outcome, TInv, OtherTypes, RoundsOK, RowStates, Settled
<1> QED BY <1>1, <1>2, <1>3, <1>4, <1>5 DEF TaskStep

(* The tasks of the root that show a request have one. *)
LEMMA DeepestTypes ==
  ASSUME ConstantsOK, Types, TInv, NEW t \in 0 .. MaxPlan
  PROVE  /\ Chain(t) = {} \/ \E d \in Chain(t) : \A c \in Chain(t) : Len(c) <= Len(d)
         /\ Deepest(t) \in Roles \X (0 .. MaxPlan)
<1>1. ASSUME Chain(t) # {} PROVE \E d \in Chain(t) : \A c \in Chain(t) : Len(c) <= Len(d)
  <2> DEFINE S == {MaxDepth + 1 - Len(c) : c \in Chain(t)}
  <2>1. \A c \in Chain(t) : c \in Roles \ {Root} /\ Len(c) \in 0 .. MaxDepth
    BY RolesAreSeqs DEF Chain
  <2>2. MaxDepth + 1 \in Nat
    BY DEF ConstantsOK
  <2>3. S \subseteq 1 .. MaxDepth + 1 /\ S # {}
    BY <1>1, <2>1, <2>2
  <2>4. PICK m \in S : \A u \in S : m <= u
    BY <2>2, <2>3, Least
  <2>5. PICK d \in Chain(t) : m = MaxDepth + 1 - Len(d)
    BY <2>4
  <2>6. ASSUME NEW c \in Chain(t) PROVE Len(c) <= Len(d)
    <3>1. MaxDepth + 1 - Len(d) <= MaxDepth + 1 - Len(c)
      BY <2>4, <2>5
    <3> QED BY <2>1, <2>2, <3>1
  <2> QED BY <2>5, <2>6
<1>2. CASE Chain(t) = {}
  BY <1>2, RootIsRole DEF Deepest
<1>3. CASE Chain(t) # {}
  <2>1. PICK d \in Chain(t) : Deepest(t) = <<d, pending[d]>>
    BY <1>1, <1>3 DEF Deepest
  <2>2. d \in Roles /\ pending[d] # NoItem
    BY DEF Chain
  <2>3. pending[d] \in 0 .. MaxPlan
    BY <2>2 DEF TInv, OtherTypes
  <2>4. Deepest(t) \in Roles \X (0 .. MaxPlan)
    BY <2>1, <2>2, <2>3
  <2> QED BY <1>1, <1>3, <2>4
<1> QED BY <1>1, <1>2, <1>3

LEMMA AnswerTypes ==
  ASSUME ConstantsOK, Types, TInv, NEW t \in 0 .. MaxPlan, NEW answer \in {"granted", "refused"},
         Answer(t, answer)
  PROVE  TInv'
<1>1. /\ run' = "running" /\ Deliver(Root, t, answer, answered)
      /\ pending' = [pending EXCEPT ![Root] = NoItem]
      /\ consents' \in {consents, consents \cup {Deepest(t)}}
      /\ UNCHANGED <<stop, reserved, row>>
  BY DEF Answer
<1>2. answered \in [Roles -> {"none", "granted", "refused"}]
  BY DEF TInv, OtherTypes
<1>3. /\ rounds' \in [Roles -> 0 .. MaxRounds] /\ RoundsOK'
      /\ verdict' \in [Roles -> [Tasks -> {"none", "granted", "refused"}]]
      /\ answered' \in [Roles -> {"none", "granted", "refused"}]
  BY <1>1, <1>2, RootIsRole, DeliverTypes
<1>4. consents' \subseteq Roles \X (0 .. MaxPlan)
  BY <1>1, DeepestTypes DEF TInv, OtherTypes
<1> QED BY <1>1, <1>3, <1>4 DEF TInv, OtherTypes

LEMMA NextTypes == ConstantsOK /\ IInv /\ TInv /\ [Next]_vars => TInv'
<1> SUFFICES ASSUME ConstantsOK, IInv, TInv, [Next]_vars PROVE TInv'
  OBVIOUS
<1>1. Types
  BY DEF IInv
<1>2. CASE Work
  BY <1>1, <1>2, StepTypes, TaskStepTypes DEF Work
<1>3. CASE Respond
  BY <1>1, <1>3, AnswerTypes DEF Respond
<1>4. CASE Cancel
  BY <1>4 DEF Cancel, EndRun, TInv, OtherTypes, RoundsOK, RowStates, Terminal
<1>5. CASE UNCHANGED vars
  BY <1>5 DEF vars, TInv, OtherTypes, RoundsOK
<1> QED BY <1>2, <1>3, <1>4, <1>5 DEF Next

LEMMA InitTypes == ConstantsOK /\ Init => TInv
<1> SUFFICES ASSUME ConstantsOK, Init PROVE TInv
  OBVIOUS
<1>1. 0 \in 0 .. MaxRounds /\ 0 \in 0 .. MaxPlan
  BY DEF ConstantsOK
<1>2. run \in {"running", "waiting"} \cup Terminal /\ stop \in BOOLEAN /\ consents \subseteq Roles \X (0 .. MaxPlan)
  BY DEF Init
<1>3. rounds \in [Roles -> 0 .. MaxRounds] /\ reserved \in [Roles -> 0 .. MaxPlan]
  BY <1>1 DEF Init
<1>4. /\ pending \in [Roles -> {NoItem} \cup 0 .. MaxPlan]
      /\ answered \in [Roles -> {"none", "granted", "refused"}]
      /\ verdict \in [Roles -> [Tasks -> {"none", "granted", "refused"}]]
  BY DEF Init
<1>5. row \in [Roles -> [Tasks -> RowStates]] /\ RoundsOK
  BY DEF Init, RowStates, RoundsOK
<1> QED BY <1>2, <1>3, <1>4, <1>5 DEF TInv, OtherTypes

(* Every variable keeps its type: no plan has more tasks than the budget   *)
(* has places, and no role asks the user more often than it may.           *)
THEOREM TypesTheorem == Spec => []TypeOK
<1>1. IInv /\ TInv => TypeOK
  BY DEF IInv, Types, TInv, OtherTypes, TypeOK, RowStates
<1>2. Init => TInv
  BY ConstantsOK, InitTypes
<1>3. IInv /\ TInv /\ [Next]_vars => TInv'
  BY ConstantsOK, NextTypes
<1> QED BY <1>1, <1>2, <1>3, Invariant, PTL DEF Spec

-----------------------------------------------------------------------------
(* The plans and agents of the roles. *)

(* Every plan is one that was validated for the agent of its role. *)
ShapesOK ==
  \A r \in Roles :
    /\ node[r] = "absent" => Planned(r) = {}
    /\ ~plan[r].declared => \A t \in Planned(r) : Deps(r, t) = {}
    /\ \A t \in Planned(r) : /\ t \in Tasks /\ Deps(r, t) \subseteq Planned(r)
                             /\ ToolAllowed(agent[r], Tool(r, t))

(* A role that exists was called by a task of its caller's plan. *)
CalleesOK ==
  \A r \in Roles, t \in Tasks :
    Child(r, t) \in Roles /\ node[Child(r, t)] # "absent" =>
      node[r] \notin Planning /\ t \in Planned(r) /\ Tool(r, t) = agent[Child(r, t)]

(* Nothing that writes is below an agent that is taken to read only. *)
SafeOK ==
  \A r \in Roles : \A k \in 1 .. Len(r) :
    node[r] # "absent" /\ agent[Prefix(r, k)] \in ReadOnlyDelegates =>
      /\ "write" \notin Allowed[agent[r]]
      /\ "call" \in Allowed[agent[r]] => UnsafeAgents = {}

SInv == ShapesOK /\ CalleesOK /\ SafeOK

(* A step makes a plan, calls an agent for the first time, or keeps both.  *)
Calm ==
  /\ UNCHANGED <<agent, plan>>
  /\ \A r \in Roles : /\ node'[r] = "absent" <=> node[r] = "absent"
                      /\ node'[r] \in Planning => node[r] \in Planning
Founds(r, t) ==
  LET c == Child(r, t) IN
  /\ node[r] = "execute" /\ t \in Planned(r) /\ Tool(r, t) \in Agents
  /\ c \in Roles /\ node[c] = "absent"
  /\ node' = [node EXCEPT ![c] = "plan"]
  /\ agent' = [agent EXCEPT ![c] = Tool(r, t)]
  /\ UNCHANGED plan

LEMMA LeaveCalm ==
  ASSUME Types, NEW r \in Roles, NEW outcome, node[r] # "absent", Leave(r, outcome)
  PROVE  Calm
BY DEF Leave, Types, Calm, Planning

LEMMA PauseCalm == ASSUME Types, NEW r, NEW item, Pause(r, item) PROVE Calm
BY DEF Pause, Calm

LEMMA DeliverCalm ==
  ASSUME Types, NEW r, NEW item, NEW answer, NEW left, Deliver(r, item, answer, left),
         UNCHANGED <<agent, plan>>
  PROVE  Calm
BY DEF Deliver, Replan, Types, Calm, Planning

LEMMA StepKinds ==
  ASSUME Types, NEW r \in Roles, Step(r) PROVE Calm \/ MakePlan(r)
<1>1. CASE RefusePlan(r) \/ PlannerFails(r) \/ RaiseWave(r) \/ StopNode(r) \/ Summarize(r)
  BY <1>1, LeaveCalm DEF RefusePlan, PlannerFails, RaiseWave, StopNode, Summarize, At, Executing
<1>2. CASE Clarify(r)
  BY <1>2 DEF Clarify, At, Types, Calm, Planning
<1>3. CASE AskUser(r) \/ PauseWave(r)
  BY <1>3, PauseCalm DEF AskUser, PauseWave
<1>4. CASE Dispatch(r)
  <2>1. node[r] = "dispatch"
    BY <1>4 DEF Dispatch, At, DeadEnd
  <2>2. CASE Leave(r, "raised")
    BY <2>1, <2>2, LeaveCalm
  <2>3. CASE Send(r)
    BY <2>1, <2>3 DEF Send, Types, Calm, Planning
  <2> QED BY <1>4, <2>2, <2>3 DEF Dispatch
<1>5. CASE EndWave(r)
  BY <1>5 DEF EndWave, Executing, Types, Calm, Planning
<1> QED BY <1>1, <1>2, <1>3, <1>4, <1>5 DEF Step

LEMMA StillCalm == ASSUME UNCHANGED <<node, agent, plan>> PROVE Calm
BY DEF Calm

LEMMA TaskStepKinds ==
  ASSUME ConstantsOK, Types, NEW r \in Roles, NEW t \in Tasks, TaskStep(r, t)
  PROVE  Calm \/ Founds(r, t)
<1>1. CASE RunTool(r, t) \/ AskApproval(r, t) \/ AskAgain(r, t) \/ ToolReturns(r, t)
           \/ RecordResult(r, t) \/ StopTask(r, t)
  BY <1>1, StillCalm DEF RunTool, AskApproval, AskAgain, ToolReturns, RecordResult, StopTask
<1>2. CASE ResumeAgent(r, t)
  BY <1>2, DeliverCalm DEF ResumeAgent
<1>3. CASE CallAgent(r, t)
  <2>1. CASE Tool(r, t) = agent[r] \/ Len(Child(r, t)) > MaxDepth
    BY <1>3, <2>1, StillCalm DEF CallAgent
  <2>2. CASE ~(Tool(r, t) = agent[r] \/ Len(Child(r, t)) > MaxDepth)
    <3>1. Child(r, t) \in Roles
      BY <2>2, ChildFacts, RolesAreSeqs DEF ConstantsOK
    <3> QED BY <1>3, <2>2, <3>1 DEF CallAgent, Founds, Entering, Executing
  <2> QED BY <2>1, <2>2
<1> QED BY <1>1, <1>2, <1>3 DEF TaskStep

LEMMA NextKinds ==
  ASSUME ConstantsOK, Types, [Next]_vars
  PROVE  \/ Calm
         \/ \E r \in Roles : MakePlan(r)
         \/ \E r \in Roles, t \in Tasks : Founds(r, t)
<1>1. CASE Work
  BY <1>1, StepKinds, TaskStepKinds DEF Work
<1>2. CASE Respond
  BY <1>2, DeliverCalm DEF Respond, Answer
<1>3. CASE Cancel \/ UNCHANGED vars
  BY <1>3, StillCalm DEF Cancel, vars
<1> QED BY <1>1, <1>2, <1>3 DEF Next

LEMMA SamePlans ==
  ASSUME UNCHANGED plan
  PROVE  \A r, t : Planned(r)' = Planned(r) /\ Tool(r, t)' = Tool(r, t) /\ Deps(r, t)' = Deps(r, t)
BY DEF Planned, Size, Tool, Deps

LEMMA CalmKeeps == ASSUME SInv, Calm PROVE SInv'
<1> USE DEF Calm
<1>1. ShapesOK'
  BY SamePlans DEF SInv, ShapesOK, ToolAllowed
<1>2. CalleesOK'
  BY SamePlans DEF SInv, CalleesOK
<1>3. SafeOK'
  BY DEF SInv, SafeOK
<1> QED BY <1>1, <1>2, <1>3 DEF SInv

LEMMA MakePlanTree ==
  ASSUME ConstantsOK, Types, SInv, NEW r \in Roles, MakePlan(r) PROVE SInv'
<1>1. /\ node[r] = "plan" /\ node' = [node EXCEPT ![r] = "clarify"] /\ UNCHANGED agent
      /\ \E p \in Planner[agent[r]] : ValidPlan(agent[r], p) /\ plan' = [plan EXCEPT ![r] = p]
  BY DEF MakePlan, At
<1>2. PICK p \in Planner[agent[r]] : ValidPlan(agent[r], p) /\ plan' = [plan EXCEPT ![r] = p]
  BY <1>1
<1>3. p \in Plan /\ (~p.declared => \A t \in DOMAIN p.tasks : p.tasks[t].deps = {})
  BY DEF Types, ConstantsOK, IsPlan
<1>4. \A x \in Roles : \A t : x # r => /\ Planned(x)' = Planned(x) /\ Tool(x, t)' = Tool(x, t)
                                   /\ Deps(x, t)' = Deps(x, t) /\ plan'[x] = plan[x]
  BY <1>2 DEF Planned, Size, Tool, Deps, Types
<1>5. /\ plan'[r] = p /\ Planned(r)' = DOMAIN p.tasks /\ Planned(r)' \subseteq Tasks
      /\ \A t : Tool(r, t)' = p.tasks[t].tool /\ Deps(r, t)' = p.tasks[t].deps
  BY <1>2, <1>3 DEF Planned, Size, Tool, Deps, Types, Plan, ValidPlan, Tasks, ConstantsOK
<1>6. ShapesOK'
  <2>1. \A t \in Planned(r)' : t \in Tasks /\ Deps(r, t)' \subseteq Planned(r)' /\ ToolAllowed(agent'[r], Tool(r, t)')
    BY <1>1, <1>2, <1>5 DEF ValidPlan
  <2>2. node'[r] = "clarify" /\ \A x \in Roles : x # r => node'[x] = node[x]
    BY <1>1 DEF Types
  <2> QED BY <1>1, <1>3, <1>4, <1>5, <2>1, <2>2 DEF SInv, ShapesOK, ToolAllowed
<1>7. CalleesOK'
  BY <1>1, <1>4 DEF SInv, CalleesOK, Planning, Types
<1>8. SafeOK'
  BY <1>1 DEF SInv, SafeOK, Types
<1> QED BY <1>6, <1>7, <1>8 DEF SInv

(* Above a role that exists all roles exist. *)
LEMMA Ancestors ==
  ASSUME ConstantsOK, CalleesOK, NEW r \in Roles, node[r] # "absent", NEW k \in 0 .. Len(r)
  PROVE  node[Prefix(r, k)] # "absent"
<1> SUFFICES ASSUME node[Prefix(r, k)] = "absent" PROVE FALSE
  OBVIOUS
<1> DEFINE S == {j \in 1 .. Len(r) : node[Prefix(r, j)] # "absent" /\ j > k}
<1>1. Len(r) \in Nat /\ k \in Nat /\ k < Len(r) /\ Prefix(r, Len(r)) = r
  BY WholePrefix, RolesAreSeqs
<1>2. S # {} /\ S \subseteq 1 .. Len(r)
  BY <1>1
<1>3. PICK m \in S : \A u \in S : m <= u
  BY <1>1, <1>2, Least
<1>4. m \in 1 .. Len(r) /\ m - 1 \in 0 .. Len(r) /\ m - 1 \notin S
  BY <1>1, <1>3
<1>5. m - 1 = k \/ node[Prefix(r, m - 1)] = "absent"
  BY <1>1, <1>3, <1>4
<1>6. node[Prefix(r, m - 1)] = "absent" /\ node[Prefix(r, m)] # "absent"
  BY <1>3, <1>5
<1>7. Prefix(r, m) \in Roles
  BY <1>4, PrefixFacts
<1> QED BY <1>4, <1>6, <1>7, PrefixSteps DEF CalleesOK, Planning

LEMMA FoundsTree ==
  ASSUME ConstantsOK, Types, SInv, NEW r \in Roles, NEW t \in Tasks, Founds(r, t) PROVE SInv'
<1> DEFINE c == Child(r, t)
<1>1. /\ node[r] = "execute" /\ t \in Planned(r) /\ Tool(r, t) \in Agents
      /\ c \in Roles /\ node[c] = "absent"
      /\ node' = [node EXCEPT ![c] = "plan"] /\ agent' = [agent EXCEPT ![c] = Tool(r, t)]
      /\ UNCHANGED plan
  BY DEF Founds
<1>2. c # Root /\ Len(c) = Len(r) + 1 /\ Caller(c) = r /\ CallOf(c) = t /\ c # r
  BY <1>1, ChildFacts, RolesAreSeqs
<1>3. \A k \in 1 .. Len(r) : Prefix(c, k) = Prefix(r, k)
  BY ChildFacts
<1> HIDE DEF c
<1>4. /\ node'[c] = "plan" /\ agent'[c] = Tool(r, t)
      /\ \A x \in Roles : x # c => node'[x] = node[x] /\ agent'[x] = agent[x]
  BY <1>1 DEF Types
<1>5. ShapesOK'
  <2>1. Planned(c) = {}
    BY <1>1 DEF SInv, ShapesOK
  <2> QED BY <1>1, <1>4, <2>1, SamePlans DEF SInv, ShapesOK, ToolAllowed
<1>6. CalleesOK'
  <2> SUFFICES ASSUME NEW x \in Roles, NEW u \in Tasks,
                      Child(x, u) \in Roles, node'[Child(x, u)] # "absent"
               PROVE  node'[x] \notin Planning /\ u \in Planned(x)' /\ Tool(x, u)' = agent'[Child(x, u)]
    BY DEF CalleesOK
  <2>1. Caller(Child(x, u)) = x /\ CallOf(Child(x, u)) = u
    BY ChildFacts
  <2>2. CASE Child(x, u) = c
    <3>1. x = r /\ u = t
      BY <1>2, <2>1, <2>2
    <3> QED BY <1>1, <1>2, <1>4, <2>2, <3>1, SamePlans DEF Planning
  <2>3. CASE Child(x, u) # c
    <3>1. node[Child(x, u)] # "absent" /\ agent'[Child(x, u)] = agent[Child(x, u)]
      BY <1>4, <2>3
    <3>2. node[x] \notin Planning /\ u \in Planned(x) /\ Tool(x, u) = agent[Child(x, u)]
      BY <3>1 DEF SInv, CalleesOK
    <3>3. x # c
      BY <1>1, <3>2 DEF Planning
    <3> QED BY <1>1, <1>4, <3>1, <3>2, <3>3, SamePlans
  <2> QED BY <2>2, <2>3
<1>7. SafeOK'
  <2> SUFFICES ASSUME NEW x \in Roles, NEW k \in 1 .. Len(x),
                      node'[x] # "absent", agent'[Prefix(x, k)] \in ReadOnlyDelegates
               PROVE  /\ "write" \notin Allowed[agent'[x]]
                      /\ "call" \in Allowed[agent'[x]] => UnsafeAgents = {}
    BY DEF SafeOK
  <2>1. CASE x = c /\ k = Len(c)
    <3>1. Prefix(x, k) = c
      BY <1>1, <2>1, WholePrefix
    <3> QED BY <1>1, <1>4, <2>1, <3>1 DEF ReadOnlyDelegates, UnsafeAgents
  <2>2. CASE x = c /\ k # Len(c)
    <3>1. Len(r) \in Nat
      BY RolesAreSeqs
    <3>2. k \in 1 .. Len(r) /\ Prefix(x, k) = Prefix(r, k)
      BY <1>2, <1>3, <2>2, <3>1
    <3>3. Prefix(r, k) \in Roles /\ Len(Prefix(r, k)) = k
      BY <3>2, PrefixFacts
    <3>4. agent'[Prefix(x, k)] = agent[Prefix(r, k)]
      BY <1>2, <1>4, <3>1, <3>2, <3>3
    <3>5. "call" \in Allowed[agent[r]] => UnsafeAgents = {}
      BY <1>1, <3>2, <3>4 DEF SInv, SafeOK
    <3>6. "call" \in Allowed[agent[r]]
      <4>1. ToolAllowed(agent[r], Tool(r, t)) /\ Tool(r, t) \notin {"read", "write"}
        BY <1>1 DEF SInv, ShapesOK, ConstantsOK
      <4> QED BY <4>1 DEF ToolAllowed
    <3>7. UnsafeAgents = {}
      BY <3>5, <3>6
    <3> QED BY <1>1, <1>4, <2>2, <3>7 DEF UnsafeAgents
  <2>3. CASE x # c
    <3>1. node[x] # "absent" /\ agent'[x] = agent[x]
      BY <1>4, <2>3
    <3>2. Len(x) \in Nat /\ k \in 0 .. Len(x)
      BY RolesAreSeqs
    <3>3. Prefix(x, k) \in Roles /\ node[Prefix(x, k)] # "absent"
      BY <3>1, <3>2, Ancestors, PrefixFacts DEF SInv
    <3>4. agent'[Prefix(x, k)] = agent[Prefix(x, k)]
      BY <1>1, <1>4, <3>3
    <3> QED BY <3>1, <3>4 DEF SInv, SafeOK
  <2> QED BY <2>1, <2>2, <2>3
<1> QED BY <1>5, <1>6, <1>7 DEF SInv

LEMMA NextTree == ConstantsOK /\ IInv /\ SInv /\ [Next]_vars => SInv'
<1> SUFFICES ASSUME ConstantsOK, IInv, SInv, [Next]_vars PROVE SInv'
  OBVIOUS
<1>1. Types
  BY DEF IInv
<1>2. CASE Calm
  BY <1>2, CalmKeeps
<1>3. ASSUME NEW r \in Roles, MakePlan(r) PROVE SInv'
  BY <1>1, <1>3, MakePlanTree
<1>4. ASSUME NEW r \in Roles, NEW t \in Tasks, Founds(r, t) PROVE SInv'
  BY <1>1, <1>4, FoundsTree
<1> QED BY <1>1, <1>2, <1>3, <1>4, NextKinds

LEMMA InitTree == ConstantsOK /\ Init => SInv
<1> SUFFICES ASSUME ConstantsOK, Init PROVE SInv
  OBVIOUS
<1>1. \A r \in Roles : Planned(r) = {} /\ plan[r].declared
  BY DEF Init, Planned, Size, NoPlan
<1>2. \A r \in Roles : node[r] # "absent" => r = Root
  BY DEF Init
<1>3. ShapesOK
  BY <1>1 DEF ShapesOK
<1>4. CalleesOK
  BY <1>2, ChildFacts DEF CalleesOK
<1>5. SafeOK
  <2>1. Len(Root) = 0
    BY DEF Root
  <2> QED BY <1>2, <2>1 DEF SafeOK
<1> QED BY <1>3, <1>4, <1>5 DEF SInv

-----------------------------------------------------------------------------
(* Who is at work. *)

(* Tasks have a phase while their wave runs, or ended in an error. *)
PhasesOK ==
  \A r \in Roles, t \in Tasks :
    phase[r][t] # "idle" => t \in Planned(r) /\ node[r] \in {"execute", "failed"}

(* Tasks that share a wave need no workspace of their own. *)
WavesOK ==
  \A r \in Roles : r # Root \/ plan[Root].declared \/ Serial(Root) =>
    \A t, u \in Tasks : phase[r][t] # "idle" /\ phase[r][u] # "idle" /\ t # u => ParallelSafe(r, t)

(* A tool runs, or a role is called, in roles that are driven. *)
AtWork == {"exec", "call"}
ActiveOK ==
  \A r \in Roles, t \in Tasks : phase[r][t] \in AtWork => node[r] = "execute" /\ Driven(r)

WInv == PhasesOK /\ WavesOK /\ ActiveOK

LEMMA RootAgentStays ==
  ASSUME ConstantsOK, Types, [Next]_vars PROVE agent'[Root] = agent[Root]
<1>1. CASE Calm
  BY <1>1 DEF Calm
<1>2. ASSUME NEW r \in Roles, MakePlan(r) PROVE agent'[Root] = agent[Root]
  BY <1>2 DEF MakePlan
<1>3. ASSUME NEW r \in Roles, NEW t \in Tasks, Founds(r, t) PROVE agent'[Root] = agent[Root]
  <2>1. Child(r, t) # Root
    BY ChildFacts
  <2> QED BY <1>3, <2>1, RootIsRole DEF Founds, Types
<1> QED BY <1>1, <1>2, <1>3, NextKinds

LEMMA SafeSame ==
  ASSUME UNCHANGED plan PROVE \A r, t : ParallelSafe(r, t)' = ParallelSafe(r, t)
BY SamePlans DEF ParallelSafe

(* Steps that send nothing keep waves as they are. *)
LEMMA WavesStay ==
  ASSUME WavesOK, UNCHANGED plan, agent'[Root] = agent[Root],
         \A r \in Roles, t \in Tasks : phase'[r][t] # "idle" => phase[r][t] # "idle"
  PROVE  WavesOK'
BY SafeSame DEF WavesOK, Serial

LEMMA PhasesStay ==
  ASSUME PhasesOK, UNCHANGED plan,
         \A r \in Roles, t \in Tasks :
           phase'[r][t] # "idle" => phase[r][t] # "idle" /\ node'[r] \in {node[r], "failed"}
  PROVE  PhasesOK'
BY SamePlans DEF PhasesOK

LEMMA MildWaves ==
  ASSUME ConstantsOK, Types, PhasesOK, WavesOK, Mild, agent'[Root] = agent[Root]
  PROVE  PhasesOK' /\ WavesOK'
<1>1. \A r \in Roles, t \in Tasks :
        phase'[r][t] # "idle" => phase[r][t] # "idle" /\ node'[r] \in {node[r], "failed"}
  <2> SUFFICES ASSUME NEW r \in Roles, NEW t \in Tasks, phase'[r][t] # "idle"
               PROVE  phase[r][t] # "idle" /\ node'[r] \in {node[r], "failed"}
    OBVIOUS
  <2>1. phase[r][t] # "idle"
    BY DEF Mild, Proceeds
  <2>2. node[r] \in {"execute", "failed"} /\ Moves(node[r], node'[r])
    BY <2>1 DEF PhasesOK, Mild
  <2> QED BY <2>1, <2>2 DEF Moves
<1> QED BY <1>1, PhasesStay, WavesStay DEF Mild

(* Two tasks of one wave. *)
LEMMA WaveTogether ==
  ASSUME ConstantsOK, Types, NEW r \in Roles, r # Root \/ plan[r].declared \/ Serial(r),
         NEW t \in NextWave(r), NEW u \in NextWave(r), t # u
  PROVE  ParallelSafe(r, t)
<1>1. Planned(r) \subseteq Nat /\ Open(r) \subseteq Planned(r) /\ Ready(r) \subseteq Open(r)
  BY DomainIsPlanned DEF Open, Ready
<1>2. CASE plan[r].declared
  <2>1. t \in Wave(r) /\ u \in Wave(r) /\ t \in Ready(r) /\ u \in Ready(r)
    BY <1>2 DEF NextWave, Wave
  <2>2. t \in Nat /\ u \in Nat
    BY <1>1, <2>1
  <2>3. CASE u < t
    <3>1. {v \in Ready(r) : v < t} # {}
      BY <2>1, <2>3
    <3> QED BY <2>1, <3>1 DEF Wave
  <2>4. CASE t < u
    <3>1. t \in {v \in Ready(r) : v < u}
      BY <2>1, <2>4
    <3> QED BY <2>1, <3>1 DEF Wave
  <2> QED BY <2>2, <2>3, <2>4
<1>3. CASE ~plan[r].declared
  <2>1. Serial(r)
    BY <1>3 DEF Serial
  <2>2. t \in OldWave(r) /\ u \in OldWave(r)
    BY <1>3 DEF NextWave
  <2>3. t <= u /\ u <= t /\ t \in Open(r) /\ u \in Open(r)
    BY <2>1, <2>2 DEF OldWave
  <2>4. t \in Nat /\ u \in Nat
    BY <1>1, <2>3
  <2> QED BY <2>3, <2>4
<1> QED BY <1>2, <1>3

LEMMA SendWaves ==
  ASSUME ConstantsOK, Types, ShapesOK, PhasesOK, WavesOK, NEW r \in Roles, At(r, "dispatch"), Send(r)
  PROVE  PhasesOK' /\ WavesOK'
<1>1. node[r] = "dispatch" /\ UNCHANGED <<agent, plan>>
  BY DEF At, Send
<1>2. CASE Exhausted(r)
  <2>1. node' = [node EXCEPT ![r] = "summarize"] /\ UNCHANGED phase
    BY <1>2 DEF Send
  <2>2. \A x \in Roles, t \in Tasks : phase[x][t] # "idle" => node'[x] = node[x]
    BY <1>1, <2>1 DEF PhasesOK, Types
  <2> QED BY <1>1, <2>1, <2>2, PhasesStay, WavesStay
<1>3. CASE ~Exhausted(r)
  <2>1. /\ node' = [node EXCEPT ![r] = "execute"]
        /\ phase' = [phase EXCEPT ![r] = [t \in Tasks |-> IF t \in NextWave(r) THEN "sent" ELSE "idle"]]
    BY <1>3 DEF Send
  <2>2. /\ node'[r] = "execute"
        /\ \A t \in Tasks : phase'[r][t] # "idle" => t \in NextWave(r)
        /\ \A x \in Roles : x # r => node'[x] = node[x] /\ phase'[x] = phase[x]
    BY <2>1 DEF Types
  <2>3. NextWave(r) \subseteq Planned(r)
    BY WaveIsOpen DEF Open
  <2>4. PhasesOK'
    <3> SUFFICES ASSUME NEW x \in Roles, NEW t \in Tasks, phase'[x][t] # "idle"
                 PROVE  t \in Planned(x)' /\ node'[x] \in {"execute", "failed"}
      BY DEF PhasesOK
    <3>1. CASE x = r
      BY <1>1, <2>2, <2>3, <3>1, SamePlans
    <3>2. CASE x # r
      BY <1>1, <2>2, <3>2, SamePlans DEF PhasesOK
    <3> QED BY <3>1, <3>2
  <2>5. WavesOK'
    <3> SUFFICES ASSUME NEW x \in Roles, x # Root \/ plan'[Root].declared \/ Serial(Root)',
                        NEW t \in Tasks, NEW u \in Tasks,
                        phase'[x][t] # "idle", phase'[x][u] # "idle", t # u
                 PROVE  ParallelSafe(x, t)'
      BY DEF WavesOK
    <3>1. x # Root \/ plan[Root].declared \/ Serial(Root)
      BY <1>1 DEF Serial
    <3>2. CASE x = r
      <4>1. x # Root \/ plan[x].declared \/ Serial(x)
        BY <3>1
      <4> QED BY <1>1, <2>2, <3>2, <4>1, WaveTogether, SafeSame
    <3>3. CASE x # r
      BY <1>1, <2>2, <3>1, <3>3, SafeSame DEF WavesOK
    <3> QED BY <3>2, <3>3
  <2> QED BY <2>4, <2>5
<1> QED BY <1>2, <1>3

LEMMA StepWaves ==
  ASSUME ConstantsOK, IInv, SInv, PhasesOK, WavesOK, NEW r \in Roles, Step(r), agent'[Root] = agent[Root]
  PROVE  PhasesOK' /\ WavesOK'
<1>0. Types
  BY DEF IInv
<1>1. CASE MakePlan(r)
  <2>1. node[r] = "plan" /\ node' = [node EXCEPT ![r] = "clarify"] /\ UNCHANGED <<phase, agent>>
    BY <1>1 DEF MakePlan, At
  <2>2. PICK p : plan' = [plan EXCEPT ![r] = p]
    BY <1>1 DEF MakePlan
  <2>3. \A t \in Tasks : phase[r][t] = "idle"
    BY <2>1 DEF PhasesOK
  <2>4. \A x \in Roles : \A t : x # r => /\ Planned(x)' = Planned(x) /\ ParallelSafe(x, t)' = ParallelSafe(x, t)
                                     /\ plan'[x] = plan[x] /\ node'[x] = node[x]
    BY <1>0, <2>1, <2>2 DEF Planned, Size, ParallelSafe, Tool, Types
  <2>5. PhasesOK'
    BY <2>1, <2>3, <2>4 DEF PhasesOK
  <2>6. WavesOK'
    BY <2>1, <2>3, <2>4, RootIsRole DEF WavesOK, Serial
  <2> QED BY <2>5, <2>6
<1>2. CASE RefusePlan(r)
  BY <1>0, <1>2, LeaveMild, MildWaves DEF RefusePlan, At
<1>3. CASE PlannerFails(r)
  BY <1>0, <1>3, LeaveMild, MildWaves DEF PlannerFails, At
<1>4. CASE Clarify(r)
  BY <1>0, <1>4, ClarifyMild, MildWaves
<1>5. CASE AskUser(r)
  BY <1>0, <1>5, PauseMild, MildWaves DEF AskUser, At
<1>6. CASE Dispatch(r)
  <2>1. CASE DeadEnd(r)
    BY <1>0, <1>6, <2>1, LeaveMild, MildWaves DEF Dispatch, At
  <2>2. CASE ~DeadEnd(r)
    BY <1>0, <1>6, <2>2, SendWaves DEF Dispatch, SInv
  <2> QED BY <2>1, <2>2
<1>7. CASE EndWave(r)
  <2>1. /\ node' = [node EXCEPT ![r] = "dispatch"] /\ UNCHANGED <<agent, plan>>
        /\ phase' = [phase EXCEPT ![r] = [t \in Tasks |-> "idle"]]
    BY <1>7 DEF EndWave
  <2>2. \A x \in Roles, t \in Tasks :
          phase'[x][t] # "idle" => phase[x][t] # "idle" /\ node'[x] = node[x]
    BY <1>0, <2>1 DEF Types
  <2> QED BY <2>1, <2>2, PhasesStay, WavesStay
<1>8. CASE PauseWave(r)
  BY <1>0, <1>8, PauseMild, MildWaves DEF PauseWave, Executing
<1>9. CASE RaiseWave(r)
  BY <1>0, <1>9, LeaveMild, MildWaves DEF RaiseWave, Executing
<1>10. CASE StopNode(r)
  BY <1>0, <1>10, LeaveMild, MildWaves DEF StopNode
<1>11. CASE Summarize(r)
  <2>1. PICK outcome \in {"ok", "bad"} : Leave(r, outcome)
    BY <1>11 DEF Summarize
  <2>2. Driven(r) /\ node[r] = "summarize"
    BY <1>11 DEF Summarize, At
  <2> QED BY <1>0, <2>1, <2>2, LeaveMild, MildWaves
<1> QED BY <1>1, <1>2, <1>3, <1>4, <1>5, <1>6, <1>7, <1>8, <1>9, <1>10, <1>11 DEF Step

LEMMA TaskStepWaves ==
  ASSUME ConstantsOK, IInv, PhasesOK, WavesOK, NEW r \in Roles, NEW t \in Tasks, TaskStep(r, t),
         agent'[Root] = agent[Root]
  PROVE  PhasesOK' /\ WavesOK'
<1>0. Types
  BY DEF IInv
<1>1. CASE RunTool(r, t)
  <2>1. /\ phase[r][t] = "sent" /\ phase' = [phase EXCEPT ![r][t] = "exec"]
        /\ UNCHANGED <<node, agent, plan>>
    BY <1>1 DEF RunTool, Entering
  <2>2. \A x \in Roles, u \in Tasks : phase'[x][u] # "idle" => phase[x][u] # "idle" /\ node'[x] = node[x]
    BY <1>0, <2>1 DEF Types
  <2> QED BY <2>1, <2>2, PhasesStay, WavesStay
<1>2. CASE AskApproval(r, t)
  BY <1>0, <1>2, AskApprovalMild, MildWaves
<1>3. CASE CallAgent(r, t)
  BY <1>0, <1>3, CallAgentMild, MildWaves
<1>4. CASE AskAgain(r, t)
  BY <1>0, <1>4, AskAgainMild, MildWaves
<1>5. CASE ResumeAgent(r, t)
  BY <1>0, <1>5, ResumeAgentMild, MildWaves
<1>6. CASE ToolReturns(r, t)
  BY <1>0, <1>6, ToolReturnsMild, MildWaves
<1>7. CASE RecordResult(r, t)
  BY <1>0, <1>7, StillMild, MildWaves DEF RecordResult
<1>8. CASE StopTask(r, t)
  BY <1>0, <1>8, StopTaskMild, MildWaves
<1> QED BY <1>1, <1>2, <1>3, <1>4, <1>5, <1>6, <1>7, <1>8 DEF TaskStep

-----------------------------------------------------------------------------
(* Only roles with no task at work stop being driven.                      *)

Quiet(r) == \A t \in Tasks : phase[r][t] \notin AtWork

(* In a step in which the roles of E end or pause, the others go on. *)
LEMMA ActiveMoves ==
  ASSUME ConstantsOK, Types, ActiveOK, NEW E \in SUBSET Roles, \A e \in E : Quiet(e)',
         \A r \in Roles \ E : node[r] = "execute" => node'[r] = "execute",
         \A c \in Roles \ E : Driven(c) => Driven(c)',
         \A r \in Roles \ E, t \in Tasks :
           phase'[r][t] \in AtWork => phase[r][t] \in AtWork \/ (node[r] = "execute" /\ Driven(r))
  PROVE  ActiveOK'
<1> SUFFICES ASSUME NEW r \in Roles, NEW t \in Tasks, phase'[r][t] \in AtWork
             PROVE  node'[r] = "execute" /\ Driven(r)'
  BY DEF ActiveOK, AtWork
<1>1. r \notin E
  BY DEF Quiet, AtWork
<1>2. node[r] = "execute" /\ Driven(r)
  BY <1>1 DEF ActiveOK
<1> QED BY <1>1, <1>2

(* A task that no role is called by changes its phase. *)
LEMMA DrivenStays ==
  ASSUME ConstantsOK, run = "running" => run' = "running",
         \A r \in Roles, t \in Tasks : phase[r][t] = "call" => phase'[r][t] = "call"
  PROVE  \A c \in Roles : Driven(c) => Driven(c)'
BY CallerFacts DEF Driven

LEMMA StillActive ==
  ASSUME ConstantsOK, Types, ActiveOK, UNCHANGED phase, run = "running" => run' = "running",
         \A r \in Roles : node[r] = "execute" => node'[r] = "execute"
  PROVE  ActiveOK'
<1>1. \A c \in Roles : Driven(c) => Driven(c)'
  BY DrivenStays
<1> DEFINE E == {}
<1>2. E \in SUBSET Roles /\ \A e \in E : Quiet(e)'
  OBVIOUS
<1> QED BY <1>1, <1>2, ActiveMoves

LEMMA TaskActive ==
  ASSUME ConstantsOK, Types, ActiveOK, NEW r \in Roles, NEW t \in Tasks, NEW v,
         phase' = [phase EXCEPT ![r][t] = v], phase[r][t] # "call", Driven(r), node[r] = "execute",
         UNCHANGED run, \A x \in Roles : node[x] = "execute" => node'[x] = "execute"
  PROVE  ActiveOK'
<1>1. \A c \in Roles : Driven(c) => Driven(c)'
  <2>1. \A x \in Roles, u \in Tasks : phase[x][u] = "call" => phase'[x][u] = "call"
    BY DEF Types
  <2> QED BY <2>1, DrivenStays
<1>2. \A x \in Roles, u \in Tasks :
        phase'[x][u] \in AtWork => phase[x][u] \in AtWork \/ (node[x] = "execute" /\ Driven(x))
  BY DEF Types
<1> DEFINE E == {}
<1>3. E \in SUBSET Roles /\ \A e \in E : Quiet(e)'
  OBVIOUS
<1> QED BY <1>1, <1>2, <1>3, ActiveMoves

(* The role r leaves or pauses. *)
LEMMA EndsActive ==
  ASSUME ConstantsOK, Types, ActiveOK, NEW r \in Roles, Quiet(r),
         \A x \in Roles \ {r} : node'[x] = node[x],
         NEW v, v \notin AtWork,
         IF r = Root THEN UNCHANGED phase
         ELSE UNCHANGED run /\ phase' = [phase EXCEPT ![Caller(r)][CallOf(r)] = v]
  PROVE  ActiveOK'
<1>1. \A x \in Roles, t \in Tasks : phase'[x][t] = phase[x][t] \/ phase'[x][t] = v
  <2>1. CASE r = Root
    BY <2>1
  <2>2. CASE r # Root
    <3>1. PICK a \in Roles, b \in Tasks : phase' = [phase EXCEPT ![a][b] = v]
      BY <2>2, CallerFacts
    <3> QED BY <3>1 DEF Types
  <2> QED BY <2>1, <2>2
<1>2. \A c \in Roles \ {r} : Driven(c) => Driven(c)'
  <2> SUFFICES ASSUME NEW c \in Roles \ {r}, Driven(c) PROVE Driven(c)'
    OBVIOUS
  <2>1. CASE r = Root
    BY <2>1 DEF Driven
  <2>2. CASE r # Root /\ c = Root
    BY <2>2 DEF Driven
  <2>3. CASE r # Root /\ c # Root
    <3>1. Caller(c) # Caller(r) \/ CallOf(c) # CallOf(r)
      BY <2>3, CallerFacts
    <3>2. /\ Caller(c) \in Roles /\ CallOf(c) \in Tasks
          /\ Caller(r) \in Roles /\ CallOf(r) \in Tasks
      BY <2>3, CallerFacts
    <3>3. phase'[Caller(c)][CallOf(c)] = phase[Caller(c)][CallOf(c)]
      BY <2>3, <3>1, <3>2 DEF Types
    <3> QED BY <2>3, <3>3 DEF Driven
  <2> QED BY <2>1, <2>2, <2>3
<1>3. Quiet(r)'
  BY <1>1 DEF Quiet, AtWork
<1> DEFINE E == {r}
<1>4. E \in SUBSET Roles /\ \A e \in E : Quiet(e)'
  BY <1>3
<1>5. \A x \in Roles \ E, t \in Tasks : phase'[x][t] \in AtWork => phase[x][t] \in AtWork
  BY <1>1
<1>6. \A x \in Roles \ E : node[x] = "execute" => node'[x] = "execute"
  OBVIOUS
<1>7. \A c \in Roles \ E : Driven(c) => Driven(c)'
  BY <1>2
<1> HIDE DEF E
<1> QED BY <1>4, <1>5, <1>6, <1>7, ActiveMoves

LEMMA LeaveActive ==
  ASSUME ConstantsOK, Types, ActiveOK, NEW r \in Roles, Quiet(r),
         NEW outcome \in {"ok", "bad", "raised"}, Leave(r, outcome)
  PROVE  ActiveOK'
<1>1. outcome \notin AtWork
  BY DEF AtWork
<1>2. \A x \in Roles \ {r} : node'[x] = node[x]
  BY DEF Leave, Types
<1>3. IF r = Root THEN UNCHANGED phase
      ELSE UNCHANGED run /\ phase' = [phase EXCEPT ![Caller(r)][CallOf(r)] = outcome]
  BY DEF Leave
<1> QED BY <1>1, <1>2, <1>3, EndsActive

LEMMA PauseActive ==
  ASSUME ConstantsOK, Types, ActiveOK, NEW r \in Roles, Quiet(r), NEW item, Pause(r, item)
  PROVE  ActiveOK'
<1>1. "ask" \notin AtWork
  BY DEF AtWork
<1>2. \A x \in Roles \ {r} : node'[x] = node[x]
  BY DEF Pause
<1>3. IF r = Root THEN UNCHANGED phase
      ELSE UNCHANGED run /\ phase' = [phase EXCEPT ![Caller(r)][CallOf(r)] = "ask"]
  BY DEF Pause
<1> QED BY <1>1, <1>2, <1>3, EndsActive

LEMMA QuietUnless ==
  ASSUME ActiveOK, NEW r \in Roles, node[r] # "execute" PROVE Quiet(r)
BY DEF ActiveOK, Quiet

LEMMA QuietWave ==
  ASSUME PhasesOK, NEW r \in Roles, InWave(r, {"exec", "call"}) = {} PROVE Quiet(r)
BY DEF PhasesOK, Quiet, InWave, AtWork

LEMMA StepActive ==
  ASSUME ConstantsOK, Types, PhasesOK, ActiveOK, NEW r \in Roles, Step(r) PROVE ActiveOK'
<1>1. CASE MakePlan(r) \/ Clarify(r)
  BY <1>1, StillActive DEF MakePlan, Clarify, At, Types
<1>2. CASE RefusePlan(r) \/ PlannerFails(r) \/ StopNode(r) \/ Summarize(r)
  <2>1. node[r] # "execute" /\ \E outcome \in {"ok", "bad", "raised"} : Leave(r, outcome)
    BY <1>2 DEF RefusePlan, PlannerFails, StopNode, Summarize, At
  <2> QED BY <2>1, QuietUnless, LeaveActive
<1>3. CASE RaiseWave(r)
  BY <1>3, QuietWave, LeaveActive DEF RaiseWave
<1>4. CASE AskUser(r)
  BY <1>4, QuietUnless, PauseActive DEF AskUser, At
<1>5. CASE PauseWave(r)
  <2>1. InWave(r, {"exec", "call"}) = {}
    BY <1>5 DEF PauseWave, InWave
  <2> QED BY <1>5, <2>1, QuietWave, PauseActive DEF PauseWave
<1>6. CASE Dispatch(r)
  <2>0. node[r] = "dispatch"
    BY <1>6 DEF Dispatch, DeadEnd, At
  <2>1. CASE Leave(r, "raised")
    BY <2>0, <2>1, QuietUnless, LeaveActive
  <2>2. CASE Send(r)
    <3>1. CASE UNCHANGED phase
      BY <2>0, <2>2, <3>1, StillActive DEF Send, Types
    <3>2. CASE /\ node' = [node EXCEPT ![r] = "execute"]
               /\ phase' = [phase EXCEPT ![r] =
                              [t \in Tasks |-> IF t \in NextWave(r) THEN "sent" ELSE "idle"]]
      <4>1. Quiet(r)
        BY <2>0, QuietUnless
      <4>2. \A x \in Roles, t \in Tasks : phase'[x][t] # phase[x][t] => x = r /\ phase'[x][t] \notin AtWork
        BY <3>2 DEF Types, AtWork
      <4>3. \A c \in Roles : Driven(c) => Driven(c)'
        <5>1. run' = run
          BY <2>2 DEF Send
        <5>2. \A x \in Roles, t \in Tasks : phase[x][t] = "call" => phase'[x][t] = "call"
          BY <4>1, <4>2 DEF Quiet, AtWork
        <5> QED BY <5>1, <5>2, DrivenStays
      <4>4. \A x \in Roles : node[x] = "execute" => node'[x] = "execute"
        BY <3>2 DEF Types
      <4> DEFINE E == {}
      <4>5. E \in SUBSET Roles /\ \A e \in E : Quiet(e)'
        OBVIOUS
      <4>6. \A x \in Roles, t \in Tasks : phase'[x][t] \in AtWork => phase[x][t] \in AtWork
        BY <4>2
      <4> QED BY <4>3, <4>4, <4>5, <4>6, ActiveMoves
    <3> QED BY <2>2, <3>1, <3>2 DEF Send
  <2> QED BY <1>6, <2>1, <2>2 DEF Dispatch
<1>7. CASE EndWave(r)
  <2>1. /\ node' = [node EXCEPT ![r] = "dispatch"] /\ UNCHANGED run
        /\ phase' = [phase EXCEPT ![r] = [t \in Tasks |-> "idle"]]
    BY <1>7 DEF EndWave
  <2>2. Quiet(r)
    <3>1. InWave(r, {"exec", "call"}) = {}
      BY <1>7 DEF EndWave, InWave
    <3> QED BY <3>1, QuietWave
  <2>3. \A x \in Roles, t \in Tasks : phase'[x][t] # phase[x][t] => x = r /\ phase'[x][t] = "idle"
    BY <2>1 DEF Types
  <2>4. \A c \in Roles : Driven(c) => Driven(c)'
    <3>1. \A x \in Roles, t \in Tasks : phase[x][t] = "call" => phase'[x][t] = "call"
      BY <2>2, <2>3 DEF Quiet, AtWork
    <3> QED BY <2>1, <3>1, DrivenStays
  <2> DEFINE E == {r}
  <2>5. E \in SUBSET Roles /\ \A e \in E : Quiet(e)'
    BY <2>1 DEF Quiet, AtWork, Types
  <2>6. /\ \A x \in Roles \ E : node[x] = "execute" => node'[x] = "execute"
        /\ \A x \in Roles \ E, t \in Tasks : phase'[x][t] \in AtWork => phase[x][t] \in AtWork
    BY <2>1, <2>3 DEF Types
  <2> HIDE DEF E
  <2> QED BY <2>4, <2>5, <2>6, ActiveMoves
<1> QED BY <1>1, <1>2, <1>3, <1>4, <1>5, <1>6, <1>7 DEF Step

LEMMA ResumeActive ==
  ASSUME ConstantsOK, Types, ActiveOK, NEW r \in Roles, NEW t \in Tasks, ResumeAgent(r, t)
  PROVE  ActiveOK'
<1> DEFINE c == Child(r, t)
<1>1. /\ c \in Roles /\ phase[r][t] = "sent" /\ Driven(r) /\ node[r] = "execute" /\ UNCHANGED run
      /\ phase' = [phase EXCEPT ![r][t] = "call", ![c] = Resent(c)]
      /\ node' = [node EXCEPT ![c] = IF Replan(c) THEN "plan" ELSE @]
  BY DEF ResumeAgent, Entering, Executing, Deliver
<1>2. c # r /\ Caller(c) = r /\ CallOf(c) = t /\ c # Root
  BY ChildFacts, RolesAreSeqs
<1> HIDE DEF c
<1>3. Quiet(c)
  BY <1>1, <1>2 DEF ActiveOK, Quiet, Driven
<1>4. Quiet(c)'
  BY <1>1, <1>2, <1>3 DEF Quiet, Resent, AtWork, Types
<1>5. /\ phase'[r][t] = "call" 
      /\ \A x \in Roles, u \in Tasks : x # c /\ ~(x = r /\ u = t) => phase'[x][u] = phase[x][u]
  BY <1>1, <1>2 DEF Types
<1>6. \A x \in Roles : Driven(x) => Driven(x)'
  <2>1. \A x \in Roles, u \in Tasks : phase[x][u] = "call" => phase'[x][u] = "call"
    BY <1>1, <1>3, <1>5 DEF Quiet, AtWork
  <2> QED BY <1>1, <2>1, DrivenStays
<1>7. \A x \in Roles : node[x] = "execute" => node'[x] = "execute"
  BY <1>1 DEF Types, Replan
<1>8. \A x \in Roles \ {c}, u \in Tasks :
        phase'[x][u] \in AtWork => phase[x][u] \in AtWork \/ (node[x] = "execute" /\ Driven(x))
  BY <1>1, <1>5
<1> DEFINE E == {c}
<1>9. E \in SUBSET Roles /\ \A e \in E : Quiet(e)'
  BY <1>1, <1>4
<1>10. /\ \A x \in Roles \ E : node[x] = "execute" => node'[x] = "execute"
       /\ \A x \in Roles \ E : Driven(x) => Driven(x)'
       /\ \A x \in Roles \ E, u \in Tasks :
            phase'[x][u] \in AtWork => phase[x][u] \in AtWork \/ (node[x] = "execute" /\ Driven(x))
  BY <1>6, <1>7, <1>8
<1> HIDE DEF E
<1> QED BY <1>9, <1>10, ActiveMoves

LEMMA TaskStepActive ==
  ASSUME ConstantsOK, Types, PhasesOK, ActiveOK, NEW r \in Roles, NEW t \in Tasks, TaskStep(r, t)
  PROVE  ActiveOK'
<1>1. CASE RunTool(r, t)
  BY <1>1, TaskActive DEF RunTool, Entering, Executing
<1>2. CASE AskApproval(r, t)
  BY <1>2, TaskActive DEF AskApproval, Entering, Executing
<1>3. CASE CallAgent(r, t)
  <2>1. PICK v : phase' = [phase EXCEPT ![r][t] = v]
    BY <1>3 DEF CallAgent
  <2>2. \A x \in Roles : node[x] = "execute" => node'[x] = "execute"
    BY <1>3 DEF CallAgent, Types
  <2> QED BY <1>3, <2>1, <2>2, TaskActive DEF CallAgent, Entering, Executing
<1>4. CASE AskAgain(r, t)
  BY <1>4, TaskActive DEF AskAgain, Entering, Executing
<1>5. CASE ResumeAgent(r, t)
  BY <1>5, ResumeActive
<1>6. CASE ToolReturns(r, t)
  <2>1. PICK v : phase' = [phase EXCEPT ![r][t] = v]
    BY <1>6 DEF ToolReturns
  <2> QED BY <1>6, <2>1, TaskActive DEF ToolReturns, Executing
<1>7. CASE RecordResult(r, t)
  BY <1>7, StillActive DEF RecordResult
<1>8. CASE StopTask(r, t)
  BY <1>8, TaskActive DEF StopTask, Executing
<1> QED BY <1>1, <1>2, <1>3, <1>4, <1>5, <1>6, <1>7, <1>8 DEF TaskStep

LEMMA AnswerActive ==
  ASSUME ConstantsOK, Types, ActiveOK, NEW t, NEW answer, Answer(t, answer) PROVE ActiveOK'
<1>1. /\ run = "waiting" /\ phase' = [phase EXCEPT ![Root] = Resent(Root)]
      /\ node' = [node EXCEPT ![Root] = IF Replan(Root) THEN "plan" ELSE @]
      /\ run' = "running"
  BY DEF Answer, Deliver
<1>2. Quiet(Root)
  BY <1>1, RootIsRole DEF ActiveOK, Quiet, Driven
<1>3. \A x \in Roles, u \in Tasks : phase'[x][u] \in AtWork <=> phase[x][u] \in AtWork
  BY <1>1, <1>2 DEF Types, Quiet, Resent, AtWork
<1>4. \A x \in Roles, u \in Tasks : phase[x][u] = "call" => phase'[x][u] = "call"
  BY <1>1, <1>2 DEF Types, Quiet, AtWork
<1>5. \A x \in Roles : Driven(x) => Driven(x)'
  BY <1>1, <1>4, DrivenStays
<1>6. \A x \in Roles : node[x] = "execute" => node'[x] = "execute"
  BY <1>1 DEF Types, Replan
<1> DEFINE E == {}
<1>7. E \in SUBSET Roles /\ \A e \in E : Quiet(e)'
  OBVIOUS
<1> QED BY <1>3, <1>5, <1>6, <1>7, ActiveMoves

LEMMA NextWork == ConstantsOK /\ IInv /\ SInv /\ WInv /\ [Next]_vars => WInv'
<1> SUFFICES ASSUME ConstantsOK, IInv, SInv, PhasesOK, WavesOK, ActiveOK, [Next]_vars
             PROVE  PhasesOK' /\ WavesOK' /\ ActiveOK'
  BY DEF WInv
<1>1. Types
  BY DEF IInv
<1>2. agent'[Root] = agent[Root]
  BY <1>1, RootAgentStays
<1>3. CASE Work
  BY <1>1, <1>2, <1>3, StepWaves, StepActive, TaskStepWaves, TaskStepActive DEF Work
<1>4. CASE Respond
  BY <1>1, <1>2, <1>4, AnswerMild, MildWaves, AnswerActive DEF Respond
<1>5. CASE Cancel
  BY <1>1, <1>2, <1>5, StillMild, MildWaves, StillActive DEF Cancel
<1>6. CASE UNCHANGED vars
  BY <1>1, <1>2, <1>6, StillMild, MildWaves, StillActive DEF vars
<1> QED BY <1>3, <1>4, <1>5, <1>6 DEF Next

LEMMA InitWork == Init => WInv
BY DEF Init, WInv, PhasesOK, WavesOK, ActiveOK, AtWork

TreeInv == IInv /\ SInv /\ WInv

(* In every state a role was called by a task of its caller's plan, only   *)
(* agents that write nothing are below one that is taken to read only,     *)
(* tasks that share a wave need no workspace of their own, and who is at   *)
(* work is driven.                                                         *)
THEOREM TreeInvariant == Spec => []TreeInv
<1>1. Init => TreeInv
  BY ConstantsOK, InitIInv, InitTree, InitWork DEF TreeInv
<1>2. TreeInv /\ [Next]_vars => TreeInv'
  BY ConstantsOK, NextKeeps, NextTree, NextWork DEF TreeInv
<1> QED BY <1>1, <1>2, PTL DEF Spec

(* Above a task at work every task has called the role on the way to it.   *)
LEMMA DrivenAbove ==
  ASSUME ConstantsOK, ActiveOK, NEW r \in Roles, Driven(r), NEW k \in 0 .. Len(r)
  PROVE  Driven(Prefix(r, k))
<1> SUFFICES ASSUME ~Driven(Prefix(r, k)) PROVE FALSE
  OBVIOUS
<1> DEFINE S == {j \in 1 .. Len(r) : Driven(Prefix(r, j)) /\ j > k}
<1>1. Len(r) \in Nat /\ k \in Nat /\ k < Len(r) /\ Prefix(r, Len(r)) = r
  BY WholePrefix, RolesAreSeqs
<1>2. S # {} /\ S \subseteq 1 .. Len(r)
  BY <1>1
<1>3. PICK m \in S : \A u \in S : m <= u
  BY <1>1, <1>2, Least
<1>4. m \in 1 .. Len(r) /\ m - 1 \in 0 .. Len(r) /\ m - 1 \notin S
  BY <1>1, <1>3
<1>5. m - 1 = k \/ ~Driven(Prefix(r, m - 1))
  BY <1>1, <1>3, <1>4
<1>6. ~Driven(Prefix(r, m - 1)) /\ Driven(Prefix(r, m))
  BY <1>3, <1>5
<1>7. phase[Prefix(r, m - 1)][r[m]] = "call"
  BY <1>4, <1>6, PrefixSteps DEF Driven
<1> QED BY <1>4, <1>6, <1>7, PrefixSteps DEF ActiveOK, AtWork

LEMMA CallsAbove ==
  ASSUME ConstantsOK, ActiveOK, NEW r \in Roles, Driven(r), NEW k \in 1 .. Len(r)
  PROVE  phase[Prefix(r, k - 1)][r[k]] = "call"
<1>1. Len(r) \in Nat /\ k \in 0 .. Len(r)
  BY RolesAreSeqs
<1>2. Driven(Prefix(r, k))
  BY <1>1, DrivenAbove
<1> QED BY <1>2, PrefixSteps DEF Driven

(* Of two tasks one is above the other, or their paths part at some role.  *)
Branch(r, t, k) == IF k <= Len(r) THEN r[k] ELSE t

LEMMA SamePrefix ==
  ASSUME ConstantsOK, NEW r \in Roles, NEW q \in Roles, NEW k \in Nat, k <= Len(r), k <= Len(q),
         \A i \in 1 .. k : r[i] = q[i]
  PROVE  Prefix(r, k) = Prefix(q, k)
<1>1. /\ r \in Seq(Tasks) /\ q \in Seq(Tasks) /\ Len(r) \in Nat /\ Len(q) \in Nat
      /\ k \in 0 .. Len(r) /\ k \in 0 .. Len(q)
  BY RolesAreSeqs
<1>2. /\ Len(Prefix(r, k)) = k /\ Len(Prefix(q, k)) = k
      /\ \A i \in 1 .. k : Prefix(r, k)[i] = r[i] /\ Prefix(q, k)[i] = q[i]
      /\ Prefix(r, k) \in Roles /\ Prefix(q, k) \in Roles
  BY <1>1, PrefixFacts
<1>3. Prefix(r, k) \in Seq(Tasks) /\ Prefix(q, k) \in Seq(Tasks)
  BY <1>2, RolesAreSeqs
<1>4. \A i \in 1 .. k : Prefix(r, k)[i] = Prefix(q, k)[i]
  BY <1>2
<1> QED BY <1>2, <1>3, <1>4

LEMMA Fork ==
  ASSUME ConstantsOK, NEW r \in Roles, NEW t \in Tasks, NEW q \in Roles, NEW u \in Tasks,
         <<r, t>> # <<q, u>>
  PROVE  \/ \E k \in 1 .. Len(q) : Prefix(q, k - 1) = r /\ q[k] = t
         \/ \E k \in 1 .. Len(r) : Prefix(r, k - 1) = q /\ r[k] = u
         \/ \E k \in 1 .. Len(r) + 1 : /\ k <= Len(q) + 1 /\ Prefix(r, k - 1) = Prefix(q, k - 1)
                                       /\ Branch(r, t, k) # Branch(q, u, k)
<1> DEFINE S == {k \in 1 .. Len(r) + 1 : k <= Len(q) + 1 /\ Branch(r, t, k) # Branch(q, u, k)}
<1>1. Len(r) \in Nat /\ Len(q) \in Nat /\ r \in Seq(Tasks) /\ q \in Seq(Tasks)
  BY RolesAreSeqs
<1>2. CASE S # {}
  <2>1. Len(r) + 1 \in Nat /\ S \subseteq 1 .. Len(r) + 1
    BY <1>1
  <2>2. PICK m \in S : \A v \in S : m <= v
    BY <1>2, <2>1, Least
  <2>3. m - 1 \in Nat /\ m - 1 <= Len(r) /\ m - 1 <= Len(q)
    BY <1>1, <2>2
  <2>4. ASSUME NEW i \in 1 .. m - 1 PROVE r[i] = q[i]
    <3>1. i \notin S /\ i \in 1 .. Len(r) + 1 /\ i <= Len(q) + 1
      BY <1>1, <2>2, <2>3
    <3>2. i <= Len(r) /\ i <= Len(q)
      BY <1>1, <2>3
    <3> QED BY <3>1, <3>2 DEF Branch
  <2>5. Prefix(r, m - 1) = Prefix(q, m - 1)
    BY <2>3, <2>4, SamePrefix
  <2> QED BY <2>2, <2>5
<1>3. CASE S = {}
  <2>1. \A i \in 1 .. Len(r) + 1 : i <= Len(q) + 1 => Branch(r, t, i) = Branch(q, u, i)
    BY <1>3
  <2>2. CASE Len(r) = Len(q)
    <3>1. \A i \in 1 .. Len(r) : r[i] = q[i]
      BY <1>1, <2>1, <2>2 DEF Branch
    <3>2. r = q
      BY <1>1, <2>2, <3>1
    <3>3. t = u
      BY <1>1, <2>1, <2>2 DEF Branch
    <3> QED BY <3>2, <3>3
  <2>3. CASE Len(r) < Len(q)
    <3>1. \A i \in 1 .. Len(r) : r[i] = q[i]
      BY <1>1, <2>1, <2>3 DEF Branch
    <3>2. Prefix(q, Len(r)) = r
      BY <1>1, <2>3, <3>1, SamePrefix, WholePrefix
    <3>3. q[Len(r) + 1] = t
      BY <1>1, <2>1, <2>3 DEF Branch
    <3>4. Len(r) + 1 \in 1 .. Len(q) /\ (Len(r) + 1) - 1 = Len(r)
      BY <1>1, <2>3
    <3> QED BY <3>2, <3>3, <3>4
  <2>4. CASE Len(q) < Len(r)
    <3>1. \A i \in 1 .. Len(q) : r[i] = q[i]
      BY <1>1, <2>1, <2>4 DEF Branch
    <3>2. Prefix(r, Len(q)) = q
      BY <1>1, <2>4, <3>1, SamePrefix, WholePrefix
    <3>3. r[Len(q) + 1] = u
      BY <1>1, <2>1, <2>4 DEF Branch
    <3>4. Len(q) + 1 \in 1 .. Len(r) /\ (Len(q) + 1) - 1 = Len(q)
      BY <1>1, <2>4
    <3> QED BY <3>2, <3>3, <3>4
  <2> QED BY <1>1, <2>2, <2>3, <2>4
<1> QED BY <1>2, <1>3

LEMMA BranchAtWork ==
  ASSUME ConstantsOK, ActiveOK, NEW r \in Roles, NEW t \in Tasks, phase[r][t] \in AtWork,
         NEW k \in 1 .. Len(r) + 1
  PROVE  Prefix(r, k - 1) \in Roles /\ Branch(r, t, k) \in Tasks /\ phase[Prefix(r, k - 1)][Branch(r, t, k)] \in AtWork
<1>1. Len(r) \in Nat /\ Driven(r)
  BY RolesAreSeqs DEF ActiveOK
<1>2. CASE k <= Len(r)
  BY <1>1, <1>2, CallsAbove, PrefixSteps DEF Branch, AtWork
<1>3. CASE k = Len(r) + 1
  BY <1>1, <1>3, WholePrefix DEF Branch
<1> QED BY <1>1, <1>2, <1>3

LEMMA WriterAlone ==
  ASSUME ConstantsOK, TreeInv, plan[Root].declared \/ Serial(Root),
         NEW r \in Roles, NEW t \in Tasks, t \in Planned(r), phase[r][t] = "exec", Tool(r, t) = "write",
         NEW q \in Roles, NEW u \in Tasks, phase[q][u] = "exec", <<r, t>> # <<q, u>>
  PROVE  FALSE
<1> USE DEF TreeInv
<1>1. /\ ShapesOK /\ CalleesOK /\ SafeOK /\ WavesOK /\ ActiveOK
      /\ phase[r][t] \in AtWork /\ phase[q][u] \in AtWork
  BY DEF SInv, WInv, AtWork
<1>2. Driven(r) /\ Driven(q) /\ node[r] = "execute"
  BY <1>1 DEF ActiveOK
<1>3. ~\E k \in 1 .. Len(q) : Prefix(q, k - 1) = r /\ q[k] = t
  BY <1>1, <1>2, CallsAbove
<1>4. ~\E k \in 1 .. Len(r) : Prefix(r, k - 1) = q /\ r[k] = u
  BY <1>1, <1>2, CallsAbove
<1>5. PICK k \in 1 .. Len(r) + 1 : /\ k <= Len(q) + 1 /\ Prefix(r, k - 1) = Prefix(q, k - 1)
                                   /\ Branch(r, t, k) # Branch(q, u, k)
  BY <1>3, <1>4, Fork
<1> DEFINE a == Prefix(r, k - 1)
           i == Branch(r, t, k)
           j == Branch(q, u, k)
<1>6. a \in Roles /\ i \in Tasks /\ phase[a][i] \in AtWork
  BY <1>1, BranchAtWork
<1>7. j \in Tasks /\ phase[a][j] \in AtWork
  <2>1. k \in 1 .. Len(q) + 1
    BY <1>5, RolesAreSeqs
  <2> QED BY <1>1, <1>5, <2>1, BranchAtWork
<1>8. ParallelSafe(a, i)
  BY <1>1, <1>5, <1>6, <1>7 DEF WavesOK, AtWork
<1>9. CASE k = Len(r) + 1
  <2>1. a = r /\ i = t
    BY <1>9, RolesAreSeqs, WholePrefix DEF Branch
  <2> QED BY <1>8, <2>1 DEF ParallelSafe, ReadOnlyDelegates, ConstantsOK
<1>10. CASE k # Len(r) + 1
  <2>1. Len(r) \in Nat /\ k \in 1 .. Len(r) /\ k \in 0 .. Len(r)
    BY <1>10, RolesAreSeqs
  <2>2. Child(a, i) = Prefix(r, k) /\ Prefix(r, k) \in Roles /\ node[Prefix(r, k)] # "absent"
    BY <1>1, <1>2, <2>1, PrefixSteps, PrefixFacts, Ancestors DEF Branch
  <2>3. Tool(a, i) = agent[Prefix(r, k)] /\ agent[Prefix(r, k)] \in Agents
    BY <1>1, <1>6, <2>2 DEF CalleesOK, IInv, Types
  <2>4. agent[Prefix(r, k)] \in ReadOnlyDelegates
    BY <1>8, <2>3 DEF ParallelSafe, ConstantsOK
  <2>5. "write" \notin Allowed[agent[r]]
    BY <1>1, <1>2, <2>1, <2>4 DEF SafeOK
  <2>6. ToolAllowed(agent[r], "write")
    BY <1>1 DEF ShapesOK
  <2> QED BY <2>5, <2>6 DEF ToolAllowed, ConstantsOK
<1> QED BY <1>9, <1>10

(* However many roles work at once, whatever plans they were given: a tool *)
(* that may write runs while no other tool of the run does, so that no     *)
(* step reads a workspace that another one is changing.  The classification*)
(* read_only_delegates makes of the agents is enough for it, although it   *)
(* looks at their lists of tools and not at their plans.                   *)
THEOREM WriterIsAloneTheorem == Spec => []WriterIsAlone
<1>1. TreeInv => WriterIsAlone
  <2> SUFFICES ASSUME TreeInv, plan[Root].declared \/ Serial(Root),
                      NEW x \in RunningTools, Tool(x[1], x[2]) = "write", NEW y \in RunningTools
               PROVE  y = x
    BY DEF WriterIsAlone
  <2>1. /\ x \in Roles \X Tasks /\ x[2] \in Planned(x[1]) /\ phase[x[1]][x[2]] = "exec"
        /\ y \in Roles \X Tasks /\ phase[y[1]][y[2]] = "exec"
    BY DEF RunningTools, AllTasks
  <2>2. <<x[1], x[2]>> = <<y[1], y[2]>>
    BY <2>1, WriterAlone, ConstantsOK
  <2> QED BY <2>1, <2>2
<1> QED BY <1>1, TreeInvariant, PTL

-----------------------------------------------------------------------------
(* Results and rows. *)

(* A result is behind the results it depends on. *)
ResultsOK ==
  \A r \in Roles :
    /\ node[r] \in Planning => \A t \in Tasks : result[r][t] = "none"
    /\ \A t \in Planned(r) :
         /\ phase[r][t] # "idle" => \A d \in Deps(r, t) : result[r][d] = "ok"
         /\ result[r][t] \in {"ok", "bad"} => \A d \in Deps(r, t) : result[r][d] = "ok"
         /\ result[r][t] = "blocked" => \E d \in Deps(r, t) : result[r][d] \in {"bad", "blocked"}
         /\ node[r] \in {"summarize", "done"} /\ plan[r].declared => result[r][t] # "none"

(* A row says completed for a good result, and for no other. *)
Begun == {"running", "waiting", "completed"}
RowsOK ==
  run \in {"running", "waiting"} =>
    \A r \in Roles : \A t \in Planned(r) :
      /\ result[r][t] = "ok" => row[r][t] = "completed"
      /\ row[r][t] = "completed" => result[r][t] = "ok" \/ phase[r][t] = "ok"
      /\ row[r][t] \in Begun => \A d \in Deps(r, t) : row[r][d] = "completed"

RInv == ResultsOK /\ RowsOK

LEMMA ResultsStay ==
  ASSUME ResultsOK, UNCHANGED <<plan, result>>,
         \A r \in Roles : /\ node'[r] \in Planning => node[r] \in Planning
                          /\ node'[r] \in {"summarize", "done"} => node[r] \in {"summarize", "done"},
         \A r \in Roles, t \in Tasks : phase'[r][t] # "idle" => phase[r][t] # "idle",
         ShapesOK
  PROVE  ResultsOK'
<1> SUFFICES ASSUME NEW r \in Roles
             PROVE  /\ node'[r] \in Planning => \A t \in Tasks : result'[r][t] = "none"
                    /\ \A t \in Planned(r)' :
                         /\ phase'[r][t] # "idle" => \A d \in Deps(r, t)' : result'[r][d] = "ok"
                         /\ result'[r][t] \in {"ok", "bad"} => \A d \in Deps(r, t)' : result'[r][d] = "ok"
                         /\ result'[r][t] = "blocked" => \E d \in Deps(r, t)' : result'[r][d] \in {"bad", "blocked"}
                         /\ node'[r] \in {"summarize", "done"} /\ plan'[r].declared => result'[r][t] # "none"
  BY DEF ResultsOK
<1>1. Planned(r)' = Planned(r) /\ Planned(r) \subseteq Tasks /\ \A t : Deps(r, t)' = Deps(r, t)
  BY SamePlans DEF ShapesOK
<1> QED BY <1>1 DEF ResultsOK

LEMMA MildResults == ASSUME ShapesOK, ResultsOK, Mild PROVE ResultsOK'
<1>1. \A r \in Roles : /\ node'[r] \in Planning => node[r] \in Planning
                       /\ node'[r] \in {"summarize", "done"} => node[r] \in {"summarize", "done"}
  BY DEF Mild, Moves, Planning
<1>2. \A r \in Roles, t \in Tasks : phase'[r][t] # "idle" => phase[r][t] # "idle"
  BY DEF Mild, Proceeds
<1> QED BY <1>1, <1>2, ResultsStay DEF Mild

LEMMA MakePlanResults ==
  ASSUME Types, PhasesOK, ResultsOK, NEW r \in Roles, MakePlan(r), SInv' PROVE ResultsOK'
<1>1. /\ node[r] = "plan" /\ node' = [node EXCEPT ![r] = "clarify"] /\ UNCHANGED <<result, phase>>
      /\ \E p : plan' = [plan EXCEPT ![r] = p]
  BY DEF MakePlan, At
<1>2. \A t \in Tasks : result[r][t] = "none" /\ phase[r][t] = "idle"
  BY <1>1 DEF ResultsOK, Planning, PhasesOK
<1> SUFFICES ASSUME NEW x \in Roles
             PROVE  /\ node'[x] \in Planning => \A t \in Tasks : result'[x][t] = "none"
                    /\ \A t \in Planned(x)' :
                         /\ phase'[x][t] # "idle" => \A d \in Deps(x, t)' : result'[x][d] = "ok"
                         /\ result'[x][t] \in {"ok", "bad"} => \A d \in Deps(x, t)' : result'[x][d] = "ok"
                         /\ result'[x][t] = "blocked" => \E d \in Deps(x, t)' : result'[x][d] \in {"bad", "blocked"}
                         /\ node'[x] \in {"summarize", "done"} /\ plan'[x].declared => result'[x][t] # "none"
  BY DEF ResultsOK
<1>3. CASE x = r
  <2>1. Planned(r)' \subseteq Tasks /\ node'[r] = "clarify"
    BY <1>1 DEF SInv, ShapesOK, Types
  <2> QED BY <1>1, <1>2, <1>3, <2>1
<1>4. CASE x # r
  <2>1. /\ Planned(x)' = Planned(x) /\ plan'[x] = plan[x] /\ node'[x] = node[x]
        /\ \A t : Deps(x, t)' = Deps(x, t)
    BY <1>1, <1>4 DEF Planned, Size, Deps, Types
  <2> QED BY <1>1, <1>4, <2>1 DEF ResultsOK
<1> QED BY <1>3, <1>4

(* A task is blocked when something it depends on is lost or blocked. *)
LEMMA BlockedBehind ==
  ASSUME NEW r \in Roles, NEW t \in Blocked(r)
  PROVE  Deps(r, t) \cap (Lost(r) \cup Blocked(r)) # {}
<1> SUFFICES ASSUME Deps(r, t) \cap (Lost(r) \cup Blocked(r)) = {} PROVE FALSE
  OBVIOUS
<1> DEFINE B == Blocked(r) \ {t}
<1>1. ClosedUnderFailure(r, Blocked(r))
  <2> SUFFICES ASSUME NEW u \in Open(r), Deps(r, u) \cap (Lost(r) \cup Blocked(r)) # {}
               PROVE  u \in Blocked(r)
    BY DEF ClosedUnderFailure
  <2> SUFFICES ASSUME NEW S \in SUBSET Open(r), ClosedUnderFailure(r, S) PROVE u \in S
    BY DEF Blocked
  <2>1. Blocked(r) \subseteq S
    BY DEF Blocked
  <2> QED BY <2>1 DEF ClosedUnderFailure
<1>2. ClosedUnderFailure(r, B)
  <2> SUFFICES ASSUME NEW u \in Open(r), Deps(r, u) \cap (Lost(r) \cup B) # {}
               PROVE  u \in B
    BY DEF ClosedUnderFailure
  <2>1. u \in Blocked(r)
    BY <1>1 DEF ClosedUnderFailure
  <2>2. u # t
    OBVIOUS
  <2> QED BY <2>1, <2>2
<1>3. B \in SUBSET Open(r)
  BY DEF Blocked
<1> HIDE DEF B
<1>4. t \in B
  BY <1>2, <1>3 DEF Blocked
<1> QED BY <1>4 DEF B

(* What dispatch makes of the results, and whom it sends. *)
LEMMA SendResults ==
  ASSUME ConstantsOK, Types, ShapesOK, PhasesOK, ResultsOK, NEW r \in Roles,
         At(r, "dispatch"), Send(r)
  PROVE  ResultsOK'
<1> DEFINE lost == IF plan[r].declared THEN Blocked(r) ELSE {}
<1>1. /\ node[r] = "dispatch" /\ UNCHANGED <<agent, plan>>
      /\ result' = [result EXCEPT ![r] =
                      [t \in Tasks |-> IF t \in lost THEN "blocked" ELSE result[r][t]]]
      /\ node' = [node EXCEPT ![r] = IF Exhausted(r) THEN "summarize" ELSE "execute"]
  BY DEF At, Send, Block
<1>2. \A t \in Tasks : phase[r][t] = "idle"
  BY <1>1 DEF PhasesOK
<1>3. \A t \in Tasks : phase'[r][t] # "idle" => ~Exhausted(r) /\ t \in NextWave(r)
  BY <1>2 DEF Send, Types
<1>4. \A x \in Roles : x # r => node'[x] = node[x] /\ result'[x] = result[x] /\ phase'[x] = phase[x]
  <2>1. \A x \in Roles : x # r => node'[x] = node[x] /\ result'[x] = result[x]
    BY <1>1 DEF Types
  <2>2. \A x \in Roles : x # r => phase'[x] = phase[x]
    BY DEF Send, Types
  <2> QED BY <2>1, <2>2
<1>5. /\ Planned(r) \subseteq Tasks /\ \A t \in Planned(r) : Deps(r, t) \subseteq Planned(r)
      /\ Open(r) \subseteq Planned(r) /\ lost \subseteq Open(r)
  BY DEF ShapesOK, Open, Blocked
<1>6. \A t \in Planned(r) : result'[r][t] = IF t \in lost THEN "blocked" ELSE result[r][t]
  BY <1>1, <1>5 DEF Types
<1>7. \A t \in lost : result[r][t] = "none"
  BY <1>5 DEF Open
<1>8. \A t \in lost : \E d \in Deps(r, t) : result'[r][d] \in {"bad", "blocked"}
  <2> SUFFICES ASSUME NEW t \in lost PROVE \E d \in Deps(r, t) : result'[r][d] \in {"bad", "blocked"}
    OBVIOUS
  <2>1. t \in Blocked(r) /\ lost = Blocked(r)
    OBVIOUS
  <2>2. PICK d \in Deps(r, t) : d \in Lost(r) \cup Blocked(r)
    BY <2>1, BlockedBehind
  <2> QED BY <1>6, <2>1, <2>2, <1>5 DEF Lost
<1>9. \A t \in NextWave(r) : t \notin lost /\ \A d \in Deps(r, t) : result'[r][d] = "ok"
  <2> SUFFICES ASSUME NEW t \in NextWave(r)
               PROVE  t \notin lost /\ \A d \in Deps(r, t) : result'[r][d] = "ok"
    OBVIOUS
  <2>1. t \in Open(r) /\ t \notin lost
    BY WaveIsOpen
  <2>2. CASE plan[r].declared
    <3>1. t \in Ready(r)
      BY <2>2 DEF NextWave, Wave
    <3> QED BY <1>5, <1>6, <1>7, <2>1, <3>1 DEF Ready
  <2>3. CASE ~plan[r].declared
    BY <1>5, <2>1, <2>3 DEF ShapesOK
  <2> QED BY <2>1, <2>2, <2>3
<1>10. ASSUME Exhausted(r), plan[r].declared, NEW t \in Planned(r) PROVE result'[r][t] # "none"
  BY <1>6, <1>10 DEF Exhausted, Open
<1> HIDE DEF lost
<1> SUFFICES ASSUME NEW x \in Roles
             PROVE  /\ node'[x] \in Planning => \A t \in Tasks : result'[x][t] = "none"
                    /\ \A t \in Planned(x)' :
                         /\ phase'[x][t] # "idle" => \A d \in Deps(x, t)' : result'[x][d] = "ok"
                         /\ result'[x][t] \in {"ok", "bad"} => \A d \in Deps(x, t)' : result'[x][d] = "ok"
                         /\ result'[x][t] = "blocked" => \E d \in Deps(x, t)' : result'[x][d] \in {"bad", "blocked"}
                         /\ node'[x] \in {"summarize", "done"} /\ plan'[x].declared => result'[x][t] # "none"
  BY DEF ResultsOK
<1>11. /\ Planned(x)' = Planned(x) /\ plan'[x] = plan[x]
       /\ \A t : Deps(x, t)' = Deps(x, t)
  BY <1>1, SamePlans
<1>12. CASE x = r
  <2>1. node'[r] \in {"summarize", "execute"} /\ (node'[r] = "summarize" => Exhausted(r))
    BY <1>1 DEF Types
  <2>2. ASSUME NEW t \in Planned(r)
        PROVE  /\ phase'[r][t] # "idle" => \A d \in Deps(r, t) : result'[r][d] = "ok"
               /\ result'[r][t] \in {"ok", "bad"} => \A d \in Deps(r, t) : result'[r][d] = "ok"
               /\ result'[r][t] = "blocked" => \E d \in Deps(r, t) : result'[r][d] \in {"bad", "blocked"}
    <3>1. phase'[r][t] # "idle" => \A d \in Deps(r, t) : result'[r][d] = "ok"
      BY <1>3, <1>5, <1>9, <2>2
    <3>2. ASSUME result'[r][t] \in {"ok", "bad"} PROVE \A d \in Deps(r, t) : result'[r][d] = "ok"
      <4>1. result[r][t] \in {"ok", "bad"}
        BY <1>6, <2>2, <3>2
      <4>2. \A d \in Deps(r, t) : result[r][d] = "ok" /\ d \in Planned(r)
        BY <1>5, <2>2, <4>1 DEF ResultsOK
      <4> QED BY <1>6, <1>7, <4>2
    <3>3. ASSUME result'[r][t] = "blocked"
          PROVE  \E d \in Deps(r, t) : result'[r][d] \in {"bad", "blocked"}
      <4>1. CASE t \in lost
        BY <1>8, <4>1
      <4>2. CASE t \notin lost
        <5>1. PICK d \in Deps(r, t) : result[r][d] \in {"bad", "blocked"}
          BY <1>6, <2>2, <3>3, <4>2 DEF ResultsOK
        <5> QED BY <1>5, <1>6, <2>2, <5>1
      <4> QED BY <4>1, <4>2
    <3> QED BY <3>1, <3>2, <3>3
  <2> QED BY <1>10, <1>11, <1>12, <2>1, <2>2 DEF Planning
<1>13. CASE x # r
  BY <1>4, <1>11, <1>13 DEF ResultsOK
<1> QED BY <1>12, <1>13

LEMMA EndWaveResults ==
  ASSUME ConstantsOK, Types, WaveOK, ShapesOK, ResultsOK, NEW r \in Roles, EndWave(r)
  PROVE  ResultsOK'
<1>1. /\ node[r] = "execute" /\ node' = [node EXCEPT ![r] = "dispatch"] /\ UNCHANGED plan
      /\ result' = [result EXCEPT ![r] = Merged(r)]
      /\ phase' = [phase EXCEPT ![r] = [t \in Tasks |-> "idle"]]
  BY DEF EndWave, Executing
<1>2. /\ Planned(r) \subseteq Tasks /\ \A t \in Planned(r) : Deps(r, t) \subseteq Planned(r)
  BY DEF ShapesOK
<1>3. \A t \in Planned(r) : result'[r][t] = IF phase[r][t] \in {"ok", "bad"} THEN phase[r][t] ELSE result[r][t]
  BY <1>1, <1>2 DEF Types, Merged
<1>4. \A t \in Planned(r) : phase[r][t] # "idle" => result[r][t] = "none"
  BY <1>1, <1>2 DEF WaveOK
<1>5. \A t \in Planned(r) : result[r][t] # "none" => result'[r][t] = result[r][t]
  BY <1>3, <1>4
<1> SUFFICES ASSUME NEW x \in Roles
             PROVE  /\ node'[x] \in Planning => \A t \in Tasks : result'[x][t] = "none"
                    /\ \A t \in Planned(x)' :
                         /\ phase'[x][t] # "idle" => \A d \in Deps(x, t)' : result'[x][d] = "ok"
                         /\ result'[x][t] \in {"ok", "bad"} => \A d \in Deps(x, t)' : result'[x][d] = "ok"
                         /\ result'[x][t] = "blocked" => \E d \in Deps(x, t)' : result'[x][d] \in {"bad", "blocked"}
                         /\ node'[x] \in {"summarize", "done"} /\ plan'[x].declared => result'[x][t] # "none"
  BY DEF ResultsOK
<1>6. /\ Planned(x)' = Planned(x) /\ plan'[x] = plan[x]
      /\ \A t : Deps(x, t)' = Deps(x, t)
  BY <1>1, SamePlans
<1>7. CASE x = r
  <2>1. node'[r] = "dispatch" /\ \A t \in Planned(r) : phase'[r][t] = "idle"
    BY <1>1, <1>2 DEF Types
  <2>2. ASSUME NEW t \in Planned(r)
        PROVE  /\ result'[r][t] \in {"ok", "bad"} => \A d \in Deps(r, t) : result'[r][d] = "ok"
               /\ result'[r][t] = "blocked" => \E d \in Deps(r, t) : result'[r][d] \in {"bad", "blocked"}
    <3>1. ASSUME result'[r][t] \in {"ok", "bad"} PROVE \A d \in Deps(r, t) : result'[r][d] = "ok"
      <4>1. result[r][t] \in {"ok", "bad"} \/ phase[r][t] # "idle"
        BY <1>3, <2>2, <3>1
      <4>2. \A d \in Deps(r, t) : result[r][d] = "ok" /\ d \in Planned(r)
        BY <1>2, <2>2, <4>1 DEF ResultsOK
      <4> QED BY <1>5, <4>2
    <3>2. ASSUME result'[r][t] = "blocked"
          PROVE  \E d \in Deps(r, t) : result'[r][d] \in {"bad", "blocked"}
      <4>1. result[r][t] = "blocked"
        BY <1>3, <2>2, <3>2
      <4>2. PICK d \in Deps(r, t) : result[r][d] \in {"bad", "blocked"}
        BY <2>2, <4>1 DEF ResultsOK
      <4> QED BY <1>2, <1>5, <2>2, <4>2
    <3> QED BY <3>1, <3>2
  <2> QED BY <1>6, <1>7, <2>1, <2>2 DEF Planning
<1>8. CASE x # r
  BY <1>1, <1>6, <1>8 DEF ResultsOK, Types
<1> QED BY <1>7, <1>8

LEMMA StepResults ==
  ASSUME ConstantsOK, IInv, SInv, SInv', PhasesOK, ResultsOK, NEW r \in Roles, Step(r)
  PROVE  ResultsOK'
<1>0. Types /\ ShapesOK
  BY DEF IInv, SInv
<1>1. CASE MakePlan(r)
  BY <1>0, <1>1, MakePlanResults
<1>2. CASE RefusePlan(r)
  BY <1>0, <1>2, LeaveMild, MildResults DEF RefusePlan, At
<1>3. CASE PlannerFails(r)
  BY <1>0, <1>3, LeaveMild, MildResults DEF PlannerFails, At
<1>4. CASE Clarify(r)
  BY <1>0, <1>4, ClarifyMild, MildResults
<1>5. CASE AskUser(r)
  BY <1>0, <1>5, PauseMild, MildResults DEF AskUser, At
<1>6. CASE Dispatch(r)
  <2>1. CASE DeadEnd(r)
    BY <1>0, <1>6, <2>1, LeaveMild, MildResults DEF Dispatch, At
  <2>2. CASE ~DeadEnd(r)
    BY <1>0, <1>6, <2>2, SendResults DEF Dispatch, SInv
  <2> QED BY <2>1, <2>2
<1>7. CASE EndWave(r)
  BY <1>0, <1>7, EndWaveResults DEF IInv
<1>8. CASE PauseWave(r)
  BY <1>0, <1>8, PauseMild, MildResults DEF PauseWave, Executing
<1>9. CASE RaiseWave(r)
  BY <1>0, <1>9, LeaveMild, MildResults DEF RaiseWave, Executing
<1>10. CASE StopNode(r)
  BY <1>0, <1>10, LeaveMild, MildResults DEF StopNode
<1>11. CASE Summarize(r)
  <2>1. PICK outcome \in {"ok", "bad"} : Leave(r, outcome)
    BY <1>11 DEF Summarize
  <2>2. Driven(r) /\ node[r] = "summarize"
    BY <1>11 DEF Summarize, At
  <2> QED BY <1>0, <2>1, <2>2, LeaveMild, MildResults
<1> QED BY <1>1, <1>2, <1>3, <1>4, <1>5, <1>6, <1>7, <1>8, <1>9, <1>10, <1>11 DEF Step

LEMMA TaskStepResults ==
  ASSUME ConstantsOK, IInv, SInv, ResultsOK, NEW r \in Roles, NEW t \in Tasks, TaskStep(r, t)
  PROVE  ResultsOK'
<1>0. Types /\ ShapesOK
  BY DEF IInv, SInv
<1>1. CASE RunTool(r, t)
  <2>1. /\ phase[r][t] = "sent" /\ phase' = [phase EXCEPT ![r][t] = "exec"]
        /\ UNCHANGED <<node, plan, result>>
    BY <1>1 DEF RunTool, Entering
  <2>2. \A x \in Roles, u \in Tasks : phase'[x][u] # "idle" => phase[x][u] # "idle"
    BY <1>0, <2>1 DEF Types
  <2> QED BY <1>0, <2>1, <2>2, ResultsStay
<1>2. CASE AskApproval(r, t)
  BY <1>0, <1>2, AskApprovalMild, MildResults
<1>3. CASE CallAgent(r, t)
  BY <1>0, <1>3, CallAgentMild, MildResults
<1>4. CASE AskAgain(r, t)
  BY <1>0, <1>4, AskAgainMild, MildResults
<1>5. CASE ResumeAgent(r, t)
  BY <1>0, <1>5, ResumeAgentMild, MildResults
<1>6. CASE ToolReturns(r, t)
  BY <1>0, <1>6, ToolReturnsMild, MildResults
<1>7. CASE RecordResult(r, t)
  BY <1>0, <1>7, StillMild, MildResults DEF RecordResult
<1>8. CASE StopTask(r, t)
  BY <1>0, <1>8, StopTaskMild, MildResults
<1> QED BY <1>1, <1>2, <1>3, <1>4, <1>5, <1>6, <1>7, <1>8 DEF TaskStep

-----------------------------------------------------------------------------
(* A step that runs or ends tasks keeps the completed rows, and begins one *)
(* only for a task whose dependencies have succeeded.                      *)
Keeps(r, t) ==
  /\ row'[r][t] = "completed" <=> row[r][t] = "completed"
  /\ row'[r][t] \in Begun => \/ row[r][t] \in Begun
                             \/ \A d \in Deps(r, t) : result[r][d] = "ok"

LEMMA RowsStay ==
  ASSUME ShapesOK, RowsOK, UNCHANGED <<plan, result>>,
         run' \in {"running", "waiting"} => run \in {"running", "waiting"},
         \A r \in Roles, t \in Tasks : run' \in {"running", "waiting"} => Keeps(r, t),
         \A r \in Roles, t \in Tasks : phase[r][t] = "ok" => phase'[r][t] = "ok"
  PROVE  RowsOK'
<1> SUFFICES ASSUME run' \in {"running", "waiting"}, NEW r \in Roles, NEW t \in Planned(r)'
             PROVE  /\ result'[r][t] = "ok" => row'[r][t] = "completed"
                    /\ row'[r][t] = "completed" => result'[r][t] = "ok" \/ phase'[r][t] = "ok"
                    /\ row'[r][t] \in Begun => \A d \in Deps(r, t)' : row'[r][d] = "completed"
  BY DEF RowsOK
<1>1. /\ t \in Planned(r) /\ t \in Tasks /\ Deps(r, t)' = Deps(r, t)
      /\ \A d \in Deps(r, t) : d \in Planned(r) /\ d \in Tasks
  BY SamePlans DEF ShapesOK
<1>2. /\ result[r][t] = "ok" => row[r][t] = "completed"
      /\ row[r][t] = "completed" => result[r][t] = "ok" \/ phase[r][t] = "ok"
      /\ row[r][t] \in Begun => \A d \in Deps(r, t) : row[r][d] = "completed"
      /\ \A d \in Deps(r, t) : result[r][d] = "ok" => row[r][d] = "completed"
  BY <1>1 DEF RowsOK
<1>3. Keeps(r, t) /\ \A d \in Deps(r, t) : Keeps(r, d)
  BY <1>1
<1> QED BY <1>1, <1>2, <1>3 DEF Keeps

LEMMA RowSame ==
  ASSUME UNCHANGED row PROVE \A r, t : Keeps(r, t)
BY DEF Keeps

LEMMA EnteringKeeps ==
  ASSUME TInv, ShapesOK, ResultsOK, NEW r \in Roles, NEW t \in Tasks, Entering(r, t)
  PROVE  \A x \in Roles, u \in Tasks : Keeps(x, u)
<1>1. /\ phase[r][t] = "sent" /\ t \in Planned(r)
      /\ row' = [row EXCEPT ![r][t] = IF @ \in Settled THEN @ ELSE "running"]
  BY DEF Entering, Started
<1>2. \A d \in Deps(r, t) : result[r][d] = "ok"
  BY <1>1 DEF ResultsOK
<1> SUFFICES ASSUME NEW x \in Roles, NEW u \in Tasks PROVE Keeps(x, u)
  OBVIOUS
<1>3. CASE x = r /\ u = t
  <2>1. row'[r][t] = IF row[r][t] \in Settled THEN row[r][t] ELSE "running"
    BY <1>1 DEF TInv, OtherTypes
  <2> QED BY <1>2, <1>3, <2>1 DEF Keeps, Settled, Begun
<1>4. CASE ~(x = r /\ u = t)
  <2>1. row'[x][u] = row[x][u]
    BY <1>1, <1>4 DEF TInv, OtherTypes
  <2> QED BY <2>1 DEF Keeps
<1> QED BY <1>3, <1>4

LEMMA WaitingKeeps ==
  ASSUME TInv, NEW r \in Roles, row' = WaitForInput(r)
  PROVE  \A x \in Roles, u \in Tasks : Keeps(x, u)
<1> SUFFICES ASSUME NEW x \in Roles, NEW u \in Tasks PROVE Keeps(x, u)
  OBVIOUS
<1>1. row'[x][u] \in {row[x][u], "waiting"} /\ (row'[x][u] # row[x][u] => row[x][u] = "running")
  BY DEF WaitForInput, TInv, OtherTypes
<1> QED BY <1>1 DEF Keeps, Begun

LEMMA EndRunEnds ==
  ASSUME NEW status \in Terminal, EndRun(status) PROVE run' \notin {"running", "waiting"}
BY DEF EndRun, Terminal

LEMMA MildOk ==
  ASSUME Mild PROVE /\ \A r \in Roles, t \in Tasks : phase[r][t] = "ok" => phase'[r][t] = "ok"
                    /\ UNCHANGED <<plan, result>>
BY DEF Mild, Proceeds

LEMMA LeaveRows ==
  ASSUME Types, TInv, ShapesOK, RowsOK, NEW r \in Roles, NEW outcome \in {"ok", "bad", "raised"},
         Driven(r), outcome = "ok" => node[r] = "summarize", Leave(r, outcome)
  PROVE  RowsOK'
<1>1. CASE r = Root
  <2>1. run' \notin {"running", "waiting"}
    BY <1>1, EndRunEnds DEF Leave, Terminal
  <2> QED BY <2>1 DEF RowsOK
<1>2. CASE r # Root
  <2>1. UNCHANGED <<run, row>> /\ Mild
    BY <1>2, LeaveMild DEF Leave
  <2> QED BY <2>1, MildOk, RowSame, RowsStay
<1> QED BY <1>1, <1>2

LEMMA PauseRows ==
  ASSUME Types, TInv, ShapesOK, RowsOK, NEW r \in Roles, NEW item, Driven(r), Pause(r, item)
  PROVE  RowsOK'
<1>1. CASE EndRun("cancelled")
  BY <1>1, EndRunEnds DEF RowsOK, Terminal
<1>2. CASE row' = WaitForInput(r) /\ run' \in {run, "waiting"}
  <2>1. run' \in {"running", "waiting"} => run \in {"running", "waiting"}
    <3>1. CASE r = Root
      BY <3>1 DEF Driven
    <3>2. CASE r # Root
      BY <3>2 DEF Pause
    <3> QED BY <3>1, <3>2
  <2>2. Mild
    BY PauseMild
  <2> QED BY <1>2, <2>1, <2>2, MildOk, WaitingKeeps, RowsStay
<1>3. EndRun("cancelled") \/ (row' = WaitForInput(r) /\ run' \in {run, "waiting"})
  BY DEF Pause
<1> QED BY <1>1, <1>2, <1>3

LEMMA MakePlanRows ==
  ASSUME ConstantsOK, Types, TInv, PhasesOK, ResultsOK, RowsOK, SInv', NEW r \in Roles, MakePlan(r)
  PROVE  RowsOK'
<1>1. /\ node[r] = "plan" /\ UNCHANGED <<run, result, phase>>
      /\ \E p : plan' = [plan EXCEPT ![r] = p]
      /\ \E n : row' = [row EXCEPT ![r] = [t \in Tasks |-> IF t <= n THEN "queued" ELSE "none"]]
  BY DEF MakePlan, At
<1>2. \A t \in Tasks : result[r][t] = "none"
  BY <1>1 DEF ResultsOK, Planning
<1>3. \A t \in Tasks : row'[r][t] \in {"queued", "none"}
  BY <1>1 DEF TInv, OtherTypes
<1> SUFFICES ASSUME run' \in {"running", "waiting"}, NEW x \in Roles, NEW t \in Planned(x)'
             PROVE  /\ result'[x][t] = "ok" => row'[x][t] = "completed"
                    /\ row'[x][t] = "completed" => result'[x][t] = "ok" \/ phase'[x][t] = "ok"
                    /\ row'[x][t] \in Begun => \A d \in Deps(x, t)' : row'[x][d] = "completed"
  BY DEF RowsOK
<1>4. CASE x = r
  <2>1. t \in Tasks
    BY DEF SInv, ShapesOK
  <2> QED BY <1>1, <1>2, <1>3, <1>4, <2>1 DEF Begun
<1>5. CASE x # r
  <2>1. Planned(x)' = Planned(x) /\ Deps(x, t)' = Deps(x, t)
    BY <1>1, <1>5 DEF Planned, Size, Deps, Types
  <2>2. row'[x] = row[x]
    BY <1>1, <1>5 DEF TInv, OtherTypes
  <2> QED BY <1>1, <2>1, <2>2 DEF RowsOK
<1> QED BY <1>4, <1>5

LEMMA SendRows ==
  ASSUME ConstantsOK, Types, TInv, ShapesOK, PhasesOK, RowsOK, NEW r \in Roles,
         At(r, "dispatch"), Send(r)
  PROVE  RowsOK'
<1> DEFINE lost == IF plan[r].declared THEN Blocked(r) ELSE {}
<1>1. /\ node[r] = "dispatch" /\ UNCHANGED <<run, plan>>
      /\ result' = [result EXCEPT ![r] =
                      [t \in Tasks |-> IF t \in lost THEN "blocked" ELSE result[r][t]]]
      /\ row' = [row EXCEPT ![r] = [t \in Tasks |-> IF t \in lost THEN "blocked" ELSE row[r][t]]]
  BY DEF At, Send, Block
<1>2. \A t \in Tasks : phase[r][t] = "idle"
  BY <1>1 DEF PhasesOK
<1>3. \A t \in lost : result[r][t] = "none"
  BY DEF Blocked, Open
<1> HIDE DEF lost
<1>4. \A x \in Roles : x # r => result'[x] = result[x] /\ row'[x] = row[x] /\ phase'[x] = phase[x]
  <2>1. \A x \in Roles : x # r => result'[x] = result[x] /\ row'[x] = row[x]
    BY <1>1 DEF Types, TInv, OtherTypes
  <2>2. \A x \in Roles : x # r => phase'[x] = phase[x]
    BY DEF Send, Types
  <2> QED BY <2>1, <2>2
<1>5. \A t \in Tasks : /\ result'[r][t] = IF t \in lost THEN "blocked" ELSE result[r][t]
                       /\ row'[r][t] = IF t \in lost THEN "blocked" ELSE row[r][t]
  BY <1>1 DEF Types, TInv, OtherTypes
<1> SUFFICES ASSUME run' \in {"running", "waiting"}, NEW x \in Roles, NEW t \in Planned(x)'
             PROVE  /\ result'[x][t] = "ok" => row'[x][t] = "completed"
                    /\ row'[x][t] = "completed" => result'[x][t] = "ok" \/ phase'[x][t] = "ok"
                    /\ row'[x][t] \in Begun => \A d \in Deps(x, t)' : row'[x][d] = "completed"
  BY DEF RowsOK
<1>6. /\ t \in Planned(x) /\ t \in Tasks /\ Deps(x, t)' = Deps(x, t)
      /\ \A d \in Deps(x, t) : d \in Planned(x) /\ d \in Tasks
  BY <1>1, SamePlans DEF ShapesOK
<1>7. \A u \in Planned(x) : /\ result[x][u] = "ok" => row[x][u] = "completed"
                            /\ row[x][u] = "completed" => result[x][u] = "ok" \/ phase[x][u] = "ok"
                            /\ row[x][u] \in Begun => \A d \in Deps(x, u) : row[x][d] = "completed"
  BY <1>1 DEF RowsOK
<1>8. CASE x = r
  <2>1. \A u \in Planned(r) : u \in Tasks => (row[r][u] = "completed" => row'[r][u] = "completed")
    BY <1>2, <1>3, <1>5, <1>7, <1>8
  <2>2. row'[r][t] \in Begun => row[r][t] \in Begun
    BY <1>5, <1>6, <1>8 DEF Begun
  <2> QED BY <1>2, <1>5, <1>6, <1>7, <1>8, <2>1, <2>2
<1>9. CASE x # r
  BY <1>4, <1>6, <1>7, <1>9
<1> QED BY <1>8, <1>9

LEMMA EndWaveRows ==
  ASSUME ConstantsOK, Types, WaveOK, ShapesOK, RowsOK, NEW r \in Roles, EndWave(r)
  PROVE  RowsOK'
<1>1. /\ node[r] = "execute" /\ UNCHANGED <<run, plan, row>>
      /\ result' = [result EXCEPT ![r] = Merged(r)]
      /\ phase' = [phase EXCEPT ![r] = [t \in Tasks |-> "idle"]]
      /\ Recorded(r)
  BY DEF EndWave, Executing
<1>2. \A x \in Roles : x # r => result'[x] = result[x] /\ phase'[x] = phase[x]
  BY <1>1 DEF Types
<1>3. \A t \in Tasks : /\ result'[r][t] = IF phase[r][t] \in {"ok", "bad"} THEN phase[r][t] ELSE result[r][t]
                       /\ phase[r][t] # "idle" => result[r][t] = "none"
  BY <1>1 DEF Types, Merged, WaveOK
<1>4. \A t \in Planned(r) : phase[r][t] = "ok" => row[r][t] = "completed"
  BY <1>1 DEF Recorded, InWave, Outcome
<1> SUFFICES ASSUME run' \in {"running", "waiting"}, NEW x \in Roles, NEW t \in Planned(x)'
             PROVE  /\ result'[x][t] = "ok" => row'[x][t] = "completed"
                    /\ row'[x][t] = "completed" => result'[x][t] = "ok" \/ phase'[x][t] = "ok"
                    /\ row'[x][t] \in Begun => \A d \in Deps(x, t)' : row'[x][d] = "completed"
  BY DEF RowsOK
<1>5. t \in Planned(x) /\ t \in Tasks /\ Deps(x, t)' = Deps(x, t)
  BY <1>1, SamePlans DEF ShapesOK
<1>6. /\ result[x][t] = "ok" => row[x][t] = "completed"
      /\ row[x][t] = "completed" => result[x][t] = "ok" \/ phase[x][t] = "ok"
      /\ row[x][t] \in Begun => \A d \in Deps(x, t) : row[x][d] = "completed"
  BY <1>1, <1>5 DEF RowsOK
<1>7. CASE x = r
  BY <1>1, <1>3, <1>4, <1>5, <1>6, <1>7
<1>8. CASE x # r
  BY <1>1, <1>2, <1>5, <1>6, <1>8
<1> QED BY <1>7, <1>8

LEMMA RecordRows ==
  ASSUME ConstantsOK, TInv, WaveOK, ShapesOK, ResultsOK, RowsOK, NEW r \in Roles, NEW t \in Tasks,
         RecordResult(r, t)
  PROVE  RowsOK'
<1>1. /\ node[r] = "execute" /\ t \in Planned(r) /\ phase[r][t] \in {"ok", "bad"}
      /\ row' = [row EXCEPT ![r][t] = Outcome(phase[r][t])]
      /\ UNCHANGED <<run, plan, result, phase>>
  BY DEF RecordResult, Executing
<1>2. result[r][t] = "none" /\ \A d \in Deps(r, t) : result[r][d] = "ok"
  BY <1>1 DEF WaveOK, ResultsOK
<1>3. \A x \in Roles, u \in Tasks : ~(x = r /\ u = t) => row'[x][u] = row[x][u]
  BY <1>1 DEF TInv, OtherTypes
<1>4. row'[r][t] = IF phase[r][t] = "ok" THEN "completed" ELSE "failed"
  BY <1>1 DEF TInv, OtherTypes, Outcome
<1> SUFFICES ASSUME run' \in {"running", "waiting"}, NEW x \in Roles, NEW u \in Planned(x)'
             PROVE  /\ result'[x][u] = "ok" => row'[x][u] = "completed"
                    /\ row'[x][u] = "completed" => result'[x][u] = "ok" \/ phase'[x][u] = "ok"
                    /\ row'[x][u] \in Begun => \A d \in Deps(x, u)' : row'[x][d] = "completed"
  BY DEF RowsOK
<1>5. /\ u \in Planned(x) /\ u \in Tasks /\ Deps(x, u)' = Deps(x, u)
      /\ \A d \in Deps(x, u) : d \in Planned(x) /\ d \in Tasks
  BY <1>1, SamePlans DEF ShapesOK
<1>6. \A v \in Planned(x) : /\ result[x][v] = "ok" => row[x][v] = "completed"
                            /\ row[x][v] = "completed" => result[x][v] = "ok" \/ phase[x][v] = "ok"
                            /\ row[x][v] \in Begun => \A d \in Deps(x, v) : row[x][d] = "completed"
  BY <1>1 DEF RowsOK
<1>7. \A v \in Planned(x) : v \in Tasks => (row[x][v] = "completed" => row'[x][v] = "completed")
  BY <1>2, <1>3, <1>4, <1>6
<1>8. row'[x][u] \in Begun => \A d \in Deps(x, u) : row[x][d] = "completed"
  <2>1. CASE x = r /\ u = t
    BY <1>2, <1>5, <1>6, <2>1
  <2>2. CASE ~(x = r /\ u = t)
    BY <1>3, <1>5, <1>6, <2>2
  <2> QED BY <2>1, <2>2
<1>9. result[x][u] = "ok" => row'[x][u] = "completed"
  BY <1>5, <1>6, <1>7
<1>10. row'[x][u] = "completed" => result[x][u] = "ok" \/ phase[x][u] = "ok"
  <2>1. CASE x = r /\ u = t
    BY <1>4, <2>1
  <2>2. CASE ~(x = r /\ u = t)
    BY <1>3, <1>5, <1>6, <2>2
  <2> QED BY <2>1, <2>2
<1> QED BY <1>1, <1>5, <1>7, <1>8, <1>9, <1>10

LEMMA StepRows ==
  ASSUME ConstantsOK, IInv, TInv, SInv, SInv', PhasesOK, RInv, NEW r \in Roles, Step(r)
  PROVE  RowsOK'
<1>0. Types /\ ShapesOK /\ ResultsOK /\ RowsOK
  BY DEF IInv, SInv, RInv
<1>1. CASE MakePlan(r)
  BY <1>0, <1>1, MakePlanRows
<1>2. CASE RefusePlan(r)
  BY <1>0, <1>2, LeaveRows DEF RefusePlan, At
<1>3. CASE PlannerFails(r)
  BY <1>0, <1>3, LeaveRows DEF PlannerFails, At
<1>4. CASE Clarify(r)
  <2>1. Mild /\ UNCHANGED <<run, row>>
    BY <1>0, <1>4, ClarifyMild DEF Clarify
  <2> QED BY <1>0, <2>1, MildOk, RowSame, RowsStay
<1>5. CASE AskUser(r)
  BY <1>0, <1>5, PauseRows DEF AskUser, At
<1>6. CASE Dispatch(r)
  <2>1. CASE DeadEnd(r)
    BY <1>0, <1>6, <2>1, LeaveRows DEF Dispatch, At
  <2>2. CASE ~DeadEnd(r)
    BY <1>0, <1>6, <2>2, SendRows DEF Dispatch
  <2> QED BY <2>1, <2>2
<1>7. CASE EndWave(r)
  BY <1>0, <1>7, EndWaveRows DEF IInv
<1>8. CASE PauseWave(r)
  BY <1>0, <1>8, PauseRows DEF PauseWave, Executing
<1>9. CASE RaiseWave(r)
  BY <1>0, <1>9, LeaveRows DEF RaiseWave, Executing
<1>10. CASE StopNode(r)
  BY <1>0, <1>10, LeaveRows DEF StopNode
<1>11. CASE Summarize(r)
  <2>1. PICK outcome \in {"ok", "bad"} : Leave(r, outcome)
    BY <1>11 DEF Summarize
  <2>2. Driven(r) /\ node[r] = "summarize"
    BY <1>11 DEF Summarize, At
  <2> QED BY <1>0, <2>1, <2>2, LeaveRows
<1> QED BY <1>1, <1>2, <1>3, <1>4, <1>5, <1>6, <1>7, <1>8, <1>9, <1>10, <1>11 DEF Step

LEMMA TaskStepRows ==
  ASSUME ConstantsOK, IInv, TInv, SInv, RInv, NEW r \in Roles, NEW t \in Tasks, TaskStep(r, t)
  PROVE  RowsOK'
<1>0. Types /\ ShapesOK /\ ResultsOK /\ RowsOK
  BY DEF IInv, SInv, RInv
<1>1. CASE RecordResult(r, t)
  BY <1>0, <1>1, RecordRows DEF IInv
<1>2. CASE ToolReturns(r, t) \/ StopTask(r, t)
  <2>1. Mild /\ UNCHANGED <<run, row>>
    BY <1>0, <1>2, ToolReturnsMild, StopTaskMild DEF ToolReturns, StopTask
  <2> QED BY <1>0, <2>1, MildOk, RowSame, RowsStay
<1>3. CASE RunTool(r, t)
  <2>1. /\ Entering(r, t) /\ phase[r][t] = "sent" /\ phase' = [phase EXCEPT ![r][t] = "exec"]
        /\ UNCHANGED <<run, plan, result>>
    BY <1>3 DEF RunTool, Entering
  <2>2. \A x \in Roles, u \in Tasks : phase[x][u] = "ok" => phase'[x][u] = "ok"
    BY <1>0, <2>1 DEF Types
  <2>3. \A x \in Roles, u \in Tasks : Keeps(x, u)
    BY <1>0, <2>1, EnteringKeeps
  <2> QED BY <1>0, <2>1, <2>2, <2>3, RowsStay
<1>4. CASE AskApproval(r, t) \/ CallAgent(r, t) \/ AskAgain(r, t) \/ ResumeAgent(r, t)
  <2>1. Mild
    BY <1>0, <1>4, AskApprovalMild, CallAgentMild, AskAgainMild, ResumeAgentMild
  <2>2. Entering(r, t) /\ UNCHANGED run
    BY <1>4 DEF AskApproval, CallAgent, AskAgain, ResumeAgent
  <2>3. \A x \in Roles, u \in Tasks : Keeps(x, u)
    BY <1>0, <2>2, EnteringKeeps
  <2> QED BY <1>0, <2>1, <2>2, <2>3, MildOk, RowsStay
<1> QED BY <1>1, <1>2, <1>3, <1>4 DEF TaskStep

LEMMA NextRows == ConstantsOK /\ IInv /\ TInv /\ SInv /\ SInv' /\ WInv /\ RInv /\ [Next]_vars => RInv'
<1> SUFFICES ASSUME ConstantsOK, IInv, TInv, SInv, SInv', PhasesOK, RInv, [Next]_vars
             PROVE  ResultsOK' /\ RowsOK'
  BY DEF WInv, RInv
<1>1. Types /\ ShapesOK /\ ResultsOK /\ RowsOK
  BY DEF IInv, SInv, RInv
<1>2. CASE Work
  BY <1>1, <1>2, StepResults, TaskStepResults, StepRows, TaskStepRows DEF Work
<1>3. CASE Respond
  <2>1. /\ Mild /\ UNCHANGED row /\ run = "waiting"
    BY <1>1, <1>3, AnswerMild DEF Respond, Answer
  <2> QED BY <1>1, <2>1, MildResults, MildOk, RowSame, RowsStay
<1>4. CASE Cancel
  <2>1. Mild
    BY <1>1, <1>4, StillMild DEF Cancel
  <2>2. CASE UNCHANGED <<run, row>>
    BY <1>1, <2>1, <2>2, MildResults, MildOk, RowSame, RowsStay
  <2>3. CASE EndRun("cancelled")
    BY <1>1, <2>1, <2>3, MildResults, EndRunEnds DEF RowsOK, Terminal
  <2> QED BY <1>4, <2>2, <2>3 DEF Cancel
<1>5. CASE UNCHANGED vars
  <2>1. Mild /\ UNCHANGED <<run, row>>
    BY <1>1, <1>5, StillMild DEF vars
  <2> QED BY <1>1, <2>1, MildResults, MildOk, RowSame, RowsStay
<1> QED BY <1>2, <1>3, <1>4, <1>5 DEF Next

LEMMA InitRows == ConstantsOK /\ Init => RInv
<1> SUFFICES ASSUME ConstantsOK, Init PROVE RInv
  OBVIOUS
<1>1. \A r \in Roles : Planned(r) = {} /\ \A t \in Tasks : result[r][t] = "none"
  BY DEF Init, Planned, Size, NoPlan
<1> QED BY <1>1 DEF RInv, ResultsOK, RowsOK

RowInv == TreeInv /\ TInv /\ RInv

(* While a run lives, the row of a task says completed for a good result   *)
(* and for no other, after everything the task needed, although rows are   *)
(* written from a stream of events.                                        *)
THEOREM RowInvariant == Spec => []RowInv
<1>1. Init => RowInv
  BY ConstantsOK, InitIInv, InitTree, InitWork, InitTypes, InitRows DEF TreeInv, RowInv
<1>2. RowInv /\ [Next]_vars => RowInv'
  BY ConstantsOK, NextKeeps, NextTree, NextWork, NextTypes, NextRows DEF TreeInv, RowInv
<1> QED BY <1>1, <1>2, PTL DEF Spec

(* No task of a run begins before the rows of everything it depends on say *)
(* completed, although results reach the rows by a stream of their own;    *)
(* and when a plan that declares dependencies is through, a task is blocked*)
(* exactly when something it depends on did not succeed, and every other   *)
(* one was executed.                                                       *)
THEOREM DependenciesTheorem == Spec => []DependenciesDecide
<1>1. RowInv => DependenciesDecide
  <2> SUFFICES ASSUME RowInv PROVE DependenciesDecide
    OBVIOUS
  <2>1. ResultsOK /\ RowsOK /\ ShapesOK /\ Types
    BY DEF RowInv, RInv, TreeInv, SInv, IInv
  <2>2. run \in {"running", "waiting"} =>
          \A x \in AllTasks : row[x[1]][x[2]] \in {"running", "waiting", "completed"} =>
            \A d \in Deps(x[1], x[2]) : row[x[1]][d] = "completed"
    BY <2>1 DEF RowsOK, AllTasks, Begun
  <2>3. ASSUME NEW r \in Roles, node[r] \in {"summarize", "done"}, plan[r].declared, NEW t \in Planned(r)
        PROVE  /\ result[r][t] # "none"
               /\ result[r][t] = "blocked" <=> \E d \in Deps(r, t) : result[r][d] # "ok"
    <3>1. result[r][t] \in Results /\ result[r][t] # "none"
      BY <2>1, <2>3 DEF Types, ResultsOK, ShapesOK
    <3>2. result[r][t] = "blocked" => \E d \in Deps(r, t) : result[r][d] # "ok"
      BY <2>1 DEF ResultsOK
    <3>3. result[r][t] # "blocked" => \A d \in Deps(r, t) : result[r][d] = "ok"
      BY <2>1, <3>1 DEF ResultsOK, Results
    <3> QED BY <3>1, <3>2, <3>3
  <2> QED BY <2>2, <2>3 DEF DependenciesDecide
<1> QED BY <1>1, RowInvariant, PTL

-----------------------------------------------------------------------------
(* Requests, and the responses to them. *)

(* A role that shows a request is not driven, and the request is its own   *)
(* or one of the role behind it.                                           *)
PausedOK ==
  \A r \in Roles :
    pending[r] # NoItem =>
      /\ ~Driven(r) /\ node[r] # "absent"
      /\ pending[r] # 0 => /\ pending[r] \in Planned(r) /\ node[r] \notin Planning
                           /\ Tool(r, pending[r]) \in Agents =>
                                /\ Child(r, pending[r]) \in Roles
                                /\ pending[Child(r, pending[r])] # NoItem
AskingOK ==
  \A r \in Roles, t \in Tasks :
    phase[r][t] = "ask" /\ Tool(r, t) \in Agents =>
      Child(r, t) \in Roles /\ pending[Child(r, t)] # NoItem

(* A response on its way down goes to a request that was granted. *)
Leads(c, d) == /\ Len(c) <= Len(d) /\ Prefix(d, Len(c)) = c /\ pending[d] # NoItem
               /\ \A k \in Len(c) + 1 .. Len(d) : pending[Prefix(d, k - 1)] = d[k]
Asks(d) == pending[d] = 0 \/ Tool(d, pending[d]) \notin Agents
Granted(d) == <<d, pending[d]>> \in consents
AnswersOK ==
  \A c \in Roles : answered[c] = "granted" =>
    c # Root /\ \E d \in Roles : Leads(c, d) /\ Asks(d) /\ Granted(d)

VerdictsOK ==
  \A r \in Roles, t \in Tasks :
    /\ verdict[r][t] = "granted" => <<r, t>> \in consents
    /\ calls[r][t] > 0 /\ NeedsApproval(r, t) => <<r, t>> \in consents

CInv == PausedOK /\ AskingOK /\ AnswersOK /\ VerdictsOK

(* The plan of a role that shows a request, or has a wave, stays.          *)
Kept ==
  /\ \A x \in Roles : pending[x] # NoItem =>
       plan'[x] = plan[x] /\ node'[x] # "absent" /\ (node[x] \notin Planning => node'[x] \notin Planning)
  /\ \A x \in Roles, u \in Tasks : phase[x][u] # "idle" => plan'[x] = plan[x]

LEMMA NextKept ==
  ASSUME ConstantsOK, Types, PhasesOK, PausedOK, [Next]_vars PROVE Kept
<1>1. CASE Calm
  BY <1>1 DEF Calm, Kept, PausedOK
<1>2. ASSUME NEW r \in Roles, MakePlan(r) PROVE Kept
  <2>1. /\ Driven(r) /\ node[r] = "plan" /\ node' = [node EXCEPT ![r] = "clarify"]
        /\ \E p : plan' = [plan EXCEPT ![r] = p]
    BY <1>2 DEF MakePlan, At
  <2>2. pending[r] = NoItem /\ \A u \in Tasks : phase[r][u] = "idle"
    BY <2>1 DEF PausedOK, PhasesOK
  <2>3. \A x \in Roles : x # r => plan'[x] = plan[x] /\ node'[x] = node[x]
    BY <2>1 DEF Types
  <2> QED BY <2>2, <2>3 DEF Kept, PausedOK
<1>3. ASSUME NEW r \in Roles, NEW t \in Tasks, Founds(r, t) PROVE Kept
  <2> DEFINE c == Child(r, t)
  <2>1. c \in Roles /\ node[c] = "absent" /\ node' = [node EXCEPT ![c] = "plan"] /\ UNCHANGED plan
    BY <1>3 DEF Founds
  <2> HIDE DEF c
  <2>2. pending[c] = NoItem
    BY <2>1 DEF PausedOK
  <2>3. \A x \in Roles : x # c => node'[x] = node[x]
    BY <2>1 DEF Types
  <2> QED BY <2>1, <2>2, <2>3 DEF Kept, PausedOK
<1> QED BY <1>1, <1>2, <1>3, NextKinds

LEMMA KeptTool ==
  ASSUME NEW x, plan'[x] = plan[x]
  PROVE  \A u : Planned(x)' = Planned(x) /\ Tool(x, u)' = Tool(x, u)
BY DEF Planned, Size, Tool

(* In a step that clears the request of no role but that of one whose      *)
(* caller goes on, and in which no role with a request is driven.          *)
LEMMA PausedMoves ==
  ASSUME ConstantsOK, TInv, TInv', ShapesOK, PausedOK, AskingOK, Kept,
         \A x \in Roles : pending'[x] # NoItem =>
           \/ pending'[x] = pending[x]
           \/ /\ plan'[x] = plan[x] /\ node'[x] # "absent"
              /\ pending'[x] # 0 => /\ pending'[x] \in Planned(x) /\ node'[x] \notin Planning
                                    /\ phase[x][pending'[x]] = "ask",
         \A x \in Roles : pending'[x] # NoItem => ~Driven(x)',
         \A x \in Roles, u \in Tasks :
           Child(x, u) \in Roles /\ pending[Child(x, u)] # NoItem /\ pending'[Child(x, u)] = NoItem =>
             pending'[x] = NoItem /\ phase'[x][u] # "ask",
         \A x \in Roles, u \in Tasks :
           phase'[x][u] = "ask" => /\ phase[x][u] # "idle"
                                   /\ \/ phase[x][u] = "ask"
                                      \/ Tool(x, u) \notin Agents
                                      \/ Child(x, u) \in Roles /\ pending'[Child(x, u)] # NoItem
  PROVE  PausedOK' /\ AskingOK'
<1>1. ASSUME NEW x \in Roles, NEW t, t = pending'[x], t # NoItem
      PROVE  /\ plan'[x] = plan[x] /\ node'[x] # "absent"
             /\ t # 0 => /\ t \in Planned(x) /\ node'[x] \notin Planning
                         /\ Tool(x, t) \in Agents =>
                              /\ Child(x, t) \in Roles
                              /\ pending'[Child(x, t)] # NoItem
  <2>1. plan'[x] = plan[x] /\ node'[x] # "absent"
    BY <1>1 DEF Kept
  <2>2. ASSUME t # 0 PROVE t \in Planned(x) /\ node'[x] \notin Planning /\ t \in Tasks
    <3>1. t \in Planned(x) /\ node'[x] \notin Planning
      BY <1>1, <2>2 DEF PausedOK, Kept
    <3> QED BY <3>1 DEF ShapesOK
  <2>3. ASSUME t # 0, Tool(x, t) \in Agents
        PROVE  Child(x, t) \in Roles /\ pending[Child(x, t)] # NoItem
    <3>1. CASE t = pending[x]
      BY <1>1, <2>3, <3>1 DEF PausedOK
    <3>2. CASE phase[x][t] = "ask"
      BY <2>2, <2>3, <3>2 DEF AskingOK
    <3> QED BY <1>1, <2>3, <3>1, <3>2
  <2>4. ASSUME t # 0, Tool(x, t) \in Agents PROVE pending'[Child(x, t)] # NoItem
    BY <1>1, <2>2, <2>3, <2>4
  <2> QED BY <2>1, <2>2, <2>3, <2>4
<1>2. PausedOK'
  <2> SUFFICES ASSUME NEW x \in Roles, pending'[x] # NoItem
               PROVE  /\ ~Driven(x)' /\ node'[x] # "absent"
                      /\ pending'[x] # 0 =>
                           /\ pending'[x] \in Planned(x)' /\ node'[x] \notin Planning
                           /\ Tool(x, pending[x])' \in Agents =>
                                /\ Child(x, pending'[x]) \in Roles
                                /\ pending'[Child(x, pending'[x])] # NoItem
    BY DEF PausedOK, Child
  <2>1. plan'[x] = plan[x]
    BY <1>1
  <2>2. Planned(x)' = Planned(x) /\ Tool(x, pending[x])' = Tool(x, pending'[x])
    BY <2>1 DEF Planned, Size, Tool
  <2> QED BY <1>1, <2>2
<1>3. AskingOK'
  <2> SUFFICES ASSUME NEW x \in Roles, NEW u \in Tasks, phase'[x][u] = "ask", Tool(x, u)' \in Agents
               PROVE  Child(x, u) \in Roles /\ pending'[Child(x, u)] # NoItem
    BY DEF AskingOK
  <2>1. Tool(x, u) \in Agents
    BY KeptTool DEF Kept
  <2>2. CASE phase[x][u] = "ask"
    BY <2>1, <2>2 DEF AskingOK
  <2> QED BY <2>1, <2>2
<1> QED BY <1>2, <1>3

LEMMA NotDriven ==
  ASSUME ConstantsOK, PausedOK, run' = "running" => run = "running",
         \A x \in Roles, u \in Tasks :
           phase'[x][u] = "call" => phase[x][u] = "call" \/ pending[Child(x, u)] = NoItem
  PROVE  \A x \in Roles : pending[x] # NoItem => ~Driven(x)'
<1> SUFFICES ASSUME NEW x \in Roles, pending[x] # NoItem, Driven(x)' PROVE FALSE
  OBVIOUS
<1>1. ~Driven(x)
  BY DEF PausedOK
<1>2. CASE x = Root
  BY <1>1, <1>2 DEF Driven
<1>3. CASE x # Root
  BY <1>1, <1>3, CallerFacts DEF Driven
<1> QED BY <1>2, <1>3

(* Steps that leave the requests alone. *)
LEMMA PendingSame ==
  ASSUME ConstantsOK, TInv, TInv', ShapesOK, PausedOK, AskingOK, Kept,
         UNCHANGED pending, run' = "running" => run = "running",
         \A x \in Roles, u \in Tasks :
           \/ phase'[x][u] = phase[x][u] \/ phase'[x][u] \notin {"call", "ask"}
           \/ phase'[x][u] = "call" /\ pending[Child(x, u)] = NoItem
           \/ /\ phase'[x][u] = "ask" /\ phase[x][u] # "idle"
              /\ Tool(x, u) \in Agents => Child(x, u) \in Roles /\ pending[Child(x, u)] # NoItem
  PROVE  PausedOK' /\ AskingOK'
<1>1. \A x \in Roles : pending[x] # NoItem => ~Driven(x)'
  BY NotDriven
<1>2. \A x \in Roles, u \in Tasks :
        phase'[x][u] = "ask" => /\ phase[x][u] # "idle"
                                /\ \/ phase[x][u] = "ask"
                                   \/ Tool(x, u) \notin Agents
                                   \/ Child(x, u) \in Roles /\ pending'[Child(x, u)] # NoItem
  OBVIOUS
<1> QED BY <1>1, <1>2, PausedMoves

(* The role r shows its request, or that of the role behind task item. *)
LEMMA PausePaused ==
  ASSUME ConstantsOK, Types, TInv, TInv', ShapesOK, PausedOK, AskingOK, Kept,
         NEW r \in Roles, NEW item \in 0 .. MaxPlan, Pause(r, item),
         Driven(r), node[r] # "absent",
         item # 0 => item \in Planned(r) /\ phase[r][item] = "ask" /\ node[r] = "execute"
  PROVE  PausedOK' /\ AskingOK' /\ pending[r] = NoItem
<1>1. /\ pending' = [pending EXCEPT ![r] = item] /\ UNCHANGED <<node, plan>>
      /\ IF r = Root THEN UNCHANGED phase /\ run' # "running"
         ELSE UNCHANGED run /\ phase' = [phase EXCEPT ![Caller(r)][CallOf(r)] = "ask"]
  BY DEF Pause, EndRun
<1>2. pending[r] = NoItem
  BY DEF PausedOK
<1>3. pending'[r] = item /\ item # NoItem /\ \A x \in Roles : x # r => pending'[x] = pending[x]
  BY <1>1 DEF TInv, OtherTypes, ConstantsOK
<1>4. \A x \in Roles, u \in Tasks :
        phase'[x][u] = phase[x][u] \/ (Child(x, u) = r /\ phase'[x][u] = "ask" /\ phase[x][u] = "call")
  <2>1. CASE r = Root
    BY <1>1, <2>1
  <2>2. CASE r # Root
    <3>1. PICK a \in Roles, b \in Tasks : /\ phase' = [phase EXCEPT ![a][b] = "ask"]
                                          /\ phase[a][b] = "call" /\ Child(a, b) = r
      BY <1>1, <2>2, CallerFacts DEF Driven
    <3> QED BY <3>1 DEF Types
  <2> QED BY <2>1, <2>2
<1>5. \A x \in Roles : pending[x] # NoItem => ~Driven(x)'
  <2>1. run' = "running" => run = "running"
    BY <1>1
  <2> QED BY <1>4, <2>1, NotDriven
<1>6. ~Driven(r)'
  <2>1. CASE r = Root
    BY <1>1, <2>1 DEF Driven
  <2>2. CASE r # Root
    <3>1. PICK a \in Roles, b \in Tasks : a = Caller(r) /\ b = CallOf(r) /\ phase' = [phase EXCEPT ![a][b] = "ask"]
      BY <1>1, <2>2, CallerFacts
    <3>2. phase'[a][b] = "ask"
      BY <3>1 DEF Types
    <3> QED BY <2>2, <3>1, <3>2 DEF Driven
  <2> QED BY <2>1, <2>2
<1>7. \A x \in Roles : pending'[x] # NoItem => ~Driven(x)'
  BY <1>3, <1>5, <1>6
<1>8. \A x \in Roles, u \in Tasks :
        phase'[x][u] = "ask" => /\ phase[x][u] # "idle"
                                /\ \/ phase[x][u] = "ask"
                                   \/ Tool(x, u) \notin Agents
                                   \/ Child(x, u) \in Roles /\ pending'[Child(x, u)] # NoItem
  BY <1>3, <1>4
<1>9. \A x \in Roles : pending'[x] # NoItem =>
        \/ pending'[x] = pending[x]
        \/ /\ plan'[x] = plan[x] /\ node'[x] # "absent"
           /\ pending'[x] # 0 => /\ pending'[x] \in Planned(x) /\ node'[x] \notin Planning
                                 /\ phase[x][pending'[x]] = "ask"
  BY <1>1, <1>3 DEF Planning
<1>10. \A x \in Roles, u \in Tasks :
         Child(x, u) \in Roles /\ pending[Child(x, u)] # NoItem => pending'[Child(x, u)] # NoItem
  BY <1>2, <1>3
<1> QED BY <1>2, <1>7, <1>8, <1>9, <1>10, PausedMoves

LEMMA ResumePaused ==
  ASSUME ConstantsOK, Types, TInv, TInv', ShapesOK, PausedOK, AskingOK, Kept,
         NEW r \in Roles, NEW t \in Tasks, ResumeAgent(r, t)
  PROVE  PausedOK' /\ AskingOK' /\ pending[r] = NoItem
<1> DEFINE c == Child(r, t)
<1>1. /\ c \in Roles /\ phase[r][t] = "sent" /\ Driven(r)
      /\ pending' = [pending EXCEPT ![c] = NoItem]
      /\ phase' = [phase EXCEPT ![r][t] = "call", ![c] = Resent(c)]
      /\ UNCHANGED run
  BY DEF ResumeAgent, Entering, Executing
<1>2. c # r /\ Caller(c) = r /\ CallOf(c) = t /\ c # Root
  BY ChildFacts, RolesAreSeqs
<1>3. \A x \in Roles, u \in Tasks : Child(x, u) = c => x = r /\ u = t
  BY <1>2, ChildFacts
<1> HIDE DEF c
<1>4. pending[r] = NoItem
  BY <1>1 DEF PausedOK
<1>5. pending'[c] = NoItem /\ pending'[r] = NoItem /\ \A x \in Roles : x # c => pending'[x] = pending[x]
  BY <1>1, <1>2, <1>4 DEF TInv, OtherTypes
<1>6. /\ phase'[r][t] = "call"
      /\ \A x \in Roles, u \in Tasks :
           ~(x = r /\ u = t) => phase'[x][u] = phase[x][u] \/ phase'[x][u] = "sent"
  BY <1>1, <1>2 DEF Types, Resent
<1>7. \A x \in Roles : pending'[x] # NoItem => ~Driven(x)'
  <2> SUFFICES ASSUME NEW x \in Roles, pending'[x] # NoItem, Driven(x)' PROVE FALSE
    OBVIOUS
  <2>1. x # c /\ ~Driven(x)
    BY <1>5 DEF PausedOK
  <2>2. CASE x = Root
    BY <1>1, <2>1, <2>2 DEF Driven
  <2>3. CASE x # Root
    <3>1. /\ Caller(x) \in Roles /\ CallOf(x) \in Tasks /\ ~(Caller(x) = r /\ CallOf(x) = t)
      BY <1>2, <2>1, <2>3, CallerFacts DEF c
    <3> QED BY <1>6, <2>1, <2>3, <3>1 DEF Driven
  <2> QED BY <2>2, <2>3
<1>8. \A x \in Roles, u \in Tasks :
        Child(x, u) \in Roles /\ pending[Child(x, u)] # NoItem /\ pending'[Child(x, u)] = NoItem =>
          pending'[x] = NoItem /\ phase'[x][u] # "ask"
  BY <1>3, <1>5, <1>6
<1>9. \A x \in Roles, u \in Tasks : phase'[x][u] = "ask" => phase[x][u] = "ask"
  BY <1>6
<1>10. \A x \in Roles : pending'[x] # NoItem => pending'[x] = pending[x]
  BY <1>5
<1> QED BY <1>4, <1>7, <1>8, <1>9, <1>10, PausedMoves

LEMMA AnswerPaused ==
  ASSUME ConstantsOK, Types, TInv, TInv', ShapesOK, PausedOK, AskingOK, Kept,
         NEW t, NEW answer, Answer(t, answer)
  PROVE  PausedOK' /\ AskingOK'
<1>1. /\ pending' = [pending EXCEPT ![Root] = NoItem]
      /\ phase' = [phase EXCEPT ![Root] = Resent(Root)]
  BY DEF Answer
<1>2. pending'[Root] = NoItem /\ \A x \in Roles : x # Root => pending'[x] = pending[x]
  BY <1>1, RootIsRole DEF TInv, OtherTypes
<1>3. \A x \in Roles, u \in Tasks : phase'[x][u] = phase[x][u] \/ phase'[x][u] = "sent"
  BY <1>1 DEF Types, Resent
<1>4. \A x \in Roles : pending'[x] # NoItem => ~Driven(x)'
  <2> SUFFICES ASSUME NEW x \in Roles, pending'[x] # NoItem, Driven(x)' PROVE FALSE
    OBVIOUS
  <2>1. x # Root /\ ~Driven(x)
    BY <1>2 DEF PausedOK
  <2> QED BY <1>3, <2>1, CallerFacts DEF Driven
<1>5. \A x \in Roles, u \in Tasks :
        Child(x, u) \in Roles /\ pending[Child(x, u)] # NoItem => pending'[Child(x, u)] # NoItem
  BY <1>2, ChildFacts
<1>6. \A x \in Roles, u \in Tasks : phase'[x][u] = "ask" => phase[x][u] = "ask"
  BY <1>3
<1>7. \A x \in Roles : pending'[x] # NoItem => pending'[x] = pending[x]
  BY <1>2
<1> QED BY <1>4, <1>5, <1>6, <1>7, PausedMoves

(* The steps that leave requests, responses and decisions alone. *)
LEMMA NoNewCalls ==
  ASSUME ConstantsOK, TInv, TInv', ShapesOK, PausedOK, AskingOK, Kept,
         UNCHANGED pending, run' = "running" => run = "running",
         \A x \in Roles, u \in Tasks :
           phase'[x][u] = phase[x][u] \/ phase'[x][u] \notin {"call", "ask"}
  PROVE  PausedOK' /\ AskingOK'
BY PendingSame

LEMMA LeavePaused ==
  ASSUME ConstantsOK, Types, TInv, TInv', ShapesOK, PausedOK, AskingOK, Kept,
         NEW r \in Roles, NEW outcome \in {"ok", "bad", "raised"}, Leave(r, outcome)
  PROVE  PausedOK' /\ AskingOK'
<1>1. UNCHANGED pending /\ (run' = "running" => run = "running")
  BY DEF Leave, EndRun
<1>2. \A x \in Roles, u \in Tasks : phase'[x][u] = phase[x][u] \/ phase'[x][u] = outcome
  <2>1. CASE r = Root
    BY <2>1 DEF Leave
  <2>2. CASE r # Root
    <3>1. PICK a \in Roles, b \in Tasks : phase' = [phase EXCEPT ![a][b] = outcome]
      BY <2>2, CallerFacts DEF Leave
    <3> QED BY <3>1 DEF Types
  <2> QED BY <2>1, <2>2
<1> QED BY <1>1, <1>2, NoNewCalls

Shown == <<pending, answered, verdict, consents>>

LEMMA StepPaused ==
  ASSUME ConstantsOK, IInv, TInv, TInv', ShapesOK, PhasesOK, PausedOK, AskingOK, Kept,
         NEW r \in Roles, Step(r)
  PROVE  /\ PausedOK' /\ AskingOK' /\ UNCHANGED <<answered, verdict, consents, calls>>
         /\ \A x \in Roles : pending[x] # NoItem => pending'[x] = pending[x]
<1>0. Types
  BY DEF IInv
<1>1. CASE MakePlan(r) \/ Clarify(r)
  <2>1. UNCHANGED <<run, phase, pending, answered, verdict, consents, calls>>
    BY <1>1 DEF MakePlan, Clarify
  <2> QED BY <2>1, NoNewCalls
<1>2. CASE RefusePlan(r) \/ PlannerFails(r) \/ StopNode(r) \/ Summarize(r) \/ RaiseWave(r)
  <2>1. PICK outcome \in {"ok", "bad", "raised"} : Leave(r, outcome)
    BY <1>2 DEF RefusePlan, PlannerFails, StopNode, Summarize, RaiseWave
  <2>2. UNCHANGED <<pending, answered, verdict, consents, calls>>
    BY <2>1 DEF Leave
  <2> QED BY <1>0, <2>1, <2>2, LeavePaused
<1>3. CASE AskUser(r)
  <2>1. Driven(r) /\ node[r] # "absent" /\ Pause(r, 0) /\ 0 \in 0 .. MaxPlan
    BY <1>3 DEF AskUser, At, ConstantsOK
  <2>2. PausedOK' /\ AskingOK' /\ pending[r] = NoItem
    BY <1>0, <2>1, PausePaused
  <2>3. /\ UNCHANGED <<answered, verdict, consents, calls>>
        /\ \A x \in Roles : x # r => pending'[x] = pending[x]
    BY <2>1 DEF Pause, TInv, OtherTypes
  <2> QED BY <2>2, <2>3
<1>4. CASE PauseWave(r)
  <2> DEFINE t == CHOOSE t \in InWave(r, {"ask"}) : \A u \in InWave(r, {"ask"}) : t <= u
  <2>1. InWave(r, {"ask"}) # {} /\ Pause(r, t) /\ node[r] = "execute" /\ Driven(r)
    BY <1>4 DEF PauseWave, Executing
  <2>2. t \in InWave(r, {"ask"})
    BY <1>0, <2>1, FirstAsking
  <2> HIDE DEF t
  <2>3. t \in Planned(r) /\ phase[r][t] = "ask" /\ t \in Tasks
    BY <2>2 DEF InWave, ShapesOK
  <2>4. t \in 0 .. MaxPlan
    BY <2>3 DEF Tasks, ConstantsOK
  <2>5. PausedOK' /\ AskingOK' /\ pending[r] = NoItem
    BY <1>0, <2>1, <2>3, <2>4, PausePaused
  <2>6. /\ UNCHANGED <<answered, verdict, consents, calls>>
        /\ \A x \in Roles : x # r => pending'[x] = pending[x]
    BY <2>1 DEF Pause, TInv, OtherTypes
  <2> QED BY <2>5, <2>6
<1>5. CASE Dispatch(r)
  <2>1. CASE Leave(r, "raised")
    <3>1. UNCHANGED <<pending, answered, verdict, consents, calls>>
      BY <2>1 DEF Leave
    <3> QED BY <1>0, <2>1, <3>1, LeavePaused
  <2>2. CASE Send(r)
    <3>1. UNCHANGED <<run, pending, answered, verdict, consents, calls>>
      BY <2>2 DEF Send
    <3>2. \A x \in Roles, u \in Tasks :
            phase'[x][u] = phase[x][u] \/ phase'[x][u] \notin {"call", "ask"}
      <4>1. \/ UNCHANGED phase
            \/ phase' = [phase EXCEPT ![r] = [t \in Tasks |-> IF t \in NextWave(r) THEN "sent" ELSE "idle"]]
        BY <2>2 DEF Send
      <4> QED BY <1>0, <4>1 DEF Types
    <3> QED BY <3>1, <3>2, NoNewCalls
  <2> QED BY <1>5, <2>1, <2>2 DEF Dispatch
<1>6. CASE EndWave(r)
  <2>1. /\ UNCHANGED <<run, pending, answered, verdict, consents, calls>>
        /\ phase' = [phase EXCEPT ![r] = [t \in Tasks |-> "idle"]]
    BY <1>6 DEF EndWave
  <2>2. \A x \in Roles, u \in Tasks :
          phase'[x][u] = phase[x][u] \/ phase'[x][u] \notin {"call", "ask"}
    BY <1>0, <2>1 DEF Types
  <2> QED BY <2>1, <2>2, NoNewCalls
<1> QED BY <1>1, <1>2, <1>3, <1>4, <1>5, <1>6 DEF Step

LEMMA TaskStepPaused ==
  ASSUME ConstantsOK, IInv, TInv, TInv', ShapesOK, PhasesOK, PausedOK, AskingOK, Kept,
         NEW r \in Roles, NEW t \in Tasks, TaskStep(r, t), ~ResumeAgent(r, t)
  PROVE  PausedOK' /\ AskingOK' /\ UNCHANGED Shown
<1>0. Types
  BY DEF IInv
<1>1. CASE RunTool(r, t)
  <2>1. /\ UNCHANGED <<run, pending, answered, verdict, consents>>
        /\ phase' = [phase EXCEPT ![r][t] = "exec"]
    BY <1>1 DEF RunTool
  <2>2. \A x \in Roles, u \in Tasks :
          phase'[x][u] = phase[x][u] \/ phase'[x][u] \notin {"call", "ask"}
    BY <1>0, <2>1 DEF Types
  <2> QED BY <2>1, <2>2, NoNewCalls DEF Shown
<1>2. CASE AskApproval(r, t)
  <2>1. /\ UNCHANGED <<run, pending, answered, verdict, consents>>
        /\ phase[r][t] = "sent" /\ Tool(r, t) = "write"
        /\ phase' = [phase EXCEPT ![r][t] = IF verdict[r][t] = "none" THEN "ask" ELSE "bad"]
    BY <1>2 DEF AskApproval, Entering, NeedsApproval
  <2>2. \A x \in Roles, u \in Tasks :
          \/ phase'[x][u] = phase[x][u] \/ phase'[x][u] \notin {"call", "ask"}
          \/ x = r /\ u = t /\ phase'[x][u] = "ask"
    BY <1>0, <2>1 DEF Types
  <2>3. Tool(r, t) \notin Agents
    BY <2>1 DEF ConstantsOK
  <2> QED BY <2>1, <2>2, <2>3, PendingSame DEF Shown
<1>3. CASE CallAgent(r, t)
  <2>1. UNCHANGED <<run, pending, answered, verdict, consents>>
    BY <1>3 DEF CallAgent
  <2>2. PICK v \in {"bad", "raised", "call"} :
          /\ phase' = [phase EXCEPT ![r][t] = v]
          /\ v = "call" => node[Child(r, t)] = "absent" /\ Len(Child(r, t)) <= MaxDepth
    <3>1. CASE Tool(r, t) = agent[r] \/ Len(Child(r, t)) > MaxDepth
      <4>1. phase' = [phase EXCEPT ![r][t] = IF Tool(r, t) = agent[r] THEN "bad" ELSE "raised"]
        BY <1>3, <3>1 DEF CallAgent
      <4> QED BY <4>1
    <3>2. CASE ~(Tool(r, t) = agent[r] \/ Len(Child(r, t)) > MaxDepth)
      <4>1. phase' = [phase EXCEPT ![r][t] = "call"] /\ node[Child(r, t)] = "absent"
        BY <1>3, <3>2 DEF CallAgent
      <4>2. Len(Child(r, t)) \in Nat /\ MaxDepth \in Nat
        BY ChildFacts, RolesAreSeqs DEF ConstantsOK
      <4> QED BY <3>2, <4>1, <4>2
    <3> QED BY <3>1, <3>2
  <2>3. v = "call" => pending[Child(r, t)] = NoItem
    BY <2>2, ChildFacts DEF PausedOK
  <2>4. \A x \in Roles, u \in Tasks :
          phase'[x][u] = phase[x][u] \/ (x = r /\ u = t /\ phase'[x][u] = v)
    BY <1>0, <2>2 DEF Types
  <2> QED BY <2>1, <2>3, <2>4, PendingSame DEF Shown
<1>4. CASE AskAgain(r, t)
  <2>1. /\ UNCHANGED <<run, pending, answered, verdict, consents>>
        /\ phase[r][t] = "sent" /\ Child(r, t) \in Roles /\ pending[Child(r, t)] # NoItem
        /\ phase' = [phase EXCEPT ![r][t] = "ask"]
    BY <1>4 DEF AskAgain, Entering
  <2>2. \A x \in Roles, u \in Tasks :
          phase'[x][u] = phase[x][u] \/ (x = r /\ u = t /\ phase'[x][u] = "ask")
    BY <1>0, <2>1 DEF Types
  <2> QED BY <2>1, <2>2, PendingSame DEF Shown
<1>5. CASE ToolReturns(r, t) \/ StopTask(r, t)
  <2>1. PICK v \in {"ok", "bad", "raised"} : phase' = [phase EXCEPT ![r][t] = v]
    BY <1>5 DEF ToolReturns, StopTask
  <2>2. UNCHANGED <<run, pending, answered, verdict, consents>>
    BY <1>5 DEF ToolReturns, StopTask
  <2>3. \A x \in Roles, u \in Tasks :
          phase'[x][u] = phase[x][u] \/ phase'[x][u] \notin {"call", "ask"}
    BY <1>0, <2>1 DEF Types
  <2> QED BY <2>2, <2>3, NoNewCalls DEF Shown
<1>6. CASE RecordResult(r, t)
  <2>1. UNCHANGED <<run, phase, pending, answered, verdict, consents>>
    BY <1>6 DEF RecordResult
  <2> QED BY <2>1, NoNewCalls DEF Shown
<1> QED BY <1>1, <1>2, <1>3, <1>4, <1>5, <1>6 DEF TaskStep

(* All roles on the way from c down to d show a request. *)
LEMMA LeadsAlong ==
  ASSUME ConstantsOK, NEW c \in Roles, NEW d \in Roles, Leads(c, d), NEW k \in Len(c) .. Len(d)
  PROVE  /\ Prefix(d, k) \in Roles /\ pending[Prefix(d, k)] # NoItem
         /\ k < Len(d) => pending[Prefix(d, k)] = d[k + 1] /\ d[k + 1] \in Tasks
<1>1. Len(c) \in Nat /\ Len(d) \in Nat /\ d \in Seq(Tasks)
  BY RolesAreSeqs
<1>2. Prefix(d, k) \in Roles
  BY <1>1, PrefixFacts
<1>3. CASE k < Len(d)
  <2>1. k + 1 \in Len(c) + 1 .. Len(d) /\ (k + 1) - 1 = k
    BY <1>1, <1>3
  <2>2. pending[Prefix(d, k)] = d[k + 1] /\ d[k + 1] \in Tasks
    BY <1>1, <2>1 DEF Leads
  <2> QED BY <1>2, <2>2 DEF Tasks, ConstantsOK
<1>4. CASE k = Len(d)
  BY <1>1, <1>2, <1>4, WholePrefix DEF Leads
<1> QED BY <1>1, <1>3, <1>4

LEMMA LeadsStay ==
  ASSUME ConstantsOK, NEW c \in Roles, NEW d \in Roles, Leads(c, d), Asks(d), Granted(d),
         \A k \in Len(c) .. Len(d) : pending'[Prefix(d, k)] = pending[Prefix(d, k)],
         plan'[d] = plan[d], consents \subseteq consents'
  PROVE  Leads(c, d)' /\ Asks(d)' /\ Granted(d)'
<1>1. Len(c) \in Nat /\ Len(d) \in Nat /\ Len(c) <= Len(d)
  BY RolesAreSeqs DEF Leads
<1>2. Len(d) \in Len(c) .. Len(d)
  BY <1>1
<1>3. pending'[d] = pending[d]
  BY <1>2, WholePrefix
<1>4. ASSUME NEW k \in Len(c) + 1 .. Len(d) PROVE pending'[Prefix(d, k - 1)] = d[k]
  <2>1. k - 1 \in Len(c) .. Len(d)
    BY <1>1
  <2> QED BY <2>1 DEF Leads
<1>5. Leads(c, d)'
  BY <1>1, <1>3, <1>4 DEF Leads, Prefix
<1>6. Tool(d, pending[d])' = Tool(d, pending[d])
  BY <1>3 DEF Tool
<1> QED BY <1>3, <1>5, <1>6 DEF Asks, Granted

LEMMA AnswersStay ==
  ASSUME ConstantsOK, AnswersOK, Kept, UNCHANGED answered, consents \subseteq consents',
         \A x \in Roles : pending[x] # NoItem => pending'[x] = pending[x]
  PROVE  AnswersOK'
<1> SUFFICES ASSUME NEW c \in Roles, answered'[c] = "granted"
             PROVE  c # Root /\ \E d \in Roles : Leads(c, d)' /\ Asks(d)' /\ Granted(d)'
  BY DEF AnswersOK
<1>1. PICK d \in Roles : c # Root /\ Leads(c, d) /\ Asks(d) /\ Granted(d)
  BY DEF AnswersOK
<1>2. \A k \in Len(c) .. Len(d) : pending'[Prefix(d, k)] = pending[Prefix(d, k)]
  BY <1>1, LeadsAlong
<1>3. plan'[d] = plan[d]
  BY <1>1 DEF Leads, Kept
<1> QED BY <1>1, <1>2, <1>3, LeadsStay

LEMMA VerdictsStay ==
  ASSUME ConstantsOK, Types, CallsOK, VerdictsOK, UNCHANGED verdict, consents \subseteq consents',
         agent'[Root] = agent[Root],
         \A x \in Roles, u \in Tasks : calls'[x][u] = calls[x][u] /\ (calls[x][u] > 0 => plan'[x] = plan[x])
  PROVE  VerdictsOK'
<1> SUFFICES ASSUME NEW x \in Roles, NEW u \in Tasks
             PROVE  /\ verdict'[x][u] = "granted" => <<x, u>> \in consents'
                    /\ calls'[x][u] > 0 /\ NeedsApproval(x, u)' => <<x, u>> \in consents'
  BY DEF VerdictsOK
<1>1. calls[x][u] > 0 /\ NeedsApproval(x, u)' => NeedsApproval(x, u)
  BY KeptTool DEF NeedsApproval
<1> QED BY <1>1 DEF VerdictsOK

(* A role whose tool was run keeps its plan. *)
LEMMA RunKeepsPlan ==
  ASSUME ConstantsOK, Types, CallsOK, [Next]_vars, NEW x \in Roles, NEW u \in Tasks, calls[x][u] > 0
  PROVE  plan'[x] = plan[x]
<1>1. calls[x][u] = 1
  BY DEF CallsOK, Types
<1>2. node[x] \notin Planning
  BY <1>1 DEF CallsOK
<1>3. CASE Calm
  BY <1>3 DEF Calm
<1>4. ASSUME NEW r \in Roles, MakePlan(r) PROVE plan'[x] = plan[x]
  BY <1>2, <1>4 DEF MakePlan, At, Planning, Types
<1>5. ASSUME NEW r \in Roles, NEW t \in Tasks, Founds(r, t) PROVE plan'[x] = plan[x]
  BY <1>5 DEF Founds
<1> QED BY <1>3, <1>4, <1>5, NextKinds

(* A task that calls no agent has no role behind it. *)
LEMMA NoRoleBehind ==
  ASSUME ConstantsOK, Types, CalleesOK, PausedOK, NEW r \in Roles, NEW t \in Tasks,
         Child(r, t) \in Roles, pending[Child(r, t)] # NoItem
  PROVE  Tool(r, t) \in Agents
BY DEF PausedOK, CalleesOK, Types

(* The response at role c is for the request below it. *)
LEMMA ResponseGoesOn ==
  ASSUME ConstantsOK, Types, CalleesOK, PausedOK, NEW c \in Roles, NEW d \in Roles,
         Leads(c, d), d # c, pending[c] # 0
  PROVE  LET e == Child(c, pending[c]) IN
         pending[c] \in Tasks /\ e \in Roles /\ Leads(e, d) /\ Tool(c, pending[c]) \in Agents
<1>1. Len(c) \in Nat /\ Len(d) \in Nat /\ Len(c) <= Len(d)
  BY RolesAreSeqs DEF Leads
<1>2. Len(c) < Len(d)
  <2>1. CASE Len(c) = Len(d)
    BY <2>1, WholePrefix DEF Leads
  <2> QED BY <1>1, <2>1
<1>3. pending[c] = d[Len(c) + 1] /\ d[Len(c) + 1] \in Tasks
  <2>1. Len(c) \in Len(c) .. Len(d)
    BY <1>1
  <2> QED BY <1>2, <2>1, LeadsAlong DEF Leads
<1> DEFINE e == Prefix(d, Len(c) + 1)
<1>4. Len(c) + 1 \in 1 .. Len(d) /\ (Len(c) + 1) - 1 = Len(c) /\ Len(c) + 1 \in Len(c) .. Len(d)
      /\ Len(c) + 1 \in 0 .. Len(d)
  BY <1>1, <1>2
<1>5. e = Child(c, pending[c])
  BY <1>3, <1>4, PrefixSteps DEF Leads
<1>6. e \in Roles /\ pending[e] # NoItem /\ Len(e) = Len(c) + 1
  BY <1>4, LeadsAlong, PrefixFacts
<1>7. Leads(e, d)
  BY <1>1, <1>4, <1>6 DEF Leads
<1>8. Tool(c, pending[c]) \in Agents
  BY <1>3, <1>5, <1>6, NoRoleBehind
<1> QED BY <1>3, <1>5, <1>6, <1>7, <1>8

LEMMA ResumeConsent ==
  ASSUME ConstantsOK, Types, CallsOK, TInv, ShapesOK, CalleesOK, PausedOK, AnswersOK, VerdictsOK, Kept,
         NEW r \in Roles, NEW t \in Tasks, ResumeAgent(r, t), agent'[Root] = agent[Root]
  PROVE  AnswersOK' /\ VerdictsOK'
<1> DEFINE c == Child(r, t)
           item == pending[c]
           left == [answered EXCEPT ![c] = "none"]
<1>1. /\ c \in Roles /\ Driven(r) /\ item # NoItem /\ answered[c] # "none"
      /\ Deliver(c, item, answered[c], left)
      /\ pending' = [pending EXCEPT ![c] = NoItem]
      /\ UNCHANGED <<plan, calls, consents>>
  BY DEF ResumeAgent, Entering, Executing
<1>2. Caller(c) = r /\ c # Root /\ Len(c) = Len(r) + 1
  BY ChildFacts
<1>3. pending[r] = NoItem /\ item \in 0 .. MaxPlan
  BY <1>1 DEF PausedOK, TInv, OtherTypes
<1>4. item # 0 => item \in Tasks
  BY <1>3 DEF Tasks, ConstantsOK
<1>5. answered' = IF Hands(c, item) THEN [left EXCEPT ![Child(c, item)] = answered[c]] ELSE left
  BY <1>1 DEF Deliver
<1>6. verdict' = IF item = 0 \/ Hands(c, item) THEN verdict ELSE Decided(c, item, answered[c])
  BY <1>1 DEF Deliver
<1>7. answered[c] = "granted" => \E d \in Roles : Leads(c, d) /\ Asks(d) /\ Granted(d)
  BY <1>1 DEF AnswersOK
<1> HIDE DEF c, item, left
<1>8. Hands(c, item) => Child(c, item) # c /\ item \in Tasks
  <2>1. item \in Tasks => Len(Child(c, item)) = Len(c) + 1 /\ Len(c) \in Nat
    BY <1>1, ChildFacts, RolesAreSeqs
  <2> QED BY <1>4, <2>1 DEF Hands
<1>9. AnswersOK'
  <2> SUFFICES ASSUME NEW b \in Roles, answered'[b] = "granted"
               PROVE  b # Root /\ \E d \in Roles : Leads(b, d)' /\ Asks(d)' /\ Granted(d)'
    BY DEF AnswersOK
  <2>0. \A d \in Roles : plan'[d] = plan[d]
    BY <1>1
  <2>1. b # c
    BY <1>1, <1>5, <1>8 DEF left, TInv, OtherTypes
  <2>2. CASE Hands(c, item) /\ b = Child(c, item)
    <3>1. answered[c] = "granted"
      BY <1>5, <2>1, <2>2 DEF left, TInv, OtherTypes
    <3>2. PICK d \in Roles : Leads(c, d) /\ Asks(d) /\ Granted(d)
      BY <1>7, <3>1
    <3>3. d # c
      BY <2>2, <3>2 DEF Asks, Hands, item
    <3>4. Leads(b, d) /\ b # Root /\ Len(b) = Len(c) + 1
      <4>1. item # 0
        BY <2>2 DEF Hands
      <4> QED BY <1>1, <1>8, <2>2, <3>2, <3>3, <4>1, ResponseGoesOn, ChildFacts DEF item
    <3>5. ASSUME NEW k \in Len(b) .. Len(d) PROVE pending'[Prefix(d, k)] = pending[Prefix(d, k)]
      <4>1. Len(c) \in Nat /\ Len(d) \in Nat /\ k \in 0 .. Len(d) /\ k > Len(c)
        BY <1>1, <3>4, RolesAreSeqs
      <4>2. Len(Prefix(d, k)) = k
        BY <4>1, PrefixFacts
      <4>3. Prefix(d, k) # c
        BY <4>1, <4>2
      <4> QED BY <1>1, <4>3 DEF TInv, OtherTypes
    <3> QED BY <1>1, <2>0, <3>2, <3>4, <3>5, LeadsStay
  <2>3. CASE ~(Hands(c, item) /\ b = Child(c, item))
    <3>1. answered[b] = "granted"
      BY <1>5, <2>1, <2>3 DEF left, TInv, OtherTypes
    <3>2. PICK d \in Roles : b # Root /\ Leads(b, d) /\ Asks(d) /\ Granted(d)
      BY <3>1 DEF AnswersOK
    <3>3. ASSUME NEW k \in Len(b) .. Len(d) PROVE pending'[Prefix(d, k)] = pending[Prefix(d, k)]
      <4>0. Len(b) \in Nat /\ Len(d) \in Nat /\ k \in 0 .. Len(d)
        BY RolesAreSeqs
      <4>1. Prefix(d, k) # c
        <5> SUFFICES ASSUME Prefix(d, k) = c PROVE FALSE
          OBVIOUS
        <5>1. CASE k = Len(b)
          BY <2>1, <3>2, <5>1 DEF Leads
        <5>2. CASE k > Len(b)
          <6>1. k \in 1 .. Len(d) /\ k - 1 \in Len(b) .. Len(d)
            BY <4>0, <5>2
          <6>2. Prefix(d, k - 1) = r
            BY <1>2, <6>1, PrefixSteps
          <6> QED BY <1>3, <3>2, <6>1, <6>2, LeadsAlong
        <5> QED BY <4>0, <5>1, <5>2
      <4> QED BY <1>1, <4>1 DEF TInv, OtherTypes
    <3> QED BY <1>1, <2>0, <3>2, <3>3, LeadsStay
  <2> QED BY <2>2, <2>3
<1>10. VerdictsOK'
  <2>1. CASE item = 0 \/ Hands(c, item)
    <3>1. UNCHANGED verdict
      BY <1>6, <2>1
    <3> QED BY <1>1, <3>1, VerdictsStay
  <2>2. CASE ~(item = 0 \/ Hands(c, item))
    <3>1. item \in Tasks /\ verdict' = [verdict EXCEPT ![c][item] = answered[c]]
      BY <1>4, <1>6, <2>2 DEF Decided
    <3>2. answered[c] = "granted" => <<c, item>> \in consents
      <4> SUFFICES ASSUME answered[c] = "granted" PROVE <<c, item>> \in consents
        OBVIOUS
      <4>1. PICK d \in Roles : Leads(c, d) /\ Asks(d) /\ Granted(d)
        BY <1>7
      <4>2. d = c
        BY <1>1, <2>2, <4>1, ResponseGoesOn DEF Hands, item
      <4> QED BY <4>1, <4>2 DEF Granted, item
    <3> SUFFICES ASSUME NEW x \in Roles, NEW u \in Tasks
                 PROVE  /\ verdict'[x][u] = "granted" => <<x, u>> \in consents'
                        /\ calls'[x][u] > 0 /\ NeedsApproval(x, u)' => <<x, u>> \in consents'
      BY DEF VerdictsOK
    <3>3. NeedsApproval(x, u)' <=> NeedsApproval(x, u)
      BY <1>1, SamePlans DEF NeedsApproval
    <3>4. verdict'[x][u] = "granted" => <<x, u>> \in consents
      <4>1. CASE x = c /\ u = item
        BY <3>1, <3>2, <4>1 DEF TInv, OtherTypes
      <4>2. CASE ~(x = c /\ u = item)
        BY <3>1, <4>2 DEF TInv, OtherTypes, VerdictsOK
      <4> QED BY <4>1, <4>2
    <3> QED BY <1>1, <3>3, <3>4 DEF VerdictsOK
  <2> QED BY <2>1, <2>2
<1> QED BY <1>9, <1>10

(* A request a task of the root shows is the one of the deepest role       *)
(* behind it, and every role on the way there shows it.                    *)
LEMMA DeepestAsks ==
  ASSUME ConstantsOK, Types, TInv, ShapesOK, PausedOK, NEW t \in Tasks,
         Child(Root, t) \in Roles, pending[Child(Root, t)] # NoItem
  PROVE  \E d \in Roles : Deepest(t) = <<d, pending[d]>> /\ Leads(Child(Root, t), d) /\ Asks(d)
<1> DEFINE c == Child(Root, t)
<1>1. Root \in Roles /\ Len(Root) = 0
  BY RootIsRole DEF Root
<1>2. c # Root /\ Len(c) = 1 /\ c[1] = t
  <2>1. c # Root /\ Len(c) = Len(Root) + 1 /\ CallOf(c) = t
    BY <1>1, ChildFacts
  <2> HIDE DEF c
  <2> QED BY <1>1, <2>1 DEF CallOf
<1>3. c \in Chain(t)
  <2>1. c \in Roles /\ pending[c] # NoItem
    OBVIOUS
  <2> HIDE DEF c
  <2>2. 1 .. Len(c) - 1 = {}
    BY <1>2
  <2> QED BY <1>2, <2>1, <2>2 DEF Chain
<1>4. t \in 0 .. MaxPlan
  BY DEF Tasks, ConstantsOK
<1>5. PICK d \in Chain(t) : Deepest(t) = <<d, pending[d]>> /\ \A b \in Chain(t) : Len(b) <= Len(d)
  BY <1>3, <1>4, DeepestTypes DEF Deepest
<1>6. /\ d \in Roles /\ d # Root /\ d[1] = t /\ pending[d] # NoItem
      /\ \A k \in 1 .. Len(d) - 1 : pending[Prefix(d, k)] = d[k + 1]
  BY DEF Chain, Prefix
<1>7. Len(d) \in Nat /\ Len(d) >= 1 /\ 1 \in 1 .. Len(d) /\ 1 - 1 = 0
  BY <1>6, RolesAreSeqs, EmptySeq DEF Root
<1>8. Prefix(d, 1) = c
  BY <1>6, <1>7, PrefixSteps, WholePrefix
<1> HIDE DEF c
<1>9. Leads(c, d)
  <2>1. ASSUME NEW k \in 2 .. Len(d) PROVE pending[Prefix(d, k - 1)] = d[k]
    <3>1. k - 1 \in 1 .. Len(d) - 1 /\ (k - 1) + 1 = k
      BY <1>7
    <3> QED BY <1>6, <3>1
  <2> QED BY <1>2, <1>6, <1>7, <1>8, <2>1 DEF Leads
<1>10. Asks(d)
  <2> SUFFICES ASSUME ~Asks(d) PROVE FALSE
    OBVIOUS
  <2> DEFINE e == Child(d, pending[d])
  <2>1. pending[d] \in Planned(d) /\ e \in Roles /\ pending[e] # NoItem
    BY <1>6 DEF Asks, PausedOK
  <2>2. pending[d] \in Tasks
    BY <1>6, <2>1 DEF ShapesOK
  <2>3. /\ e # Root /\ Len(e) = Len(d) + 1 /\ CallOf(e) = pending[d]
        /\ \A k \in 1 .. Len(d) : Prefix(e, k) = Prefix(d, k) /\ e[k] = d[k]
    BY <1>6, <2>2, ChildFacts
  <2> HIDE DEF e
  <2>4. e[1] = t /\ e[Len(d) + 1] = pending[d]
    BY <1>6, <1>7, <2>3 DEF CallOf
  <2>5. ASSUME NEW k \in 1 .. Len(e) - 1 PROVE pending[SubSeq(e, 1, k)] = e[k + 1]
    <3>1. SubSeq(e, 1, k) = Prefix(d, k) /\ k \in 1 .. Len(d)
      BY <1>7, <2>3 DEF Prefix
    <3>2. CASE k = Len(d)
      BY <1>6, <2>4, <3>1, <3>2, WholePrefix
    <3>3. CASE k # Len(d)
      <4>1. k \in 1 .. Len(d) - 1 /\ k + 1 \in 1 .. Len(d)
        BY <1>7, <3>1, <3>3
      <4> QED BY <1>6, <2>3, <3>1, <4>1
    <3> QED BY <3>2, <3>3
  <2>6. e \in Chain(t)
    BY <2>1, <2>3, <2>4, <2>5 DEF Chain
  <2> QED BY <1>5, <1>7, <2>3, <2>6
<1> QED BY <1>5, <1>6, <1>9, <1>10 DEF c

(* A task of the root that calls no agent shows its own request. *)
LEMMA ShowsOwn ==
  ASSUME ConstantsOK, Types, TInv, CalleesOK, PausedOK, NEW t \in Tasks, Tool(Root, t) \notin Agents
  PROVE  Deepest(t) = <<Root, t>>
<1>1. ASSUME NEW d \in Chain(t) PROVE FALSE
  <2>1. /\ d \in Roles /\ d # Root /\ d[1] = t /\ pending[d] # NoItem
        /\ \A k \in 1 .. Len(d) - 1 : pending[Prefix(d, k)] = d[k + 1]
    BY DEF Chain, Prefix
  <2>2. d \in Seq(Tasks) /\ Len(d) \in Nat /\ Len(d) >= 1 /\ 1 \in 1 .. Len(d) /\ 1 - 1 = 0
    BY <2>1, RolesAreSeqs, EmptySeq DEF Root
  <2>3. Prefix(d, 1) = Child(Root, t) /\ Prefix(d, 1) \in Roles
    BY <2>1, <2>2, PrefixSteps, PrefixFacts, WholePrefix
  <2>4. pending[Prefix(d, 1)] # NoItem
    <3>1. CASE Len(d) = 1
      BY <2>1, <3>1, WholePrefix
    <3>2. CASE Len(d) # 1
      <4>1. /\ 1 \in 1 .. Len(d) - 1 /\ 1 + 1 = 2
            /\ 2 \in 1 .. Len(d)
        <5>1. \A n \in Nat : n >= 1 /\ n # 1 => 1 \in 1 .. n - 1 /\ 2 \in 1 .. n
          OBVIOUS
        <5>2. Len(d) \in Nat /\ Len(d) >= 1 /\ Len(d) # 1
          BY <2>2, <3>2
        <5> QED BY <5>1, <5>2, SMTT(30)
      <4>2. d[2] \in Tasks
        BY <2>1, <4>1, PrefixSteps
      <4>3. pending[Prefix(d, 1)] = d[2]
        BY <2>1, <4>1
      <4> QED BY <4>2, <4>3 DEF Tasks, ConstantsOK
    <3> QED BY <3>1, <3>2
  <2> QED BY <2>3, <2>4, RootIsRole, NoRoleBehind
<1>2. Chain(t) = {}
  BY <1>1
<1> QED BY <1>2 DEF Deepest

LEMMA AnswerConsent ==
  ASSUME ConstantsOK, Types, CallsOK, TInv, ShapesOK, CalleesOK, PausedOK, AskingOK, AnswersOK, VerdictsOK,
         NEW t \in 0 .. MaxPlan, NEW answer \in {"granted", "refused"}, Answer(t, answer)
  PROVE  AnswersOK' /\ VerdictsOK'
<1>1. /\ Deliver(Root, t, answer, answered)
      /\ pending' = [pending EXCEPT ![Root] = NoItem]
      /\ consents' = IF answer = "granted" THEN consents \cup {Deepest(t)} ELSE consents
      /\ UNCHANGED <<plan, agent, calls>>
  BY DEF Answer
<1>2. consents \subseteq consents'
  BY <1>1
<1>3. t # 0 => t \in Tasks /\ phase[Root][t] = "ask"
  <2>1. t \in RootItems
    BY DEF Answer
  <2> QED BY <2>1, RootIsRole DEF RootItems, InWave, ShapesOK
<1>4. answered' = IF Hands(Root, t) THEN [answered EXCEPT ![Child(Root, t)] = answer] ELSE answered
  BY <1>1 DEF Deliver
<1>5. verdict' = IF t = 0 \/ Hands(Root, t) THEN verdict ELSE Decided(Root, t, answer)
  BY <1>1 DEF Deliver
<1>6. \A x \in Roles : x # Root => pending'[x] = pending[x]
  BY <1>1 DEF TInv, OtherTypes
<1>7. ASSUME NEW b \in Roles, b # Root, NEW d \in Roles, Leads(b, d), NEW k \in Len(b) .. Len(d)
      PROVE  pending'[Prefix(d, k)] = pending[Prefix(d, k)]
  <2>1. Len(b) \in Nat /\ Len(b) # 0 /\ Len(d) \in Nat
    BY <1>7, RolesAreSeqs, EmptySeq DEF Root
  <2>2. k \in 1 .. Len(d)
    BY <2>1
  <2>3. Prefix(d, k) # Root /\ Prefix(d, k) \in Roles
    BY <1>7, <2>2, PrefixSteps, LeadsAlong
  <2> QED BY <1>6, <2>3
<1>8. AnswersOK'
  <2> SUFFICES ASSUME NEW b \in Roles, answered'[b] = "granted"
               PROVE  b # Root /\ \E d \in Roles : Leads(b, d)' /\ Asks(d)' /\ Granted(d)'
    BY DEF AnswersOK
  <2>1. CASE Hands(Root, t) /\ b = Child(Root, t)
    <3>1. t \in Tasks /\ pending[b] # NoItem /\ b # Root
      BY <1>3, <2>1, RootIsRole, ChildFacts DEF Hands, AskingOK
    <3>2. PICK d \in Roles : Deepest(t) = <<d, pending[d]>> /\ Leads(b, d) /\ Asks(d)
      BY <2>1, <3>1, DeepestAsks
    <3>3. answer = "granted"
      BY <1>4, <2>1 DEF TInv, OtherTypes
    <3>4. Len(b) \in Nat /\ Len(d) \in Nat /\ Len(d) \in Len(b) .. Len(d)
      BY <3>2, RolesAreSeqs DEF Leads
    <3>5. \A k \in Len(b) .. Len(d) : pending'[Prefix(d, k)] = pending[Prefix(d, k)]
      BY <1>7, <3>1, <3>2
    <3>6. pending'[d] = pending[d]
      BY <3>4, <3>5, WholePrefix
    <3>7. Granted(d)'
      BY <1>1, <3>2, <3>3, <3>6 DEF Granted
    <3>8. Asks(d)'
      BY <1>1, <3>2, <3>6, SamePlans DEF Asks
    <3>9. Leads(b, d)'
      <4>1. ASSUME NEW k \in Len(b) + 1 .. Len(d) PROVE pending'[Prefix(d, k - 1)] = d[k]
        <5>1. k - 1 \in Len(b) .. Len(d)
          BY <3>4
        <5> QED BY <3>2, <3>5, <5>1 DEF Leads
      <4> QED BY <3>2, <3>6, <4>1 DEF Leads, Prefix
    <3> QED BY <3>1, <3>7, <3>8, <3>9
  <2>2. CASE ~(Hands(Root, t) /\ b = Child(Root, t))
    <3>1. answered[b] = "granted"
      BY <1>4, <2>2 DEF TInv, OtherTypes
    <3>2. PICK d \in Roles : b # Root /\ Leads(b, d) /\ Asks(d) /\ Granted(d)
      BY <3>1 DEF AnswersOK
    <3> QED BY <1>1, <1>2, <1>7, <3>2, LeadsStay
  <2> QED BY <2>1, <2>2
<1>9. VerdictsOK'
  <2>1. CASE t = 0 \/ Hands(Root, t)
    BY <1>1, <1>2, <1>5, <2>1, VerdictsStay
  <2>2. CASE ~(t = 0 \/ Hands(Root, t))
    <3>1. t \in Tasks /\ verdict' = [verdict EXCEPT ![Root][t] = answer]
      BY <1>3, <1>5, <2>2 DEF Decided
    <3>2. answer = "granted" => <<Root, t>> \in consents'
      BY <1>1, <2>2, <3>1, ShowsOwn DEF Hands
    <3> SUFFICES ASSUME NEW x \in Roles, NEW u \in Tasks
                 PROVE  /\ verdict'[x][u] = "granted" => <<x, u>> \in consents'
                        /\ calls'[x][u] > 0 /\ NeedsApproval(x, u)' => <<x, u>> \in consents'
      BY DEF VerdictsOK
    <3>3. NeedsApproval(x, u)' <=> NeedsApproval(x, u)
      BY <1>1, SamePlans DEF NeedsApproval
    <3>4. verdict'[x][u] = "granted" => <<x, u>> \in consents'
      <4>1. CASE x = Root /\ u = t
        BY <3>1, <3>2, <4>1 DEF TInv, OtherTypes
      <4>2. CASE ~(x = Root /\ u = t)
        BY <1>2, <3>1, <4>2 DEF TInv, OtherTypes, VerdictsOK
      <4> QED BY <4>1, <4>2
    <3> QED BY <1>1, <1>2, <3>3, <3>4 DEF VerdictsOK
  <2> QED BY <2>1, <2>2
<1> QED BY <1>8, <1>9

LEMMA TaskStepConsent ==
  ASSUME ConstantsOK, IInv, TInv, TInv', ShapesOK, PhasesOK, PausedOK, AskingOK, AnswersOK, VerdictsOK, Kept,
         [Next]_vars, NEW r \in Roles, NEW t \in Tasks, TaskStep(r, t), ~ResumeAgent(r, t)
  PROVE  AnswersOK' /\ VerdictsOK'
<1>1. Types /\ CallsOK
  BY DEF IInv
<1>2. UNCHANGED <<pending, answered, verdict, consents>>
  BY TaskStepPaused DEF Shown
<1>3. agent'[Root] = agent[Root]
  BY <1>1, RootAgentStays
<1>4. AnswersOK'
  BY <1>2, AnswersStay
<1>5. \A x \in Roles, u \in Tasks : calls[x][u] > 0 => plan'[x] = plan[x]
  BY <1>1, RunKeepsPlan
<1>6. CASE RunTool(r, t)
  <2>1. /\ NeedsApproval(r, t) => verdict[r][t] = "granted"
        /\ calls' = [calls EXCEPT ![r][t] = @ + 1] /\ UNCHANGED plan
    BY <1>6 DEF RunTool
  <2>2. NeedsApproval(r, t) => <<r, t>> \in consents
    BY <2>1 DEF VerdictsOK
  <2> SUFFICES ASSUME NEW x \in Roles, NEW u \in Tasks
               PROVE  /\ verdict'[x][u] = "granted" => <<x, u>> \in consents'
                      /\ calls'[x][u] > 0 /\ NeedsApproval(x, u)' => <<x, u>> \in consents'
    BY <1>4 DEF VerdictsOK
  <2>3. NeedsApproval(x, u)' <=> NeedsApproval(x, u)
    BY <1>3, <2>1, SamePlans DEF NeedsApproval
  <2>4. (x = r /\ u = t) \/ calls'[x][u] = calls[x][u]
    BY <1>1, <2>1 DEF Types
  <2> QED BY <1>2, <2>2, <2>3, <2>4 DEF VerdictsOK
<1>7. CASE ~RunTool(r, t)
  <2>1. UNCHANGED calls
    BY <1>7 DEF TaskStep, AskApproval, CallAgent, AskAgain, ToolReturns, RecordResult, StopTask
  <2> QED BY <1>1, <1>2, <1>3, <1>4, <1>5, <2>1, VerdictsStay
<1> QED BY <1>6, <1>7

LEMMA NextConsent ==
  ConstantsOK /\ IInv /\ TInv /\ TInv' /\ SInv /\ PhasesOK /\ CInv /\ [Next]_vars => CInv'
<1> SUFFICES ASSUME ConstantsOK, IInv, TInv, TInv', SInv, PhasesOK, CInv, [Next]_vars
             PROVE  PausedOK' /\ AskingOK' /\ AnswersOK' /\ VerdictsOK'
  BY DEF CInv
<1>1. /\ Types /\ CallsOK /\ ShapesOK /\ CalleesOK
      /\ PausedOK /\ AskingOK /\ AnswersOK /\ VerdictsOK
  BY DEF IInv, SInv, CInv
<1>2. Kept /\ agent'[Root] = agent[Root]
  BY <1>1, NextKept, RootAgentStays
<1>3. \A x \in Roles, u \in Tasks : calls[x][u] > 0 => plan'[x] = plan[x]
  BY <1>1, RunKeepsPlan
<1>4. ASSUME NEW r \in Roles, Step(r) PROVE CInv'
  <2>1. /\ PausedOK' /\ AskingOK' /\ UNCHANGED <<answered, verdict, consents, calls>>
        /\ \A x \in Roles : pending[x] # NoItem => pending'[x] = pending[x]
    BY <1>1, <1>2, <1>4, StepPaused
  <2> QED BY <1>1, <1>2, <1>3, <2>1, AnswersStay, VerdictsStay DEF CInv
<1>5. ASSUME NEW r \in Roles, NEW t \in Tasks, TaskStep(r, t) PROVE CInv'
  <2>1. CASE ResumeAgent(r, t)
    BY <1>1, <1>2, <2>1, ResumePaused, ResumeConsent DEF CInv
  <2>2. CASE ~ResumeAgent(r, t)
    BY <1>1, <1>2, <1>5, <2>2, TaskStepPaused, TaskStepConsent DEF CInv
  <2> QED BY <2>1, <2>2
<1>6. CASE Work
  BY <1>4, <1>5, <1>6 DEF Work, CInv
<1>7. CASE Respond
  <2>1. PICK t \in 0 .. MaxPlan, answer \in {"granted", "refused"} : Answer(t, answer)
    BY <1>7 DEF Respond
  <2>2. PausedOK' /\ AskingOK'
    BY <1>1, <1>2, <2>1, AnswerPaused
  <2>3. AnswersOK' /\ VerdictsOK'
    BY <1>1, <2>1, AnswerConsent
  <2> QED BY <2>2, <2>3
<1>8. CASE Cancel \/ UNCHANGED vars
  <2>1. /\ UNCHANGED <<phase, pending, answered, verdict, consents, calls>>
        /\ run' = "running" => run = "running"
    BY <1>8 DEF Cancel, EndRun, vars
  <2>2. PausedOK' /\ AskingOK'
    BY <1>1, <1>2, <2>1, NoNewCalls
  <2> QED BY <1>1, <1>2, <1>3, <2>1, <2>2, AnswersStay, VerdictsStay
<1> QED BY <1>6, <1>7, <1>8 DEF Next

LEMMA InitConsent == ConstantsOK /\ Init => CInv
<1> SUFFICES ASSUME ConstantsOK, Init PROVE CInv
  OBVIOUS
<1>1. PausedOK /\ AskingOK /\ AnswersOK
  BY DEF Init, PausedOK, AskingOK, AnswersOK
<1>2. VerdictsOK
  BY DEF Init, VerdictsOK
<1> QED BY <1>1, <1>2 DEF CInv

ConsentInv == TreeInv /\ TInv /\ CInv

(* A role that shows a request is not driven, and shows its own or the one *)
(* of a role it called; a granted response on its way down leads to a      *)
(* request the user granted; and a granted verdict is one the user gave.   *)
THEOREM ConsentInvariant == Spec => []ConsentInv
<1>1. Init => ConsentInv
  BY ConstantsOK, InitIInv, InitTree, InitWork, InitTypes, InitConsent DEF TreeInv, ConsentInv
<1>2. ConsentInv /\ [Next]_vars => ConsentInv'
  BY ConstantsOK, NextKeeps, NextTree, NextWork, NextTypes, NextConsent DEF TreeInv, WInv, ConsentInv
<1> QED BY <1>1, <1>2, PTL DEF Spec

(* In interactive mode a tool that writes was run only after the user had  *)
(* granted the request shown for this very task, however many roles the    *)
(* response had to go down through, and however often the run paused.      *)
THEOREM ConsentTheorem == Spec => []ConsentReachesAsker
<1>1. ConsentInv => ConsentReachesAsker
  <2> SUFFICES ASSUME ConsentInv, NEW r \in Roles, NEW t \in Planned(r),
                      calls[r][t] > 0, NeedsApproval(r, t), t \in Tasks
               PROVE  <<r, t>> \in consents
    BY DEF ConsentReachesAsker, AllTasks
  <2> QED BY DEF ConsentInv, CInv, VerdictsOK
<1> QED BY <1>1, ConsentInvariant, PTL

-----------------------------------------------------------------------------
(***************************************************************************)
(* A run that is running has work to do: some role or some task of the     *)
(* tree can take its step, at every depth, whatever asked, failed or was   *)
(* stopped before.                                                         *)
(***************************************************************************)
(* The guards of the steps of a role, and of those of a task. *)
Busy == {"plan", "clarify", "ask_user", "dispatch", "execute", "summarize"}
RoleMay(r) ==
  \/ Driven(r) /\ node[r] \in Busy \ {"execute"}
  \/ /\ Executing(r) /\ Recorded(r)
     /\ InWave(r, {"sent", "exec", "call", "raised"}) = {}
  \/ Executing(r) /\ InWave(r, {"raised"}) # {} /\ InWave(r, {"exec", "call"}) = {}
TaskMay(r, t) ==
  /\ Executing(r) /\ t \in Planned(r)
  /\ \/ phase[r][t] = "exec"
     \/ phase[r][t] = "sent" /\ (stop \/ Tool(r, t) \notin Agents)
     \/ /\ phase[r][t] = "sent" /\ Tool(r, t) \in Agents
        /\ \/ Tool(r, t) = agent[r] \/ Len(Child(r, t)) > MaxDepth
           \/ /\ Child(r, t) \in Roles
              /\ node[Child(r, t)] = "absent" \/ pending[Child(r, t)] # NoItem
     \/ phase[r][t] \in {"ok", "bad"} /\ row[r][t] # Outcome(phase[r][t])
WorkIsLeft ==
  run = "running" => \E r \in Roles : RoleMay(r) \/ \E t \in Tasks : TaskMay(r, t)

(* A role that is driven has not ended, nor has one that is paused. *)
DriveOK == \A r \in Roles : Driven(r) => node[r] \in Busy
Rests(r) == pending[r] # NoItem \/ (r = Root /\ run = "waiting")
RestOK  == \A r \in Roles : Rests(r) => node[r] \in {"ask_user", "execute"}

(* A task that called an agent is in the wave, or has its result. *)
CalledOK ==
  \A r \in Roles, t \in Tasks :
    /\ phase[r][t] = "call" => Child(r, t) \in Roles
    /\ Child(r, t) \in Roles /\ node[Child(r, t)] # "absent" =>
         result[r][t] # "none" \/ phase[r][t] # "idle"

(* A task that is entered finds no role yet, or one that is paused. *)
Enters(r, t) ==
  phase[r][t] = "sent" /\ Tool(r, t) \in Agents /\ Child(r, t) \in Roles =>
    node[Child(r, t)] = "absent" \/ pending[Child(r, t)] # NoItem
SentOK == \A r \in Roles, t \in Tasks : Enters(r, t)

MInv == DriveOK /\ RestOK /\ CalledOK /\ SentOK

-----------------------------------------------------------------------------
(* Steps that start no task, call no agent and let no paused role go on. *)
Continues ==
  /\ \A x \in Roles : (node'[x] = "absent") = (node[x] = "absent")
  /\ \A x \in Roles, u \in Tasks : phase'[x][u] = "call" => phase[x][u] = "call"
  /\ \A x \in Roles, u \in Tasks : phase'[x][u] = "sent" => phase[x][u] = "sent"
  /\ \A x \in Roles, u \in Tasks :
       /\ result[x][u] # "none" => result'[x][u] # "none"
       /\ phase[x][u] # "idle" => phase'[x][u] # "idle" \/ result'[x][u] # "none"
  /\ \A x \in Roles : pending[x] # NoItem => pending'[x] # NoItem
Drives == \A x \in Roles : Driven(x)' => Driven(x) /\ (node[x] \in Busy => node'[x] \in Busy)
Stays  == \A x \in Roles : Rests(x)' => node'[x] \in {"ask_user", "execute"}

LEMMA KeepsCalled ==
  ASSUME ConstantsOK, MInv, Kept, Continues
  PROVE  CalledOK' /\ SentOK'
<1>1. CalledOK'
  <2> SUFFICES ASSUME NEW x \in Roles, NEW u \in Tasks
               PROVE  /\ phase'[x][u] = "call" => Child(x, u) \in Roles
                      /\ Child(x, u) \in Roles /\ node'[Child(x, u)] # "absent" =>
                           result'[x][u] # "none" \/ phase'[x][u] # "idle"
    BY DEF CalledOK, Child
  <2> QED BY DEF MInv, CalledOK, Continues
<1>2. SentOK'
  <2> SUFFICES ASSUME NEW x \in Roles, NEW u \in Tasks,
                      phase'[x][u] = "sent", Tool(x, u)' \in Agents, Child(x, u) \in Roles
               PROVE  node'[Child(x, u)] = "absent" \/ pending'[Child(x, u)] # NoItem
    BY DEF SentOK, Enters, Child
  <2>1. phase[x][u] = "sent"
    BY DEF Continues
  <2>2. Tool(x, u) \in Agents
    BY <2>1, KeptTool DEF Kept
  <2> QED BY <2>1, <2>2 DEF MInv, SentOK, Enters, Continues
<1> QED BY <1>1, <1>2

LEMMA KeepsWork ==
  ASSUME ConstantsOK, MInv, Kept, Continues, Drives, Stays
  PROVE  MInv'
BY KeepsCalled DEF MInv, DriveOK, RestOK, Drives, Stays

LEMMA DrivenOnly ==
  ASSUME ConstantsOK, run' = "running" => run = "running",
         \A x \in Roles, u \in Tasks : phase'[x][u] = "call" => phase[x][u] = "call"
  PROVE  \A x \in Roles : Driven(x)' => Driven(x)
BY CallerFacts DEF Driven

(* A role that leaves its graph is not driven any more. *)
LEMMA LeaveWork ==
  ASSUME ConstantsOK, Types, PausedOK, MInv, Kept, NEW r \in Roles, Driven(r),
         NEW outcome \in {"ok", "bad", "raised"}, Leave(r, outcome)
  PROVE  MInv'
<1>1. /\ UNCHANGED <<pending, result>>
      /\ \A x \in Roles \ {r} : node'[x] = node[x]
      /\ node'[r] # "absent"
      /\ IF r = Root THEN UNCHANGED phase /\ run' \notin {"running", "waiting"}
         ELSE UNCHANGED run /\ phase' = [phase EXCEPT ![Caller(r)][CallOf(r)] = outcome]
  BY DEF Leave, EndRun, Types
<1>2. node[r] # "absent"
  BY DEF MInv, DriveOK, Busy
<1>3. \A x \in Roles, u \in Tasks :
        phase'[x][u] = phase[x][u] \/ phase'[x][u] \in {"ok", "bad", "raised"}
  <2>1. CASE r = Root
    BY <1>1, <2>1
  <2>2. CASE r # Root
    <3>1. PICK a \in Roles, b \in Tasks : phase' = [phase EXCEPT ![a][b] = outcome]
      BY <1>1, <2>2, CallerFacts
    <3> QED BY <3>1 DEF Types
  <2> QED BY <2>1, <2>2
<1>4. ~Driven(r)'
  <2>1. CASE r = Root
    BY <1>1, <2>1 DEF Driven
  <2>2. CASE r # Root
    <3>1. PICK a \in Roles, b \in Tasks :
            a = Caller(r) /\ b = CallOf(r) /\ phase' = [phase EXCEPT ![a][b] = outcome]
      BY <1>1, <2>2, CallerFacts
    <3>2. phase'[a][b] = outcome
      BY <3>1 DEF Types
    <3> QED BY <2>2, <3>1, <3>2 DEF Driven
  <2> QED BY <2>1, <2>2
<1>5. \A x \in Roles : Driven(x)' => Driven(x)
  BY <1>1, <1>3, DrivenOnly
<1>6. Drives
  BY <1>1, <1>4, <1>5 DEF Drives
<1>7. pending[r] = NoItem
  BY DEF PausedOK
<1>8. Stays
  BY <1>1, <1>7 DEF Stays, Rests, MInv, RestOK
<1>9. Continues
  BY <1>1, <1>2, <1>3 DEF Continues
<1> QED BY <1>6, <1>8, <1>9, KeepsWork

(* A role that pauses stays where its graph will go on. *)
LEMMA PauseWork ==
  ASSUME ConstantsOK, Types, TInv, PausedOK, MInv, Kept, NEW r \in Roles, Driven(r),
         node[r] \in {"ask_user", "execute"}, NEW item \in 0 .. MaxPlan, Pause(r, item)
  PROVE  MInv'
<1>1. /\ UNCHANGED <<node, result>> /\ pending' = [pending EXCEPT ![r] = item]
      /\ IF r = Root THEN UNCHANGED phase /\ run' # "running"
         ELSE UNCHANGED run /\ phase' = [phase EXCEPT ![Caller(r)][CallOf(r)] = "ask"]
  BY DEF Pause, EndRun
<1>2. pending'[r] # NoItem /\ \A x \in Roles \ {r} : pending'[x] = pending[x]
  BY <1>1 DEF TInv, OtherTypes, ConstantsOK
<1>3. \A x \in Roles, u \in Tasks : phase'[x][u] = phase[x][u] \/ phase'[x][u] = "ask"
  <2>1. CASE r = Root
    BY <1>1, <2>1
  <2>2. CASE r # Root
    <3>1. PICK a \in Roles, b \in Tasks : phase' = [phase EXCEPT ![a][b] = "ask"]
      BY <1>1, <2>2, CallerFacts
    <3> QED BY <3>1 DEF Types
  <2> QED BY <2>1, <2>2
<1>4. Drives
  <2>1. \A x \in Roles : Driven(x)' => Driven(x)
    BY <1>1, <1>3, DrivenOnly
  <2> QED BY <1>1, <2>1 DEF Drives
<1>5. Stays
  BY <1>1, <1>2 DEF Stays, Rests, MInv, RestOK
<1>6. Continues
  BY <1>1, <1>2, <1>3 DEF Continues
<1> QED BY <1>4, <1>5, <1>6, KeepsWork

(* The root's node of a run that waits, and that of a role with a request, *)
(* is not the one that a driven role moves.                                *)
LEMMA DrivenMoves ==
  ASSUME ConstantsOK, PausedOK, MInv, NEW r \in Roles, Driven(r),
         UNCHANGED <<pending, run>>, \A x \in Roles \ {r} : node'[x] = node[x]
  PROVE  Stays
BY DEF PausedOK, MInv, RestOK, Rests, Stays, Driven

(* A role at a node of its own moves to another one. *)
LEMMA NodeWork ==
  ASSUME ConstantsOK, Types, PausedOK, MInv, Kept, NEW r \in Roles, Driven(r),
         NEW n \in Busy, node' = [node EXCEPT ![r] = n],
         UNCHANGED <<run, pending, result, phase>>
  PROVE  MInv'
<1>1. node'[r] \in Busy /\ node'[r] # "absent" /\ node[r] # "absent"
      /\ \A x \in Roles \ {r} : node'[x] = node[x]
  BY DEF Types, MInv, DriveOK, Busy
<1>2. Continues
  BY <1>1 DEF Continues
<1>3. Drives
  BY <1>1 DEF Drives, Driven
<1>4. Stays
  BY <1>1, DrivenMoves
<1> QED BY <1>2, <1>3, <1>4, KeepsWork

(* A task of a wave moves on without calling. *)
LEMMA TaskWork ==
  ASSUME ConstantsOK, Types, MInv, Kept, NEW r \in Roles, NEW t \in Tasks,
         NEW v \in {"exec", "ask", "ok", "bad", "raised"},
         phase' = [phase EXCEPT ![r][t] = v], UNCHANGED <<run, pending, result, node>>
  PROVE  MInv'
<1>1. \A x \in Roles, u \in Tasks : phase'[x][u] = phase[x][u] \/ phase'[x][u] = v
  BY DEF Types
<1>2. Continues
  BY <1>1 DEF Continues
<1>3. Drives
  <2>1. \A x \in Roles : Driven(x)' => Driven(x)
    BY <1>1, DrivenOnly
  <2> QED BY <2>1 DEF Drives
<1>4. Stays
  BY DEF Stays, Rests, MInv, RestOK
<1> QED BY <1>2, <1>3, <1>4, KeepsWork

-----------------------------------------------------------------------------
LEMMA EndWaveWork ==
  ASSUME ConstantsOK, Types, PhasesOK, PausedOK, MInv, Kept, NEW r \in Roles, EndWave(r)
  PROVE  MInv'
<1>1. /\ Driven(r) /\ node[r] = "execute" /\ UNCHANGED <<run, pending>>
      /\ InWave(r, {"sent", "exec", "call", "ask", "raised"}) = {}
      /\ result' = [result EXCEPT ![r] = Merged(r)]
      /\ phase' = [phase EXCEPT ![r] = [t \in Tasks |-> "idle"]]
      /\ node' = [node EXCEPT ![r] = "dispatch"]
  BY DEF EndWave, Executing
<1>2. node'[r] = "dispatch" /\ \A x \in Roles \ {r} : node'[x] = node[x]
  BY <1>1 DEF Types
<1>3. \A x \in Roles, u \in Tasks : phase'[x][u] = phase[x][u] \/ (x = r /\ phase'[x][u] = "idle")
  BY <1>1 DEF Types
<1>4. \A u \in Tasks : phase[r][u] # "idle" => phase[r][u] \in {"ok", "bad"}
  BY <1>1 DEF InWave, PhasesOK, Types, Phases
<1>5. \A x \in Roles, u \in Tasks :
        /\ x # r => result'[x][u] = result[x][u]
        /\ x = r => result'[x][u] = IF phase[r][u] \in {"ok", "bad"} THEN phase[r][u] ELSE result[r][u]
  BY <1>1 DEF Types, Merged
<1>6. Continues
  BY <1>1, <1>2, <1>3, <1>4, <1>5 DEF Continues
<1>7. Drives
  <2>1. \A x \in Roles : Driven(x)' => Driven(x)
    BY <1>1, <1>3, DrivenOnly
  <2> QED BY <1>2, <2>1 DEF Drives, Busy
<1>8. Stays
  BY <1>1, <1>2, DrivenMoves
<1> QED BY <1>6, <1>7, <1>8, KeepsWork

(* A task that is sent for the first time has called nobody. *)
LEMMA SendWork ==
  ASSUME ConstantsOK, Types, PhasesOK, PausedOK, MInv, Kept, NEW r \in Roles,
         Driven(r), node[r] = "dispatch", Send(r)
  PROVE  MInv'
<1>1. /\ UNCHANGED <<run, pending, plan>>
      /\ node' = [node EXCEPT ![r] = "summarize"] \/ node' = [node EXCEPT ![r] = "execute"]
      /\ Block(r)
      /\ \/ UNCHANGED phase
         \/ phase' = [phase EXCEPT ![r] = [t \in Tasks |-> IF t \in NextWave(r) THEN "sent" ELSE "idle"]]
  BY DEF Send
<1>2. node'[r] \in {"summarize", "execute"} /\ \A x \in Roles \ {r} : node'[x] = node[x]
  BY <1>1 DEF Types
<1>3. \A u \in Tasks : phase[r][u] = "idle"
  BY DEF PhasesOK
<1>4. \A x \in Roles, u \in Tasks : result[x][u] # "none" => result'[x][u] # "none"
  BY <1>1 DEF Block, Types
<1>5. \A x \in Roles, u \in Tasks :
        phase'[x][u] = phase[x][u] \/ (x = r /\ u \in NextWave(r) /\ phase'[x][u] = "sent")
  BY <1>1, <1>3 DEF Types
<1>6. \A u \in NextWave(r) : result[r][u] = "none"
  BY DEF NextWave, Wave, Ready, OldWave, Open
<1>7. ASSUME NEW x \in Roles, NEW u \in Tasks,
             phase'[x][u] = "sent", Tool(x, u) \in Agents, Child(x, u) \in Roles
      PROVE  node'[Child(x, u)] = "absent" \/ pending'[Child(x, u)] # NoItem
  <2>1. CASE phase[x][u] = "sent"
    <3>1. node[Child(x, u)] = "absent" \/ pending[Child(x, u)] # NoItem
      BY <1>7, <2>1 DEF MInv, SentOK, Enters
    <3> QED BY <1>1, <1>2, <1>7, <3>1
  <2>2. CASE phase[x][u] # "sent"
    <3>1. x = r /\ result[r][u] = "none"
      BY <1>5, <1>6, <1>7, <2>2
    <3>2. node[Child(r, u)] = "absent"
      BY <1>3, <1>7, <3>1 DEF MInv, CalledOK
    <3>3. Child(r, u) # r
      BY <3>2
    <3> QED BY <1>2, <1>7, <3>1, <3>2, <3>3
  <2> QED BY <2>1, <2>2
<1>8. SentOK'
  BY <1>1, <1>7 DEF SentOK, Enters, Tool, Child
<1>9. CalledOK'
  <2> SUFFICES ASSUME NEW x \in Roles, NEW u \in Tasks
               PROVE  /\ phase'[x][u] = "call" => Child(x, u) \in Roles
                      /\ Child(x, u) \in Roles /\ node'[Child(x, u)] # "absent" =>
                           result'[x][u] # "none" \/ phase'[x][u] # "idle"
    BY DEF CalledOK, Child
  <2>1. phase'[x][u] = "call" => phase[x][u] = "call"
    BY <1>5
  <2>2. phase[x][u] # "idle" => phase'[x][u] # "idle"
    BY <1>5
  <2>3. \A y \in Roles : node'[y] # "absent" => node[y] # "absent"
    BY <1>2
  <2> QED BY <1>4, <2>1, <2>2, <2>3 DEF MInv, CalledOK
<1>10. Drives
  <2>1. \A x \in Roles : Driven(x)' => Driven(x)
    BY <1>1, <1>5, DrivenOnly
  <2> QED BY <1>2, <2>1 DEF Drives, Busy
<1>11. Stays
  BY <1>1, <1>2, DrivenMoves
<1> QED BY <1>8, <1>9, <1>10, <1>11 DEF MInv, DriveOK, RestOK, Drives, Stays

LEMMA StepWork ==
  ASSUME ConstantsOK, IInv, TInv, ShapesOK, PhasesOK, PausedOK, MInv, Kept, NEW r \in Roles, Step(r)
  PROVE  MInv'
<1>0. Types
  BY DEF IInv
<1>1. CASE MakePlan(r)
  <2>1. /\ Driven(r) /\ "clarify" \in Busy /\ node' = [node EXCEPT ![r] = "clarify"]
        /\ UNCHANGED <<run, pending, result, phase>>
    BY <1>1 DEF MakePlan, At, Busy
  <2> QED BY <1>0, <2>1, NodeWork
<1>2. CASE Clarify(r)
  <2>1. PICK n \in {"ask_user", "dispatch"} : node' = [node EXCEPT ![r] = n]
    BY <1>2 DEF Clarify
  <2>2. Driven(r) /\ n \in Busy /\ UNCHANGED <<run, pending, result, phase>>
    BY <1>2 DEF Clarify, At, Busy
  <2> QED BY <1>0, <2>1, <2>2, NodeWork
<1>3. CASE RefusePlan(r) \/ PlannerFails(r) \/ RaiseWave(r) \/ StopNode(r) \/ Summarize(r)
  <2>1. Driven(r) /\ \E outcome \in {"ok", "bad", "raised"} : Leave(r, outcome)
    BY <1>3 DEF RefusePlan, PlannerFails, RaiseWave, StopNode, Summarize, At, Executing
  <2> QED BY <1>0, <2>1, LeaveWork
<1>4. CASE AskUser(r)
  <2>1. Driven(r) /\ node[r] = "ask_user" /\ Pause(r, 0)
    BY <1>4 DEF AskUser, At
  <2>2. 0 \in 0 .. MaxPlan
    BY DEF ConstantsOK
  <2> QED BY <1>0, <2>1, <2>2, PauseWork
<1>5. CASE PauseWave(r)
  <2>1. /\ Driven(r) /\ node[r] = "execute" /\ InWave(r, {"ask"}) # {}
        /\ Pause(r, CHOOSE t \in InWave(r, {"ask"}) : \A u \in InWave(r, {"ask"}) : t <= u)
    BY <1>5 DEF PauseWave, Executing
  <2>2. (CHOOSE t \in InWave(r, {"ask"}) : \A u \in InWave(r, {"ask"}) : t <= u) \in 0 .. MaxPlan
    <3>1. InWave(r, {"ask"}) \subseteq 1 .. MaxPlan /\ MaxPlan \in Nat
      BY DEF InWave, ShapesOK, Tasks, ConstantsOK
    <3>2. PICK m \in InWave(r, {"ask"}) : \A u \in InWave(r, {"ask"}) : m <= u
      BY <2>1, <3>1, Least
    <3>3. (CHOOSE t \in InWave(r, {"ask"}) : \A u \in InWave(r, {"ask"}) : t <= u) \in InWave(r, {"ask"})
      BY <3>2
    <3> QED BY <3>1, <3>3
  <2> QED BY <1>0, <2>1, <2>2, PauseWork
<1>6. CASE Dispatch(r)
  <2>1. Driven(r) /\ node[r] = "dispatch" /\ (Leave(r, "raised") \/ Send(r))
    BY <1>6 DEF Dispatch, At
  <2> QED BY <1>0, <2>1, LeaveWork, SendWork
<1>7. CASE EndWave(r)
  BY <1>0, <1>7, EndWaveWork
<1> QED BY <1>1, <1>2, <1>3, <1>4, <1>5, <1>6, <1>7 DEF Step

-----------------------------------------------------------------------------
(* A role that is called for the first time starts with its plan. *)
LEMMA FoundWork ==
  ASSUME ConstantsOK, Types, PausedOK, MInv, Kept, NEW r \in Roles, NEW t \in Tasks,
         Child(r, t) \in Roles, node[Child(r, t)] = "absent",
         node' = [node EXCEPT ![Child(r, t)] = "plan"],
         phase' = [phase EXCEPT ![r][t] = "call"], UNCHANGED <<run, pending, result, plan>>
  PROVE  MInv'
<1> DEFINE c == Child(r, t)
<1>1. c # Root /\ \A x \in Roles, u \in Tasks : Child(x, u) = c => x = r /\ u = t
  BY ChildFacts
<1>2. node'[c] = "plan" /\ \A x \in Roles : x # c => node'[x] = node[x]
  BY DEF Types
<1>3. /\ phase'[r][t] = "call"
      /\ \A x \in Roles, u \in Tasks : ~(x = r /\ u = t) => phase'[x][u] = phase[x][u]
  BY DEF Types
<1>4. \A x \in Roles : x # c => (Driven(x)' => Driven(x))
  <2> SUFFICES ASSUME NEW x \in Roles, x # c, x # Root PROVE Driven(x)' => Driven(x)
    BY DEF Driven
  <2>1. Caller(x) \in Roles /\ CallOf(x) \in Tasks /\ ~(Caller(x) = r /\ CallOf(x) = t)
    BY CallerFacts
  <2> QED BY <1>3, <2>1 DEF Driven
<1>5. pending[c] = NoItem
  BY DEF PausedOK
<1> HIDE DEF c
<1>6. DriveOK'
  BY <1>2, <1>4 DEF MInv, DriveOK, Busy
<1>7. RestOK'
  BY <1>1, <1>2, <1>5 DEF MInv, RestOK, Rests
<1>8. CalledOK'
  <2> SUFFICES ASSUME NEW x \in Roles, NEW u \in Tasks
               PROVE  /\ phase'[x][u] = "call" => Child(x, u) \in Roles
                      /\ Child(x, u) \in Roles /\ node'[Child(x, u)] # "absent" =>
                           result'[x][u] # "none" \/ phase'[x][u] # "idle"
    BY DEF CalledOK, Child
  <2>1. CASE x = r /\ u = t
    BY <1>3, <2>1
  <2>2. CASE ~(x = r /\ u = t)
    <3>1. Child(x, u) # c
      BY <1>1, <2>2
    <3> QED BY <1>2, <1>3, <2>2, <3>1 DEF MInv, CalledOK
  <2> QED BY <2>1, <2>2
<1>9. SentOK'
  <2> SUFFICES ASSUME NEW x \in Roles, NEW u \in Tasks,
                      phase'[x][u] = "sent", Tool(x, u)' \in Agents, Child(x, u) \in Roles
               PROVE  node'[Child(x, u)] = "absent" \/ pending'[Child(x, u)] # NoItem
    BY DEF SentOK, Enters, Child
  <2>1. ~(x = r /\ u = t)
    BY <1>3
  <2>2. phase[x][u] = "sent" /\ Tool(x, u) \in Agents
    BY <1>3, <2>1 DEF Tool
  <2>3. Child(x, u) # c
    BY <1>1, <2>1
  <2> QED BY <1>2, <2>2, <2>3 DEF MInv, SentOK, Enters
<1> QED BY <1>6, <1>7, <1>8, <1>9 DEF MInv

(* A response goes down to a role that is paused: the tasks that asked are *)
(* sent again, and only the role whose caller goes on is driven anew.      *)
LEMMA ResumeWork ==
  ASSUME ConstantsOK, Types, TInv, PausedOK, AskingOK, MInv, Kept,
         NEW r \in Roles, NEW t \in Tasks, ResumeAgent(r, t)
  PROVE  MInv'
<1> DEFINE c == Child(r, t)
<1>1. /\ c \in Roles /\ pending[c] # NoItem
      /\ pending' = [pending EXCEPT ![c] = NoItem]
      /\ phase' = [phase EXCEPT ![r][t] = "call", ![c] = Resent(c)]
      /\ node' = [node EXCEPT ![c] = IF Replan(c) THEN "plan" ELSE @]
      /\ UNCHANGED <<run, plan, result>>
  BY DEF ResumeAgent, Deliver
<1>2. c # r /\ c # Root /\ \A x \in Roles, u \in Tasks : Child(x, u) = c => x = r /\ u = t
  BY ChildFacts, RolesAreSeqs
<1> HIDE DEF c
<1>3. pending'[c] = NoItem /\ \A x \in Roles : x # c => pending'[x] = pending[x]
  BY <1>1 DEF TInv, OtherTypes
<1>4. /\ phase'[r][t] = "call"
      /\ \A x \in Roles, u \in Tasks :
           ~(x = r /\ u = t) => phase'[x][u] = phase[x][u] \/ (phase[x][u] = "ask" /\ phase'[x][u] = "sent")
  BY <1>1, <1>2 DEF Types, Resent
<1>5. node[c] \in {"ask_user", "execute"}
  BY <1>1 DEF MInv, RestOK, Rests
<1>6. node'[c] \in {"plan", "execute"} /\ \A x \in Roles : x # c => node'[x] = node[x]
  BY <1>1, <1>5 DEF Types, Replan
<1>7. \A x \in Roles : x # c => (Driven(x)' => Driven(x))
  <2> SUFFICES ASSUME NEW x \in Roles, x # c, x # Root PROVE Driven(x)' => Driven(x)
    BY <1>1 DEF Driven
  <2>1. Caller(x) \in Roles /\ CallOf(x) \in Tasks /\ ~(Caller(x) = r /\ CallOf(x) = t)
    BY CallerFacts DEF c
  <2> QED BY <1>4, <2>1 DEF Driven
<1>8. DriveOK'
  BY <1>6, <1>7 DEF MInv, DriveOK, Busy
<1>9. RestOK'
  BY <1>1, <1>2, <1>3, <1>6 DEF MInv, RestOK, Rests
<1>10. CalledOK'
  <2> SUFFICES ASSUME NEW x \in Roles, NEW u \in Tasks
               PROVE  /\ phase'[x][u] = "call" => Child(x, u) \in Roles
                      /\ Child(x, u) \in Roles /\ node'[Child(x, u)] # "absent" =>
                           result'[x][u] # "none" \/ phase'[x][u] # "idle"
    BY DEF CalledOK, Child
  <2>1. CASE x = r /\ u = t
    BY <1>1, <1>4, <2>1 DEF c
  <2>2. CASE ~(x = r /\ u = t)
    <3>1. /\ phase'[x][u] = "call" => phase[x][u] = "call"
          /\ phase[x][u] # "idle" => phase'[x][u] # "idle"
      BY <1>4, <2>2
    <3>2. \A y \in Roles : node'[y] # "absent" => node[y] # "absent"
      BY <1>5, <1>6
    <3> QED BY <1>1, <3>1, <3>2 DEF MInv, CalledOK
  <2> QED BY <2>1, <2>2
<1>11. SentOK'
  <2> SUFFICES ASSUME NEW x \in Roles, NEW u \in Tasks,
                      phase'[x][u] = "sent", Tool(x, u)' \in Agents, Child(x, u) \in Roles
               PROVE  node'[Child(x, u)] = "absent" \/ pending'[Child(x, u)] # NoItem
    BY DEF SentOK, Enters, Child
  <2>1. ~(x = r /\ u = t) /\ Child(x, u) # c
    BY <1>2, <1>4
  <2>2. phase[x][u] \in {"sent", "ask"} /\ Tool(x, u) \in Agents
    BY <1>1, <1>4, <2>1 DEF Tool
  <2>3. node[Child(x, u)] = "absent" \/ pending[Child(x, u)] # NoItem
    BY <2>2 DEF MInv, SentOK, Enters, AskingOK
  <2> QED BY <1>3, <1>6, <2>1, <2>3
<1> QED BY <1>8, <1>9, <1>10, <1>11 DEF MInv

(* The user's answer does the same at the root. *)
LEMMA AnswerWork ==
  ASSUME ConstantsOK, Types, TInv, AskingOK, MInv, Kept, NEW t, NEW answer, Answer(t, answer)
  PROVE  MInv'
<1>1. /\ run = "waiting" /\ run' = "running"
      /\ pending' = [pending EXCEPT ![Root] = NoItem]
      /\ phase' = [phase EXCEPT ![Root] = Resent(Root)]
      /\ node' = [node EXCEPT ![Root] = IF Replan(Root) THEN "plan" ELSE @]
      /\ UNCHANGED <<plan, result>>
  BY DEF Answer, Deliver
<1>2. Root \in Roles /\ \A x \in Roles, u \in Tasks : Child(x, u) # Root
  BY RootIsRole, ChildFacts
<1>3. pending'[Root] = NoItem /\ \A x \in Roles : x # Root => pending'[x] = pending[x]
  BY <1>1, <1>2 DEF TInv, OtherTypes
<1>4. \A x \in Roles, u \in Tasks :
        phase'[x][u] = phase[x][u] \/ (phase[x][u] = "ask" /\ phase'[x][u] = "sent")
  BY <1>1, <1>2 DEF Types, Resent
<1>5. node[Root] \in {"ask_user", "execute"}
  BY <1>1, <1>2 DEF MInv, RestOK, Rests
<1>6. node'[Root] \in {"plan", "execute"} /\ \A x \in Roles : x # Root => node'[x] = node[x]
  BY <1>1, <1>2, <1>5 DEF Types, Replan
<1>7. \A x \in Roles : x # Root => (Driven(x)' => Driven(x))
  BY <1>4, CallerFacts DEF Driven
<1>8. DriveOK'
  BY <1>6, <1>7 DEF MInv, DriveOK, Busy
<1>9. RestOK'
  BY <1>1, <1>3, <1>6 DEF MInv, RestOK, Rests
<1>10. CalledOK'
  <2> SUFFICES ASSUME NEW x \in Roles, NEW u \in Tasks
               PROVE  /\ phase'[x][u] = "call" => Child(x, u) \in Roles
                      /\ Child(x, u) \in Roles /\ node'[Child(x, u)] # "absent" =>
                           result'[x][u] # "none" \/ phase'[x][u] # "idle"
    BY DEF CalledOK, Child
  <2>1. /\ phase'[x][u] = "call" => phase[x][u] = "call"
        /\ phase[x][u] # "idle" => phase'[x][u] # "idle"
    BY <1>4
  <2> QED BY <1>1, <1>2, <1>6, <2>1 DEF MInv, CalledOK
<1>11. SentOK'
  <2> SUFFICES ASSUME NEW x \in Roles, NEW u \in Tasks,
                      phase'[x][u] = "sent", Tool(x, u)' \in Agents, Child(x, u) \in Roles
               PROVE  node'[Child(x, u)] = "absent" \/ pending'[Child(x, u)] # NoItem
    BY DEF SentOK, Enters, Child
  <2>1. phase[x][u] \in {"sent", "ask"} /\ Tool(x, u) \in Agents
    BY <1>1, <1>4 DEF Tool
  <2>2. node[Child(x, u)] = "absent" \/ pending[Child(x, u)] # NoItem
    BY <2>1 DEF MInv, SentOK, Enters, AskingOK
  <2> QED BY <1>2, <1>3, <1>6, <2>2
<1> QED BY <1>8, <1>9, <1>10, <1>11 DEF MInv

LEMMA TaskStepWork ==
  ASSUME ConstantsOK, Types, TInv, PausedOK, AskingOK, MInv, Kept,
         NEW r \in Roles, NEW t \in Tasks, TaskStep(r, t)
  PROVE  MInv'
<1>1. CASE RunTool(r, t) \/ AskApproval(r, t) \/ AskAgain(r, t) \/ ToolReturns(r, t) \/ StopTask(r, t)
  <2>1. /\ UNCHANGED <<run, pending, result, node>>
        /\ \E v \in {"exec", "ask", "ok", "bad", "raised"} : phase' = [phase EXCEPT ![r][t] = v]
    BY <1>1 DEF RunTool, AskApproval, AskAgain, ToolReturns, StopTask
  <2> QED BY <2>1, TaskWork
<1>2. CASE CallAgent(r, t)
  <2>1. CASE Tool(r, t) = agent[r] \/ Len(Child(r, t)) > MaxDepth
    <3>1. /\ UNCHANGED <<run, pending, result, node>>
          /\ \E v \in {"bad", "raised"} : phase' = [phase EXCEPT ![r][t] = v]
      BY <1>2, <2>1 DEF CallAgent
    <3> QED BY <3>1, TaskWork
  <2>2. CASE ~(Tool(r, t) = agent[r] \/ Len(Child(r, t)) > MaxDepth)
    <3>1. Child(r, t) \in Roles
      BY <2>2, ChildFacts, RolesAreSeqs DEF ConstantsOK
    <3>2. /\ node[Child(r, t)] = "absent" /\ node' = [node EXCEPT ![Child(r, t)] = "plan"]
          /\ phase' = [phase EXCEPT ![r][t] = "call"] /\ UNCHANGED <<run, pending, result, plan>>
      BY <1>2, <2>2 DEF CallAgent
    <3> QED BY <3>1, <3>2, FoundWork
  <2> QED BY <2>1, <2>2
<1>3. CASE ResumeAgent(r, t)
  BY <1>3, ResumeWork
<1>4. CASE RecordResult(r, t)
  <2>1. UNCHANGED <<run, pending, result, node, phase>>
    BY <1>4 DEF RecordResult
  <2>2. Continues /\ Drives /\ Stays
    BY <2>1 DEF Continues, Drives, Stays, Driven, Rests, MInv, RestOK
  <2> QED BY <2>2, KeepsWork
<1> QED BY <1>1, <1>2, <1>3, <1>4 DEF TaskStep

LEMMA NextMove ==
  ConstantsOK /\ IInv /\ TInv /\ SInv /\ PhasesOK /\ CInv /\ MInv /\ [Next]_vars => MInv'
<1> SUFFICES ASSUME ConstantsOK, IInv, TInv, SInv, PhasesOK, CInv, MInv, [Next]_vars PROVE MInv'
  OBVIOUS
<1>1. Types /\ ShapesOK /\ PausedOK /\ AskingOK
  BY DEF IInv, SInv, CInv
<1>2. Kept
  BY <1>1, NextKept
<1>3. CASE Work
  BY <1>1, <1>2, <1>3, StepWork, TaskStepWork DEF Work
<1>4. CASE Respond
  BY <1>1, <1>2, <1>4, AnswerWork DEF Respond
<1>5. CASE Cancel \/ UNCHANGED vars
  <2>1. /\ UNCHANGED <<pending, result, node, phase>>
        /\ run' \in {"running", "waiting"} => run' = run
    BY <1>5 DEF Cancel, EndRun, vars
  <2>2. Continues
    BY <2>1 DEF Continues
  <2>3. Drives
    BY <2>1 DEF Drives, Driven
  <2>4. Stays
    BY <2>1 DEF Stays, Rests, MInv, RestOK
  <2> QED BY <1>2, <2>2, <2>3, <2>4, KeepsWork
<1> QED BY <1>3, <1>4, <1>5 DEF Next

LEMMA InitMove == ConstantsOK /\ Init => MInv
<1> SUFFICES ASSUME ConstantsOK, Init PROVE MInv
  OBVIOUS
<1>1. \A r \in Roles : r # Root => ~Driven(r) /\ node[r] = "absent"
  BY CallerFacts DEF Init, Driven
<1>2. DriveOK /\ RestOK
  BY <1>1, RootIsRole DEF Init, DriveOK, RestOK, Rests, Busy
<1>3. CalledOK /\ SentOK
  BY <1>1, ChildFacts DEF Init, CalledOK, SentOK, Enters
<1> QED BY <1>2, <1>3 DEF MInv

-----------------------------------------------------------------------------
(* Of the roles that are driven some are the deepest. *)
LEMMA DeepestDriven ==
  ASSUME ConstantsOK, run = "running"
  PROVE  \E r \in Roles : Driven(r) /\ \A q \in Roles : Driven(q) => Len(q) <= Len(r)
<1> DEFINE S == {n \in 1 .. MaxDepth + 1 : \E r \in Roles : Driven(r) /\ Len(r) = MaxDepth + 1 - n}
<1>1. \A r \in Roles : Len(r) \in 0 .. MaxDepth /\ MaxDepth \in Nat
  BY RolesAreSeqs DEF ConstantsOK
<1>2. Root \in Roles /\ Driven(Root) /\ Len(Root) = 0
  BY RootIsRole DEF Driven, Root
<1>3. MaxDepth + 1 \in S
  BY <1>1, <1>2
<1>4. S \subseteq 1 .. MaxDepth + 1 /\ S # {} /\ MaxDepth + 1 \in Nat
  <2>1. S \subseteq 1 .. MaxDepth + 1
    OBVIOUS
  <2>2. MaxDepth + 1 \in Nat
    BY DEF ConstantsOK
  <2>3. S # {}
    <3> HIDE DEF S
    <3> QED BY <1>3
  <2> QED BY <2>1, <2>2, <2>3
<1>5. PICK m \in S : \A u \in S : m <= u
  <2> HIDE DEF S
  <2> QED BY <1>4, Least
<1>6. PICK r \in Roles : Driven(r) /\ Len(r) = MaxDepth + 1 - m
  BY <1>5
<1>7. ASSUME NEW q \in Roles, Driven(q) PROVE Len(q) <= Len(r)
  <2>1. MaxDepth + 1 - Len(q) \in S
    BY <1>1, <1>7
  <2>2. m <= MaxDepth + 1 - Len(q) /\ m \in 1 .. MaxDepth + 1
    BY <1>5, <2>1
  <2> QED BY <1>1, <1>6, <2>2
<1> QED BY <1>6, <1>7

(* The deepest role that is driven can move, or one of its tasks can: it   *)
(* waits for no role below it.                                             *)
LEMMA DeepestMoves ==
  ASSUME ConstantsOK, Types, ShapesOK, MInv, run = "running"
  PROVE  \E r \in Roles : RoleMay(r) \/ \E t \in Tasks : TaskMay(r, t)
<1>1. PICK r \in Roles : Driven(r) /\ \A q \in Roles : Driven(q) => Len(q) <= Len(r)
  BY DeepestDriven
<1>2. \A t \in Tasks : phase[r][t] # "call"
  <2> SUFFICES ASSUME NEW t \in Tasks, phase[r][t] = "call" PROVE FALSE
    OBVIOUS
  <2>1. Child(r, t) \in Roles
    BY DEF MInv, CalledOK
  <2>2. /\ Child(r, t) # Root /\ Len(Child(r, t)) = Len(r) + 1 /\ Len(r) \in Nat
        /\ Caller(Child(r, t)) = r /\ CallOf(Child(r, t)) = t
    BY ChildFacts, RolesAreSeqs
  <2>3. Driven(Child(r, t))
    BY <2>2 DEF Driven
  <2> QED BY <1>1, <2>1, <2>2, <2>3
<1>3. node[r] \in Busy
  BY <1>1 DEF MInv, DriveOK
<1>4. CASE node[r] # "execute"
  BY <1>1, <1>3, <1>4 DEF RoleMay
<1>5. CASE node[r] = "execute"
  <2>1. Executing(r) /\ \A t \in Planned(r) : t \in Tasks /\ phase[r][t] \in Phases
    BY <1>1, <1>5 DEF Executing, ShapesOK, Types
  <2>2. CASE \E t \in Planned(r) : phase[r][t] = "exec"
    BY <2>1, <2>2 DEF TaskMay
  <2>3. CASE \E t \in Planned(r) : phase[r][t] = "sent"
    <3>1. PICK t \in Planned(r) : phase[r][t] = "sent"
      BY <2>3
    <3>2. t \in Tasks
      BY <2>1
    <3>3. Len(Child(r, t)) > MaxDepth \/ Child(r, t) \in Roles
      <4>1. Len(Child(r, t)) \in Nat /\ MaxDepth \in Nat
        BY <3>2, ChildFacts, RolesAreSeqs DEF ConstantsOK
      <4> QED BY <3>2, <4>1, ChildFacts
    <3>4. TaskMay(r, t)
      BY <2>1, <3>1, <3>2, <3>3 DEF TaskMay, MInv, SentOK, Enters
    <3> QED BY <3>2, <3>4
  <2>4. CASE \A t \in Planned(r) : phase[r][t] \notin {"exec", "sent"}
    <3>1. InWave(r, {"exec", "call"}) = {}
      BY <1>2, <2>1, <2>4 DEF InWave
    <3>2. CASE InWave(r, {"raised"}) # {}
      BY <2>1, <3>1, <3>2 DEF RoleMay
    <3>3. CASE InWave(r, {"raised"}) = {}
      <4>1. InWave(r, {"sent", "exec", "call", "raised"}) = {}
        BY <2>4, <3>1, <3>3 DEF InWave
      <4>2. CASE Recorded(r)
        BY <2>1, <4>1, <4>2 DEF RoleMay
      <4>3. CASE ~Recorded(r)
        <5>1. PICK t \in Planned(r) : phase[r][t] \in {"ok", "bad"} /\ row[r][t] # Outcome(phase[r][t])
          BY <4>3 DEF Recorded, InWave
        <5> QED BY <2>1, <5>1 DEF TaskMay
      <4> QED BY <4>2, <4>3
    <3> QED BY <3>2, <3>3
  <2> QED BY <2>2, <2>3, <2>4
<1> QED BY <1>4, <1>5

MoveInv == ConsentInv /\ MInv

(* While the run is running the guard of some step of a role or of a task  *)
(* holds, so the threads of its graphs never all wait for each other: a    *)
(* response reaches a role that asked, a failure or a stop leaves a graph  *)
(* that can end, and the end of a wave never waits for a result that will  *)
(* not be recorded (delegation.py, runtime.py execute_delegate).           *)
THEOREM WorkIsLeftTheorem == Spec => []WorkIsLeft
<1>1. Init => MoveInv
  BY ConstantsOK, InitIInv, InitTree, InitWork, InitTypes, InitConsent, InitMove
     DEF MoveInv, TreeInv, ConsentInv
<1>2. MoveInv /\ [Next]_vars => MoveInv'
  BY ConstantsOK, NextKeeps, NextTree, NextWork, NextTypes, NextConsent, NextMove
     DEF MoveInv, TreeInv, WInv, ConsentInv
<1>3. MoveInv => WorkIsLeft
  BY ConstantsOK, DeepestMoves DEF MoveInv, ConsentInv, TreeInv, IInv, SInv, WorkIsLeft
<1> QED BY <1>1, <1>2, <1>3, PTL DEF Spec
=============================================================================
