------------------------------ MODULE Catalog ------------------------------
(***************************************************************************)
(* The configurations of the database: providers, models, agents and       *)
(* workflows, how they may be saved (Records.save), what a run freezes of  *)
(* them (Records.snapshot), and the connection tests of the agents         *)
(* (AgentRegistry), which worker threads run while other requests save.    *)
(***************************************************************************)
EXTENDS Naturals, FiniteSets

CONSTANTS
  Agents, Models, Providers, Flows,
  First,      \* what bootstrap puts into an empty database: provider, model, agent, flow
  EnvKeys,    \* providers whose environment variable holds a credential
  Testers,    \* worker threads with a connection test
  MaxEdits,   \* bound: requests that change a configuration
  None        \* no row, no agent, no test

Types == {"text", "multimodal", "embedding"}
Kinds == {"single", "frontend-review"}

ProviderRow == [on : BOOLEAN, ref : {"env", "keyring"}, stamp : 0 .. MaxEdits]
ModelRow == [on : BOOLEAN, type : Types, image : BOOLEAN, provider : Providers, stamp : 0 .. MaxEdits]
AgentRow == [on : BOOLEAN, callable : BOOLEAN, model : Models, revision : 1 .. MaxEdits + 1]
FlowRow == [on : BOOLEAN, kind : Kinds, code : Agents, review : Agents \cup {None},
            revision : 1 .. MaxEdits + 1]

ASSUME CatalogConstants ==
  /\ First \in [provider : Providers, model : Models, agent : Agents, flow : Flows]
  /\ EnvKeys \subseteq Providers /\ MaxEdits \in Nat
  /\ None \notin Agents \cup Models \cup Providers \cup Flows
  /\ None \notin ProviderRow \cup ModelRow \cup AgentRow \cup FlowRow

VARIABLES
  cfg,        \* the rows of each kind, and setting default_workflow_id
  keyring,    \* providers with a password in the system's keyring
  tester,     \* the test each worker is at: agent, its configuration, whether it can start
  test,       \* Agent.test_result, with the configuration that was tested
  edits

catalogVars == <<cfg, keyring, tester, test, edits>>

CatalogInit ==
  /\ cfg = [provider |-> [p \in Providers |-> IF p # First.provider THEN None
                            ELSE [on |-> TRUE, ref |-> "env", stamp |-> 0]],
            model |-> [m \in Models |-> IF m # First.model THEN None
                            ELSE [on |-> TRUE, type |-> "text", image |-> FALSE,
                                  provider |-> First.provider, stamp |-> 0]],
            agent |-> [a \in Agents |-> IF a # First.agent THEN None
                            ELSE [on |-> TRUE, callable |-> FALSE, model |-> First.model,
                                  revision |-> 1]],
            flow |-> [f \in Flows |-> IF f # First.flow THEN None
                            ELSE [on |-> TRUE, kind |-> "single", code |-> First.agent,
                                  review |-> None, revision |-> 1]],
            default |-> First.flow]
  /\ keyring = {} /\ edits = 0
  /\ tester = [w \in Testers |-> None]
  /\ test = [a \in Agents |-> None]

Saved(kind, x) == cfg[kind][x] # None
ConfigOf(a) == LET agent == cfg.agent[a]  model == cfg.model[agent.model] IN
               [agent |-> agent, model |-> model, provider |-> cfg.provider[model.provider]]
Executable(c) == c.agent.on /\ c.model.on /\ c.provider.on /\ c.model.type # "embedding"
Steps(f) == {cfg.flow[f].code, cfg.flow[f].review} \ {None}

(* What Records.snapshot demands of a workflow before it freezes it. *)
Runnable(f) == /\ Saved("flow", f) /\ cfg.flow[f].on
               /\ \A a \in Steps(f) : Executable(ConfigOf(a))

-----------------------------------------------------------------------------
Edit == edits < MaxEdits /\ edits' = edits + 1
Put(kind, x, row) == /\ Edit
                     /\ cfg' = [cfg EXCEPT ![kind][x] = row]
                     /\ UNCHANGED <<keyring, tester, test>>
Revision(kind, x) == IF Saved(kind, x) THEN cfg[kind][x].revision + 1 ELSE 1

SaveProvider(p, on, ref) ==
  Put("provider", p, [on |-> on, ref |-> ref, stamp |-> edits + 1])

(* model_type and input_types: whichever is given decides the other one. *)
SaveModel(m, provider, on, given, type, image) ==
  LET old    == cfg.model[m]
      inputs == IF "inputs" \in given THEN image ELSE old # None /\ old.image
      kept   == IF old # None THEN old.type ELSE IF inputs THEN "multimodal" ELSE "text"
      chosen == IF "type" \in given THEN type
                ELSE IF "inputs" \notin given \/ kept = "embedding" THEN kept
                ELSE IF inputs THEN "multimodal" ELSE "text" IN
  /\ Saved("provider", provider)
  /\ Put("model", m, [on |-> on, type |-> chosen,
                      image |-> IF "type" \in given THEN chosen = "multimodal" ELSE inputs,
                      provider |-> provider, stamp |-> edits + 1])

SaveAgent(a, model, on, callable) ==
  /\ Saved("model", model)
  /\ Put("agent", a, [on |-> on, callable |-> callable, model |-> model,
                      revision |-> Revision("agent", a)])

(* A review agent that is not given stays bound, if the workflow had one;  *)
(* the one of a single-agent workflow is not kept.                         *)
MayDisableAny(f) == TRUE
MayDisable(f) == ~Saved("flow", f) \/ cfg.default # f
SaveFlow(f, kind, code, review, on) ==
  LET reviewer == IF kind = "single" THEN None ELSE review IN
  /\ on \/ MayDisable(f)
  /\ kind = "frontend-review" => review # None
  /\ \A a \in {code, reviewer} \ {None} : Saved("agent", a) /\ ConfigOf(a).model.type # "embedding"
  /\ Put("flow", f, [on |-> on, kind |-> kind, code |-> code, review |-> reviewer,
                     revision |-> Revision("flow", f)])

SetDefault(f) == /\ Runnable(f) /\ Edit
                 /\ cfg' = [cfg EXCEPT !.default = f]
                 /\ UNCHANGED <<keyring, tester, test>>

Stamped(p, ref) == [cfg EXCEPT !.provider[p].ref = ref, !.provider[p].stamp = edits + 1]
SetCredential(p) == /\ Saved("provider", p) /\ Edit
                    /\ keyring' = keyring \cup {p}
                    /\ cfg' = Stamped(p, "keyring")
                    /\ UNCHANGED <<tester, test>>
DeleteCredential(p) == /\ Saved("provider", p) /\ Edit
                       /\ keyring' = keyring \ {p}
                       /\ cfg' = Stamped(p, cfg.provider[p].ref)
                       /\ UNCHANGED <<tester, test>>

-----------------------------------------------------------------------------
(* The local checks of AgentRegistry.issues. *)
HasSecret(c) == LET p == c.model.provider IN
                IF c.provider.ref = "env" THEN p \in EnvKeys ELSE p \in keyring
NoIssues(c) == Executable(c) /\ HasSecret(c)

TestBegin(w, a) ==
  /\ tester[w] = None /\ Saved("agent", a)
  /\ tester' = [tester EXCEPT ![w] = [agent |-> a, config |-> ConfigOf(a), fine |-> NoIssues(ConfigOf(a))]]
  /\ UNCHANGED <<cfg, keyring, test, edits>>

(* The fingerprint that is saved with a result. *)
TestedAsSaved(t) == ConfigOf(t.agent)
TestedAs(t) == t.config

TestEnd(w, reached) ==
  LET t == tester[w] IN
  /\ t # None
  /\ test' = [test EXCEPT ![t.agent] = [passed |-> t.fine /\ reached, config |-> t.config,
                                        fingerprint |-> TestedAs(t)]]
  /\ tester' = [tester EXCEPT ![w] = None]
  /\ UNCHANGED <<cfg, keyring, edits>>

(* What AgentRegistry.status shows of an agent's last test. *)
Shown(a) == IF test[a] = None THEN "none"
            ELSE IF test[a].fingerprint # ConfigOf(a) THEN "stale"
            ELSE IF test[a].passed THEN "passed" ELSE "failed"

CatalogRequest ==
  \/ \E p \in Providers : \/ \E on \in BOOLEAN, ref \in {"env", "keyring"} : SaveProvider(p, on, ref)
                          \/ SetCredential(p) \/ DeleteCredential(p)
  \/ \E m \in Models, p \in Providers, on, image \in BOOLEAN, type \in Types,
        given \in SUBSET {"type", "inputs"} : SaveModel(m, p, on, given, type, image)
  \/ \E a \in Agents, m \in Models, on, callable \in BOOLEAN : SaveAgent(a, m, on, callable)
  \/ \E f \in Flows, kind \in Kinds, code \in Agents, review \in Agents \cup {None}, on \in BOOLEAN :
        SaveFlow(f, kind, code, review, on)
  \/ \E f \in Flows : SetDefault(f)
Testing == \E w \in Testers : \/ \E a \in Agents : TestBegin(w, a)
                              \/ \E reached \in BOOLEAN : TestEnd(w, reached)

CatalogTypeOK ==
  /\ cfg.provider \in [Providers -> ProviderRow \cup {None}]
  /\ cfg.model \in [Models -> ModelRow \cup {None}]
  /\ cfg.agent \in [Agents -> AgentRow \cup {None}]
  /\ cfg.flow \in [Flows -> FlowRow \cup {None}]
  /\ cfg.flow[cfg.default].on
  /\ \A f \in Flows : Saved("flow", f) => (cfg.flow[f].review = None) = (cfg.flow[f].kind = "single")
  /\ \A m \in Models : Saved("model", m) /\ cfg.model[m].type # "embedding" =>
                         cfg.model[m].image = (cfg.model[m].type = "multimodal")

(* A test is shown as passed only for the configuration it was made with:  *)
(* agent, model and provider may be saved while the model is being asked,  *)
(* and at any time after.  (agent_registry.py:133-150)                     *)
TestShownIsCurrent == \A a \in Agents : Shown(a) = "passed" => test[a].config = ConfigOf(a)
=============================================================================
