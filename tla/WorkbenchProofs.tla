--------------------------- MODULE WorkbenchProofs ---------------------------
(***************************************************************************)
(* The theorems about the workbench: the catalog, the conversations and    *)
(* the connections change by actions of their own, so each part has an     *)
(* inductive invariant of its own, and every step is a step of one part.   *)
(***************************************************************************)
EXTENDS Workbench, FiniteSetTheorems, SequenceTheorems, WellFoundedInduction, TLAPS

-----------------------------------------------------------------------------
(***************************************************************************)
(* The invariants.                                                         *)
(***************************************************************************)
(* The rows have the types of their kinds, and the default workflow is     *)
(* always a saved one that is on.                                          *)
Config == [provider : [Providers -> ProviderRow \cup {None}],
           model : [Models -> ModelRow \cup {None}],
           agent : [Agents -> AgentRow \cup {None}],
           flow : [Flows -> FlowRow \cup {None}],
           default : Flows]

CatalogOK ==
  /\ cfg \in Config
  /\ CatalogTypeOK
  /\ Saved("flow", cfg.default)
  /\ edits \in 0 .. MaxEdits
  /\ \A p \in Providers : Saved("provider", p) => cfg.provider[p].stamp <= edits
  /\ \A a \in Agents : Saved("agent", a) => cfg.agent[a].revision <= edits + 1
  /\ \A f \in Flows : Saved("flow", f) => cfg.flow[f].revision <= edits + 1

(* A test's fingerprint is that of the configuration it was made with.     *)
TestsOK == \A a \in Agents : test[a] = None \/ test[a].fingerprint = test[a].config

Message == [run : Runs, role : {"user", "assistant"}, size : Nat, shown : BOOLEAN]
Fetched == [pc : {"start", "resume"}, session : Sessions, object : Nat]
Task == [pc : {"begin", "work"}, session : Sessions, object : Nat, run : Runs]
Storing == [pc : {"temp", "keep"}, session : Sessions, object : Nat, run : Runs, file : Files]
Closing == [pc : {"close", "commit"}, session : Sessions]
Unlinking == [pc : {"unlink"}, files : SUBSET Files]

FileTypes ==
  /\ files \in [Files -> 0 .. MaxRuns] /\ temps \in [Files -> 0 .. MaxRuns]
  /\ arts \in [Files -> 0 .. MaxRuns] /\ crashes \in Nat /\ faults \in Nat

TalkTypes ==
  /\ row \in [Sessions -> SessionRow \cup {None, Gone}]
  /\ log \in [Sessions -> Seq(Message)]
  /\ runs \in [Runs -> RunRow \cup {None, Gone}]
  /\ inputs \in [Runs -> SUBSET SUBSET Nat]
  /\ object \in [Sessions -> Nat] /\ loads \in Nat
  /\ job \in [Workers -> {Idle} \cup Fetched \cup Task \cup Storing]
  /\ FileTypes
  /\ removing \in {NotRemoving} \cup Closing \cup Unlinking

Alive(r) == Exists(r) /\ runs[r].status \in {"running", "waiting"}
Busy(w) == Works(w) \/ job[w].pc = "begin"

(* Runs belong to sessions that exist, one live run at most to each.       *)
RunsOK ==
  /\ \A r \in Runs : Exists(r) => HasRow(runs[r].session) /\ runs[r].on \in 1 .. loads
  /\ \A q, r \in Runs : Alive(q) /\ Alive(r) /\ runs[q].session = runs[r].session => q = r
  /\ \A q, r \in Runs : q < r /\ runs[q] = None => runs[r] = None
  /\ \A s \in Sessions : object[s] \in 0 .. loads

(* A worker that executes has a running run of its own, and unless it only *)
(* begins, on the object the runtime holds for the session.                *)
JobsOK ==
  /\ \A w \in Workers : job[w].pc # "idle" => job[w].object \in 1 .. loads
  /\ \A w \in Workers : Busy(w) => LET r == job[w].run IN
       /\ Exists(r) /\ runs[r].status = "running"
       /\ runs[r].session = job[w].session /\ runs[r].on = job[w].object
  /\ \A v, w \in Workers : v # w /\ Busy(v) /\ Busy(w) => job[v].run # job[w].run

(* The messages of a session come in the order of its runs, those of one   *)
(* run in one piece, and no run has messages on both sides of a boundary.  *)
LogOK ==
  /\ \A s \in Sessions : row[s] \in {None, Gone} => log[s] = <<>>
  /\ \A s \in Sessions : HasRow(s) => row[s].boundary <= Len(log[s])
  /\ \A s \in Sessions : \A i \in DOMAIN log[s] : runs[log[s][i].run] # None
  /\ \A s \in Sessions : \A i, j \in DOMAIN log[s] : i <= j => log[s][i].run <= log[s][j].run
  /\ \A s \in Sessions : HasRow(s) => \A i, j \in DOMAIN log[s] :
       i <= row[s].boundary /\ row[s].boundary < j => log[s][i].run < log[s][j].run
  /\ \A r \in Runs : Alive(r) => \A i \in DOMAIN log[runs[r].session] :
       /\ log[runs[r].session][i].run <= r
       /\ i <= row[runs[r].session].boundary => log[runs[r].session][i].run < r
  /\ \A r \in Runs : Exists(r) => runs[r].first \in 1 .. Len(log[runs[r].session])

(* A file or .tmp file a worker is keeping is its own, and a deletion     *)
(* takes files whose rows are gone.                                        *)
Holds(w) == job[w].pc \in {"temp", "keep"}
FilesOK ==
  /\ FilesMatchRows
  /\ \A w \in Workers : job[w].pc = "temp" =>
       /\ temps[job[w].file] = job[w].run
       /\ files[job[w].file] = 0 /\ arts[job[w].file] = 0
  /\ \A w \in Workers : job[w].pc = "keep" =>
       files[job[w].file] = job[w].run /\ arts[job[w].file] = 0
  /\ \A v, w \in Workers : v # w /\ Holds(v) /\ Holds(w) => job[v].file # job[w].file
  /\ removing.pc = "unlink" => \A f \in removing.files :
       arts[f] = 0 /\ files[f] # 0 /\ \A w \in Workers : Holds(w) => job[w].file # f

(* A run's goal is the message at its first, the messages of each run      *)
(* begin with a public one of the user, and a run that has not started has *)
(* no input.                                                               *)
Goal(r) == log[runs[r].session][runs[r].first]
Opened == \A r \in Runs : Exists(r) => Goal(r).run = r /\ Goal(r).shown /\ Goal(r).role = "user"
Led == \A s \in Sessions : \A i \in DOMAIN log[s] : \E j \in 1 .. i :
         log[s][j].run = log[s][i].run /\ log[s][j].shown /\ log[s][j].role = "user"
Unasked == \A r \in Runs : ~Exists(r) => inputs[r] = {}
StoriesOK == HistoryIsWhole /\ InputIsRecent /\ Opened /\ Led /\ Unasked

(* A client is closed before its thread leaves, unless its start failed;   *)
(* a name or a request that lists holds a client that serves.              *)
McpOK ==
  /\ McpTypeOK
  /\ process \subseteq {c \in Clients : client[c].pc \in {"shake", "serve"}}
  /\ asked \in {NoRequest} \cup [pc : {"close", "join"}, client : Clients]
                \cup [pc : {"wait", "list", "close", "join"}, client : Clients, name : Names,
                      package : BOOLEAN]
  /\ \A c \in Clients :
       /\ client[c].shutdown => client[c].closing
       /\ client[c].error => client[c].ready
       /\ client[c].ready => client[c].pc \in {"serve", "left", "ended"}
       /\ client[c].pc \in {"left", "ended"} => client[c].error \/ client[c].closing
       /\ client[c].pc = "none" => ~client[c].closing
  /\ asked.pc \in {"wait", "list"} => ~client[asked.client].closing
  /\ asked.pc = "list" => client[asked.client].ready /\ ~client[asked.client].error
  /\ asked.pc # "free" => /\ client[asked.client].pc # "none"
                          /\ \A n \in Names : link[n] # asked.client
  /\ \A n \in Names : link[n] # 0 => client[link[n]].ready /\ ~client[link[n]].error
  /\ \A m, n \in Names : link[m] # 0 /\ link[m] = link[n] => m = n

TalkOK == TalkTypes /\ RunsOK /\ JobsOK /\ LogOK /\ FilesOK /\ RunsAreReachable /\ StoriesOK

-----------------------------------------------------------------------------
(***************************************************************************)
(* The catalog.                                                            *)
(***************************************************************************)
(* Only the kind that is saved changes, and of it one row.                 *)
LEMMA PutProvider ==
  ASSUME CatalogOK, NEW p \in Providers, NEW new \in ProviderRow, Edit,
         cfg' = [cfg EXCEPT !.provider[p] = new], new.stamp <= edits + 1
  PROVE  CatalogOK'
<1>1. /\ cfg'.provider = [cfg.provider EXCEPT ![p] = new]
      /\ cfg'.model = cfg.model /\ cfg'.agent = cfg.agent /\ cfg'.flow = cfg.flow
      /\ cfg'.default = cfg.default /\ cfg' \in Config
  BY DEF CatalogOK, Config
<1>2. edits' = edits + 1 /\ edits' \in 0 .. MaxEdits
  BY CatalogConstants DEF Edit, CatalogOK
<1>. QED
  BY <1>1, <1>2 DEF CatalogOK, CatalogTypeOK, Saved, ProviderRow, AgentRow, FlowRow, Config

LEMMA PutModel ==
  ASSUME CatalogOK, NEW m \in Models, NEW new \in ModelRow, Edit,
         cfg' = [cfg EXCEPT !.model[m] = new],
         new.type # "embedding" => new.image = (new.type = "multimodal")
  PROVE  CatalogOK'
<1>1. /\ cfg'.model = [cfg.model EXCEPT ![m] = new]
      /\ cfg'.provider = cfg.provider /\ cfg'.agent = cfg.agent /\ cfg'.flow = cfg.flow
      /\ cfg'.default = cfg.default /\ cfg' \in Config
  BY DEF CatalogOK, Config
<1>2. edits' = edits + 1 /\ edits' \in 0 .. MaxEdits
  BY CatalogConstants DEF Edit, CatalogOK
<1>3. \A k \in Models : Saved("model", k)' /\ cfg'.model[k].type # "embedding" =>
                           cfg'.model[k].image = (cfg'.model[k].type = "multimodal")
  BY <1>1 DEF CatalogOK, CatalogTypeOK, Saved, Config
<1>. QED
  BY <1>1, <1>2, <1>3 DEF CatalogOK, CatalogTypeOK, Saved, ProviderRow, AgentRow, FlowRow, Config

LEMMA PutAgent ==
  ASSUME CatalogOK, NEW a \in Agents, NEW new \in AgentRow, Edit,
         cfg' = [cfg EXCEPT !.agent[a] = new], new.revision <= edits + 2
  PROVE  CatalogOK'
<1>1. /\ cfg'.agent = [cfg.agent EXCEPT ![a] = new]
      /\ cfg'.provider = cfg.provider /\ cfg'.model = cfg.model /\ cfg'.flow = cfg.flow
      /\ cfg'.default = cfg.default /\ cfg' \in Config
  BY DEF CatalogOK, Config
<1>2. edits' = edits + 1 /\ edits' \in 0 .. MaxEdits
  BY CatalogConstants DEF Edit, CatalogOK
<1>. QED
  BY <1>1, <1>2 DEF CatalogOK, CatalogTypeOK, Saved, ProviderRow, AgentRow, FlowRow, Config

LEMMA PutFlow ==
  ASSUME CatalogOK, NEW f \in Flows, NEW new \in FlowRow, Edit,
         cfg' = [cfg EXCEPT !.flow[f] = new], new.revision <= edits + 2,
         (new.review = None) = (new.kind = "single"), new.on \/ cfg.default # f
  PROVE  CatalogOK'
<1>1. /\ cfg'.flow = [cfg.flow EXCEPT ![f] = new]
      /\ cfg'.provider = cfg.provider /\ cfg'.model = cfg.model /\ cfg'.agent = cfg.agent
      /\ cfg'.default = cfg.default /\ cfg' \in Config
  BY DEF CatalogOK, Config
<1>2. edits' = edits + 1 /\ edits' \in 0 .. MaxEdits
  BY CatalogConstants DEF Edit, CatalogOK
<1>3. new # None
  BY CatalogConstants DEF CatalogConstants
<1>4. \A g \in Flows : Saved("flow", g)' =>
         (cfg'.flow[g].review = None) = (cfg'.flow[g].kind = "single")
  BY <1>1 DEF CatalogOK, CatalogTypeOK, Saved, Config
<1>5. cfg'.flow[cfg'.default].on /\ Saved("flow", cfg.default)'
  BY <1>1, <1>3 DEF CatalogOK, CatalogTypeOK, Saved, Config
<1>6. cfg'.flow \in [Flows -> FlowRow \cup {None}]
  BY <1>1 DEF CatalogOK, CatalogTypeOK
<1>7. \A g \in Flows : Saved("flow", g)' => cfg'.flow[g].revision <= edits' + 1
  <2>. SUFFICES ASSUME NEW g \in Flows, Saved("flow", g)'
                PROVE  cfg'.flow[g].revision <= edits' + 1
    OBVIOUS
  <2>1. CASE g = f
    <3>1. cfg'.flow[g] = new /\ edits \in Nat
      BY <1>1, <2>1 DEF CatalogOK, CatalogTypeOK
    <3>. QED  BY <1>2, <3>1 DEF FlowRow
  <2>2. CASE g # f
    <3>1. cfg'.flow[g] = cfg.flow[g] /\ Saved("flow", g) /\ cfg.flow[g] \in FlowRow
      BY <1>1, <2>2 DEF CatalogOK, CatalogTypeOK, Saved
    <3>. QED  BY <1>2, <3>1, CatalogConstants DEF CatalogOK, FlowRow
  <2>. QED  BY <2>1, <2>2
<1>8. CatalogTypeOK'
  BY <1>1, <1>4, <1>5, <1>6 DEF CatalogOK, CatalogTypeOK, Saved
<1>9. /\ \A p \in Providers : Saved("provider", p)' => cfg'.provider[p].stamp <= edits'
      /\ \A a \in Agents : Saved("agent", a)' => cfg'.agent[a].revision <= edits' + 1
  BY <1>1, <1>2 DEF CatalogOK, CatalogTypeOK, Saved, ProviderRow, AgentRow
<1>. QED
  BY <1>1, <1>2, <1>5, <1>7, <1>8, <1>9 DEF CatalogOK, Saved

LEMMA RevisionBound ==
  ASSUME CatalogOK, Edit, NEW x,
         NEW kind, \/ kind = "agent" /\ x \in Agents
                   \/ kind = "flow" /\ x \in Flows
  PROVE  Revision(kind, x) \in 1 .. MaxEdits + 1 /\ Revision(kind, x) <= edits + 2
<1>0. edits \in Nat /\ edits + 1 <= MaxEdits /\ MaxEdits \in Nat
  BY CatalogConstants DEF CatalogOK, Edit, CatalogConstants
<1>1. CASE ~Saved(kind, x)
  BY <1>0, <1>1 DEF Revision
<1>2. CASE Saved(kind, x)
  <2>1. cfg[kind][x].revision \in 1 .. MaxEdits + 1 /\ cfg[kind][x].revision <= edits + 1
    BY <1>2 DEF CatalogOK, Config, AgentRow, FlowRow, Saved
  <2>. QED  BY <1>0, <1>2, <2>1 DEF Revision
<1>. QED  BY <1>1, <1>2

(* A model row is consistent, whichever of the two is given.               *)
LEMMA ModelStep ==
  ASSUME CatalogOK, NEW m \in Models, NEW p \in Providers, NEW on \in BOOLEAN,
         NEW given \in SUBSET {"type", "inputs"}, NEW type \in Types, NEW image \in BOOLEAN,
         SaveModel(m, p, on, given, type, image)
  PROVE  CatalogOK'
<1>. DEFINE old == cfg.model[m]
            takes == IF "inputs" \in given THEN image ELSE old # None /\ old.image
            kept == IF old # None THEN old.type ELSE IF takes THEN "multimodal" ELSE "text"
            chosen == IF "type" \in given THEN type
                      ELSE IF "inputs" \notin given \/ kept = "embedding" THEN kept
                      ELSE IF takes THEN "multimodal" ELSE "text"
            shown == IF "type" \in given THEN chosen = "multimodal" ELSE takes
            new == [on |-> on, type |-> chosen, image |-> shown, provider |-> p,
                    stamp |-> edits + 1]
<1>0. edits + 1 \in 0 .. MaxEdits
  BY CatalogConstants DEF SaveModel, Put, Edit, CatalogOK, CatalogConstants
<1>1. old # None => old.image \in BOOLEAN /\ old.type \in Types
                    /\ (old.type # "embedding" => old.image = (old.type = "multimodal"))
  BY DEF CatalogOK, CatalogTypeOK, Config, ModelRow, Saved
<1>2. takes \in BOOLEAN /\ kept \in Types /\ chosen \in Types
  BY <1>1 DEF Types
<1>3. shown \in BOOLEAN
  BY <1>2
<1>4. chosen # "embedding" => shown = (chosen = "multimodal")
  <2>1. CASE "type" \in given
    BY <2>1
  <2>2. CASE "type" \notin given /\ "inputs" \in given
    BY <1>2, <2>2 DEF Types
  <2>3. CASE "type" \notin given /\ "inputs" \notin given
    <3>1. chosen = kept /\ shown = takes
      BY <2>3
    <3>2. CASE old = None
      BY <2>3, <3>1, <3>2
    <3>3. CASE old # None
      BY <1>1, <2>3, <3>1, <3>3
    <3>. QED  BY <3>2, <3>3
  <2>. QED  BY <2>1, <2>2, <2>3
<1>5. new \in ModelRow /\ new.type = chosen /\ new.image = shown
  BY <1>0, <1>2, <1>3 DEF ModelRow
<1>6. Edit /\ cfg' = [cfg EXCEPT !.model[m] = new]
  BY DEF SaveModel, Put
<1>. QED  BY <1>4, <1>5, <1>6, PutModel

(* Every request that changes a configuration keeps the catalog in order. *)
LEMMA CatalogStep ==
  ASSUME CatalogOK, CatalogRequest
  PROVE  CatalogOK'
<1>0. Edit /\ edits + 1 \in 0 .. MaxEdits
  BY CatalogConstants DEF CatalogRequest, SaveProvider, SetCredential, DeleteCredential,
     SaveModel, SaveAgent, SaveFlow, SetDefault, Put, Edit, CatalogOK, CatalogConstants
<1>1. ASSUME NEW p \in Providers, NEW ref \in {"env", "keyring"}, SaveProvider(p, TRUE, ref) \/ SaveProvider(p, FALSE, ref)
      PROVE  CatalogOK'
  <2>1. PICK new \in ProviderRow : cfg' = [cfg EXCEPT !.provider[p] = new] /\ new.stamp = edits + 1
    BY <1>0, <1>1 DEF SaveProvider, Put, ProviderRow
  <2>. QED  BY <1>0, <2>1, PutProvider DEF CatalogOK
<1>2. ASSUME NEW p \in Providers, SetCredential(p) \/ DeleteCredential(p)
      PROVE  CatalogOK'
  <2>1. cfg.provider[p] \in ProviderRow
    BY <1>2 DEF SetCredential, DeleteCredential, Saved, CatalogOK, Config
  <2>2. PICK ref \in {"env", "keyring"} : cfg' = Stamped(p, ref)
    BY <1>2, <2>1 DEF SetCredential, DeleteCredential, ProviderRow
  <2>. DEFINE new == [cfg.provider[p] EXCEPT !.ref = ref, !.stamp = edits + 1]
  <2>3. new \in ProviderRow /\ new.stamp = edits + 1
    BY <1>0, <2>1 DEF ProviderRow
  <2>4. cfg' = [cfg EXCEPT !.provider[p] = new]
    <3>. DEFINE mid == [cfg EXCEPT !.provider[p].ref = ref]
                part == [cfg.provider[p] EXCEPT !.ref = ref]
    <3>1. cfg' = [mid EXCEPT !.provider[p].stamp = edits + 1]
      BY <2>2 DEF Stamped
    <3>2. mid = [cfg EXCEPT !.provider[p] = part]
      OBVIOUS
    <3>3. cfg \in Config /\ part \in ProviderRow
      BY <2>1 DEF CatalogOK, ProviderRow
    <3>4. new = [part EXCEPT !.stamp = edits + 1]
      BY <2>1 DEF ProviderRow
    <3>5. mid \in Config /\ mid.provider[p] = part
      BY <3>2, <3>3 DEF Config
    <3>6. cfg' = [mid EXCEPT !.provider[p] = new]
      BY <3>1, <3>4, <3>5
    <3>. QED  BY <3>2, <3>3, <3>6 DEF Config
  <2>5. new.stamp <= edits + 1
    BY <1>0, <2>3
  <2>. HIDE DEF new
  <2>. QED  BY <1>0, <2>3, <2>4, <2>5, PutProvider
<1>3. ASSUME NEW a \in Agents, NEW m \in Models, NEW on \in BOOLEAN, NEW callable \in BOOLEAN,
             SaveAgent(a, m, on, callable)
      PROVE  CatalogOK'
  <2>. DEFINE new == [on |-> on, callable |-> callable, model |-> m,
                      revision |-> Revision("agent", a)]
  <2>1. new \in AgentRow /\ new.revision <= edits + 2
    BY <1>0, RevisionBound DEF AgentRow
  <2>2. cfg' = [cfg EXCEPT !.agent[a] = new]
    BY <1>3 DEF SaveAgent, Put
  <2>. QED  BY <1>0, <2>1, <2>2, PutAgent
<1>4. ASSUME NEW f \in Flows, NEW kind \in Kinds, NEW code \in Agents,
             NEW review \in Agents \cup {None}, NEW on \in BOOLEAN,
             SaveFlow(f, kind, code, review, on)
      PROVE  CatalogOK'
  <2>. DEFINE reviewer == IF kind = "single" THEN None ELSE review
              new == [on |-> on, kind |-> kind, code |-> code, review |-> reviewer,
                      revision |-> Revision("flow", f)]
  <2>1. (kind = "single" => reviewer = None) /\ (kind # "single" => reviewer # None)
    BY <1>4 DEF SaveFlow, Kinds
  <2>2. /\ new \in FlowRow /\ new.revision <= edits + 2
        /\ new.review = reviewer /\ new.kind = kind /\ new.on = on
    BY <1>0, RevisionBound DEF FlowRow
  <2>3. cfg' = [cfg EXCEPT !.flow[f] = new]
    BY <1>4 DEF SaveFlow, Put
  <2>4. on \/ cfg.default # f
    BY <1>4 DEF SaveFlow, MayDisable, CatalogOK
  <2>5. (new.review = None) = (new.kind = "single")
    BY <2>1, <2>2
  <2>. QED  BY <1>0, <2>2, <2>3, <2>4, <2>5, PutFlow
<1>5. ASSUME NEW f \in Flows, SetDefault(f)
      PROVE  CatalogOK'
  <2>1. /\ cfg'.default = f /\ cfg'.provider = cfg.provider /\ cfg'.model = cfg.model
        /\ cfg'.agent = cfg.agent /\ cfg'.flow = cfg.flow /\ cfg' \in Config
    BY <1>5 DEF SetDefault, CatalogOK, Config
  <2>2. edits' = edits + 1 /\ Saved("flow", f) /\ cfg.flow[f].on
    BY <1>5 DEF SetDefault, Edit, Runnable, Saved
  <2>3. \A m \in Models : Saved("model", m)' = Saved("model", m)
    BY <2>1 DEF Saved
  <2>. QED
    BY <1>0, <2>1, <2>2, <2>3
    DEF CatalogOK, CatalogTypeOK, Saved, ProviderRow, AgentRow, FlowRow, Config
<1>. QED
  BY <1>1, <1>2, <1>3, <1>4, <1>5, ModelStep DEF CatalogRequest

(* A test keeps the configuration it began with. *)
LEMMA TestStep ==
  ASSUME TestsOK, Testing
  PROVE  TestsOK'
<1>1. CASE \E w \in Testers, a \in Agents : TestBegin(w, a)
  BY <1>1 DEF TestBegin, TestsOK
<1>2. ASSUME NEW w \in Testers, NEW reached \in BOOLEAN, TestEnd(w, reached)
      PROVE  TestsOK'
  <2>. DEFINE t == tester[w]
              new == [passed |-> t.fine /\ reached, config |-> t.config,
                      fingerprint |-> t.config]
  <2>1. test' = [test EXCEPT ![t.agent] = new]
    BY <1>2 DEF TestEnd, TestedAs
  <2>2. new.fingerprint = new.config
    OBVIOUS
  <2>. HIDE DEF new
  <2>. QED  BY <2>1, <2>2 DEF TestsOK
<1>. QED  BY <1>1, <1>2 DEF Testing

-----------------------------------------------------------------------------
(***************************************************************************)
(* The connections.                                                        *)
(***************************************************************************)
Client == [pc : {"none", "started", "loop", "armed", "shake", "serve", "failed", "left", "ended"},
           ready : BOOLEAN, error : BOOLEAN, closing : BOOLEAN, shutdown : BOOLEAN]

(* What McpOK says of one client. *)
ClientOK(row1) ==
  /\ row1 \in Client
  /\ row1.shutdown => row1.closing
  /\ row1.error => row1.ready
  /\ row1.ready => row1.pc \in {"serve", "left", "ended"}
  /\ row1.pc \in {"left", "ended"} => row1.error \/ row1.closing
  /\ row1.pc = "none" => ~row1.closing

(* A client's step keeps the flags in order, and one that a name or a      *)
(* listing request holds goes on serving.                                  *)
LEMMA ClientMoves ==
  ASSUME McpOK, NEW c \in Clients, NEW new, ClientOK(new), new.pc # "none",
         client' = [client EXCEPT ![c] = new], UNCHANGED <<link, packed, asked>>,
         process' \subseteq process \cup {c}, c \in process' => new.pc \in {"shake", "serve"},
         \A n \in Names : link[n] = c => new.pc = "serve" /\ ~new.closing /\ new.ready /\ ~new.error,
         asked.pc \in {"wait", "list"} /\ asked.client = c => ~new.closing,
         asked.pc = "list" /\ asked.client = c => new.ready /\ ~new.error
  PROVE  McpOK'
<1>1. client \in [Clients -> Client]
  BY DEF McpOK, McpTypeOK, Client
<1>2. client'[c] = new /\ \A d \in Clients \ {c} : client'[d] = client[d]
  BY <1>1
<1>3. client' \in [Clients -> Client]
  BY <1>1 DEF ClientOK
<1>4. \A d \in Clients : ClientOK(client'[d])
  BY <1>1, <1>2 DEF McpOK, ClientOK
<1>5. \A n \in Names : link[n] # 0 => link[n] \in Clients
  BY McpConstants DEF McpOK, McpTypeOK, Clients, McpConstants
<1>6. \A n \in Names : link'[n] # 0 =>
         /\ At(link[n], "serve")' /\ ~client'[link[n]].closing
         /\ client'[link[n]].ready /\ ~client'[link[n]].error
  BY <1>2, <1>5 DEF McpOK, McpTypeOK, At
<1>7. process' \subseteq {d \in Clients : client'[d].pc \in {"shake", "serve"}}
  BY <1>2 DEF McpOK
<1>8. /\ asked'.pc # "free" => client'[asked'.client].pc # "none"
      /\ asked'.pc \in {"wait", "list"} => ~client'[asked'.client].closing
      /\ asked'.pc = "list" => client'[asked'.client].ready /\ ~client'[asked'.client].error
  <2>1. asked.pc # "free" => asked.client \in Clients
    BY DEF McpOK, NoRequest
  <2>. QED  BY <1>2, <2>1 DEF McpOK
<1>. QED
  BY <1>3, <1>4, <1>6, <1>7, <1>8 DEF McpOK, McpTypeOK, Client, ClientOK

(* The thread of a client, and its server, which may die. *)
LEMMA ThreadMoves ==
  ASSUME McpOK, McpThreads
  PROVE  McpOK'
<1>. PICK c \in Clients : ThreadStep(c) \/ (ServerDies(c) /\ UNCHANGED <<link, packed, asked>>)
  BY DEF McpThreads
<1>1. /\ client \in [Clients -> Client] /\ client[c] \in Client /\ ClientOK(client[c])
      /\ UNCHANGED <<link, packed, asked>>
  BY DEF McpOK, McpTypeOK, Client, ClientOK, ThreadStep
<1>2. (\A n \in Names : link[n] = c => /\ client[c].pc = "serve" /\ ~client[c].closing
                                       /\ client[c].ready /\ ~client[c].error)
  BY McpConstants DEF McpOK, McpTypeOK, Clients, McpConstants, At
<1>3. /\ asked.pc \in {"wait", "list"} /\ asked.client = c => ~client[c].closing
      /\ asked.pc = "list" /\ asked.client = c => client[c].ready /\ ~client[c].error
  BY DEF McpOK
<1>4. c \in process => client[c].pc \in {"shake", "serve"}
  BY DEF McpOK
<1>5. ASSUME NEW pc \in {"loop", "armed", "shake", "failed", "left", "ended"}, Goto(c, pc),
             \/ pc \in {"loop", "armed"} /\ client[c].pc \in {"started", "loop"} /\ process' = process
             \/ pc = "shake" /\ client[c].pc = "armed" /\ process' = process \cup {c}
             \/ pc = "failed" /\ client[c].pc \in {"armed", "shake"} /\ process' = process \ {c}
             \/ pc = "left" /\ client[c].pc = "serve" /\ client[c].shutdown /\ process' = process \ {c}
             \/ pc = "ended" /\ client[c].pc = "left" /\ process' = process
      PROVE  McpOK'
  <2>. DEFINE new == [client[c] EXCEPT !.pc = pc]
  <2>1. client' = [client EXCEPT ![c] = new]
    BY <1>5 DEF Goto, Become
  <2>2. /\ new.pc = pc /\ new.ready = client[c].ready /\ new.error = client[c].error
        /\ new.closing = client[c].closing /\ new.shutdown = client[c].shutdown /\ new \in Client
    BY <1>1 DEF Client
  <2>. HIDE DEF new
  <2>3. ClientOK(new)
    BY <1>1, <1>5, <2>2 DEF ClientOK
  <2>4. process' \subseteq process \cup {c} /\ (c \in process' => new.pc \in {"shake", "serve"})
    BY <1>4, <1>5, <2>2
  <2>5. client[c].shutdown => client[c].closing
    BY <1>1 DEF ClientOK
  <2>6. \A n \in Names : link[n] # c
    BY <1>2, <1>5, <2>5
  <2>. QED  BY <1>1, <1>3, <2>1, <2>2, <2>3, <2>4, <2>6, ClientMoves
<1>6. CASE LoopUp(c) \/ Armed(c) \/ Spawn(c) \/ StartFails(c) \/ Leave(c) \/ Ends(c)
  BY <1>5, <1>6 DEF LoopUp, Armed, Spawn, StartFails, Leave, Ends, At
<1>7. CASE Shaken(c)
  <2>. DEFINE new == [client[c] EXCEPT !.pc = "serve", !.ready = TRUE,
                                       !.shutdown = @ \/ client[c].closing]
  <2>1. client' = [client EXCEPT ![c] = new] /\ process' = process /\ client[c].pc = "shake"
    BY <1>7 DEF Shaken, Become, At
  <2>2. /\ new.pc = "serve" /\ new.ready /\ new.error = client[c].error
        /\ new.closing = client[c].closing /\ new \in Client
        /\ new.shutdown => client[c].shutdown \/ client[c].closing
    BY <1>1 DEF Client
  <2>. HIDE DEF new
  <2>3. ClientOK(new) /\ ~new.error
    BY <1>1, <2>1, <2>2 DEF ClientOK
  <2>. QED  BY <1>1, <1>2, <1>3, <2>1, <2>2, <2>3, ClientMoves
<1>8. CASE Report(c)
  <2>. DEFINE new == [client[c] EXCEPT !.pc = "left", !.ready = TRUE, !.error = TRUE]
  <2>1. client' = [client EXCEPT ![c] = new] /\ process' = process /\ client[c].pc = "failed"
    BY <1>8 DEF Report, Become, At
  <2>2. /\ new.pc = "left" /\ new.ready /\ new.error
        /\ new.closing = client[c].closing /\ new \in Client
        /\ new.shutdown = client[c].shutdown
    BY <1>1 DEF Client
  <2>. HIDE DEF new
  <2>3. ClientOK(new)
    BY <1>1, <2>1, <2>2 DEF ClientOK
  <2>4. ~client[c].ready /\ c \notin process
    BY <1>1, <1>4, <2>1 DEF ClientOK
  <2>. QED  BY <1>1, <1>2, <1>3, <2>1, <2>2, <2>3, <2>4, ClientMoves
<1>9. CASE ServerDies(c)
  BY <1>1, <1>9 DEF ServerDies, McpOK, McpTypeOK, At
<1>. QED
  BY <1>6, <1>7, <1>8, <1>9 DEF ThreadStep

(* The requests: connect and disconnect. *)
LEMMA McpRequestMoves ==
  ASSUME McpOK, McpRequest, asked = NoRequest
  PROVE  McpOK'
<1>. PICK n \in Names, package \in BOOLEAN : Connect(n, package) \/ Disconnect(n, package)
  BY DEF McpRequest
<1>1. CASE Connect(n, package)
  <2>. PICK c \in Clients : /\ \A b \in Clients : At(b, "none") <=> b >= c
                            /\ Goto(c, "started")
                            /\ asked' = [pc |-> "wait", client |-> c, name |-> n, package |-> package]
    BY <1>1 DEF Connect
  <2>1. UNCHANGED <<process, link, packed>>
    BY <1>1 DEF Connect
  <2>2. client[c].pc = "none"
    BY McpConstants DEF At, Clients, McpConstants
  <2>3. client \in [Clients -> Client] /\ client[c] \in Client /\ ClientOK(client[c])
    BY DEF McpOK, McpTypeOK, Client, ClientOK
  <2>. DEFINE new == [client[c] EXCEPT !.pc = "started"]
  <2>4. client' = [client EXCEPT ![c] = new]
    BY DEF Goto, Become
  <2>5. /\ new.pc = "started" /\ new.ready = client[c].ready /\ new.error = client[c].error
        /\ new.closing = client[c].closing /\ new.shutdown = client[c].shutdown /\ new \in Client
    BY <2>3 DEF Client
  <2>. HIDE DEF new
  <2>6. client'[c] = new /\ \A d \in Clients \ {c} : client'[d] = client[d]
    BY <2>3, <2>4
  <2>7. ClientOK(new) /\ ~new.closing
    BY <2>2, <2>3, <2>5 DEF ClientOK
  <2>8. \A m \in Names : link[m] # c
    BY <2>2, McpConstants DEF McpOK, McpTypeOK, At, Clients, McpConstants
  <2>9. \A m \in Names : link[m] # 0 => link[m] \in Clients
    BY McpConstants DEF McpOK, McpTypeOK, Clients, McpConstants
  <2>10. c \notin process
    BY <2>2 DEF McpOK
  <2>11. McpTypeOK'
    BY <2>1, <2>3, <2>4, <2>5, <2>6, <2>8, <2>9 DEF McpOK, McpTypeOK, Client, At
  <2>12. process' \subseteq {d \in Clients : client'[d].pc \in {"shake", "serve"}}
    BY <2>1, <2>6, <2>10 DEF McpOK
  <2>13. \A d \in Clients : ClientOK(client'[d])
    BY <2>3, <2>6, <2>7 DEF McpOK, McpTypeOK, ClientOK, Client
  <2>14. \A m \in Names : link[m] # 0 => client'[link[m]] = client[link[m]]
    BY <2>6, <2>8, <2>9
  <2>15. asked'.pc = "wait" /\ asked'.client = c
    OBVIOUS
  <2>. QED
    BY <2>1, <2>5, <2>6, <2>7, <2>8, <2>11, <2>12, <2>13, <2>14, <2>15 DEF McpOK, ClientOK
<1>2. CASE Disconnect(n, package)
  <2>1. /\ asked' = [pc |-> "close", client |-> link[n]] /\ link[n] \in Clients
        /\ link' = [link EXCEPT ![n] = 0] /\ packed' = packed \ {n}
        /\ UNCHANGED <<client, process>>
    BY <1>2, McpConstants DEF Disconnect, McpOK, McpTypeOK, Clients, McpConstants
  <2>2. \A m \in Names : link'[m] # 0 => m # n /\ link'[m] = link[m]
    BY <2>1 DEF McpOK, McpTypeOK
  <2>3. link[n] # 0
    BY <1>2 DEF Disconnect
  <2>4. /\ link' \in [Names -> 0 .. MaxConnects] /\ packed' \subseteq {m \in Names : link'[m] # 0}
    BY <2>1, McpConstants DEF McpOK, McpTypeOK, McpConstants
  <2>. QED  BY <2>1, <2>2, <2>3, <2>4 DEF McpOK, McpTypeOK, At
<1>. QED  BY <1>1, <1>2

(* The request goes on: it never touches a client that a name holds. *)
LEMMA McpGoesMoves ==
  ASSUME McpOK, McpGoesOn
  PROVE  McpOK'
<1>. DEFINE c == asked.client
<1>1. /\ client \in [Clients -> Client] /\ \A d \in Clients : ClientOK(client[d])
      /\ \A m \in Names : link[m] # 0 => link[m] \in Clients
  BY McpConstants DEF McpOK, McpTypeOK, Client, ClientOK, Clients, McpConstants
<1>2. /\ asked.pc # "free" /\ c \in Clients
      /\ asked.pc \in {"wait", "list"} =>
           asked \in [pc : {"wait", "list", "close", "join"}, client : Clients, name : Names,
                      package : BOOLEAN]
  BY DEF McpGoesOn, Ready, ConnectTimesOut, Listed, ListFails, CloseClient, Joined, Asked,
     McpOK, NoRequest
<1>3. (\A m \in Names : link[m] # c) /\ client[c].pc # "none"
  BY <1>2 DEF McpOK
<1>4. ASSUME NEW pc \in {"close", "list", "join"}, asked' = [asked EXCEPT !.pc = pc],
             pc = "list" => asked.pc \in {"wait", "list"}
      PROVE  /\ asked'.pc = pc /\ asked'.client = c
             /\ asked' \in [pc : {"close", "join"}, client : Clients]
                  \cup [pc : {"wait", "list", "close", "join"}, client : Clients, name : Names,
                        package : BOOLEAN]
  <2>1. CASE asked \in [pc : {"close", "join"}, client : Clients]
    BY <1>4, <2>1
  <2>2. CASE asked \in [pc : {"wait", "list", "close", "join"}, client : Clients, name : Names,
                        package : BOOLEAN]
    BY <1>4, <2>2
  <2>. QED  BY <1>2, <2>1, <2>2 DEF McpOK, NoRequest
<1>5. CASE Ready \/ ListFails
  <2>1. /\ asked.pc \in {"wait", "list"} /\ UNCHANGED <<client, process, link, packed>>
        /\ \E pc \in {"close", "list"} :
             asked' = [asked EXCEPT !.pc = pc]
             /\ (pc = "list" => client[c].ready /\ ~client[c].error)
    BY <1>5 DEF Ready, ListFails, Asked, Mine
  <2>2. PICK pc \in {"close", "list"} :
           asked' = [asked EXCEPT !.pc = pc] /\ (pc = "list" => client[c].ready /\ ~client[c].error)
    BY <2>1
  <2>3. asked'.pc = pc /\ asked'.client = c
        /\ asked' \in [pc : {"close", "join"}, client : Clients]
             \cup [pc : {"wait", "list", "close", "join"}, client : Clients, name : Names,
                   package : BOOLEAN]
    BY <1>4, <2>1, <2>2
  <2>4. ~client[c].closing
    BY <2>1 DEF McpOK
  <2>. QED  BY <1>3, <2>1, <2>2, <2>3, <2>4 DEF McpOK, McpTypeOK, At
<1>6. CASE ConnectTimesOut \/ CloseClient
  <2>. PICK shut \in BOOLEAN :
          client' = [client EXCEPT ![c] = [client[c] EXCEPT !.closing = TRUE, !.shutdown = shut]]
    <3>1. client[c] \in Client
      BY <1>1, <1>2
    <3>2. CASE ConnectTimesOut
      <4>1. [client[c] EXCEPT !.closing = TRUE]
              = [client[c] EXCEPT !.closing = TRUE, !.shutdown = client[c].shutdown]
        BY <3>1 DEF Client
      <4>2. client[c].shutdown \in BOOLEAN
        BY <3>1 DEF Client
      <4>. QED  BY <3>2, <4>1, <4>2 DEF ConnectTimesOut, Become, Mine
    <3>3. CASE CloseClient
      <4>. DEFINE up == client[c].pc \in {"armed", "shake", "serve"}
      <4>1. client[c].shutdown \/ up \in BOOLEAN
        BY <3>1 DEF Client
      <4>2. client' = [client EXCEPT ![c] = [client[c] EXCEPT !.closing = TRUE,
                                                  !.shutdown = client[c].shutdown \/ up]]
        BY <3>3 DEF CloseClient, Become, Close
      <4>. QED  BY <4>1, <4>2
    <3>. QED  BY <1>6, <3>2, <3>3
  <2>. DEFINE new == [client[c] EXCEPT !.closing = TRUE, !.shutdown = shut]
  <2>1. /\ new.pc = client[c].pc /\ new.ready = client[c].ready /\ new.error = client[c].error
        /\ new.closing /\ new \in Client
    <3>1. client[c] \in Client
      BY <1>1, <1>2
    <3>. QED  BY <3>1 DEF Client
  <2>11. client' = [client EXCEPT ![c] = new]
    OBVIOUS
  <2>. HIDE DEF new
  <2>2. ClientOK(new)
    BY <1>1, <1>2, <1>3, <2>1 DEF ClientOK
  <2>3. client'[c] = new /\ \A d \in Clients \ {c} : client'[d] = client[d]
    BY <1>1, <1>2, <2>11
  <2>4. \A d \in Clients : ClientOK(client'[d])
    BY <1>1, <2>2, <2>3
  <2>5. UNCHANGED <<process, link, packed>>
    BY <1>6 DEF ConnectTimesOut, CloseClient
  <2>6. \A m \in Names : link[m] # 0 => client'[link[m]] = client[link[m]]
    BY <1>1, <1>3, <2>3
  <2>7. process \subseteq {d \in Clients : client'[d].pc \in {"shake", "serve"}}
    BY <1>2, <2>1, <2>3 DEF McpOK
  <2>8. client' \in [Clients -> Client]
    BY <1>1, <2>1, <2>11
  <2>9. \/ asked' = NoRequest
        \/ /\ asked'.pc \in {"close", "join"} /\ asked'.client = c
           /\ asked' \in [pc : {"close", "join"}, client : Clients]
                \cup [pc : {"wait", "list", "close", "join"}, client : Clients, name : Names,
                      package : BOOLEAN]
    BY <1>4, <1>6 DEF ConnectTimesOut, CloseClient
  <2>10. McpTypeOK'
    <3>1. \A m \in Names : link[m] # 0 => At(link[m], "serve")' /\ ~client'[link[m]].closing
      <4>1. \A m \in Names : link[m] # 0 =>
               client[link[m]].pc = "serve" /\ ~client[link[m]].closing
        BY DEF McpOK, McpTypeOK, At
      <4>2. \A m \in Names : link[m] # 0 =>
               client'[link[m]].pc = "serve" /\ ~client'[link[m]].closing
        BY <2>6, <4>1
      <4>. QED  BY <2>5, <4>2 DEF At
    <3>. QED  BY <2>5, <2>8, <3>1 DEF McpOK, McpTypeOK, Client
  <2>. QED
    BY <1>3, <2>1, <2>3, <2>4, <2>5, <2>6, <2>7, <2>9, <2>10 DEF McpOK, ClientOK, NoRequest
<1>7. CASE Listed
  <2>1. /\ asked.pc = "list" /\ c \in process /\ asked.name \in Names
        /\ link' = [link EXCEPT ![asked.name] = c] /\ asked' = NoRequest
        /\ UNCHANGED <<client, process>>
        /\ packed' \subseteq packed \cup {asked.name}
    BY <1>2, <1>7 DEF Listed, Asked
  <2>2. client[c].ready /\ ~client[c].error /\ ~client[c].closing
    BY <2>1 DEF McpOK
  <2>3. client[c].pc = "serve"
    BY <1>1, <1>2, <2>2 DEF ClientOK
  <2>4. c # 0
    BY <1>2, McpConstants DEF Clients, McpConstants
  <2>5. /\ link'[asked.name] = c
        /\ \A m \in Names \ {asked.name} : link'[m] = link[m]
        /\ link' \in [Names -> 0 .. MaxConnects]
    BY <1>2, <2>1, McpConstants DEF McpOK, McpTypeOK, Clients, McpConstants
  <2>6. packed' \subseteq {m \in Names : link'[m] # 0}
    BY <2>1, <2>4, <2>5 DEF McpOK, McpTypeOK
  <2>. QED
    BY <1>3, <2>1, <2>2, <2>3, <2>5, <2>6 DEF McpOK, McpTypeOK, At, NoRequest
<1>8. CASE Joined
  BY <1>8 DEF Joined, McpOK, McpTypeOK, NoRequest, At
<1>. QED  BY <1>5, <1>6, <1>7, <1>8 DEF McpGoesOn

-----------------------------------------------------------------------------
(***************************************************************************)
(* Sets of numbers, sums, and the context a run freezes: stated of any     *)
(* messages, no state is needed.                                           *)
(***************************************************************************)
(* A set of naturals has a least element, one with a bound a greatest.      *)
LEMMA LeastOf ==
  ASSUME NEW S \in SUBSET Nat, S # {}
  PROVE  Min(S) \in S /\ \A y \in S : Min(S) <= y
<1>1. PICK x \in S : \A y \in S : ~(<<y, x>> \in OpToRel(<, Nat))
  BY NatLessThanWellFounded, WFMin
<1>2. \A y \in S : ~(y < x)
  BY <1>1, Zenon DEF OpToRel
<1>3. \A y \in S : x <= y
  BY <1>2
<1>. QED  BY <1>3 DEF Min

LEMMA GreatestOf ==
  ASSUME NEW n \in Nat, NEW S \in SUBSET (0 .. n), S # {}
  PROVE  Max(S) \in S /\ \A y \in S : y <= Max(S)
<1>. DEFINE T == {i \in 0 .. n : n - i \in S}
<1>1. T \in SUBSET Nat /\ T # {}
  <2>1. PICK y \in S : TRUE
    OBVIOUS
  <2>2. n - y \in 0 .. n /\ n - (n - y) = y
    OBVIOUS
  <2>3. n - y \in T
    BY <2>2
  <2>4. T \subseteq 0 .. n
    OBVIOUS
  <2>. HIDE DEF T
  <2>5. T \subseteq Nat
    BY <2>4
  <2>. QED  BY <2>3, <2>5
<1>2. PICK t \in T : \A u \in T : t <= u
  BY <1>1, LeastOf
<1>3. n - t \in S /\ t \in 0 .. n
  OBVIOUS
<1>4. ASSUME NEW y \in S PROVE y <= n - t
  <2>1. n - y \in 0 .. n /\ n - (n - y) = y
    OBVIOUS
  <2>2. n - y \in T
    BY <2>1
  <2>3. t <= n - y /\ y \in 0 .. n
    BY <1>2, <2>2
  <2>. HIDE DEF T
  <2>. QED  BY <1>3, <2>3
<1>. HIDE DEF T
<1>. QED  BY <1>3, <1>4 DEF Max

(* The sum of no values is 0: the fold of the library, opened once.         *)
LEMMA NothingSums ==
  ASSUME NEW f, DOMAIN f = {}
  PROVE  SumFunction(f) = 0
<1>. DEFINE step(s, g) == IF s = {} THEN 0 ELSE f[CHOOSE x \in s : TRUE] + g[s \ {CHOOSE x \in s : TRUE}]
            it == CHOOSE g : g = [s \in SUBSET {} |-> step(s, g)]
            w == [s \in SUBSET {} |-> 0]
<1>1. w = [s \in SUBSET {} |-> step(s, w)]
  OBVIOUS
<1>2. it = [s \in SUBSET {} |-> step(s, it)]
  BY <1>1
<1>3. it[{}] = 0
  BY <1>2
<1>4. SumFunction(f) = it[DOMAIN f]
  BY DEF SumFunction, SumFunctionOnSet, FoldFunctionOnSet, MapThenFoldSet
<1>. QED  BY <1>3, <1>4

(* What a run froze, stated of the messages alone. *)
FitsIn(L, size, I) == size + SumFunction([i \in I |-> L[i].size + Overhead]) <= Budget

WholeIn(L, H, size, since, first) ==
  LET before == {i \in 1 .. first - 1 : L[i].shown}
      older  == {i \in before \ H : i > since} IN
  /\ H \subseteq before /\ \A i \in H : i > since
  /\ \A i \in H, j \in before : j > i \/ L[j].run = L[i].run => j \in H
  /\ FitsIn(L, size, H)
  /\ older # {} =>
       ~FitsIn(L, size, H \cup {i \in older : L[i].run = L[Max(older)].run})

(* What fits depends on the messages counted, and on no others.             *)
LEMMA FitsSame ==
  ASSUME NEW L, NEW M, NEW size, NEW I, \A i \in I : M[i] = L[i]
  PROVE  FitsIn(M, size, I) <=> FitsIn(L, size, I)
<1>1. [i \in I |-> M[i].size + Overhead] = [i \in I |-> L[i].size + Overhead]
  OBVIOUS
<1>. QED  BY <1>1 DEF FitsIn

(* Messages that come after do not matter to it. *)
LEMMA WholeStays ==
  ASSUME NEW L, NEW M, NEW H, NEW size, NEW since, NEW first \in Nat \ {0},
         \A i \in 1 .. first - 1 : M[i] = L[i], WholeIn(L, H, size, since, first)
  PROVE  WholeIn(M, H, size, since, first)
<1>. DEFINE before == {i \in 1 .. first - 1 : L[i].shown}
            older  == {i \in before \ H : i > since}
            next   == {i \in older : L[i].run = L[Max(older)].run}
<1>1. before = {i \in 1 .. first - 1 : M[i].shown}
  OBVIOUS
<1>2. H \subseteq before /\ before \subseteq 1 .. first - 1
  BY DEF WholeIn
<1>3. \A i \in before : M[i] = L[i]
  BY <1>2
<1>4. FitsIn(M, size, H) <=> FitsIn(L, size, H)
  <2>1. \A i \in H : M[i] = L[i]
    BY <1>2, <1>3
  <2>. QED  BY <2>1, FitsSame
<1>5. FitsIn(M, size, H \cup next) <=> FitsIn(L, size, H \cup next)
  <2>1. \A i \in H \cup next : M[i] = L[i]
    BY <1>2, <1>3
  <2>. HIDE DEF next
  <2>. QED  BY <2>1, FitsSame
<1>6. older # {} => Max(older) \in older
  <2>1. older \in SUBSET (0 .. first - 1) /\ first - 1 \in Nat
    BY <1>2
  <2>. HIDE DEF older
  <2>. QED  BY <2>1, GreatestOf
<1>7. older # {} => next = {i \in older : M[i].run = M[Max(older)].run}
  BY <1>3, <1>6
<1>8. /\ \A i \in H : i > since
      /\ \A i \in H, j \in before : j > i \/ L[j].run = L[i].run => j \in H
      /\ FitsIn(L, size, H)
      /\ older # {} => ~FitsIn(L, size, H \cup next)
  BY DEF WholeIn
<1>9. \A i \in H, j \in before : j > i \/ M[j].run = M[i].run => j \in H
  BY <1>2, <1>3, <1>8
<1>. HIDE DEF next
<1>10. older = {i \in {i \in 1 .. first - 1 : M[i].shown} \ H : i > since}
  BY <1>1
<1>. HIDE DEF older, before
<1>. QED  BY <1>1, <1>2, <1>4, <1>5, <1>7, <1>8, <1>9, <1>10 DEF WholeIn

(* Conversations!Context, of messages L and a boundary b.                  *)
ContextIn(L, b, size) ==
  LET public == {i \in DOMAIN L : i > b /\ L[i].shown}
      from(i) == {j \in public : j >= i}
      fits == {i \in public : /\ \A j \in public : j < i => L[j].run # L[i].run
                              /\ FitsIn(L, size, from(i))} IN
  IF fits = {} THEN {} ELSE from(Min(fits))

(* Messages come in the order of their runs, no run has some on both sides *)
(* of the boundary: then the context is whole rounds and the newest ones.  *)
LEMMA ContextIsWhole ==
  ASSUME NEW n \in Nat, NEW L, DOMAIN L = 1 .. n, \A i \in 1 .. n : L[i].run \in Nat,
         \A i, j \in 1 .. n : i <= j => L[i].run <= L[j].run,
         NEW b \in Nat, \A i, j \in 1 .. n : i <= b /\ b < j => L[i].run < L[j].run,
         NEW size \in Nat, size <= Budget
  PROVE  WholeIn(L, ContextIn(L, b, size), size, b, n + 1)
<1>. DEFINE before == {i \in 1 .. n : L[i].shown}
            public == {i \in 1 .. n : i > b /\ L[i].shown}
            from(i) == {j \in public : j >= i}
            Opening(i) == \A j \in public : j < i => L[j].run # L[i].run
            fits == {i \in public : Opening(i) /\ FitsIn(L, size, from(i))}
            H == IF fits = {} THEN {} ELSE from(Min(fits))
            older == {i \in before \ H : i > b}
<1>1. /\ public \subseteq 1 .. n /\ public = {i \in before : i > b} /\ before \subseteq 1 .. n
      /\ \A i \in before : i > b <=> i \in public
  OBVIOUS
<1>2. /\ \A i \in public : i \in Nat /\ L[i].run \in Nat
      /\ \A i, j \in public : i <= j => L[i].run <= L[j].run
      /\ \A i \in public, j \in before \ public : L[j].run < L[i].run
  OBVIOUS
<1>3. fits # {} => /\ Min(fits) \in fits /\ \A i \in fits : Min(fits) <= i
  <2>1. fits \in SUBSET Nat
    OBVIOUS
  <2>. HIDE DEF fits
  <2>. QED  BY <2>1, LeastOf
<1>4. /\ H \subseteq public /\ older = public \ H
      /\ \A i \in H, j \in public : j >= i => j \in H
      /\ \A i \in older : i \notin fits
      /\ \A i \in H, j \in older : j < i
  <2>1. CASE fits = {}
    BY <2>1
  <2>2. CASE fits # {}
    <3>. DEFINE m == Min(fits)
    <3>1. m \in fits /\ \A i \in fits : m <= i
      BY <1>3, <2>2
    <3>2. m \in Nat
      BY <1>2, <3>1
    <3>3. H = from(m)
      BY <2>2
    <3>. HIDE DEF H, m, fits
    <3>4. older = public \ H /\ older \subseteq public
      BY <1>1, <3>3
    <3>5. older = {i \in public : i < m}
      BY <1>2, <3>2, <3>3, <3>4
    <3>. HIDE DEF older
    <3>. QED  BY <1>2, <3>1, <3>2, <3>3, <3>4, <3>5
  <2>. QED  BY <2>1, <2>2
<1>5. H # {} => \A i \in H, j \in public : L[j].run = L[i].run => j \in H
  <2>1. SUFFICES ASSUME NEW i \in H, NEW j \in public, L[j].run = L[i].run, j \notin H
        PROVE  FALSE
    OBVIOUS
  <2>. DEFINE m == Min(fits)
  <2>2. m \in public /\ Opening(m) /\ H = from(m)
    BY <1>3
  <2>3. j < m /\ m <= i
    BY <1>2, <2>1, <2>2
  <2>. HIDE DEF m, H
  <2>. QED  BY <1>2, <1>4, <2>1, <2>2, <2>3
<1>6. \A i \in H, j \in before : j > i \/ L[j].run = L[i].run => j \in H
  <2>1. SUFFICES ASSUME NEW i \in H, NEW j \in before, j > i \/ L[j].run = L[i].run
        PROVE  j \in H
    OBVIOUS
  <2>2. i \in public /\ i > b
    BY <1>4
  <2>. HIDE DEF H
  <2>3. j \in public
    BY <1>1, <1>2, <2>1, <2>2
  <2>4. CASE L[j].run = L[i].run
    BY <1>5, <2>3, <2>4
  <2>5. CASE j > i
    BY <1>2, <1>4, <2>2, <2>3, <2>5
  <2>. QED  BY <2>1, <2>4, <2>5
<1>7. FitsIn(L, size, H)
  <2>1. CASE fits = {}
    <3>1. H = {} /\ SumFunction([i \in {} |-> L[i].size + Overhead]) = 0
      BY <2>1, NothingSums
    <3>2. FitsIn(L, size, {})
      BY <3>1, ConversationConstants DEF FitsIn
    <3>. QED  BY <3>1, <3>2
  <2>2. CASE fits # {}
    BY <1>3, <2>2
  <2>. QED  BY <2>1, <2>2
<1>8. ASSUME older # {}
      PROVE  ~FitsIn(L, size, H \cup {i \in older : L[i].run = L[Max(older)].run})
  <2>. DEFINE x == Max(older)
              R == {i \in older : L[i].run = L[x].run}
              k == Min(R)
  <2>1. x \in older /\ \A i \in older : i <= x
    <3>1. older \in SUBSET (0 .. n)
      BY <1>1, <1>4
    <3>. HIDE DEF older
    <3>. QED  BY <1>8, <3>1, GreatestOf
  <2>. HIDE DEF H, x, fits
  <2>2. older \subseteq public
    BY <1>4
  <2>. HIDE DEF older
  <2>3. k \in R /\ \A i \in R : k <= i
    <3>1. R \in SUBSET Nat /\ R # {}
      BY <1>2, <2>1, <2>2
    <3>. HIDE DEF R
    <3>. QED  BY <3>1, LeastOf
  <2>. HIDE DEF k
  <2>4. k \in older /\ L[k].run = L[x].run /\ k \in public /\ x \in public
    BY <2>1, <2>2, <2>3
  <2>5. Opening(k)
    <3>1. SUFFICES ASSUME NEW j \in public, j < k, L[j].run = L[k].run
          PROVE  FALSE
      OBVIOUS
    <3>2. j \in older
      BY <1>2, <1>4, <2>4, <3>1
    <3>. QED  BY <1>2, <2>3, <2>4, <3>1, <3>2
  <2>6. from(k) = H \cup R
    <3>1. ASSUME NEW j \in public, j >= k PROVE j \in H \cup R
      <4>1. CASE j \in older
        <5>1. k <= j /\ j <= x
          BY <2>1, <3>1, <4>1
        <5>. HIDE DEF public
        <5>2. L[j].run = L[x].run
          BY <1>2, <2>4, <5>1
        <5>. QED  BY <4>1, <5>2
      <4>. QED  BY <1>4, <4>1
    <3>2. ASSUME NEW j \in H \cup R PROVE j \in public /\ j >= k
      BY <1>2, <1>4, <2>2, <2>3, <2>4
    <3>. QED  BY <3>1, <3>2
  <2>7. k \notin fits
    BY <1>4, <2>4
  <2>. QED  BY <2>4, <2>5, <2>6, <2>7 DEF fits, x
<1>9. H = ContextIn(L, b, size)
  BY DEF ContextIn
<1>10. (n + 1) - 1 = n
  OBVIOUS
<1>11. /\ H \subseteq before /\ \A i \in H : i > b
  BY <1>4
<1>. HIDE DEF H, fits
<1>. QED  BY <1>6, <1>7, <1>8, <1>9, <1>10, <1>11 DEF WholeIn

-----------------------------------------------------------------------------
(***************************************************************************)
(* The conversations: the types of what is written.                        *)
(***************************************************************************)
(* What the log of a session is made of. *)
LEMMA Messages ==
  ASSUME TalkTypes, NEW s \in Sessions
  PROVE  /\ log[s] \in Seq(Message) /\ Len(log[s]) \in Nat /\ DOMAIN log[s] = 1 .. Len(log[s])
         /\ \A i \in DOMAIN log[s] : /\ log[s][i] \in Message /\ log[s][i].run \in Runs
                                     /\ log[s][i].size \in Nat
<1>1. log[s] \in Seq(Message)
  BY DEF TalkTypes
<1>2. Len(log[s]) \in Nat /\ DOMAIN log[s] = 1 .. Len(log[s])
  BY <1>1
<1>3. \A i \in DOMAIN log[s] : log[s][i] \in Message
  BY <1>1, <1>2
<1>. QED  BY <1>1, <1>2, <1>3 DEF Message

(* What a worker's request carries. *)
LEMMA JobFields ==
  ASSUME TalkTypes, NEW w \in Workers
  PROVE  /\ job[w].pc \in {"idle", "start", "resume", "begin", "work", "temp", "keep"}
         /\ job[w].pc # "idle" => job[w] # Idle /\ job[w].session \in Sessions /\ job[w].object \in Nat
         /\ Busy(w) => job[w].run \in Runs
         /\ Holds(w) => job[w].file \in Files
BY DEF TalkTypes, Idle, Fetched, Task, Storing, Busy, Works, Holds

LEMMA NewJob ==
  ASSUME TalkTypes, NEW w \in Workers, NEW new \in {Idle} \cup Fetched \cup Task \cup Storing,
         job' = [job EXCEPT ![w] = new]
  PROVE  /\ job' \in [Workers -> {Idle} \cup Fetched \cup Task \cup Storing]
         /\ job'[w] = new /\ \A v \in Workers \ {w} : job'[v] = job[v]
BY DEF TalkTypes

LEMMA TakesJob ==
  ASSUME TalkTypes, NEW w \in Workers, NEW pc \in {"begin", "work"}, NEW r \in Runs,
         job[w].pc # "idle", Takes(w, pc, r)
  PROVE  /\ job' \in [Workers -> {Idle} \cup Fetched \cup Task \cup Storing]
         /\ job'[w].pc = pc /\ job'[w].run = r
         /\ job'[w].session = job[w].session /\ job'[w].object = job[w].object
         /\ \A v \in Workers \ {w} : job'[v] = job[v]
<1>. DEFINE new == [pc |-> pc, session |-> job[w].session, object |-> job[w].object, run |-> r]
<1>1. new \in Task
  BY JobFields DEF Task
<1>2. job' = [job EXCEPT ![w] = new]
  BY DEF Takes
<1>3. job'[w] = new
  BY <1>1, <1>2, NewJob
<1>. QED  BY <1>1, <1>2, <1>3, NewJob

LEMMA RestsJob ==
  ASSUME TalkTypes, NEW w \in Workers, Rest(w)
  PROVE  /\ job' \in [Workers -> {Idle} \cup Fetched \cup Task \cup Storing]
         /\ job'[w] = Idle /\ job'[w].pc = "idle"
         /\ \A v \in Workers \ {w} : job'[v] = job[v]
BY NewJob DEF Rest, Idle

(* A run keeps its story: all that may change is its status and, when it   *)
(* is restored, its object.                                                *)
SameStory(q) ==
  /\ (runs'[q] = None) = (runs[q] = None)
  /\ Exists(q)' = Exists(q)
  /\ Exists(q) => /\ runs'[q].session = runs[q].session /\ runs'[q].base = runs[q].base
                  /\ runs'[q].history = runs[q].history /\ runs'[q].size = runs[q].size
                  /\ runs'[q].since = runs[q].since /\ runs'[q].first = runs[q].first

SameRun(q) == SameStory(q) /\ (Exists(q) => runs'[q].on = runs[q].on)

SameStories == \A q \in Runs : SameStory(q)
SameRuns == \A q \in Runs : SameRun(q)

LEMMA StoriesToo ==
  ASSUME SameRuns
  PROVE  SameStories
BY DEF SameRuns, SameStories, SameRun, SameStory

LEMMA RunFields ==
  ASSUME TalkTypes, NEW r \in Runs, Exists(r)
  PROVE  runs[r] \in RunRow
BY DEF TalkTypes, Exists

LEMMA RowsDiffer ==
  /\ \A x \in RunRow : x # None /\ x # Gone
  /\ \A x \in SessionRow : x # None /\ x # Gone
BY ConversationConstants DEF RunRow, SessionRow, Gone

LEMMA SetRunMoves ==
  ASSUME TalkTypes, NEW r \in Runs, Exists(r), NEW st \in Statuses, SetRun(r, st)
  PROVE  /\ runs' \in [Runs -> RunRow \cup {None, Gone}]
         /\ runs'[r].status = st /\ \A q \in Runs \ {r} : runs'[q] = runs[q]
         /\ SameRuns
<1>. DEFINE new == [runs[r] EXCEPT !.status = st]
<1>1. new \in RunRow /\ runs[r] \in RunRow
  BY RunFields DEF RunRow
<1>2. runs' = [runs EXCEPT ![r] = new]
  BY DEF SetRun
<1>3. runs'[r] = new /\ (\A q \in Runs \ {r} : runs'[q] = runs[q])
      /\ runs' \in [Runs -> RunRow \cup {None, Gone}]
  BY <1>1, <1>2 DEF TalkTypes
<1>4. /\ new.status = st /\ new.session = runs[r].session /\ new.history = runs[r].history
      /\ new.size = runs[r].size /\ new.since = runs[r].since
      /\ new.first = runs[r].first /\ new.on = runs[r].on /\ new.base = runs[r].base
  BY <1>1 DEF RunRow
<1>5. new # None /\ new # Gone /\ runs[r] # None
  BY <1>1, RowsDiffer
<1>. HIDE DEF new
<1>6. SameRun(r)
  BY <1>3, <1>4, <1>5 DEF SameRun, SameStory, Exists
<1>7. \A q \in Runs \ {r} : SameRun(q)
  BY <1>3 DEF SameRun, SameStory, Exists
<1>. QED  BY <1>3, <1>4, <1>6, <1>7 DEF SameRuns

LEMMA RunsAlone ==
  ASSUME runs' = runs
  PROVE  SameRuns
BY DEF SameRuns, SameRun, SameStory, Exists

(* A message is put at the end of a session's log. *)
Says(s, r) == /\ s \in Sessions /\ r \in Runs
              /\ log' \in [Sessions -> Seq(Message)]
              /\ \A t \in Sessions \ {s} : log'[t] = log[t]
              /\ Len(log'[s]) = Len(log[s]) + 1 /\ log'[s][Len(log[s]) + 1].run = r
              /\ \A i \in DOMAIN log[s] : log'[s][i] = log[s][i]

LEMMA AppendSays ==
  ASSUME TalkTypes, NEW s \in Sessions, NEW r \in Runs, NEW m \in Message, m.run = r,
         log' = [log EXCEPT ![s] = Append(@, m)]
  PROVE  Says(s, r)
<1>1. log[s] \in Seq(Message)
  BY DEF TalkTypes
<1>2. log'[s] = Append(log[s], m) /\ \A t \in Sessions \ {s} : log'[t] = log[t]
  BY DEF TalkTypes
<1>3. Append(log[s], m) \in Seq(Message)
  BY <1>1
<1>. QED  BY <1>1, <1>2, <1>3 DEF Says, TalkTypes

LEMMA SaySays ==
  ASSUME TalkTypes, NEW s \in Sessions, NEW r \in Runs, NEW role \in {"user", "assistant"},
         NEW size \in Nat, NEW shown \in BOOLEAN, Say(s, r, role, size, shown)
  PROVE  Says(s, r)
<1>. DEFINE m == [run |-> r, role |-> role, size |-> size, shown |-> shown]
<1>1. m \in Message /\ m.run = r
  BY DEF Message
<1>2. log' = [log EXCEPT ![s] = Append(@, m)]
  BY DEF Say
<1>. HIDE DEF m
<1>. QED  BY <1>1, <1>2, AppendSays

-----------------------------------------------------------------------------
(***************************************************************************)
(* The conversations: what keeps each part of the invariant.               *)
(***************************************************************************)
NoneWakes == \A q \in Runs : Alive(q)' => Alive(q)
RowsStay  == \A s \in Sessions : HasRow(s) => HasRow(s)'

LEMMA RunsKept ==
  ASSUME TalkTypes, RunsOK, SameRuns, NoneWakes, RowsStay,
         loads' \in Nat, loads <= loads', \A s \in Sessions : object'[s] \in 0 .. loads'
  PROVE  RunsOK'
<1>1. ASSUME NEW r \in Runs, Exists(r)'
      PROVE  row'[runs'[r].session] \notin {None, Gone} /\ runs'[r].on \in 1 .. loads'
  <2>1. Exists(r) /\ runs[r] \in RunRow
    BY <1>1, RunFields DEF SameRuns, SameRun, SameStory
  <2>2. runs[r].session \in Sessions
    BY <2>1 DEF RunRow
  <2>3. HasRow(runs[r].session) /\ runs[r].on \in 1 .. loads
    BY <2>1 DEF RunsOK
  <2>4. runs'[r].session = runs[r].session /\ runs'[r].on = runs[r].on
    BY <2>1 DEF SameRuns, SameRun, SameStory
  <2>5. loads \in Nat
    BY DEF TalkTypes
  <2>. QED  BY <2>2, <2>3, <2>4, <2>5 DEF RowsStay, HasRow
<1>2. ASSUME NEW q \in Runs, NEW r \in Runs, Alive(q)', Alive(r)', runs'[q].session = runs'[r].session
      PROVE  q = r
  <2>1. Alive(q) /\ Alive(r)
    BY <1>2 DEF NoneWakes
  <2>2. runs[q].session = runs[r].session
    BY <1>2, <2>1 DEF SameRuns, SameRun, SameStory, Alive
  <2>. QED  BY <2>1, <2>2 DEF RunsOK
<1>3. \A q, r \in Runs : q < r /\ runs'[q] = None => runs'[r] = None
  BY DEF SameRuns, SameRun, SameStory, RunsOK
<1>. QED  BY <1>1, <1>2, <1>3 DEF RunsOK, HasRow

(* A worker's request is in order. *)
JobOK(w) ==
  /\ job[w].pc # "idle" => job[w].object \in 1 .. loads
  /\ Busy(w) => /\ Exists(job[w].run) /\ runs[job[w].run].status = "running"
                /\ runs[job[w].run].session = job[w].session
                /\ runs[job[w].run].on = job[w].object

LEMMA JobsParts == JobsOK <=> /\ \A w \in Workers : JobOK(w)
                              /\ \A v, w \in Workers : v # w /\ Busy(v) /\ Busy(w) => job[v].run # job[w].run
BY DEF JobsOK, JobOK

LEMMA JobStays ==
  ASSUME TalkTypes, NEW v \in Workers, JobOK(v), job'[v] = job[v], SameRuns,
         loads' \in Nat, loads <= loads',
         Busy(v) => runs'[job[v].run].status = "running"
  PROVE  JobOK(v)' /\ Busy(v)' = Busy(v)
<1>1. Busy(v)' = Busy(v)
  BY DEF Busy, Works
<1>2. loads \in Nat
  BY DEF TalkTypes
<1>3. ASSUME Busy(v)
      PROVE  /\ Exists(job[v].run)' /\ runs'[job[v].run].status = "running"
             /\ runs'[job[v].run].session = job[v].session
             /\ runs'[job[v].run].on = job[v].object
  <2>1. job[v].run \in Runs
    BY <1>3, JobFields
  <2>. QED  BY <1>3, <2>1 DEF JobOK, SameRuns, SameRun, SameStory
<1>4. job[v].pc # "idle" => job'[v].object \in 1 .. loads'
  BY <1>2 DEF JobOK
<1>. QED  BY <1>1, <1>3, <1>4 DEF JobOK, Exists

(* Only one worker's request changes. *)
LEMMA JobsKept ==
  ASSUME TalkTypes, JobsOK, NEW w \in Workers, \A v \in Workers \ {w} : job'[v] = job[v],
         SameRuns, loads' \in Nat, loads <= loads',
         \A v \in Workers \ {w} : Busy(v) => runs'[job[v].run].status = "running",
         JobOK(w)',
         Busy(w)' => \A v \in Workers \ {w} : Busy(v) => job[v].run # job'[w].run
  PROVE  JobsOK'
<1>1. \A v \in Workers \ {w} : JobOK(v)' /\ Busy(v)' = Busy(v)
  BY JobsParts, JobStays
<1>2. \A v \in Workers : JobOK(v)'
  BY <1>1
<1>3. \A u, v \in Workers : u # v /\ Busy(u)' /\ Busy(v)' => job'[u].run # job'[v].run
  BY <1>1 DEF JobsOK
<1>. QED  BY <1>2, <1>3, JobsParts DEF JobsOK, JobOK

LEMMA AllJobsKept ==
  ASSUME TalkTypes, JobsOK, job' = job, SameRuns, loads' \in Nat, loads <= loads',
         \A v \in Workers : Busy(v) => runs'[job[v].run].status = "running"
  PROVE  JobsOK'
<1>1. \A v \in Workers : JobOK(v)' /\ Busy(v)' = Busy(v)
  BY JobsParts, JobStays
<1>2. \A u, v \in Workers : u # v /\ Busy(u)' /\ Busy(v)' => job'[u].run # job'[v].run
  BY <1>1 DEF JobsOK
<1>. QED  BY <1>1, <1>2 DEF JobsOK, JobOK

(* The log as it was, or with one more message of a live run.              *)
LEMMA LogKept ==
  ASSUME TalkTypes, LogOK, SameStories, NoneWakes, log' = log, row' = row
  PROVE  LogOK'
<1>1. \A s \in Sessions : HasRow(s)' = HasRow(s)
  BY DEF HasRow
<1>2. \A s \in Sessions : \A i \in DOMAIN log[s] : log[s][i].run \in Runs
  BY Messages
<1>3. \A s \in Sessions : \A i \in DOMAIN log[s] : runs'[log[s][i].run] # None
  BY <1>2 DEF LogOK, SameStories, SameStory
<1>4. \A r \in Runs : Alive(r)' => Alive(r) /\ runs'[r].session = runs[r].session
  BY DEF NoneWakes, Alive, SameStories, SameStory
<1>5. \A r \in Runs : Exists(r)' => /\ Exists(r) /\ runs'[r].session = runs[r].session
                                    /\ runs'[r].first = runs[r].first
  BY DEF SameStories, SameStory
<1>. QED  BY <1>1, <1>3, <1>4, <1>5 DEF LogOK

(* A message is put after those there are, by the one run of its session   *)
(* that is alive; only that run may be new.                                *)
Latest(s, r) == \A i \in DOMAIN log[s] : /\ log[s][i].run <= r
                                         /\ i <= row[s].boundary => log[s][i].run < r
OnlyAlive(s, r) == \A q \in Runs : Alive(q)' =>
            \/ q = r /\ runs'[q].session = s
            \/ Alive(q) /\ runs'[q].session = runs[q].session /\ runs[q].session # s
FirstsThere == \A q \in Runs : Exists(q) => runs[q].first \in 1 .. Len(log[runs[q].session])

LEMMA LogAppends ==
  ASSUME TalkTypes, LogOK, row' = row, NEW s \in Sessions, HasRow(s), NEW r \in Runs, Says(s, r),
         Latest(s, r), OnlyAlive(s, r), FirstsThere',
         runs'[r] # None, \A q \in Runs : runs[q] # None => runs'[q] # None
  PROVE  LogOK'
<1>. DEFINE n == Len(log[s])
<1>1. \A t \in Sessions : HasRow(t)' = HasRow(t)
  BY DEF HasRow
<1>2. /\ n \in Nat /\ DOMAIN log[s] = 1 .. n /\ DOMAIN log'[s] = 1 .. n + 1
      /\ log'[s][n + 1].run = r /\ \A i \in 1 .. n : log'[s][i] = log[s][i]
      /\ Len(log'[s]) = n + 1
      /\ \A t \in Sessions \ {s} : log'[t] = log[t]
  <2>1. log'[s] \in Seq(Message)
    BY DEF Says
  <2>2. Len(log'[s]) \in Nat /\ DOMAIN log'[s] = 1 .. Len(log'[s])
    BY <2>1
  <2>. QED  BY <2>2, Messages DEF Says
<1>3. \A t \in Sessions : \A i \in DOMAIN log[t] : log[t][i].run \in Runs
  BY Messages
<1>4. row[s].boundary \in Nat /\ row[s].boundary <= n
  BY DEF LogOK, TalkTypes, SessionRow, HasRow
<1>. HIDE DEF n
<1>14. \A i \in 1 .. n : /\ log[s][i].run <= r
                         /\ i <= row[s].boundary => log[s][i].run < r
  BY <1>2 DEF Latest
<1>5. \A t \in Sessions : row'[t] \in {None, Gone} => log'[t] = <<>>
  BY <1>2 DEF LogOK, HasRow
<1>6. \A t \in Sessions : HasRow(t) => row[t].boundary <= Len(log'[t])
  BY <1>2, <1>4 DEF LogOK
<1>7. \A t \in Sessions : \A i \in DOMAIN log'[t] : runs'[log'[t][i].run] # None
  <2>1. \A i \in 1 .. n + 1 : i = n + 1 \/ i \in 1 .. n
    BY <1>2
  <2>2. \A i \in 1 .. n : runs'[log[s][i].run] # None
    BY <1>2, <1>3 DEF LogOK
  <2>3. \A i \in 1 .. n + 1 : runs'[log'[s][i].run] # None
    BY <1>2, <2>1, <2>2
  <2>4. \A t \in Sessions \ {s} : \A i \in DOMAIN log[t] : runs'[log[t][i].run] # None
    BY <1>3 DEF LogOK
  <2>. SUFFICES ASSUME NEW t \in Sessions, NEW i \in DOMAIN log'[t]
                PROVE  runs'[log'[t][i].run] # None
    OBVIOUS
  <2>5. CASE t = s
    BY <1>2, <2>3, <2>5
  <2>6. CASE t # s
    BY <1>2, <2>4, <2>6
  <2>. QED  BY <2>5, <2>6
<1>8. \A t \in Sessions : \A i, j \in DOMAIN log'[t] : i <= j => log'[t][i].run <= log'[t][j].run
  <2>1. \A i, j \in 1 .. n : i <= j => log'[s][i].run <= log'[s][j].run
    BY <1>2 DEF LogOK
  <2>2. \A i \in 1 .. n + 1 : log'[s][i].run <= log'[s][n + 1].run
    <3>1. \A i \in 1 .. n : log'[s][i].run <= log'[s][n + 1].run
      BY <1>2, <1>14
    <3>2. log'[s][n + 1].run <= log'[s][n + 1].run
      BY <1>2, ConversationConstants DEF Runs
    <3>. QED  BY <1>2, <3>1, <3>2
  <2>3. \A i, j \in 1 .. n + 1 : i <= j => log'[s][i].run <= log'[s][j].run
    BY <1>2, <2>1, <2>2
  <2>. QED  BY <1>2, <2>3 DEF LogOK
<1>9. \A t \in Sessions : HasRow(t) => \A i, j \in DOMAIN log'[t] :
         i <= row[t].boundary /\ row[t].boundary < j => log'[t][i].run < log'[t][j].run
  <2>1. \A i, j \in 1 .. n + 1 :
          i <= row[s].boundary /\ row[s].boundary < j => log'[s][i].run < log'[s][j].run
    BY <1>2, <1>4, <1>14 DEF LogOK
  <2>. QED  BY <1>2, <2>1 DEF LogOK
<1>10. \A q \in Runs : Alive(q)' => \A i \in DOMAIN log'[runs'[q].session] :
         /\ log'[runs'[q].session][i].run <= q
         /\ i <= row[runs'[q].session].boundary => log'[runs'[q].session][i].run < q
  <2>1. \A i \in 1 .. n + 1 : /\ log'[s][i].run <= r
                              /\ i <= row[s].boundary => log'[s][i].run < r
    BY <1>2, <1>4, <1>14 DEF Runs
  <2>2. \A q \in Runs : Alive(q) => runs[q].session \in Sessions
    BY RunFields DEF Alive, RunRow
  <2>3. ASSUME NEW q \in Runs, Alive(q), runs[q].session # s,
               NEW i \in DOMAIN log'[runs[q].session]
        PROVE  /\ log'[runs[q].session][i].run <= q
               /\ i <= row[runs[q].session].boundary => log'[runs[q].session][i].run < q
    BY <1>2, <2>2, <2>3 DEF LogOK
  <2>4. SUFFICES ASSUME NEW q \in Runs, Alive(q)', NEW i \in DOMAIN log'[runs'[q].session]
        PROVE  /\ log'[runs'[q].session][i].run <= q
               /\ i <= row[runs'[q].session].boundary => log'[runs'[q].session][i].run < q
    OBVIOUS
  <2>5. CASE q = r /\ runs'[q].session = s
    <3>1. i \in 1 .. n + 1
      BY <1>2, <2>4, <2>5
    <3>2. log'[s][i].run <= r /\ (i <= row[s].boundary => log'[s][i].run < r)
      BY <2>1, <3>1
    <3>. QED  BY <2>5, <3>2
  <2>6. CASE Alive(q) /\ runs'[q].session = runs[q].session /\ runs[q].session # s
    BY <2>3, <2>4, <2>6
  <2>. QED  BY <2>4, <2>5, <2>6 DEF OnlyAlive
<1>11. \A q \in Runs : Exists(q)' => runs'[q].first \in 1 .. Len(log'[runs'[q].session])
  BY DEF FirstsThere
<1>12. \A t \in Sessions : HasRow(t)' =>
         /\ row'[t].boundary <= Len(log'[t])
         /\ \A i, j \in DOMAIN log'[t] :
              i <= row'[t].boundary /\ row'[t].boundary < j => log'[t][i].run < log'[t][j].run
  BY <1>1, <1>6, <1>9
<1>13. \A q \in Runs : Alive(q)' => \A i \in DOMAIN log'[runs'[q].session] :
         /\ log'[runs'[q].session][i].run <= q
         /\ i <= row'[runs'[q].session].boundary => log'[runs'[q].session][i].run < q
  BY <1>10
<1>. QED
  BY <1>5, <1>7, <1>8, <1>11, <1>12, <1>13 DEF LogOK

LEMMA LogSays ==
  ASSUME TalkTypes, RunsOK, LogOK, SameStories, NoneWakes, row' = row,
         NEW r \in Runs, Alive(r), Says(runs[r].session, r)
  PROVE  LogOK'
<1>. DEFINE s == runs[r].session
<1>1. s \in Sessions /\ HasRow(s)
  BY RunFields DEF Alive, RunRow, RunsOK
<1>2. Latest(s, r)
  BY DEF LogOK, Latest
<1>3. runs'[r] # None /\ \A q \in Runs : runs[q] # None => runs'[q] # None
  BY DEF SameStories, SameStory, Alive, Exists
<1>4. OnlyAlive(s, r)
  <2>1. \A q \in Runs : Alive(q)' => Alive(q) /\ runs'[q].session = runs[q].session
    BY DEF NoneWakes, Alive, SameStories, SameStory
  <2>. QED  BY <2>1 DEF RunsOK, OnlyAlive
<1>5. FirstsThere'
  <2>1. ASSUME NEW q \in Runs, Exists(q)' PROVE runs'[q].first \in 1 .. Len(log'[runs'[q].session])
    <3>1. /\ Exists(q) /\ runs[q].session \in Sessions /\ runs'[q].session = runs[q].session
          /\ runs'[q].first = runs[q].first
      BY <2>1, RunFields DEF SameStories, SameStory, RunRow
    <3>2. runs[q].first \in 1 .. Len(log[runs[q].session]) /\ Len(log[runs[q].session]) \in Nat
      BY <3>1, Messages DEF LogOK
    <3>3. Len(log'[runs[q].session]) \in {Len(log[runs[q].session]), Len(log[runs[q].session]) + 1}
      BY <3>1 DEF Says
    <3>. QED  BY <3>1, <3>2, <3>3
  <2>. QED  BY <2>1 DEF FirstsThere
<1>. HIDE DEF s
<1>6. Says(s, r)
  BY DEF s
<1>. QED  BY <1>1, <1>2, <1>3, <1>4, <1>5, <1>6, LogAppends

(* The workers that execute and the runs that wait stay within reach.      *)
ObjectsStay == \A s \in Sessions : HasRow(s) /\ object[s] # 0 => object'[s] = object[s]
Reaches(w) == /\ job'[w].session = job[w].session /\ job'[w].object = job[w].object
              /\ job[w].pc # "idle"
              /\ HasRow(job[w].session) /\ object[job[w].session] = job[w].object

LEMMA ReachKept ==
  ASSUME TalkTypes, RunsOK, JobsOK, SameRuns, RowsStay, ObjectsStay,
         \A w \in Workers : Works(w)' => Reaches(w),
         \A r \in Runs : Exists(r) /\ runs'[r].status = "waiting" => object[runs[r].session] = runs[r].on
  PROVE  RunsAreReachable'
<1>1. ASSUME NEW w \in Workers, Works(w)'
      PROVE  (HasRow(job[w].session) /\ object[job[w].session] = job[w].object)'
  <2>1. Reaches(w) /\ job[w].session \in Sessions
    BY <1>1, JobFields DEF Reaches
  <2>2. job[w].object \in 1 .. loads /\ loads \in Nat
    BY <2>1 DEF JobsOK, Reaches, TalkTypes
  <2>3. object'[job[w].session] = job[w].object
    BY <2>1, <2>2 DEF Reaches, ObjectsStay
  <2>4. row'[job[w].session] \notin {None, Gone}
    BY <2>1 DEF Reaches, RowsStay, HasRow
  <2>. QED  BY <2>1, <2>3, <2>4 DEF Reaches, HasRow
<1>2. ASSUME NEW r \in Runs, Exists(r)', runs'[r].status = "waiting"
      PROVE  object'[runs'[r].session] = runs'[r].on
  <2>1. /\ Exists(r) /\ runs'[r].session = runs[r].session /\ runs'[r].on = runs[r].on
    BY <1>2 DEF SameRuns, SameRun, SameStory
  <2>2. runs[r].session \in Sessions /\ runs[r].on \in 1 .. loads /\ loads \in Nat
    BY <2>1, RunFields DEF RunRow, RunsOK, TalkTypes
  <2>3. HasRow(runs[r].session)
    BY <2>1 DEF RunsOK
  <2>. QED  BY <1>2, <2>1, <2>2, <2>3 DEF ObjectsStay
<1>. QED  BY <1>1, <1>2 DEF RunsAreReachable, Exists

(* A frozen history is judged by messages that never change.               *)
Frozen(r) ==
  WholeIn(log[runs[r].session], runs[r].history, runs[r].size, runs[r].since, runs[r].first)

LEMMA HistoryParts ==
  HistoryIsWhole <=> \A r \in Runs : Exists(r) /\ runs[r].base = r => Frozen(r)
BY DEF HistoryIsWhole, Frozen, WholeIn, Fits, FitsIn

LEMMA HistoryPartsNext ==
  (\A r \in Runs : Exists(r) /\ runs[r].base = r => Frozen(r))' => HistoryIsWhole'
BY HistoryParts, PTL

LEMMA FrozenStays ==
  ASSUME TalkTypes, LogOK, NEW r \in Runs, Exists(r), SameStory(r), Frozen(r),
         \A i \in DOMAIN log[runs[r].session] :
            log'[runs[r].session][i] = log[runs[r].session][i]
  PROVE  Frozen(r)'
<1>. DEFINE s == runs[r].session
<1>1. /\ s \in Sessions /\ runs'[r].session = s /\ runs'[r].history = runs[r].history
      /\ runs'[r].size = runs[r].size /\ runs'[r].since = runs[r].since
      /\ runs'[r].first = runs[r].first
  BY RunFields DEF SameStory, RunRow
<1>2. runs[r].first \in Nat \ {0} /\ \A i \in 1 .. runs[r].first - 1 : log'[s][i] = log[s][i]
  <2>1. runs[r].first \in 1 .. Len(log[s]) /\ Len(log[s]) \in Nat /\ DOMAIN log[s] = 1 .. Len(log[s])
    BY <1>1, Messages DEF LogOK
  <2>. QED  BY <2>1
<1>3. WholeIn(log[s], runs[r].history, runs[r].size, runs[r].since, runs[r].first)
  BY DEF Frozen
<1>4. WholeIn(log'[s], runs[r].history, runs[r].size, runs[r].since, runs[r].first)
  BY <1>2, <1>3, WholeStays
<1>. QED  BY <1>1, <1>4 DEF Frozen

(* Messages are only put after those there are.                            *)
LogGrows == \A s \in Sessions : \A i \in DOMAIN log[s] : log'[s][i] = log[s][i]

LEMMA HistoryKept ==
  ASSUME TalkTypes, LogOK, HistoryIsWhole, SameStories, LogGrows
  PROVE  HistoryIsWhole'
<1>1. \A r \in Runs : Exists(r) => runs[r].session \in Sessions
  BY RunFields DEF RunRow
<1>2. ASSUME NEW r \in Runs, Exists(r)', runs'[r].base = r PROVE Frozen(r)'
  <2>1. Exists(r) /\ SameStory(r) /\ runs[r].base = r
    BY <1>2 DEF SameStories, SameStory
  <2>2. Frozen(r)
    BY <2>1, HistoryParts
  <2>3. \A i \in DOMAIN log[runs[r].session] :
            log'[runs[r].session][i] = log[runs[r].session][i]
    BY <1>1, <2>1 DEF LogGrows
  <2>. QED  BY <2>1, <2>2, <2>3, FrozenStays, StoriesToo
<1>. QED  BY <1>2, HistoryPartsNext

(* What an agent got, stated of the messages alone: the newest part, from  *)
(* some user's message on, of what was public between since and first.     *)
NewestIn(L, since, first, H) ==
  LET public == {i \in 1 .. first - 1 : i > since /\ L[i].shown} IN
  /\ H \subseteq public /\ \A i \in H, j \in public : j > i => j \in H
  /\ H # {} => L[Min(H)].role = "user"

LEMMA NothingIsRecent ==
  ASSUME NEW L, NEW since, NEW first
  PROVE  NewestIn(L, since, first, {})
<1>. DEFINE public == {i \in 1 .. first - 1 : i > since /\ L[i].shown}
<1>1. {} \subseteq public /\ \A i \in {}, j \in public : j > i => j \in {}
  OBVIOUS
<1>2. {} # {} => L[Min({})].role = "user"
  OBVIOUS
<1>. QED  BY <1>1, <1>2, Zenon DEF NewestIn

LEMMA NewestStays ==
  ASSUME NEW L, NEW M, NEW since, NEW first \in Nat \ {0}, NEW H,
         \A i \in 1 .. first - 1 : M[i] = L[i], NewestIn(L, since, first, H)
  PROVE  NewestIn(M, since, first, H)
<1>. DEFINE public == {i \in 1 .. first - 1 : i > since /\ L[i].shown}
<1>1. public = {i \in 1 .. first - 1 : i > since /\ M[i].shown}
  OBVIOUS
<1>2. H \subseteq public /\ \A i \in H, j \in public : j > i => j \in H
  BY DEF NewestIn
<1>3. H # {} => M[Min(H)].role = "user"
  <2>1. H # {} => Min(H) \in H
    <3>1. H \in SUBSET Nat
      BY <1>2
    <3>. QED  BY <3>1, LeastOf
  <2>. QED  BY <1>2, <2>1 DEF NewestIn
<1>. HIDE DEF public
<1>. QED  BY <1>1, <1>2, <1>3 DEF NewestIn

Recent(r) ==
  LET b == runs[r].base  s == runs[r].session IN
  /\ Exists(b) /\ runs[b].session = s
  /\ \A H \in inputs[r] \cup {runs[r].history} :
       NewestIn(log[s], runs[b].since, runs[b].first, H)

LEMMA InputParts == InputIsRecent <=> \A r \in Runs : Exists(r) => Recent(r)
BY DEF InputIsRecent, Recent, NewestIn

LEMMA InputPartsNext == (\A r \in Runs : Exists(r) => Recent(r))' => InputIsRecent'
BY InputParts, PTL

LEMMA RecentStays ==
  ASSUME TalkTypes, LogOK, NEW r \in Runs, Exists(r), Recent(r), SameStory(r),
         SameStory(runs[r].base), inputs'[r] = inputs[r],
         \A i \in DOMAIN log[runs[r].session] :
            log'[runs[r].session][i] = log[runs[r].session][i]
  PROVE  Recent(r)'
<1>. PICK b \in Runs, s \in Sessions : b = runs[r].base /\ s = runs[r].session
  BY RunFields DEF RunRow
<1>1. /\ Exists(b) /\ Exists(b)' /\ runs[b].session = s /\ SameStory(b)
      /\ runs'[r].base = b /\ runs'[r].session = s /\ runs'[r].history = runs[r].history
      /\ runs'[b].session = s /\ runs'[b].since = runs[b].since /\ runs'[b].first = runs[b].first
  BY DEF SameStory, Recent
<1>2. runs[b].first \in Nat \ {0} /\ \A i \in 1 .. runs[b].first - 1 : log'[s][i] = log[s][i]
  <2>1. runs[b].first \in 1 .. Len(log[s]) /\ Len(log[s]) \in Nat /\ DOMAIN log[s] = 1 .. Len(log[s])
    BY <1>1, Messages DEF LogOK
  <2>. QED  BY <2>1
<1>3. \A H \in inputs[r] \cup {runs[r].history} :
         NewestIn(log[s], runs[b].since, runs[b].first, H)
  BY DEF Recent
<1>4. \A H \in inputs[r] \cup {runs[r].history} :
         NewestIn(log'[s], runs[b].since, runs[b].first, H)
  BY <1>2, <1>3, NewestStays
<1>5. \A H \in inputs'[r] \cup {runs'[r].history} :
         NewestIn(log'[s], runs'[b].since, runs'[b].first, H)
  BY <1>1, <1>4
<1>. QED  BY <1>1, <1>5 DEF Recent, Exists

(* A message comes from a run of its session, and no agent begins.         *)
Speaks == log' = log \/ \E r \in Runs : Exists(r) /\ Says(runs[r].session, r)

LEMMA SpokenGrows ==
  ASSUME Speaks
  PROVE  LogGrows
BY DEF Speaks, Says, LogGrows

LEMMA LedStays ==
  ASSUME TalkTypes, LogOK, Opened, Led, Speaks
  PROVE  Led'
<1>1. CASE log' = log
  BY <1>1 DEF Led
<1>2. CASE \E r \in Runs : Exists(r) /\ Says(runs[r].session, r)
  <2>1. PICK r \in Runs, s \in Sessions : Exists(r) /\ s = runs[r].session /\ Says(s, r)
    BY <1>2, RunFields DEF RunRow
  <2>. DEFINE n == Len(log[s])
  <2>2. /\ n \in Nat /\ DOMAIN log[s] = 1 .. n /\ DOMAIN log'[s] = 1 .. n + 1
        /\ log'[s][n + 1].run = r /\ \A i \in 1 .. n : log'[s][i] = log[s][i]
        /\ \A t \in Sessions \ {s} : log'[t] = log[t]
    <3>1. log'[s] \in Seq(Message)
      BY <2>1 DEF Says
    <3>2. Len(log'[s]) \in Nat /\ DOMAIN log'[s] = 1 .. Len(log'[s])
      BY <3>1
    <3>. QED  BY <2>1, <3>2, Messages DEF Says
  <2>3. PICK f \in 1 .. n : log[s][f].run = r /\ log[s][f].shown /\ log[s][f].role = "user"
    BY <2>1 DEF Opened, Goal, LogOK
  <2>. HIDE DEF n
  <2>4. ASSUME NEW i \in 1 .. n + 1
        PROVE  \E j \in 1 .. i : log'[s][j].run = log'[s][i].run /\ log'[s][j].shown
                                 /\ log'[s][j].role = "user"
    <3>1. CASE i \in 1 .. n
      <4>1. PICK j \in 1 .. i : log[s][j].run = log[s][i].run /\ log[s][j].shown
                                /\ log[s][j].role = "user"
        BY <2>2, <3>1 DEF Led
      <4>2. j \in 1 .. n
        BY <2>2, <3>1
      <4>. QED  BY <2>2, <3>1, <4>1, <4>2
    <3>2. CASE i = n + 1
      <4>1. f \in 1 .. i /\ log'[s][f] = log[s][f] /\ log'[s][i].run = r
        BY <2>2, <3>2
      <4>. QED  BY <2>3, <4>1
    <3>. QED  BY <2>2, <3>1, <3>2
  <2>5. ASSUME NEW t \in Sessions, NEW i \in DOMAIN log'[t]
        PROVE  \E j \in 1 .. i : log'[t][j].run = log'[t][i].run /\ log'[t][j].shown
                                 /\ log'[t][j].role = "user"
    <3>1. CASE t = s
      BY <2>2, <2>4, <3>1
    <3>2. CASE t # s
      <4>1. log'[t] = log[t]
        BY <2>2, <3>2
      <4>. QED  BY <4>1 DEF Led
    <3>. QED  BY <3>1, <3>2
  <2>. QED  BY <2>5 DEF Led
<1>. QED  BY <1>1, <1>2 DEF Speaks

LEMMA OpenedStays ==
  ASSUME TalkTypes, LogOK, NEW r \in Runs, Exists(r), SameStory(r),
         Goal(r).run = r /\ Goal(r).shown /\ Goal(r).role = "user",
         \A i \in DOMAIN log[runs[r].session] :
            log'[runs[r].session][i] = log[runs[r].session][i]
  PROVE  (Goal(r).run = r /\ Goal(r).shown /\ Goal(r).role = "user")'
<1>1. runs[r].session \in Sessions /\ runs[r].first \in DOMAIN log[runs[r].session]
  BY RunFields, Messages DEF RunRow, LogOK
<1>. QED  BY <1>1 DEF Goal, SameStory

LEMMA StoriesKept ==
  ASSUME TalkTypes, LogOK, StoriesOK, SameStories, Speaks, inputs' = inputs
  PROVE  StoriesOK'
<1>1. LogGrows /\ \A r \in Runs : Exists(r) =>
         /\ runs[r].session \in Sessions /\ runs[r].base \in Runs
         /\ \A i \in DOMAIN log[runs[r].session] :
              log'[runs[r].session][i] = log[runs[r].session][i]
  BY SpokenGrows, RunFields DEF RunRow, LogGrows
<1>2. HistoryIsWhole'
  BY <1>1, HistoryKept DEF StoriesOK
<1>3. InputIsRecent'
  <2>1. ASSUME NEW r \in Runs, Exists(r)' PROVE Recent(r)'
    <3>1. Exists(r) /\ SameStory(r) /\ SameStory(runs[r].base)
      BY <1>1, <2>1 DEF SameStories, SameStory
    <3>2. Recent(r)
      BY <3>1, InputParts DEF StoriesOK
    <3>. QED  BY <1>1, <3>1, <3>2, RecentStays
  <2>. QED  BY <2>1, InputPartsNext
<1>4. Opened'
  <2>1. ASSUME NEW r \in Runs, Exists(r)'
        PROVE  (Goal(r).run = r /\ Goal(r).shown /\ Goal(r).role = "user")'
    <3>1. Exists(r) /\ SameStory(r)
      BY <2>1 DEF SameStories, SameStory
    <3>. QED  BY <1>1, <3>1, OpenedStays DEF StoriesOK, Opened
  <2>. QED  BY <2>1 DEF Opened
<1>5. Led'
  BY LedStays DEF StoriesOK
<1>6. Unasked'
  BY DEF StoriesOK, Unasked, SameStories, SameStory
<1>. QED  BY <1>2, <1>3, <1>4, <1>5, <1>6 DEF StoriesOK

(* No file changes hands.                                                  *)
LEMMA FilesKept ==
  ASSUME FilesOK, files' = files, temps' = temps, arts' = arts, crashes' = crashes, faults' = faults,
         removing.pc = "unlink" => removing' = removing,
         removing'.pc = "unlink" => removing.pc = "unlink",
         \A w \in Workers : Holds(w) \/ Holds(w)' => job'[w] = job[w]
  PROVE  FilesOK'
BY DEF FilesOK, FilesMatchRows, Holds

-----------------------------------------------------------------------------
(***************************************************************************)
(* The conversations: the steps of a run that exists.                      *)
(***************************************************************************)
LEMMA EndMoves ==
  ASSUME TalkTypes, NEW r \in Runs, Exists(r), NEW st \in {"completed", "failed", "cancelled"},
         NEW size \in Nat, End(r, st, size)
  PROVE  SetRun(r, st) /\ Says(runs[r].session, r)
<1>1. runs[r].session \in Sessions
  BY RunFields DEF RunRow
<1>2. PICK n \in Nat, shown \in BOOLEAN : Say(runs[r].session, r, "assistant", n, shown)
  BY DEF End
<1>3. Says(runs[r].session, r)
  BY <1>1, <1>2, SaySays
<1>. QED  BY <1>3 DEF End

(* A live run's message or none, and no new run.                           *)
LEMMA MoveStep ==
  ASSUME TalkOK, SameRuns, NoneWakes, NEW r \in Runs, Alive(r),
         log' = log \/ Says(runs[r].session, r), UNCHANGED <<row, object, loads, inputs>>
  PROVE  /\ RunsOK' /\ LogOK' /\ StoriesOK' /\ RowsStay /\ ObjectsStay
         /\ log' \in [Sessions -> Seq(Message)]
<1>1. RowsStay /\ ObjectsStay
  BY DEF RowsStay, ObjectsStay, HasRow
<1>2. RunsOK'
  BY <1>1, RunsKept DEF TalkOK, RunsOK, TalkTypes
<1>3. LogOK'
  BY LogKept, StoriesToo, LogSays DEF TalkOK
<1>4. Speaks /\ log' \in [Sessions -> Seq(Message)]
  BY DEF Speaks, Says, Alive, TalkOK, TalkTypes
<1>5. StoriesOK'
  BY <1>4, StoriesKept, StoriesToo DEF TalkOK
<1>. QED  BY <1>1, <1>2, <1>3, <1>4, <1>5

LEMMA OneMoves ==
  ASSUME TalkOK, NEW r \in Runs, Alive(r), NEW st \in Statuses, SetRun(r, st)
  PROVE  /\ SameRuns /\ NoneWakes /\ runs' \in [Runs -> RunRow \cup {None, Gone}]
         /\ runs'[r].status = st /\ \A q \in Runs \ {r} : runs'[q] = runs[q]
<1>1. TalkTypes /\ Exists(r)
  BY DEF TalkOK, Alive
<1>2. /\ SameRuns /\ runs' \in [Runs -> RunRow \cup {None, Gone}]
      /\ runs'[r].status = st /\ \A q \in Runs \ {r} : runs'[q] = runs[q]
  BY <1>1, SetRunMoves
<1>3. NoneWakes
  BY <1>2 DEF NoneWakes, Alive, Exists
<1>. QED  BY <1>2, <1>3

LEMMA StopMoves ==
  ASSUME TalkOK, NEW r \in Runs, Stop(r)
  PROVE  TalkOK'
<1>1. /\ Exists(r) /\ runs[r].status = "waiting" /\ End(r, "cancelled", 0)
      /\ UNCHANGED <<row, object, loads, job, files, temps, arts, removing, crashes, faults, inputs>>
  BY DEF Stop
<1>2. Alive(r) /\ TalkTypes
  BY <1>1 DEF Alive, TalkOK
<1>3. SetRun(r, "cancelled") /\ Says(runs[r].session, r)
  BY <1>1, <1>2, EndMoves
<1>4. /\ SameRuns /\ NoneWakes /\ runs' \in [Runs -> RunRow \cup {None, Gone}]
      /\ runs'[r].status = "cancelled" /\ \A q \in Runs \ {r} : runs'[q] = runs[q]
  BY <1>2, <1>3, OneMoves DEF Statuses
<1>5. /\ RunsOK' /\ LogOK' /\ StoriesOK' /\ RowsStay /\ ObjectsStay
      /\ log' \in [Sessions -> Seq(Message)]
  BY <1>1, <1>2, <1>3, <1>4, MoveStep
<1>6. \A v \in Workers : Busy(v) => runs'[job[v].run].status = "running"
  <2>1. \A v \in Workers : Busy(v) => job[v].run \in Runs \ {r} /\ runs[job[v].run].status = "running"
    BY <1>1, <1>2, JobFields DEF TalkOK, JobsOK
  <2>. QED  BY <1>4, <2>1
<1>7. JobsOK'
  BY <1>1, <1>2, <1>4, <1>6, AllJobsKept DEF TalkOK, TalkTypes
<1>8. RunsAreReachable'
  <2>1. \A w \in Workers : Works(w)' => Reaches(w)
    BY <1>1 DEF TalkOK, RunsAreReachable, Reaches, Works
  <2>2. \A q \in Runs : Exists(q) /\ runs'[q].status = "waiting" => object[runs[q].session] = runs[q].on
    BY <1>4 DEF TalkOK, RunsAreReachable
  <2>. QED  BY <1>4, <1>5, <2>1, <2>2, ReachKept DEF TalkOK
<1>9. FilesOK'
  BY <1>1, FilesKept DEF TalkOK
<1>10. TalkTypes'
  BY <1>1, <1>2, <1>4, <1>5 DEF TalkTypes, FileTypes
<1>. QED  BY <1>5, <1>7, <1>8, <1>9, <1>10 DEF TalkOK

(* A worker that has its run lets go of it.                                *)
LEMMA WorkerRests ==
  ASSUME TalkOK, NEW w \in Workers, Busy(w), NEW st \in Statuses, SetRun(job[w].run, st), Rest(w),
         log' = log \/ Says(runs[job[w].run].session, job[w].run),
         st = "waiting" => Works(w), FileTypes', UNCHANGED <<row, object, loads, removing, inputs>>
  PROVE  TalkTypes' /\ RunsOK' /\ JobsOK' /\ LogOK' /\ RunsAreReachable' /\ StoriesOK'
<1>1. PICK r \in Runs : r = job[w].run
  BY JobFields DEF TalkOK
<1>2. /\ TalkTypes /\ Alive(r) /\ runs[r].session = job[w].session /\ runs[r].on = job[w].object
  BY <1>1 DEF TalkOK, JobsOK, Alive
<1>3. /\ SameRuns /\ NoneWakes /\ runs' \in [Runs -> RunRow \cup {None, Gone}]
      /\ runs'[r].status = st /\ \A q \in Runs \ {r} : runs'[q] = runs[q]
  BY <1>1, <1>2, OneMoves
<1>4. /\ RunsOK' /\ LogOK' /\ StoriesOK' /\ RowsStay /\ ObjectsStay
      /\ log' \in [Sessions -> Seq(Message)]
  BY <1>1, <1>2, <1>3, MoveStep
<1>5. /\ job' \in [Workers -> {Idle} \cup Fetched \cup Task \cup Storing]
      /\ job'[w].pc = "idle" /\ \A v \in Workers \ {w} : job'[v] = job[v]
  BY <1>2, RestsJob
<1>6. JobsOK'
  <2>1. \A v \in Workers \ {w} : Busy(v) =>
           job[v].run \in Runs \ {r} /\ runs[job[v].run].status = "running"
    BY <1>1, <1>2, JobFields DEF TalkOK, JobsOK
  <2>2. \A v \in Workers \ {w} : Busy(v) => runs'[job[v].run].status = "running"
    BY <1>3, <2>1
  <2>3. ~Busy(w)' /\ JobOK(w)'
    BY <1>5 DEF JobOK, Busy, Works
  <2>4. Busy(w)' => \A v \in Workers \ {w} : Busy(v) => job[v].run # job'[w].run
    BY <2>3
  <2>5. loads' \in Nat /\ loads <= loads'
    BY <1>2 DEF TalkTypes
  <2>6. JobsOK
    BY DEF TalkOK
  <2>. QED  BY <1>2, <1>3, <1>5, <2>2, <2>3, <2>4, <2>5, <2>6, JobsKept
<1>7. RunsAreReachable'
  <2>1. \A v \in Workers : Works(v)' => Reaches(v)
    BY <1>5 DEF TalkOK, RunsAreReachable, Reaches, Works
  <2>2. \A q \in Runs : Exists(q) /\ runs'[q].status = "waiting" => object[runs[q].session] = runs[q].on
    BY <1>2, <1>3 DEF TalkOK, RunsAreReachable
  <2>. QED  BY <1>3, <1>4, <2>1, <2>2, ReachKept DEF TalkOK
<1>8. TalkTypes'
  BY <1>2, <1>3, <1>4, <1>5 DEF TalkTypes
<1>. QED  BY <1>4, <1>6, <1>7, <1>8

(* A worker goes on with a run that is its own, or becomes so.             *)
LEMMA WorkerTakes ==
  ASSUME TalkOK, NEW w \in Workers, job[w].pc # "idle", NEW r \in Runs, Alive(r), Takes(w, "work", r),
         (runs' = runs /\ runs[r].status = "running") \/ SetRun(r, "running"),
         runs[r].session = job[w].session, runs[r].on = job[w].object,
         object[job[w].session] = job[w].object,
         \A v \in Workers \ {w} : Busy(v) => job[v].run # r,
         log' = log \/ Says(runs[r].session, r), FileTypes',
         UNCHANGED <<row, object, loads, removing, inputs>>
  PROVE  TalkTypes' /\ RunsOK' /\ JobsOK' /\ LogOK' /\ RunsAreReachable' /\ StoriesOK'
<1>1. TalkTypes
  BY DEF TalkOK
<1>2. /\ SameRuns /\ NoneWakes /\ runs' \in [Runs -> RunRow \cup {None, Gone}]
      /\ runs'[r].status = "running" /\ \A q \in Runs \ {r} : runs'[q] = runs[q]
  <2>1. CASE runs' = runs /\ runs[r].status = "running"
    BY <1>1, <2>1, RunsAlone DEF NoneWakes, Alive, Exists, TalkTypes
  <2>2. CASE SetRun(r, "running")
    BY <2>2, OneMoves DEF Statuses
  <2>. QED  BY <2>1, <2>2
<1>3. /\ RunsOK' /\ LogOK' /\ StoriesOK' /\ RowsStay /\ ObjectsStay
      /\ log' \in [Sessions -> Seq(Message)]
  BY <1>2, MoveStep
<1>4. /\ job' \in [Workers -> {Idle} \cup Fetched \cup Task \cup Storing]
      /\ job'[w].pc = "work" /\ job'[w].run = r
      /\ job'[w].session = job[w].session /\ job'[w].object = job[w].object
      /\ \A v \in Workers \ {w} : job'[v] = job[v]
  BY <1>1, TakesJob
<1>5. JobsOK'
  <2>1. \A v \in Workers \ {w} : Busy(v) =>
           job[v].run \in Runs \ {r} /\ runs[job[v].run].status = "running"
    BY <1>1, JobFields DEF TalkOK, JobsOK
  <2>2. \A v \in Workers \ {w} : Busy(v) => runs'[job[v].run].status = "running"
    BY <1>2, <2>1
  <2>3. Exists(r)' /\ runs'[r].session = runs[r].session /\ runs'[r].on = runs[r].on
    BY <1>2 DEF SameRuns, SameRun, SameStory, Alive
  <2>4. job[w].object \in 1 .. loads'
    BY DEF TalkOK, JobsOK
  <2>5. JobOK(w)'
    BY <1>2, <1>4, <2>3, <2>4 DEF JobOK, Exists
  <2>6. Busy(w)' => \A v \in Workers \ {w} : Busy(v) => job[v].run # job'[w].run
    BY <1>4
  <2>7. loads' \in Nat /\ loads <= loads'
    BY <1>1 DEF TalkTypes
  <2>8. JobsOK
    BY DEF TalkOK
  <2>. QED  BY <1>1, <1>2, <1>4, <2>2, <2>5, <2>6, <2>7, <2>8, JobsKept
<1>6. RunsAreReachable'
  <2>1. HasRow(job[w].session)
    BY DEF TalkOK, RunsOK, Alive
  <2>2. \A v \in Workers : Works(v)' => Reaches(v)
    BY <1>4, <2>1 DEF TalkOK, RunsAreReachable, Reaches, Works
  <2>3. \A q \in Runs : Exists(q) /\ runs'[q].status = "waiting" => object[runs[q].session] = runs[q].on
    BY <1>2 DEF TalkOK, RunsAreReachable
  <2>. QED  BY <1>2, <1>3, <2>2, <2>3, ReachKept DEF TalkOK
<1>7. TalkTypes'
  BY <1>1, <1>2, <1>3, <1>4 DEF TalkTypes
<1>. QED  BY <1>3, <1>5, <1>6, <1>7

(* An answer or an approval: the waiting run is nobody's, and becomes the  *)
(* worker's.                                                               *)
LEMMA WaitingIsFree ==
  ASSUME TalkOK, NEW w \in Workers, job[w].pc = "resume", NEW r \in Runs, r \in Waiting(w)
  PROVE  /\ Exists(r) /\ Alive(r) /\ runs[r].status = "waiting"
         /\ runs[r].session = job[w].session /\ runs[r].on = job[w].object
         /\ job[w].session \in Sessions
         /\ object[job[w].session] = job[w].object
         /\ \A v \in Workers \ {w} : Busy(v) => job[v].run # r
<1>1. /\ Exists(r) /\ runs[r].status = "waiting" /\ runs[r].session = job[w].session
      /\ runs[r].on = job[w].object
  BY DEF Waiting, Live, RunsOf
<1>2. Alive(r) /\ object[job[w].session] = job[w].object
  BY <1>1 DEF Alive, TalkOK, RunsAreReachable
<1>3. \A v \in Workers \ {w} : Busy(v) => job[v].run # r
  BY <1>1 DEF TalkOK, JobsOK
<1>4. job[w].session \in Sessions
  BY JobFields DEF TalkOK
<1>. QED  BY <1>1, <1>2, <1>3, <1>4

LEMMA ResumeMoves ==
  ASSUME TalkOK, NEW w \in Workers, NEW r \in Runs, Resume(w, r)
  PROVE  TalkOK'
<1>1. /\ job[w].pc = "resume" /\ r \in Waiting(w) /\ SetRun(r, "running") /\ Takes(w, "work", r)
      /\ UNCHANGED <<row, log, object, loads, files, temps, arts, removing, crashes, faults, inputs>>
  BY DEF Resume
<1>2. TalkTypes' /\ RunsOK' /\ JobsOK' /\ LogOK' /\ RunsAreReachable' /\ StoriesOK'
  <2>1. FileTypes' /\ job[w].pc # "idle"
    BY <1>1 DEF TalkOK, TalkTypes, FileTypes
  <2>. QED  BY <1>1, <2>1, WaitingIsFree, WorkerTakes
<1>3. FilesOK'
  <2>1. /\ job'[w].pc = "work" /\ \A v \in Workers \ {w} : job'[v] = job[v]
    BY <1>1, TakesJob DEF TalkOK
  <2>. QED  BY <1>1, <2>1, FilesKept DEF TalkOK, Holds
<1>. QED  BY <1>2, <1>3 DEF TalkOK

LEMMA ClarifyMoves ==
  ASSUME TalkOK, NEW w \in Workers, NEW r \in Runs, NEW size \in Nat, Clarify(w, r, size)
  PROVE  TalkOK'
<1>1. /\ job[w].pc = "resume" /\ r \in Waiting(w) /\ SetRun(r, "running") /\ Takes(w, "work", r)
      /\ Say(job[w].session, r, "user", size, TRUE)
      /\ UNCHANGED <<row, object, loads, files, temps, arts, removing, crashes, faults, inputs>>
  BY DEF Clarify
<1>2. TalkTypes' /\ RunsOK' /\ JobsOK' /\ LogOK' /\ RunsAreReachable' /\ StoriesOK'
  <2>1. FileTypes' /\ job[w].pc # "idle"
    BY <1>1 DEF TalkOK, TalkTypes, FileTypes
  <2>2. Says(runs[r].session, r)
    BY <1>1, WaitingIsFree, SaySays DEF TalkOK
  <2>. QED  BY <1>1, <2>1, <2>2, WaitingIsFree, WorkerTakes
<1>3. FilesOK'
  <2>1. /\ job'[w].pc = "work" /\ \A v \in Workers \ {w} : job'[v] = job[v]
    BY <1>1, TakesJob DEF TalkOK
  <2>. QED  BY <1>1, <2>1, FilesKept DEF TalkOK, Holds
<1>. QED  BY <1>2, <1>3 DEF TalkOK

(* What a worker that has a run knows of it.                               *)
LEMMA RunInHand ==
  ASSUME TalkOK, NEW w \in Workers, Busy(w)
  PROVE  /\ job[w].run \in Runs /\ Exists(job[w].run) /\ Alive(job[w].run)
         /\ runs[job[w].run].status = "running"
         /\ runs[job[w].run].session = job[w].session /\ runs[job[w].run].on = job[w].object
         /\ job[w].session \in Sessions
         /\ \A v \in Workers \ {w} : Busy(v) => job[v].run # job[w].run
         /\ Works(w) => object[job[w].session] = job[w].object
<1>1. job[w].run \in Runs /\ job[w].session \in Sessions
  BY JobFields DEF TalkOK, Busy, Works
<1>. QED  BY <1>1 DEF TalkOK, JobsOK, Alive, RunsAreReachable

LEMMA BeginMoves ==
  ASSUME TalkOK, NEW w \in Workers, Begin(w)
  PROVE  TalkOK'
<1>1. Busy(w) /\ job[w].pc = "begin" /\ UNCHANGED <<row, object, loads, files, temps, arts, removing, crashes, faults, inputs>>
  BY DEF Begin, Busy
<1>2. CASE Registered(job[w].session, job[w].object)
  <2>1. /\ Takes(w, "work", job[w].run) /\ UNCHANGED <<runs, log>>
        /\ object[job[w].session] = job[w].object
    BY <1>2 DEF Begin, Registered
  <2>2. TalkTypes' /\ RunsOK' /\ JobsOK' /\ LogOK' /\ RunsAreReachable' /\ StoriesOK'
    <3>1. FileTypes' /\ job[w].pc # "idle"
      BY <1>1 DEF TalkOK, TalkTypes, FileTypes
    <3>. QED  BY <1>1, <2>1, <3>1, RunInHand, WorkerTakes
  <2>3. FilesOK'
    <3>1. /\ job'[w].pc = "work" /\ \A v \in Workers \ {w} : job'[v] = job[v]
      BY <1>1, <2>1, RunInHand, TakesJob DEF TalkOK
    <3>. QED  BY <1>1, <2>1, <3>1, FilesKept DEF TalkOK, Holds
  <2>. QED  BY <2>2, <2>3 DEF TalkOK
<1>3. CASE ~Registered(job[w].session, job[w].object)
  <2>1. Rest(w) /\ End(job[w].run, "failed", 0)
    BY <1>3 DEF Begin
  <2>2. SetRun(job[w].run, "failed") /\ Says(runs[job[w].run].session, job[w].run)
    BY <1>1, <2>1, RunInHand, EndMoves DEF TalkOK
  <2>3. TalkTypes' /\ RunsOK' /\ JobsOK' /\ LogOK' /\ RunsAreReachable' /\ StoriesOK'
    <3>1. FileTypes' /\ "failed" \in Statuses
      BY <1>1 DEF TalkOK, TalkTypes, FileTypes, Statuses
    <3>. QED  BY <1>1, <2>1, <2>2, <3>1, WorkerRests
  <2>4. FilesOK'
    <3>1. /\ job'[w].pc = "idle" /\ \A v \in Workers \ {w} : job'[v] = job[v]
      BY <2>1, RestsJob DEF TalkOK
    <3>. QED  BY <1>1, <3>1, FilesKept DEF TalkOK, Holds
  <2>. QED  BY <2>3, <2>4 DEF TalkOK
<1>. QED  BY <1>2, <1>3

LEMMA PauseMoves ==
  ASSUME TalkOK, NEW w \in Workers, Pause(w)
  PROVE  TalkOK'
<1>1. /\ Busy(w) /\ Works(w) /\ job[w].pc = "work" /\ Rest(w) /\ SetRun(job[w].run, "waiting")
      /\ UNCHANGED <<row, log, object, loads, files, temps, arts, removing, crashes, faults, inputs>>
  BY DEF Pause, Busy, Works
<1>2. TalkTypes' /\ RunsOK' /\ JobsOK' /\ LogOK' /\ RunsAreReachable' /\ StoriesOK'
  <2>1. FileTypes' /\ "waiting" \in Statuses
    BY <1>1 DEF TalkOK, TalkTypes, FileTypes, Statuses
  <2>. QED  BY <1>1, <2>1, WorkerRests
<1>3. FilesOK'
  <2>1. /\ job'[w].pc = "idle" /\ \A v \in Workers \ {w} : job'[v] = job[v]
    BY <1>1, RestsJob DEF TalkOK
  <2>. QED  BY <1>1, <2>1, FilesKept DEF TalkOK, Holds
<1>. QED  BY <1>2, <1>3 DEF TalkOK

LEMMA FinishMoves ==
  ASSUME TalkOK, NEW w \in Workers, NEW st \in {"completed", "failed", "cancelled"},
         NEW size \in Nat, Finish(w, st, size)
  PROVE  TalkOK'
<1>1. /\ Busy(w) /\ job[w].pc = "work" /\ Rest(w) /\ End(job[w].run, st, size)
      /\ UNCHANGED <<row, object, loads, files, temps, arts, removing, crashes, faults, inputs>>
  BY DEF Finish, Busy, Works
<1>2. SetRun(job[w].run, st) /\ Says(runs[job[w].run].session, job[w].run)
  BY <1>1, RunInHand, EndMoves DEF TalkOK
<1>3. TalkTypes' /\ RunsOK' /\ JobsOK' /\ LogOK' /\ RunsAreReachable' /\ StoriesOK'
  <2>1. FileTypes' /\ st \in Statuses /\ st # "waiting"
    BY <1>1 DEF TalkOK, TalkTypes, FileTypes, Statuses
  <2>. QED  BY <1>1, <1>2, <2>1, WorkerRests
<1>4. FilesOK'
  <2>1. /\ job'[w].pc = "idle" /\ \A v \in Workers \ {w} : job'[v] = job[v]
    BY <1>1, RestsJob DEF TalkOK
  <2>. QED  BY <1>1, <2>1, FilesKept DEF TalkOK, Holds
<1>. QED  BY <1>3, <1>4 DEF TalkOK

LEMMA InformMoves ==
  ASSUME TalkOK, NEW w \in Workers, Inform(w)
  PROVE  TalkOK'
<1>1. /\ Busy(w) /\ Says(runs[job[w].run].session, job[w].run)
      /\ UNCHANGED <<row, runs, object, loads, job, files, temps, arts, removing, crashes, faults, inputs>>
  <2>1. Busy(w) /\ Say(job[w].session, job[w].run, "assistant", 0, FALSE)
    BY DEF Inform, Busy, Works
  <2>. QED  BY <2>1, RunInHand, SaySays DEF TalkOK, Inform
<1>2. SameRuns /\ NoneWakes
  BY <1>1, RunsAlone DEF NoneWakes, Alive, Exists
<1>3. /\ RunsOK' /\ LogOK' /\ StoriesOK' /\ RowsStay /\ ObjectsStay
      /\ log' \in [Sessions -> Seq(Message)]
  BY <1>1, <1>2, RunInHand, MoveStep
<1>4. JobsOK'
  BY <1>1 DEF TalkOK, JobsOK, Busy, Works, Exists
<1>5. RunsAreReachable'
  BY <1>1 DEF TalkOK, RunsAreReachable, Works, HasRow, Exists
<1>6. FilesOK'
  BY <1>1, FilesKept DEF TalkOK
<1>7. TalkTypes'
  BY <1>1, <1>3 DEF TalkOK, TalkTypes, FileTypes
<1>. QED  BY <1>3, <1>4, <1>5, <1>6, <1>7 DEF TalkOK

(* What is cut off a history whose parts are recent is recent too.         *)
LEMMA TrimmedIsRecent ==
  ASSUME NEW s \in Sessions, NEW H \in SUBSET Nat, NEW room, NEW since, NEW first,
         NewestIn(log[s], since, first, H)
  PROVE  Trimmed(s, H, room) \in SUBSET Nat /\ NewestIn(log[s], since, first, Trimmed(s, H, room))
<1>. DEFINE rest(i) == {j \in H : j >= i}
            fits == {i \in Cuts(s, H) : Fits(s, Budget - room, rest(i))}
            m == Min(fits)
            T == Trimmed(s, H, room)
            public == {i \in 1 .. first - 1 : i > since /\ log[s][i].shown}
<1>1. T = IF fits = {} THEN {} ELSE rest(m)
  BY DEF Trimmed
<1>2. H \subseteq public /\ \A i \in H, j \in public : j > i => j \in H
  BY DEF NewestIn
<1>3. CASE fits = {}
  <2>1. T = {}
    BY <1>1, <1>3
  <2>. HIDE DEF T
  <2>2. T \in SUBSET Nat /\ NewestIn(log[s], since, first, T)
    BY <2>1, NothingIsRecent
  <2>. QED  BY <2>2 DEF T
<1>4. CASE fits # {}
  <2>1. m \in Cuts(s, H)
    <3>1. fits \in SUBSET Nat
      BY DEF Cuts
    <3>. HIDE DEF fits
    <3>2. m \in fits
      BY <1>4, <3>1, LeastOf
    <3>. QED  BY <3>2 DEF fits
  <2>. HIDE DEF m, fits
  <2>2. T = rest(m)
    BY <1>1, <1>4
  <2>3. m \in H /\ m \in Nat /\ (log[s][m].role = "user" \/ \A j \in H : j >= m)
    BY <2>1 DEF Cuts
  <2>. HIDE DEF T
  <2>4. T \in SUBSET H /\ m \in T /\ \A i \in T : i \in H /\ i >= m
    BY <2>2, <2>3
  <2>5. \A i \in T, j \in public : j > i => j \in T
    <3>1. ASSUME NEW i \in T, NEW j \in public, j > i PROVE j \in T
      <4>1. i \in H /\ i >= m /\ i \in Nat
        BY <2>4
      <4>2. j \in H /\ j \in Nat
        BY <1>2, <3>1, <4>1
      <4>3. j >= m
        BY <2>3, <3>1, <4>1, <4>2
      <4>. QED  BY <2>2, <4>2, <4>3
    <3>. QED  BY <3>1
  <2>6. Min(T) = m
    <3>1. T \in SUBSET Nat /\ T # {}
      BY <2>4
    <3>2. Min(T) \in T /\ \A y \in T : Min(T) <= y
      BY <3>1, LeastOf
    <3>3. Min(T) \in Nat /\ Min(T) >= m /\ Min(T) <= m
      BY <2>4, <3>1, <3>2
    <3>. QED  BY <2>3, <3>3
  <2>7. log[s][m].role = "user"
    <3>1. CASE \A j \in H : j >= m
      <4>1. Min(H) \in H /\ \A y \in H : Min(H) <= y
        BY <2>3, LeastOf
      <4>2. Min(H) = m
        <5>1. Min(H) \in Nat /\ Min(H) >= m /\ Min(H) <= m
          BY <2>3, <3>1, <4>1
        <5>. QED  BY <2>3, <5>1
      <4>. QED  BY <2>3, <4>2 DEF NewestIn
    <3>. QED  BY <2>3, <3>1
  <2>8. T \subseteq public
    BY <1>2, <2>4
  <2>9. T # {} => log[s][Min(T)].role = "user"
    BY <2>6, <2>7
  <2>10. NewestIn(log[s], since, first, T)
    BY <2>5, <2>8, <2>9, Zenon DEF NewestIn
  <2>. QED  BY <2>4, <2>10 DEF T
<1>. QED  BY <1>3, <1>4

LEMMA AgentStartsMoves ==
  ASSUME TalkOK, NEW w \in Workers, NEW room \in Nat, AgentStarts(w, room)
  PROVE  TalkOK'
<1>. DEFINE r == job[w].run
            s == job[w].session
            T == Trimmed(s, runs[r].history, room)
<1>1. /\ Busy(w) /\ inputs' = [inputs EXCEPT ![r] = @ \cup {T}]
      /\ UNCHANGED <<row, log, runs, object, loads, job, files, temps, arts, removing, crashes, faults>>
  BY DEF AgentStarts, Busy, Works
<1>2. r \in Runs /\ Exists(r) /\ s \in Sessions /\ runs[r].session = s
  BY <1>1, RunInHand
<1>3. TalkTypes /\ StoriesOK
  BY DEF TalkOK
<1>4. runs[r] \in RunRow /\ runs[r].history \in SUBSET Nat /\ runs[r].base \in Runs
  BY <1>2, <1>3, RunFields DEF RunRow
<1>5. Recent(r)
  BY <1>2, <1>3, InputParts DEF StoriesOK
<1>. HIDE DEF r, s
<1>6. T \in SUBSET Nat /\ NewestIn(log[s], runs[runs[r].base].since, runs[runs[r].base].first, T)
  BY <1>2, <1>4, <1>5, TrimmedIsRecent DEF Recent
<1>. HIDE DEF T
<1>7. /\ inputs' \in [Runs -> SUBSET SUBSET Nat] /\ inputs'[r] = inputs[r] \cup {T}
      /\ \A q \in Runs \ {r} : inputs'[q] = inputs[q]
  BY <1>1, <1>2, <1>3, <1>6 DEF TalkTypes
<1>8. InputIsRecent'
  <2>1. ASSUME NEW q \in Runs, Exists(q) PROVE Recent(q)'
    <3>1. Recent(q)
      BY <1>3, <2>1, InputParts DEF StoriesOK
    <3>2. q # r => inputs'[q] = inputs[q]
      BY <1>7
    <3>3. \A H \in inputs'[q] \cup {runs[q].history} : H \in inputs[q] \cup {runs[q].history} \/ (q = r /\ H = T)
      BY <1>7, <3>2
    <3>4. \A H \in inputs'[q] \cup {runs[q].history} :
            NewestIn(log[runs[q].session], runs[runs[q].base].since, runs[runs[q].base].first, H)
      BY <1>2, <1>6, <3>1, <3>3 DEF Recent
    <3>. QED  BY <1>1, <3>1, <3>4 DEF Recent, Exists
  <2>. QED  BY <1>1, <2>1, InputPartsNext DEF Exists
<1>9. HistoryIsWhole'
  <2>1. SameStories /\ LogGrows
    BY <1>1, RunsAlone, StoriesToo DEF LogGrows
  <2>. QED  BY <1>3, <2>1, HistoryKept DEF TalkOK, StoriesOK
<1>10. Opened' /\ Led'
  BY <1>1, <1>3 DEF StoriesOK, Opened, Led, Goal, Exists
<1>11. Unasked'
  BY <1>1, <1>2, <1>3, <1>7 DEF StoriesOK, Unasked, Exists
<1>12. StoriesOK'
  BY <1>8, <1>9, <1>10, <1>11 DEF StoriesOK
<1>13. RunsOK' /\ JobsOK' /\ LogOK' /\ RunsAreReachable'
  <2>1. RunsOK' /\ RunsAreReachable'
    BY <1>1 DEF TalkOK, RunsOK, RunsAreReachable, Alive, Works, HasRow, Exists
  <2>2. JobsOK'
    <3>1. SameRuns /\ job' = job /\ loads' \in Nat /\ loads <= loads'
      BY <1>1, <1>3, RunsAlone DEF TalkTypes
    <3>2. \A v \in Workers : Busy(v) => runs'[job[v].run].status = "running"
      BY <1>1 DEF TalkOK, JobsOK
    <3>. QED  BY <1>3, <3>1, <3>2, AllJobsKept DEF TalkOK
  <2>3. LogOK'
    <3>1. SameStories /\ NoneWakes /\ log' = log /\ row' = row
      BY <1>1, RunsAlone, StoriesToo DEF NoneWakes, Alive, Exists
    <3>. QED  BY <1>3, <3>1, LogKept DEF TalkOK
  <2>. QED  BY <2>1, <2>2, <2>3
<1>14. FilesOK'
  BY <1>1, FilesKept DEF TalkOK
<1>15. TalkTypes'
  BY <1>1, <1>3, <1>7 DEF TalkTypes, FileTypes
<1>. QED  BY <1>12, <1>13, <1>14, <1>15 DEF TalkOK

-----------------------------------------------------------------------------
(***************************************************************************)
(* The conversations: artifacts.                                           *)
(***************************************************************************)
(* A worker stays with its run. *)
LEMMA CarriesOn ==
  ASSUME TalkOK, NEW w \in Workers, Works(w), job'[w].pc \in {"work", "temp", "keep"},
         job'[w].run = job[w].run, job'[w].session = job[w].session, job'[w].object = job[w].object,
         \A v \in Workers \ {w} : job'[v] = job[v],
         UNCHANGED <<row, log, runs, object, loads, removing, inputs>>
  PROVE  RunsOK' /\ JobsOK' /\ LogOK' /\ RunsAreReachable' /\ StoriesOK'
<1>1. SameRuns /\ NoneWakes /\ Alive(job[w].run) /\ job[w].run \in Runs /\ Busy(w)
  BY RunsAlone, RunInHand DEF NoneWakes, Alive, Exists, Busy
<1>2. RunsOK' /\ LogOK' /\ StoriesOK'
  BY <1>1, MoveStep
<1>3. JobsOK'
  <2>1. JobsOK /\ JobOK(w)'
    <3>1. JobsOK /\ JobOK(w) /\ job[w].pc # "idle"
      BY JobsParts DEF TalkOK, Works
    <3>2. job'[w].object \in 1 .. loads'
      BY <3>1 DEF JobOK
    <3>3. Exists(job[w].run) /\ runs[job[w].run].status = "running"
          /\ runs[job[w].run].session = job[w].session /\ runs[job[w].run].on = job[w].object
      BY <1>1, <3>1 DEF JobOK
    <3>. QED  BY <3>1, <3>2, <3>3 DEF JobOK, Exists
  <2>2. \A v \in Workers \ {w} : Busy(v) => runs'[job[v].run].status = "running"
    BY <2>1 DEF JobsOK
  <2>3. Busy(w)' => \A v \in Workers \ {w} : Busy(v) => job[v].run # job'[w].run
    BY <1>1, RunInHand
  <2>4. loads' \in Nat /\ loads <= loads' /\ TalkTypes
    BY DEF TalkOK, TalkTypes
  <2>. QED  BY <1>1, <2>1, <2>2, <2>3, <2>4, JobsKept
<1>4. RunsAreReachable'
  BY DEF TalkOK, RunsAreReachable, Works, HasRow, Exists
<1>. QED  BY <1>2, <1>3, <1>4

(* The files that workers and a deletion are at. *)
LEMMA FilesHeld ==
  ASSUME TalkOK
  PROVE  /\ \A v \in Workers : Holds(v) =>
              /\ Works(v) /\ Busy(v) /\ job[v].file \in Files
              /\ job[v].run \in Runs /\ job[v].run # 0
         /\ removing.pc = "unlink" => removing.files \in SUBSET Files
<1>1. ASSUME NEW v \in Workers, Holds(v)
      PROVE  /\ Works(v) /\ Busy(v) /\ job[v].file \in Files
             /\ job[v].run \in Runs /\ job[v].run # 0
  <2>1. Works(v) /\ Busy(v)
    BY <1>1 DEF Holds, Works, Busy
  <2>. QED  BY <1>1, <2>1, JobFields DEF TalkOK, Runs
<1>2. removing.pc = "unlink" => removing.files \in SUBSET Files
  BY DEF TalkOK, TalkTypes, NotRemoving, Closing, Unlinking
<1>. QED  BY <1>1, <1>2

LEMMA KeepTempMoves ==
  ASSUME TalkOK, NEW w \in Workers, KeepTemp(w)
  PROVE  TalkOK'
<1>1. PICK f \in Files :
        /\ FreeFile(f) /\ temps' = [temps EXCEPT ![f] = job[w].run]
        /\ job' = [job EXCEPT ![w] = [pc |-> "temp", session |-> job[w].session,
                                      object |-> job[w].object, run |-> job[w].run, file |-> f]]
  BY DEF KeepTemp
<1>2. /\ job[w].pc = "work" /\ Works(w) /\ Busy(w) /\ ~Holds(w)
      /\ UNCHANGED <<row, log, runs, object, loads, files, arts, removing, crashes, faults, inputs>>
  BY DEF KeepTemp, Works, Busy, Holds
<1>3. TalkTypes /\ FilesOK /\ job[w].run \in Runs /\ job[w].run # 0
  BY <1>2, RunInHand DEF TalkOK, Runs
<1>. DEFINE new == [pc |-> "temp", session |-> job[w].session,
                    object |-> job[w].object, run |-> job[w].run, file |-> f]
<1>4. new \in Storing
  BY <1>2, <1>3, JobFields DEF Storing, Works
<1>5. /\ new.pc = "temp" /\ new.run = job[w].run /\ new.session = job[w].session
      /\ new.object = job[w].object /\ new.file = f /\ job' = [job EXCEPT ![w] = new]
  BY <1>1
<1>. HIDE DEF new
<1>6. /\ job' \in [Workers -> {Idle} \cup Fetched \cup Task \cup Storing]
      /\ job'[w] = new /\ \A v \in Workers \ {w} : job'[v] = job[v]
  BY <1>3, <1>4, <1>5, NewJob
<1>7. RunsOK' /\ JobsOK' /\ LogOK' /\ RunsAreReachable' /\ StoriesOK'
  BY <1>2, <1>5, <1>6, CarriesOn
<1>8. temps' \in [Files -> 0 .. MaxRuns] /\ temps'[f] = job[w].run
      /\ \A g \in Files \ {f} : temps'[g] = temps[g]
  BY <1>1, <1>3, ConversationConstants DEF TalkTypes, FileTypes, Runs
<1>9. TalkTypes'
  BY <1>2, <1>3, <1>6, <1>8 DEF TalkTypes, FileTypes
<1>10. FilesOK'
  <2>1. files[f] = 0 /\ temps[f] = 0 /\ arts[f] = 0
    BY <1>1 DEF FreeFile
  <2>2. \A v \in Workers : Holds(v) => job[v].file # f /\ job[v].file \in Files
    BY <1>3, <2>1, FilesHeld DEF FilesOK, Holds
  <2>3. removing.pc = "unlink" => f \notin removing.files /\ removing.files \in SUBSET Files
    BY <1>3, <2>1, FilesHeld DEF FilesOK
  <2>4. \A v \in Workers : v # w => Holds(v)' = Holds(v)
    BY <1>6 DEF Holds
  <2>5. FilesMatchRows'
    BY <1>2, <1>3, <1>5, <1>6, <1>8, <2>1, <2>2 DEF FilesOK, FilesMatchRows
  <2>. QED  BY <1>2, <1>3, <1>5, <1>6, <1>8, <2>1, <2>2, <2>3, <2>4, <2>5 DEF FilesOK, Holds
<1>. QED  BY <1>7, <1>9, <1>10 DEF TalkOK

LEMMA KeepFileMoves ==
  ASSUME TalkOK, NEW w \in Workers, KeepFile(w)
  PROVE  TalkOK'
<1>. DEFINE f == job[w].file
            new == [job[w] EXCEPT !.pc = "keep"]
<1>1. /\ job[w].pc = "temp" /\ job' = [job EXCEPT ![w] = new]
      /\ temps' = [temps EXCEPT ![f] = 0] /\ files' = [files EXCEPT ![f] = job[w].run]
      /\ UNCHANGED <<row, log, runs, object, loads, arts, removing, crashes, faults, inputs>>
  BY DEF KeepFile
<1>2. Works(w) /\ Busy(w) /\ Holds(w) /\ TalkTypes /\ FilesOK
  BY <1>1 DEF Works, Busy, Holds, TalkOK
<1>3. f \in Files /\ job[w].run \in Runs /\ job[w].run # 0
  BY <1>2, FilesHeld
<1>4. job[w] \in Storing
  <2>1. job[w] \in {Idle} \cup Fetched \cup Task \cup Storing
    BY <1>2 DEF TalkTypes
  <2>2. /\ \A x \in Fetched : x.pc \in {"start", "resume"}
        /\ \A x \in Task : x.pc \in {"begin", "work"}
        /\ Idle.pc = "idle"
    BY DEF Fetched, Task, Idle
  <2>. HIDE DEF new, f
  <2>. QED  BY <1>1, <2>1, <2>2
<1>5. /\ new \in Storing /\ new.pc = "keep" /\ new.run = job[w].run
      /\ new.session = job[w].session /\ new.object = job[w].object /\ new.file = f
  BY <1>4 DEF Storing
<1>. HIDE DEF new, f
<1>6. /\ job' \in [Workers -> {Idle} \cup Fetched \cup Task \cup Storing]
      /\ job'[w] = new /\ \A v \in Workers \ {w} : job'[v] = job[v]
  BY <1>1, <1>2, <1>5, NewJob
<1>7. RunsOK' /\ JobsOK' /\ LogOK' /\ RunsAreReachable' /\ StoriesOK'
  BY <1>1, <1>2, <1>5, <1>6, CarriesOn
<1>8. /\ files' \in [Files -> 0 .. MaxRuns] /\ files'[f] = job[w].run
      /\ \A g \in Files \ {f} : files'[g] = files[g]
  BY <1>1, <1>2, <1>3, ConversationConstants DEF TalkTypes, FileTypes, Runs
<1>9. /\ temps' \in [Files -> 0 .. MaxRuns] /\ temps'[f] = 0
      /\ \A g \in Files \ {f} : temps'[g] = temps[g]
  BY <1>1, <1>2, <1>3, ConversationConstants DEF TalkTypes, FileTypes, Runs
<1>10. TalkTypes'
  BY <1>1, <1>2, <1>6, <1>8, <1>9 DEF TalkTypes, FileTypes
<1>11. FilesOK'
  <2>1. files[f] = 0 /\ arts[f] = 0
    BY <1>1, <1>2 DEF FilesOK, f
  <2>2. \A v \in Workers \ {w} : Holds(v) => job[v].file # f /\ job[v].file \in Files
    BY <1>2, FilesHeld DEF FilesOK, f
  <2>3. removing.pc = "unlink" => f \notin removing.files /\ removing.files \in SUBSET Files
    BY <1>2, FilesHeld DEF FilesOK, f
  <2>4. \A v \in Workers : v # w => Holds(v)' = Holds(v)
    BY <1>6 DEF Holds
  <2>5. FilesMatchRows'
    <3>1. ASSUME NEW g \in Files PROVE arts'[g] # 0 => files'[g] = arts'[g]
      BY <1>1, <1>2, <1>8, <2>1 DEF FilesOK, FilesMatchRows
    <3>2. ASSUME NEW g \in Files, crashes' = 0 /\ faults' = 0, files'[g] # 0
          PROVE  \/ arts'[g] = files'[g]
                 \/ \E v \in Workers : job'[v].pc = "keep" /\ job'[v].file = g
                 \/ removing'.pc = "unlink" /\ g \in removing'.files
      <4>1. CASE g = f
        BY <1>5, <1>6, <4>1
      <4>2. CASE g # f
        <5>1. files[g] # 0 /\ files'[g] = files[g] /\ arts'[g] = arts[g] /\ removing' = removing
          BY <1>1, <1>8, <3>2, <4>2
        <5>2. \A v \in Workers : job[v].pc = "keep" => job'[v] = job[v]
          BY <1>1, <1>6
        <5>. QED  BY <1>1, <1>2, <3>2, <5>1, <5>2 DEF FilesOK, FilesMatchRows
      <4>. QED  BY <4>1, <4>2
    <3>3. ASSUME NEW g \in Files, crashes' = 0 /\ faults' = 0, temps'[g] # 0
          PROVE  \E v \in Workers : job'[v].pc = "temp" /\ job'[v].file = g
      <4>1. g # f /\ temps[g] # 0
        BY <1>9, <3>3
      <4>2. PICK v \in Workers : job[v].pc = "temp" /\ job[v].file = g
        BY <1>1, <1>2, <3>3, <4>1 DEF FilesOK, FilesMatchRows
      <4>. QED  BY <1>6, <4>1, <4>2 DEF f
    <3>. QED  BY <3>1, <3>2, <3>3 DEF FilesMatchRows
  <2>6. \A v \in Workers : job'[v].pc = "temp" =>
          temps'[job'[v].file] = job'[v].run /\ files'[job'[v].file] = 0 /\ arts'[job'[v].file] = 0
    BY <1>1, <1>2, <1>5, <1>6, <1>8, <1>9, <2>2 DEF FilesOK, Holds
  <2>7. \A v \in Workers : job'[v].pc = "keep" =>
          files'[job'[v].file] = job'[v].run /\ arts'[job'[v].file] = 0
    BY <1>1, <1>2, <1>5, <1>6, <1>8, <2>1, <2>2 DEF FilesOK, Holds
  <2>8. \A u, v \in Workers : u # v /\ Holds(u)' /\ Holds(v)' => job'[u].file # job'[v].file
    BY <1>2, <1>5, <1>6, <2>2, <2>4 DEF FilesOK
  <2>9. removing'.pc = "unlink" => \A g \in removing'.files :
          arts'[g] = 0 /\ files'[g] # 0 /\ \A v \in Workers : Holds(v)' => job'[v].file # g
    BY <1>1, <1>2, <1>5, <1>6, <1>8, <2>3, <2>4 DEF FilesOK
  <2>. QED  BY <2>5, <2>6, <2>7, <2>8, <2>9 DEF FilesOK, Holds
<1>. QED  BY <1>7, <1>10, <1>11 DEF TalkOK

LEMMA KeepRowMoves ==
  ASSUME TalkOK, NEW w \in Workers, KeepRow(w)
  PROVE  TalkOK'
<1>. DEFINE f == job[w].file
<1>1. /\ job[w].pc = "keep" /\ Takes(w, "work", job[w].run)
      /\ arts' = [arts EXCEPT ![f] = job[w].run]
      /\ UNCHANGED <<row, log, runs, object, loads, files, temps, removing, crashes, faults, inputs>>
  BY DEF KeepRow
<1>2. Works(w) /\ Busy(w) /\ Holds(w) /\ TalkTypes /\ FilesOK
  BY <1>1 DEF Works, Busy, Holds, TalkOK
<1>3. f \in Files /\ job[w].run \in Runs /\ job[w].run # 0
  BY <1>2, FilesHeld
<1>4. /\ job' \in [Workers -> {Idle} \cup Fetched \cup Task \cup Storing]
      /\ job'[w].pc = "work" /\ job'[w].run = job[w].run
      /\ job'[w].session = job[w].session /\ job'[w].object = job[w].object
      /\ \A v \in Workers \ {w} : job'[v] = job[v]
  BY <1>1, <1>2, <1>3, TakesJob
<1>5. RunsOK' /\ JobsOK' /\ LogOK' /\ RunsAreReachable' /\ StoriesOK'
  BY <1>1, <1>2, <1>4, CarriesOn
<1>6. arts' \in [Files -> 0 .. MaxRuns] /\ arts'[f] = job[w].run
      /\ \A g \in Files \ {f} : arts'[g] = arts[g]
  BY <1>1, <1>2, <1>3, ConversationConstants DEF TalkTypes, FileTypes, Runs
<1>7. TalkTypes'
  BY <1>1, <1>2, <1>4, <1>6 DEF TalkTypes, FileTypes
<1>8. FilesOK'
  <2>1. files[f] = job[w].run
    BY <1>1, <1>2 DEF FilesOK
  <2>2. \A v \in Workers \ {w} : Holds(v) => job[v].file # f /\ job[v].file \in Files
    BY <1>2, FilesHeld DEF FilesOK
  <2>3. removing.pc = "unlink" => f \notin removing.files /\ removing.files \in SUBSET Files
    BY <1>2, FilesHeld DEF FilesOK
  <2>4. ~Holds(w)' /\ \A v \in Workers : v # w => Holds(v)' = Holds(v)
    BY <1>4 DEF Holds
  <2>5. FilesMatchRows'
    BY <1>1, <1>2, <1>4, <1>6, <2>1 DEF FilesOK, FilesMatchRows
  <2>. QED  BY <1>1, <1>2, <1>4, <1>6, <2>2, <2>3, <2>4, <2>5 DEF FilesOK, Holds
<1>. QED  BY <1>5, <1>7, <1>8 DEF TalkOK

(* The run fails, or waits for a decision. *)
LEMMA AbandonMoves ==
  ASSUME TalkOK, NEW w \in Workers, Works(w), Abandon(w), FileTypes',
         UNCHANGED <<row, object, loads, removing, inputs>>
  PROVE  /\ TalkTypes' /\ RunsOK' /\ JobsOK' /\ LogOK' /\ RunsAreReachable' /\ StoriesOK'
         /\ job'[w].pc = "idle" /\ \A v \in Workers \ {w} : job'[v] = job[v]
<1>1. /\ Rest(w) /\ Busy(w) /\ TalkTypes
      /\ \/ End(job[w].run, "failed", 0)
         \/ SetRun(job[w].run, "waiting") /\ log' = log
  BY DEF Abandon, Busy, TalkOK
<1>2. PICK st \in {"failed", "waiting"} :
        /\ SetRun(job[w].run, st)
        /\ log' = log \/ Says(runs[job[w].run].session, job[w].run)
  BY <1>1, RunInHand, EndMoves
<1>3. st \in Statuses
  BY DEF Statuses
<1>4. TalkTypes' /\ RunsOK' /\ JobsOK' /\ LogOK' /\ RunsAreReachable' /\ StoriesOK'
  BY <1>1, <1>2, <1>3, WorkerRests
<1>. QED  BY <1>1, <1>4, RestsJob

LEMMA TempFailsMoves ==
  ASSUME TalkOK, NEW w \in Workers, TempFails(w)
  PROVE  TalkOK'
<1>1. /\ Works(w) /\ Abandon(w) /\ faults' = faults + 1
      /\ UNCHANGED <<row, object, loads, files, temps, arts, removing, crashes, inputs>>
  BY DEF TempFails, Faulty, Works
<1>2. FileTypes' /\ FilesOK /\ faults \in Nat
  BY <1>1 DEF TalkOK, TalkTypes, FileTypes
<1>3. /\ TalkTypes' /\ RunsOK' /\ JobsOK' /\ LogOK' /\ RunsAreReachable' /\ StoriesOK'
      /\ job'[w].pc = "idle" /\ \A v \in Workers \ {w} : job'[v] = job[v]
  BY <1>1, <1>2, AbandonMoves
<1>4. FilesOK'
  <2>1. faults' # 0
    BY <1>1, <1>2
  <2>2. FilesMatchRows'
    BY <1>1, <1>2, <2>1 DEF FilesOK, FilesMatchRows
  <2>. QED  BY <1>1, <1>2, <1>3, <2>2 DEF FilesOK, Holds
<1>. QED  BY <1>3, <1>4 DEF TalkOK

LEMMA KeepFailsMoves ==
  ASSUME TalkOK, NEW w \in Workers, KeepFails(w)
  PROVE  TalkOK'
<1>. DEFINE f == job[w].file
<1>1. /\ job[w].pc = "keep" /\ Abandon(w)
      /\ \/ files' = [files EXCEPT ![f] = 0] /\ faults' = faults
         \/ files' = files /\ faults' = faults + 1
      /\ UNCHANGED <<row, object, loads, temps, arts, removing, crashes, inputs>>
  BY DEF KeepFails, Discarded, Faulty
<1>2. Works(w) /\ Holds(w) /\ TalkTypes /\ FilesOK /\ faults \in Nat
  BY <1>1 DEF Works, Holds, TalkOK, TalkTypes, FileTypes
<1>3. f \in Files
  BY <1>2, FilesHeld
<1>. HIDE DEF f
<1>4. /\ files' \in [Files -> 0 .. MaxRuns] /\ \A g \in Files \ {f} : files'[g] = files[g]
      /\ faults' # 0 \/ (files'[f] = 0 /\ faults' = faults)
  <2>1. files \in [Files -> 0 .. MaxRuns] /\ 0 \in 0 .. MaxRuns
    BY <1>2, ConversationConstants DEF TalkTypes, FileTypes
  <2>2. CASE files' = [files EXCEPT ![f] = 0] /\ faults' = faults
    BY <1>3, <2>1, <2>2
  <2>3. CASE files' = files /\ faults' = faults + 1
    BY <1>2, <2>1, <2>3
  <2>. QED  BY <1>1, <2>2, <2>3
<1>. USE DEF f
<1>5. FileTypes'
  BY <1>1, <1>2, <1>4 DEF TalkTypes, FileTypes
<1>6. /\ TalkTypes' /\ RunsOK' /\ JobsOK' /\ LogOK' /\ RunsAreReachable' /\ StoriesOK'
      /\ job'[w].pc = "idle" /\ \A v \in Workers \ {w} : job'[v] = job[v]
  BY <1>1, <1>2, <1>5, AbandonMoves
<1>7. FilesOK'
  <2>1. arts[f] = 0
    BY <1>1, <1>2 DEF FilesOK
  <2>2. \A v \in Workers \ {w} : Holds(v) => job[v].file # f /\ job[v].file \in Files
    BY <1>2, FilesHeld DEF FilesOK
  <2>3. removing.pc = "unlink" => f \notin removing.files /\ removing.files \in SUBSET Files
    BY <1>2, FilesHeld DEF FilesOK
  <2>4. ~Holds(w)' /\ \A v \in Workers : v # w => Holds(v)' = Holds(v)
    BY <1>6 DEF Holds
  <2>5. FilesMatchRows'
    <3>1. ASSUME NEW g \in Files PROVE arts'[g] # 0 => files'[g] = arts'[g]
      BY <1>1, <1>2, <1>4, <2>1 DEF FilesOK, FilesMatchRows
    <3>2. ASSUME NEW g \in Files, crashes' = 0 /\ faults' = 0, files'[g] # 0
          PROVE  \/ arts'[g] = files'[g]
                 \/ \E v \in Workers : job'[v].pc = "keep" /\ job'[v].file = g
                 \/ removing'.pc = "unlink" /\ g \in removing'.files
      <4>1. g # f /\ files'[g] = files[g] /\ faults = 0 /\ crashes = 0
        BY <1>1, <1>4, <3>2
      <4>. QED  BY <1>1, <1>2, <1>6, <3>2, <4>1 DEF FilesOK, FilesMatchRows
    <3>3. ASSUME NEW g \in Files, crashes' = 0 /\ faults' = 0, temps'[g] # 0
          PROVE  \E v \in Workers : job'[v].pc = "temp" /\ job'[v].file = g
      BY <1>1, <1>2, <1>4, <1>6, <3>3 DEF FilesOK, FilesMatchRows
    <3>. QED  BY <3>1, <3>2, <3>3 DEF FilesMatchRows
  <2>. QED  BY <1>1, <1>2, <1>4, <1>6, <2>2, <2>3, <2>4, <2>5 DEF FilesOK, Holds
<1>. QED  BY <1>6, <1>7 DEF TalkOK

-----------------------------------------------------------------------------
(***************************************************************************)
(* The conversations: requests that touch neither runs nor messages.       *)
(***************************************************************************)
LEMMA QuietStep ==
  ASSUME TalkOK, runs' = runs, log' = log, RowsStay, ObjectsStay, loads' \in Nat, loads <= loads',
         \A s \in Sessions : object'[s] \in 0 .. loads',
         \A w \in Workers : Works(w)' => job'[w] = job[w], inputs' = inputs
  PROVE  RunsOK' /\ RunsAreReachable' /\ StoriesOK' /\ SameRuns /\ NoneWakes
<1>1. SameRuns /\ NoneWakes /\ Speaks /\ TalkTypes
  BY RunsAlone DEF NoneWakes, Speaks, Alive, Exists, TalkOK
<1>2. RunsOK'
  BY <1>1, RunsKept DEF TalkOK
<1>3. StoriesOK'
  BY <1>1, StoriesKept, StoriesToo DEF TalkOK
<1>4. \A w \in Workers : Works(w)' => Reaches(w)
  BY DEF TalkOK, RunsAreReachable, Reaches, Works
<1>5. RunsAreReachable'
  BY <1>1, <1>4, ReachKept DEF TalkOK, RunsAreReachable
<1>. QED  BY <1>1, <1>2, <1>3, <1>5

(* A session's row is made, gets another workflow, or another boundary.    *)
LEMMA RowMoves ==
  ASSUME TalkOK, NEW s \in Sessions, NEW new \in SessionRow, row' = [row EXCEPT ![s] = new],
         UNCHANGED <<log, runs>>,
         \/ row[s] = None /\ new.boundary = 0
         \/ HasRow(s) /\ new.boundary = row[s].boundary
         \/ HasRow(s) /\ Live(s) = {} /\ new.boundary = Len(log[s])
  PROVE  row' \in [Sessions -> SessionRow \cup {None, Gone}] /\ RowsStay /\ LogOK'
<1>1. /\ row' \in [Sessions -> SessionRow \cup {None, Gone}] /\ row'[s] = new
      /\ \A t \in Sessions \ {s} : row'[t] = row[t]
  BY DEF TalkOK, TalkTypes
<1>2. RowsStay /\ row'[s] \notin {None, Gone} /\ TalkTypes /\ LogOK
  BY <1>1, RowsDiffer DEF RowsStay, HasRow, TalkOK
<1>3. Len(log[s]) \in Nat /\ DOMAIN log[s] = 1 .. Len(log[s]) /\ new.boundary \in Nat
      /\ \A i \in DOMAIN log[s] : log[s][i].run \in Nat
  BY <1>2, Messages DEF SessionRow, Runs
<1>4. row[s] = None => DOMAIN log[s] = {}
  BY <1>2, <1>3 DEF LogOK
<1>5. /\ new.boundary <= Len(log[s])
      /\ \A i, j \in DOMAIN log[s] :
           i <= new.boundary /\ new.boundary < j => log[s][i].run < log[s][j].run
  BY <1>2, <1>3, <1>4 DEF LogOK
<1>6. \A r \in Runs : Alive(r) /\ runs[r].session = s => HasRow(s) /\ new.boundary = row[s].boundary
  <2>1. \A r \in Runs : Alive(r) /\ runs[r].session = s => HasRow(s) /\ r \in Live(s)
    BY DEF TalkOK, RunsOK, Alive, Live, RunsOf
  <2>. QED  BY <2>1 DEF HasRow
<1>7. \A r \in Runs : Alive(r) => runs[r].session \in Sessions
  BY <1>2, RunFields DEF Alive, RunRow
<1>8. \A t \in Sessions : row'[t] \in {None, Gone} => log[t] = <<>>
  BY <1>1, <1>2 DEF LogOK
<1>9. \A t \in Sessions : row'[t] \notin {None, Gone} =>
        /\ row'[t].boundary <= Len(log[t])
        /\ \A i, j \in DOMAIN log[t] :
             i <= row'[t].boundary /\ row'[t].boundary < j => log[t][i].run < log[t][j].run
  BY <1>1, <1>2, <1>5 DEF LogOK, HasRow
<1>10. \A r \in Runs : Alive(r) => \A i \in DOMAIN log[runs[r].session] :
         /\ log[runs[r].session][i].run <= r
         /\ i <= row'[runs[r].session].boundary => log[runs[r].session][i].run < r
  BY <1>1, <1>2, <1>6, <1>7 DEF LogOK
<1>11. LogOK'
  BY <1>2, <1>8, <1>9, <1>10 DEF LogOK, HasRow, Alive, Exists
<1>. QED  BY <1>1, <1>2, <1>11

LEMMA RowRequest ==
  ASSUME TalkOK, NEW s \in Sessions, NEW new \in SessionRow, row' = [row EXCEPT ![s] = new],
         UNCHANGED <<log, runs, job, files, temps, arts, removing, crashes, faults, inputs>>,
         \/ row[s] = None /\ new.boundary = 0
         \/ HasRow(s) /\ new.boundary = row[s].boundary
         \/ HasRow(s) /\ Live(s) = {} /\ new.boundary = Len(log[s]),
         \/ UNCHANGED <<object, loads>>
         \/ row[s] = None /\ loads' = loads + 1 /\ object' = [object EXCEPT ![s] = loads + 1]
  PROVE  TalkOK'
<1>1. row' \in [Sessions -> SessionRow \cup {None, Gone}] /\ RowsStay /\ LogOK'
  BY RowMoves
<1>2. /\ ObjectsStay /\ loads' \in Nat /\ loads <= loads' /\ object' \in [Sessions -> Nat]
      /\ \A t \in Sessions : object'[t] \in 0 .. loads'
  <2>1. /\ object \in [Sessions -> Nat] /\ loads \in Nat
        /\ \A t \in Sessions : object[t] \in 0 .. loads
    BY DEF TalkOK, TalkTypes, RunsOK
  <2>2. CASE UNCHANGED <<object, loads>>
    BY <2>1, <2>2 DEF ObjectsStay
  <2>3. CASE row[s] = None /\ loads' = loads + 1 /\ object' = [object EXCEPT ![s] = loads + 1]
    BY <2>1, <2>3 DEF ObjectsStay, HasRow
  <2>. QED  BY <2>2, <2>3
<1>3. RunsOK' /\ RunsAreReachable' /\ StoriesOK' /\ SameRuns /\ NoneWakes
  BY <1>1, <1>2, QuietStep
<1>4. JobsOK'
  <2>1. \A v \in Workers : Busy(v) => runs'[job[v].run].status = "running"
    BY DEF TalkOK, JobsOK
  <2>. QED  BY <1>2, <1>3, <2>1, AllJobsKept DEF TalkOK
<1>5. FilesOK'
  BY FilesKept DEF TalkOK
<1>6. TalkTypes'
  BY <1>1, <1>2 DEF TalkOK, TalkTypes, FileTypes
<1>. QED  BY <1>1, <1>3, <1>4, <1>5, <1>6 DEF TalkOK

LEMMA CreateSessionMoves ==
  ASSUME TalkOK, NEW s \in Sessions, NEW f \in Flows, CreateSession(s, f)
  PROVE  TalkOK'
<1>. DEFINE new == [flow |-> f, boundary |-> 0]
<1>1. new \in SessionRow /\ new.boundary = 0 /\ row' = [row EXCEPT ![s] = new]
  BY DEF SessionRow, CreateSession
<1>. HIDE DEF new
<1>. QED  BY <1>1, RowRequest DEF CreateSession

LEMMA UpdateSessionMoves ==
  ASSUME TalkOK, NEW s \in Sessions, NEW f \in Flows, UpdateSession(s, f)
  PROVE  TalkOK'
<1>. DEFINE new == [row[s] EXCEPT !.flow = f]
<1>1. HasRow(s) /\ row[s] \in SessionRow
  BY DEF UpdateSession, IdleSession, HasRow, TalkOK, TalkTypes
<1>2. new \in SessionRow /\ new.boundary = row[s].boundary /\ row' = [row EXCEPT ![s] = new]
  BY <1>1 DEF SessionRow, UpdateSession
<1>. HIDE DEF new
<1>. QED  BY <1>1, <1>2, RowRequest DEF UpdateSession

LEMMA ClearContextMoves ==
  ASSUME TalkOK, NEW s \in Sessions, ClearContext(s)
  PROVE  TalkOK'
<1>. DEFINE new == [row[s] EXCEPT !.boundary = Len(log[s])]
<1>1. HasRow(s) /\ row[s] \in SessionRow /\ Live(s) = {}
  BY DEF ClearContext, MayClear, IdleSession, HasRow, TalkOK, TalkTypes
<1>2. Len(log[s]) \in Nat
  BY Messages DEF TalkOK
<1>3. new \in SessionRow /\ new.boundary = Len(log[s]) /\ row' = [row EXCEPT ![s] = new]
  BY <1>1, <1>2 DEF SessionRow, ClearContext
<1>. HIDE DEF new
<1>. QED  BY <1>1, <1>3, RowRequest DEF ClearContext

(* The deletion asks, is refused, or takes the files away at the end.      *)
LEMMA DeleteStartMoves ==
  ASSUME TalkOK, NEW s \in Sessions, DeleteStart(s), removing = NotRemoving
  PROVE  TalkOK'
<1>1. /\ removing' = [pc |-> "close", session |-> s]
      /\ UNCHANGED <<row, log, runs, object, loads, job, files, temps, arts, crashes, faults, inputs>>
  BY DEF DeleteStart
<1>2. TalkTypes' /\ removing'.pc = "close" /\ removing.pc = "none"
  BY <1>1 DEF TalkOK, TalkTypes, FileTypes, Closing, NotRemoving
<1>3. FilesOK'
  BY <1>1, <1>2, FilesKept DEF TalkOK
<1>4. RunsOK' /\ JobsOK' /\ LogOK' /\ RunsAreReachable'
  BY <1>1 DEF TalkOK, RunsOK, JobsOK, LogOK, RunsAreReachable, Alive, Busy, Works, HasRow, Exists
<1>5. StoriesOK'
  BY <1>1, RunsAlone, StoriesKept, StoriesToo DEF TalkOK, Speaks
<1>. QED  BY <1>2, <1>3, <1>4, <1>5 DEF TalkOK

LEMMA DeleteRefusedMoves ==
  ASSUME TalkOK, DeleteRefused
  PROVE  TalkOK'
<1>1. /\ removing' = NotRemoving /\ removing.pc \in {"close", "commit"}
      /\ UNCHANGED <<row, log, runs, object, loads, job, files, temps, arts, crashes, faults, inputs>>
  BY DEF DeleteRefused
<1>2. TalkTypes' /\ removing'.pc = "none"
  BY <1>1 DEF TalkOK, TalkTypes, FileTypes, NotRemoving
<1>3. FilesOK'
  BY <1>1, <1>2, FilesKept DEF TalkOK
<1>4. RunsOK' /\ JobsOK' /\ LogOK' /\ RunsAreReachable'
  BY <1>1 DEF TalkOK, RunsOK, JobsOK, LogOK, RunsAreReachable, Alive, Busy, Works, HasRow, Exists
<1>5. StoriesOK'
  BY <1>1, RunsAlone, StoriesKept, StoriesToo DEF TalkOK, Speaks
<1>. QED  BY <1>2, <1>3, <1>4, <1>5 DEF TalkOK

LEMMA UnlinkMoves ==
  ASSUME TalkOK, NEW f \in Files, Unlink(f)
  PROVE  TalkOK'
<1>1. /\ removing' = [removing EXCEPT !.files = @ \ {f}]
      /\ removing.pc = "unlink" /\ f \in removing.files /\ files' = [files EXCEPT ![f] = 0]
      /\ UNCHANGED <<row, log, runs, object, loads, job, temps, arts, crashes, faults, inputs>>
  BY DEF Unlink
<1>2. removing \in Unlinking
  BY <1>1 DEF TalkOK, TalkTypes, NotRemoving, Closing
<1>3. removing' \in Unlinking /\ removing'.pc = "unlink" /\ removing'.files = removing.files \ {f}
  BY <1>1, <1>2 DEF Unlinking
<1>4. /\ files' \in [Files -> 0 .. MaxRuns] /\ files'[f] = 0
      /\ \A g \in Files \ {f} : files'[g] = files[g]
  BY <1>1, ConversationConstants DEF TalkOK, TalkTypes, FileTypes
<1>5. TalkTypes'
  BY <1>1, <1>3, <1>4 DEF TalkOK, TalkTypes, FileTypes
<1>6. FilesOK'
  <2>1. FilesOK /\ arts[f] = 0 /\ \A v \in Workers : Holds(v) => job[v].file # f /\ job[v].file \in Files
    BY <1>1, FilesHeld DEF TalkOK, FilesOK
  <2>2. FilesMatchRows'
    BY <1>1, <1>3, <1>4, <2>1 DEF FilesOK, FilesMatchRows
  <2>3. removing.files \in SUBSET Files
    BY <1>2 DEF Unlinking
  <2>. QED  BY <1>1, <1>3, <1>4, <2>1, <2>2, <2>3 DEF FilesOK, Holds
<1>7. RunsOK' /\ JobsOK' /\ LogOK' /\ RunsAreReachable'
  BY <1>1 DEF TalkOK, RunsOK, JobsOK, LogOK, RunsAreReachable, Alive, Busy, Works, HasRow, Exists
<1>8. StoriesOK'
  BY <1>1, RunsAlone, StoriesKept, StoriesToo DEF TalkOK, Speaks
<1>. QED  BY <1>5, <1>6, <1>7, <1>8 DEF TalkOK

LEMMA UnlinkEnds ==
  ASSUME TalkOK, UnlinkFails \/ Unlinked
  PROVE  TalkOK'
<1>1. /\ removing' = NotRemoving /\ removing.pc = "unlink" /\ removing'.pc = "none"
      /\ UNCHANGED <<row, log, runs, object, loads, job, files, temps, arts, crashes, inputs>>
  BY DEF UnlinkFails, Unlinked, NotRemoving
<1>2. faults \in Nat /\ (faults' = faults + 1 \/ (faults' = faults /\ removing.files = {}))
  BY DEF UnlinkFails, Unlinked, Faulty, TalkOK, TalkTypes, FileTypes
<1>3. TalkTypes'
  <2>1. faults' \in Nat
    BY <1>2
  <2>. QED  BY <1>1, <2>1 DEF TalkOK, TalkTypes, FileTypes
<1>4. FilesOK'
  <2>1. FilesMatchRows /\ FilesOK
    BY DEF TalkOK, FilesOK
  <2>2. FilesMatchRows'
    <3>1. CASE faults' = faults + 1
      <4>1. faults' # 0
        BY <1>2, <3>1
      <4>. QED  BY <1>1, <2>1, <4>1 DEF FilesMatchRows
    <3>2. CASE faults' = faults /\ removing.files = {}
      BY <1>1, <2>1, <3>2 DEF FilesMatchRows
    <3>. QED  BY <1>2, <3>1, <3>2
  <2>. QED  BY <1>1, <2>1, <2>2 DEF FilesOK, Holds
<1>5. RunsOK' /\ JobsOK' /\ LogOK' /\ RunsAreReachable'
  BY <1>1 DEF TalkOK, RunsOK, JobsOK, LogOK, RunsAreReachable, Alive, Busy, Works, HasRow, Exists
<1>6. StoriesOK'
  BY <1>1, RunsAlone, StoriesKept, StoriesToo DEF TalkOK, Speaks
<1>. QED  BY <1>3, <1>4, <1>5, <1>6 DEF TalkOK

-----------------------------------------------------------------------------
(***************************************************************************)
(* The conversations: fetching, closing and deleting.                      *)
(***************************************************************************)
(* A worker that has no run yet gets another request, or none.             *)
LEMMA IdleWorker ==
  ASSUME TalkOK, NEW w \in Workers, NEW new \in {Idle} \cup Fetched,
         job' = [job EXCEPT ![w] = new], new.pc # "idle" => new.object \in 1 .. loads',
         ~Holds(w), loads' \in Nat, loads <= loads',
         \A s \in Sessions : object'[s] \in 0 .. loads', object' \in [Sessions -> Nat], ObjectsStay,
         UNCHANGED <<row, log, runs, files, temps, arts, removing, crashes, faults, inputs>>
  PROVE  TalkOK'
<1>1. new.pc \in {"idle", "start", "resume"} /\ TalkTypes /\ JobsOK
  BY DEF Idle, Fetched, TalkOK
<1>2. /\ job' \in [Workers -> {Idle} \cup Fetched \cup Task \cup Storing]
      /\ job'[w] = new /\ \A v \in Workers \ {w} : job'[v] = job[v]
  BY <1>1, NewJob
<1>3. RowsStay /\ \A v \in Workers : Works(v)' => job'[v] = job[v]
  BY <1>1, <1>2 DEF RowsStay, Works, HasRow
<1>4. RunsOK' /\ RunsAreReachable' /\ StoriesOK' /\ SameRuns /\ NoneWakes
  BY <1>3, QuietStep
<1>5. LogOK'
  BY <1>1, <1>4, LogKept, StoriesToo DEF TalkOK
<1>6. JobsOK'
  <2>1. \A v \in Workers \ {w} : Busy(v) => runs'[job[v].run].status = "running"
    BY <1>1 DEF JobsOK
  <2>2. JobOK(w)' /\ ~Busy(w)'
    BY <1>1, <1>2 DEF JobOK, Busy, Works
  <2>3. Busy(w)' => \A v \in Workers \ {w} : Busy(v) => job[v].run # job'[w].run
    BY <2>2
  <2>. QED  BY <1>1, <1>2, <1>4, <2>1, <2>2, <2>3, JobsKept
<1>7. FilesOK'
  BY <1>1, <1>2, FilesKept DEF TalkOK, Holds
<1>8. TalkTypes'
  BY <1>1, <1>2 DEF TalkTypes, FileTypes
<1>. QED  BY <1>4, <1>5, <1>6, <1>7, <1>8 DEF TalkOK

LEMMA FetchMoves ==
  ASSUME TalkOK, NEW w \in Workers, NEW s \in Sessions, NEW what \in {"start", "resume"},
         Fetch(w, s, what)
  PROVE  TalkOK'
<1>1. /\ object \in [Sessions -> Nat] /\ loads \in Nat /\ \A t \in Sessions : object[t] \in 0 .. loads
      /\ job[w].pc = "idle"
  BY DEF TalkOK, TalkTypes, RunsOK, Fetch, Idle
<1>2. /\ object' \in [Sessions -> Nat] /\ loads' \in Nat /\ loads <= loads' /\ ObjectsStay
      /\ \A t \in Sessions : object'[t] \in 0 .. loads'
      /\ object'[s] \in 1 .. loads'
  <2>1. CASE object[s] # 0 /\ UNCHANGED <<object, loads>>
    BY <1>1, <2>1 DEF ObjectsStay
  <2>2. CASE object[s] = 0 /\ loads' = loads + 1 /\ object' = [object EXCEPT ![s] = loads']
    BY <1>1, <2>2 DEF ObjectsStay
  <2>. QED  BY <2>1, <2>2 DEF Fetch
<1>. DEFINE new == [pc |-> what, session |-> s, object |-> object'[s]]
<1>3. new \in Fetched /\ new.object = object'[s]
  BY <1>2 DEF Fetched
<1>4. job' = [job EXCEPT ![w] = new] /\ UNCHANGED <<row, log, runs, files, temps, arts, removing, crashes, faults, inputs>>
  BY DEF Fetch
<1>. HIDE DEF new
<1>. QED  BY <1>1, <1>2, <1>3, <1>4, IdleWorker DEF Holds

LEMMA RefusedMoves ==
  ASSUME TalkOK, NEW w \in Workers, Refused(w)
  PROVE  TalkOK'
<1>1. /\ job' = [job EXCEPT ![w] = Idle] /\ job[w].pc \in {"start", "resume"}
      /\ UNCHANGED <<row, log, runs, object, loads, files, temps, arts, removing, crashes, faults, inputs>>
  BY DEF Refused, Rest
<1>2. /\ loads' \in Nat /\ loads <= loads' /\ \A s \in Sessions : object'[s] \in 0 .. loads'
      /\ object' \in [Sessions -> Nat] /\ ObjectsStay
  BY <1>1 DEF TalkOK, TalkTypes, RunsOK, ObjectsStay
<1>3. Idle.pc = "idle"
  BY DEF Idle
<1>. QED  BY <1>1, <1>2, <1>3, IdleWorker DEF Holds

(* The object of a session is closed: no worker executes on it, and what   *)
(* waits on it, one run at most, is interrupted.                           *)
LEMMA CloseObjectMoves ==
  ASSUME TalkOK, NEW s \in Sessions, CloseObject(s),
         removing' \in {NotRemoving} \cup Closing,
         removing.pc # "unlink"
  PROVE  TalkOK'
<1>. DEFINE held == {r \in Live(s) : runs[r].on = object[s]}
<1>1. /\ HasRow(s) /\ LockFree(object[s]) /\ object' = [object EXCEPT ![s] = 0]
      /\ runs' = [r \in Runs |-> IF r \in held THEN [runs[r] EXCEPT !.status = "interrupted"] ELSE runs[r]]
      /\ log' = IF held = {} THEN log
                ELSE [log EXCEPT ![s] = Append(@, [run |-> Max(held), role |-> "assistant",
                                                     size |-> 0, shown |-> FALSE])]
      /\ UNCHANGED <<row, loads, job, files, temps, arts, crashes, faults, inputs>>
  BY DEF CloseObject
<1>2. TalkTypes /\ RunsOK /\ JobsOK /\ LogOK /\ StoriesOK /\ FilesOK /\ RunsAreReachable
  BY DEF TalkOK
<1>3. \A r \in held : /\ r \in Runs /\ Alive(r) /\ Exists(r) /\ runs[r].session = s
                      /\ runs[r].on = object[s]
  BY DEF Live, RunsOf, Alive
<1>4. \A r \in Runs : Alive(r) /\ runs[r].session = s /\ runs[r].on = object[s] => r \in held
  BY DEF Live, RunsOf, Alive
<1>5. \A r \in Runs : runs'[r] = IF r \in held THEN [runs[r] EXCEPT !.status = "interrupted"] ELSE runs[r]
  BY <1>1
<1>6. \A r \in held : /\ runs'[r] \in RunRow /\ runs'[r].status = "interrupted"
                      /\ runs'[r].session = runs[r].session /\ runs'[r].history = runs[r].history
                      /\ runs'[r].size = runs[r].size /\ runs'[r].since = runs[r].since
                      /\ runs'[r].first = runs[r].first /\ runs'[r].on = runs[r].on
                      /\ runs'[r].base = runs[r].base
  <2>1. \A r \in held : runs[r] \in RunRow
    BY <1>2, <1>3, RunFields
  <2>. HIDE DEF held
  <2>2. ASSUME NEW r \in held, NEW x \in RunRow, runs[r] = x
        PROVE  /\ runs'[r] \in RunRow /\ runs'[r].status = "interrupted"
               /\ runs'[r].session = x.session /\ runs'[r].history = x.history
               /\ runs'[r].size = x.size /\ runs'[r].since = x.since
               /\ runs'[r].first = x.first /\ runs'[r].on = x.on /\ runs'[r].base = x.base
    <3>. DEFINE y == [x EXCEPT !.status = "interrupted"]
    <3>1. runs'[r] = y
      BY <1>3, <1>5, <2>2
    <3>2. /\ y \in RunRow /\ y.status = "interrupted" /\ y.session = x.session
          /\ y.history = x.history /\ y.size = x.size /\ y.since = x.since /\ y.first = x.first
          /\ y.on = x.on /\ y.base = x.base
      BY DEF RunRow, Statuses
    <3>. HIDE DEF y
    <3>. QED  BY <3>1, <3>2
  <2>. QED  BY <2>1, <2>2
<1>. HIDE DEF held
<1>7. SameRuns
  <2>1. \A r \in Runs \ held : SameRun(r)
    BY <1>5 DEF SameRun, SameStory, Exists
  <2>2. \A r \in held : SameRun(r)
    BY <1>3, <1>6, RowsDiffer DEF SameRun, SameStory, Exists
  <2>. QED  BY <2>1, <2>2 DEF SameRuns
<1>8. NoneWakes /\ RowsStay
  <2>1. \A r \in held : ~Alive(r)'
    BY <1>6 DEF Alive
  <2>2. \A r \in Runs \ held : Alive(r)' = Alive(r)
    BY <1>5 DEF Alive, Exists
  <2>. QED  BY <1>1, <2>1, <2>2 DEF NoneWakes, RowsStay, HasRow
<1>9. LogOK' /\ Speaks /\ log' \in [Sessions -> Seq(Message)]
  <2>1. CASE held = {}
    <3>1. log' = log
      BY <1>1, <2>1
    <3>. QED  BY <1>1, <1>2, <1>7, <1>8, <3>1, LogKept, StoriesToo DEF Speaks, TalkTypes
  <2>2. CASE held # {}
    <3>1. PICK r \in held : TRUE
      BY <2>2
    <3>2. held = {r}
      BY <1>2, <1>3, <3>1 DEF RunsOK
    <3>3. Max(held) = r
      BY <1>3, <3>1, <3>2 DEF Max, Runs
    <3>4. Say(s, r, "assistant", 0, FALSE)
      BY <1>1, <2>2, <3>3 DEF Say
    <3>5. r \in Runs /\ Alive(r) /\ runs[r].session = s
      BY <1>3, <3>1
    <3>6. Says(runs[r].session, r)
      BY <1>2, <3>4, <3>5, SaySays
    <3>7. LogOK'
      BY <1>1, <1>2, <1>7, <1>8, <3>5, <3>6, LogSays, StoriesToo
    <3>. QED  BY <3>5, <3>6, <3>7 DEF Speaks, Says, Alive
  <2>. QED  BY <2>1, <2>2
<1>10. StoriesOK'
  BY <1>1, <1>2, <1>7, <1>9, StoriesKept, StoriesToo
<1>11. /\ object' \in [Sessions -> Nat] /\ object'[s] = 0
       /\ \A t \in Sessions \ {s} : object'[t] = object[t]
       /\ \A t \in Sessions : object'[t] \in 0 .. loads
       /\ loads' = loads /\ loads \in Nat
  BY <1>1, <1>2 DEF TalkTypes, RunsOK
<1>12. RunsOK'
  BY <1>2, <1>7, <1>8, <1>11, RunsKept
<1>13. \A w \in Workers : Busy(w) => job[w].object # object[s] /\ job[w].run \in Runs \ held
  <2>1. \A w \in Workers : Busy(w) => job[w].object # object[s]
    BY <1>1 DEF LockFree, Busy
  <2>2. \A w \in Workers : Busy(w) => job[w].run \in Runs /\ runs[job[w].run].on = job[w].object
    BY <1>2, JobFields DEF JobsOK
  <2>. QED  BY <1>3, <2>1, <2>2
<1>14. JobsOK'
  <2>1. \A v \in Workers : Busy(v) => runs'[job[v].run].status = "running"
    BY <1>2, <1>5, <1>13 DEF JobsOK
  <2>. QED  BY <1>1, <1>2, <1>7, <1>11, <2>1, AllJobsKept
<1>15. RunsAreReachable'
  <2>1. ASSUME NEW w \in Workers, Works(w)
        PROVE  row'[job'[w].session] \notin {None, Gone} /\ object'[job'[w].session] = job'[w].object
    <3>1. /\ HasRow(job[w].session) /\ object[job[w].session] = job[w].object
          /\ job[w].session \in Sessions
      BY <1>2, <2>1, JobFields DEF RunsAreReachable, Works
    <3>2. job[w].session # s
      BY <1>13, <2>1, <3>1 DEF Busy
    <3>. QED  BY <1>1, <1>11, <3>1, <3>2 DEF HasRow
  <2>2. ASSUME NEW r \in Runs, Exists(r)', runs'[r].status = "waiting"
        PROVE  object'[runs'[r].session] = runs'[r].on
    <3>1. r \notin held /\ runs'[r] = runs[r] /\ Exists(r)
      BY <1>5, <1>6, <2>2 DEF Exists
    <3>2. object[runs[r].session] = runs[r].on /\ runs[r].session \in Sessions /\ Alive(r)
      BY <1>2, <2>2, <3>1, RunFields DEF RunsAreReachable, RunRow, Alive
    <3>3. runs[r].session # s
      BY <1>4, <3>1, <3>2
    <3>. QED  BY <1>11, <3>1, <3>2, <3>3
  <2>. QED  BY <1>1, <2>1, <2>2 DEF RunsAreReachable, Works, HasRow, Exists
<1>16. FilesOK'
  <2>1. removing'.pc # "unlink"
    BY DEF NotRemoving, Closing
  <2>. QED  BY <1>1, <1>2, <2>1, FilesKept
<1>17. runs' \in [Runs -> RunRow \cup {None, Gone}]
  BY <1>1, <1>2, <1>5, <1>6 DEF TalkTypes
<1>18. TalkTypes'
  BY <1>1, <1>2, <1>9, <1>11, <1>17 DEF TalkTypes, FileTypes
<1>. QED  BY <1>9, <1>10, <1>12, <1>14, <1>15, <1>16, <1>18 DEF TalkOK

(* The rows of an idle session go, and with them what they refer to; the   *)
(* files are taken away by the step after.                                 *)
LEMMA DeleteCommitMoves ==
  ASSUME TalkOK, DeleteCommit
  PROVE  TalkOK'
<1>. DEFINE s == removing.session
            mine == {f \in Files : arts[f] \in RunsOf(s)}
<1>1. /\ removing.pc = "commit" /\ IdleSession(s)
      /\ row' = [row EXCEPT ![s] = Gone] /\ log' = [log EXCEPT ![s] = <<>>]
      /\ runs' = [r \in Runs |-> IF r \in RunsOf(s) THEN Gone ELSE runs[r]]
      /\ arts' = [f \in Files |-> IF f \in mine THEN 0 ELSE arts[f]]
      /\ inputs' = [r \in Runs |-> IF r \in RunsOf(s) THEN {} ELSE inputs[r]]
      /\ removing' = [pc |-> "unlink", files |-> mine]
      /\ UNCHANGED <<object, loads, job, files, temps, crashes, faults>>
  BY DEF DeleteCommit
<1>2. TalkTypes /\ RunsOK /\ JobsOK /\ LogOK /\ StoriesOK /\ FilesOK /\ RunsAreReachable
  BY DEF TalkOK
<1>3. s \in Sessions
  BY <1>1, <1>2 DEF TalkTypes, NotRemoving, Closing, Unlinking
<1>4. \A r \in Runs : Exists(r) /\ runs[r].session = s <=> r \in RunsOf(s)
  BY DEF RunsOf
<1>5. \A r \in Runs : Alive(r) => r \notin RunsOf(s) /\ runs[r].session # s
  BY <1>1 DEF IdleSession, Live, RunsOf, Alive
<1>6. \A f \in mine : f \in Files /\ arts[f] \in RunsOf(s) /\ arts[f] # 0
  BY DEF RunsOf, Runs
<1>7. \A f \in Files : arts[f] \in RunsOf(s) => f \in mine
  OBVIOUS
<1>. HIDE DEF s, mine
<1>8. /\ row' \in [Sessions -> SessionRow \cup {None, Gone}] /\ row'[s] = Gone
      /\ \A t \in Sessions \ {s} : row'[t] = row[t]
      /\ log' \in [Sessions -> Seq(Message)] /\ log'[s] = <<>>
      /\ \A t \in Sessions \ {s} : log'[t] = log[t]
  BY <1>1, <1>2, <1>3 DEF TalkTypes
<1>9. /\ \A r \in RunsOf(s) : r \in Runs /\ runs'[r] = Gone /\ Exists(r)
      /\ \A r \in Runs \ RunsOf(s) : runs'[r] = runs[r]
      /\ runs' \in [Runs -> RunRow \cup {None, Gone}]
  BY <1>1, <1>2 DEF TalkTypes, RunsOf
<1>10. Gone # None
  BY ConversationConstants
<1>11. \A r \in Runs : (runs'[r] = None) = (runs[r] = None)
  BY <1>9, <1>10 DEF Exists
<1>12. ASSUME NEW r \in Runs, Exists(r)'
       PROVE  /\ Exists(r) /\ runs'[r] = runs[r] /\ r \notin RunsOf(s)
              /\ runs[r].session \in Sessions \ {s} /\ SameRun(r)
  <2>1. r \notin RunsOf(s) /\ runs'[r] = runs[r] /\ Exists(r)
    BY <1>9, <1>12 DEF Exists
  <2>2. runs[r].session \in Sessions
    BY <1>2, <2>1, RunFields DEF RunRow
  <2>3. SameRun(r)
    BY <2>1 DEF SameRun, SameStory, Exists
  <2>. QED  BY <1>4, <2>1, <2>2, <2>3
<1>13. \A r \in Runs : Alive(r)' => Alive(r) /\ runs'[r] = runs[r] /\ runs[r].session \in Sessions \ {s}
  BY <1>12 DEF Alive
<1>14. RunsOK'
  <2>1. ASSUME NEW r \in Runs, Exists(r)'
        PROVE  row'[runs'[r].session] \notin {None, Gone} /\ runs'[r].on \in 1 .. loads'
    BY <1>1, <1>2, <1>8, <1>12, <2>1 DEF RunsOK, HasRow
  <2>2. \A q, r \in Runs : Alive(q)' /\ Alive(r)' /\ runs'[q].session = runs'[r].session => q = r
    BY <1>2, <1>13 DEF RunsOK
  <2>3. \A q, r \in Runs : q < r /\ runs'[q] = None => runs'[r] = None
    BY <1>2, <1>11 DEF RunsOK
  <2>4. \A t \in Sessions : object'[t] \in 0 .. loads'
    BY <1>1, <1>2 DEF RunsOK
  <2>. QED  BY <2>1, <2>2, <2>3, <2>4 DEF RunsOK, HasRow
<1>15. \A w \in Workers : Busy(w) =>
         /\ job[w].run \in Runs \ RunsOf(s) /\ runs'[job[w].run] = runs[job[w].run]
         /\ Exists(job[w].run)' /\ job[w].session \in Sessions \ {s}
  <2>1. SUFFICES ASSUME NEW w \in Workers, Busy(w)
        PROVE  /\ job[w].run \in Runs \ RunsOf(s) /\ runs'[job[w].run] = runs[job[w].run]
               /\ Exists(job[w].run)' /\ job[w].session \in Sessions \ {s}
    OBVIOUS
  <2>2. /\ job[w].run \in Runs /\ Alive(job[w].run) /\ runs[job[w].run].session = job[w].session
        /\ job[w].session \in Sessions
    BY <2>1, RunInHand
  <2>3. job[w].run \in Runs \ RunsOf(s) /\ job[w].session # s
    BY <1>5, <2>2
  <2>4. runs'[job[w].run] = runs[job[w].run] /\ Exists(job[w].run)
    BY <1>9, <2>2, <2>3 DEF Alive
  <2>5. runs'[job[w].run] \notin {None, Gone} /\ job'[w] = job[w]
    BY <1>1, <2>4 DEF Exists
  <2>. QED  BY <2>2, <2>3, <2>4, <2>5 DEF Exists
<1>16. JobsOK'
  <2>1. \A w \in Workers : JobOK(w)'
    <3>1. ASSUME NEW w \in Workers PROVE JobOK(w)'
      <4>1. JobOK(w)
        BY <1>2, JobsParts
      <4>2. job'[w].pc # "idle" => job'[w].object \in 1 .. loads'
        BY <1>1, <4>1 DEF JobOK
      <4>3. Busy(w) => /\ Exists(job[w].run)' /\ runs'[job[w].run].status = "running"
                       /\ runs'[job[w].run].session = job[w].session
                       /\ runs'[job[w].run].on = job[w].object
        BY <1>15, <4>1 DEF JobOK
      <4>. QED  BY <1>1, <4>2, <4>3 DEF JobOK, Busy, Works, Exists
    <3>. QED  BY <3>1
  <2>2. \A v, w \in Workers : v # w /\ Busy(v)' /\ Busy(w)' => job'[v].run # job'[w].run
    BY <1>1, <1>2 DEF JobsOK, Busy, Works
  <2>. QED  BY <2>1, <2>2 DEF JobsOK, JobOK
<1>17. LogOK'
  <2>1. \A t \in Sessions : row'[t] \in {None, Gone} => log'[t] = <<>>
    BY <1>2, <1>8 DEF LogOK
  <2>2. ASSUME NEW t \in Sessions, row'[t] \notin {None, Gone}
        PROVE  /\ row'[t].boundary <= Len(log'[t])
               /\ \A i, j \in DOMAIN log'[t] :
                    i <= row'[t].boundary /\ row'[t].boundary < j => log'[t][i].run < log'[t][j].run
    BY <1>2, <1>8, <2>2 DEF LogOK, HasRow
  <2>3. ASSUME NEW t \in Sessions
        PROVE  /\ \A i \in DOMAIN log'[t] : runs'[log'[t][i].run] # None
               /\ \A i, j \in DOMAIN log'[t] : i <= j => log'[t][i].run <= log'[t][j].run
    <3>1. CASE t = s
      BY <1>8, <3>1
    <3>2. CASE t # s
      <4>1. \A i \in DOMAIN log[t] : log[t][i].run \in Runs
        BY <1>2, Messages
      <4>2. \A i \in DOMAIN log[t] : runs'[log[t][i].run] # None
        BY <1>2, <1>11, <4>1 DEF LogOK
      <4>3. \A i, j \in DOMAIN log[t] : i <= j => log[t][i].run <= log[t][j].run
        BY <1>2 DEF LogOK
      <4>. QED  BY <1>8, <3>2, <4>2, <4>3
    <3>. QED  BY <3>1, <3>2
  <2>4. ASSUME NEW r \in Runs, Alive(r)'
        PROVE  \A i \in DOMAIN log'[runs'[r].session] :
                 /\ log'[runs'[r].session][i].run <= r
                 /\ i <= row'[runs'[r].session].boundary => log'[runs'[r].session][i].run < r
    <3>1. PICK t \in Sessions \ {s} : runs[r].session = t /\ runs'[r].session = t /\ Alive(r)
      BY <1>13, <2>4
    <3>2. \A i \in DOMAIN log[t] : /\ log[t][i].run <= r
                                   /\ i <= row[t].boundary => log[t][i].run < r
      BY <1>2, <3>1 DEF LogOK
    <3>3. log'[t] = log[t] /\ row'[t] = row[t]
      BY <1>8
    <3>. QED  BY <3>1, <3>2, <3>3
  <2>5. ASSUME NEW r \in Runs, Exists(r)'
        PROVE  runs'[r].first \in 1 .. Len(log'[runs'[r].session])
    BY <1>2, <1>8, <1>12, <2>5 DEF LogOK
  <2>. QED  BY <2>1, <2>2, <2>3, <2>4, <2>5 DEF LogOK, HasRow
<1>18. StoriesOK'
  <2>1. ASSUME NEW r \in Runs, Exists(r)'
        PROVE  /\ Exists(r) /\ SameStory(r) /\ inputs'[r] = inputs[r] /\ SameStory(runs[r].base)
               /\ runs[r].session \in Sessions \ {s} /\ runs'[r] = runs[r]
               /\ \A i \in DOMAIN log[runs[r].session] :
                    log'[runs[r].session][i] = log[runs[r].session][i]
    <3>1. /\ Exists(r) /\ SameStory(r) /\ r \notin RunsOf(s)
          /\ runs[r].session \in Sessions \ {s} /\ runs'[r] = runs[r]
      BY <1>12, <2>1 DEF SameRun
    <3>2. Recent(r) /\ runs[r].base \in Runs
      BY <1>2, <3>1, InputParts, RunFields DEF StoriesOK, RunRow
    <3>3. runs[r].base \notin RunsOf(s) /\ runs'[runs[r].base] = runs[runs[r].base]
      BY <1>4, <1>9, <3>1, <3>2 DEF Recent
    <3>4. SameStory(runs[r].base)
      <4>1. PICK b \in Runs : b = runs[r].base
        BY <3>2
      <4>2. runs'[b] = runs[b]
        BY <3>3, <4>1
      <4>3. SameStory(b)
        BY <4>2 DEF SameStory, Exists
      <4>. QED  BY <4>1, <4>3
    <3>5. inputs'[r] = inputs[r]
      BY <1>1, <3>1
    <3>6. log'[runs[r].session] = log[runs[r].session]
      BY <1>8, <3>1
    <3>. QED  BY <3>1, <3>4, <3>5, <3>6
  <2>2. HistoryIsWhole'
    <3>1. ASSUME NEW r \in Runs, Exists(r)', runs'[r].base = r PROVE Frozen(r)'
      <4>1. Exists(r) /\ SameStory(r) /\ Frozen(r)
        BY <1>2, <2>1, <3>1, HistoryParts DEF StoriesOK
      <4>. QED  BY <1>2, <2>1, <3>1, <4>1, FrozenStays
    <3>. QED  BY <3>1, HistoryPartsNext
  <2>3. InputIsRecent'
    <3>1. ASSUME NEW r \in Runs, Exists(r)' PROVE Recent(r)'
      <4>1. Recent(r)
        BY <1>2, <2>1, <3>1, InputParts DEF StoriesOK
      <4>. QED  BY <1>2, <2>1, <3>1, <4>1, RecentStays
    <3>. QED  BY <3>1, InputPartsNext
  <2>4. Opened'
    <3>1. ASSUME NEW r \in Runs, Exists(r)'
          PROVE  (Goal(r).run = r /\ Goal(r).shown /\ Goal(r).role = "user")'
      BY <1>2, <2>1, <3>1, OpenedStays DEF StoriesOK, Opened
    <3>. QED  BY <3>1 DEF Opened
  <2>5. Led'
    <3>1. ASSUME NEW t \in Sessions, NEW i \in DOMAIN log'[t]
          PROVE  \E j \in 1 .. i : log'[t][j].run = log'[t][i].run /\ log'[t][j].shown
                                   /\ log'[t][j].role = "user"
      <4>1. CASE t = s
        BY <1>8, <3>1, <4>1
      <4>2. CASE t # s
        <5>1. log'[t] = log[t]
          BY <1>8, <4>2
        <5>. QED  BY <1>2, <5>1 DEF StoriesOK, Led
      <4>. QED  BY <4>1, <4>2
    <3>. QED  BY <3>1 DEF Led
  <2>6. Unasked'
    <3>1. ASSUME NEW r \in Runs, ~Exists(r)' PROVE inputs'[r] = {}
      <4>1. CASE r \in RunsOf(s)
        BY <1>1, <4>1
      <4>2. CASE r \notin RunsOf(s)
        BY <1>1, <1>2, <1>9, <3>1, <4>2 DEF StoriesOK, Unasked, Exists
      <4>. QED  BY <4>1, <4>2
    <3>. QED  BY <3>1 DEF Unasked
  <2>. QED  BY <2>2, <2>3, <2>4, <2>5, <2>6 DEF StoriesOK
<1>19. RunsAreReachable'
  <2>1. ASSUME NEW w \in Workers, Works(w)
        PROVE  row'[job'[w].session] \notin {None, Gone} /\ object'[job'[w].session] = job'[w].object
    BY <1>1, <1>2, <1>8, <1>15, <2>1 DEF RunsAreReachable, HasRow, Busy
  <2>2. ASSUME NEW r \in Runs, Exists(r)', runs'[r].status = "waiting"
        PROVE  object'[runs'[r].session] = runs'[r].on
    BY <1>1, <1>2, <1>12, <2>2 DEF RunsAreReachable
  <2>. QED  BY <1>1, <2>1, <2>2 DEF RunsAreReachable, Works, HasRow, Exists
<1>20. /\ arts' \in [Files -> 0 .. MaxRuns] /\ mine \subseteq Files
       /\ \A f \in Files : arts'[f] = IF f \in mine THEN 0 ELSE arts[f]
  BY <1>1, <1>2, <1>6, ConversationConstants DEF TalkTypes, FileTypes
<1>21. FilesOK'
  <2>1. \A f \in mine : files[f] = arts[f] /\ files[f] # 0
    BY <1>2, <1>6 DEF FilesOK, FilesMatchRows
  <2>2. \A w \in Workers : Holds(w) => job[w].file \in Files /\ job[w].file \notin mine
    BY <1>2, <1>6, FilesHeld DEF FilesOK, Holds
  <2>3. removing'.pc = "unlink" /\ removing'.files = mine
    BY <1>1
  <2>4. FilesMatchRows'
    BY <1>1, <1>2, <1>20, <2>1, <2>3 DEF FilesOK, FilesMatchRows
  <2>. QED  BY <1>1, <1>2, <1>20, <2>1, <2>2, <2>3, <2>4 DEF FilesOK, Holds
<1>22. TalkTypes'
  <2>1. removing' \in Unlinking
    BY <1>1, <1>20 DEF Unlinking
  <2>2. inputs' \in [Runs -> SUBSET SUBSET Nat]
    BY <1>1, <1>2 DEF TalkTypes
  <2>. QED  BY <1>1, <1>2, <1>8, <1>9, <1>20, <2>1, <2>2 DEF TalkTypes, FileTypes
<1>. QED  BY <1>14, <1>16, <1>17, <1>18, <1>19, <1>21, <1>22 DEF TalkOK

-----------------------------------------------------------------------------
(***************************************************************************)
(* The conversations: a new run, and a crash.                              *)
(***************************************************************************)
(* Runs are numbered in the order they start: those of all messages came   *)
(* before the first free number.                                           *)
LEMMA FirstFree ==
  ASSUME TalkOK, \E n \in Runs : runs[n] = None
  PROVE  LET r == Min({n \in Runs : runs[n] = None}) IN
         /\ r \in Runs /\ runs[r] = None
         /\ \A q \in Runs : runs[q] # None <=> q < r
<1>. DEFINE free == {n \in Runs : runs[n] = None}
            r == Min(free)
<1>1. free \in SUBSET Nat /\ free # {}
  BY DEF Runs
<1>. HIDE DEF free
<1>2. r \in free /\ \A q \in free : r <= q
  BY <1>1, LeastOf
<1>. USE DEF free
<1>. HIDE DEF r
<1>3. r \in Runs /\ runs[r] = None /\ \A q \in Runs : runs[q] = None => r <= q
  BY <1>2
<1>4. \A q \in Runs : runs[q] = None => ~(q < r)
  BY <1>3 DEF Runs
<1>5. \A q \in Runs : ~(q < r) => q = r \/ r < q
  BY <1>3 DEF Runs
<1>6. \A q \in Runs : r < q => runs[q] = None
  BY <1>3 DEF TalkOK, RunsOK
<1>7. \A q \in Runs : runs[q] # None <=> q < r
  BY <1>3, <1>4, <1>5, <1>6
<1>. USE DEF r
<1>. QED  BY <1>3, <1>7

(* What the run freezes is whole when it starts.                           *)
LEMMA ContextFrozen ==
  ASSUME TalkOK, NEW s \in Sessions, HasRow(s), NEW size \in Nat, size <= Budget
  PROVE  /\ WholeIn(log[s], Context(s, size), size, row[s].boundary, Len(log[s]) + 1)
         /\ Context(s, size) \in SUBSET Nat
<1>1. /\ Len(log[s]) \in Nat /\ DOMAIN log[s] = 1 .. Len(log[s])
      /\ \A i \in 1 .. Len(log[s]) : log[s][i].run \in Nat
  BY Messages DEF TalkOK, Runs
<1>2. row[s].boundary \in Nat
  BY DEF TalkOK, TalkTypes, HasRow, SessionRow
<1>3. /\ \A i, j \in 1 .. Len(log[s]) : i <= j => log[s][i].run <= log[s][j].run
      /\ \A i, j \in 1 .. Len(log[s]) :
           i <= row[s].boundary /\ row[s].boundary < j => log[s][i].run < log[s][j].run
  BY <1>1 DEF TalkOK, LogOK
<1>4. Context(s, size) = ContextIn(log[s], row[s].boundary, size)
  BY DEF Context, ContextIn, Public, Opens, From, Fits, FitsIn
<1>5. WholeIn(log[s], Context(s, size), size, row[s].boundary, Len(log[s]) + 1)
  BY <1>1, <1>2, <1>3, <1>4, ContextIsWhole
<1>6. Context(s, size) \subseteq DOMAIN log[s]
  BY DEF Context, From, Public
<1>. QED  BY <1>1, <1>5, <1>6

(* And it is the newest part, beginning with a user's message: a round     *)
(* that is taken begins after the boundary with the goal of its run.       *)
LEMMA ContextRecent ==
  ASSUME TalkOK, NEW s \in Sessions, HasRow(s), NEW size \in Nat
  PROVE  NewestIn(log[s], row[s].boundary, Len(log[s]) + 1, Context(s, size))
<1>. DEFINE n == Len(log[s])
            b == row[s].boundary
            fits == {i \in Public(s) : Opens(s, i) /\ Fits(s, size, From(s, i))}
            H == Context(s, size)
            m == Min(fits)
<1>1. /\ n \in Nat /\ DOMAIN log[s] = 1 .. n /\ b \in Nat
      /\ \A i \in 1 .. n : log[s][i].run \in Nat
  BY Messages DEF TalkOK, TalkTypes, HasRow, SessionRow, Runs
<1>2. Public(s) = {i \in 1 .. (n + 1) - 1 : i > b /\ log[s][i].shown}
  BY <1>1 DEF Public
<1>3. Public(s) \in SUBSET Nat
  BY <1>2
<1>4. H = IF fits = {} THEN {} ELSE From(s, m)
  BY DEF Context
<1>5. CASE fits = {}
  <2>1. H = {}
    BY <1>4, <1>5
  <2>. HIDE DEF H
  <2>2. NewestIn(log[s], b, n + 1, H)
    BY <2>1, NothingIsRecent
  <2>. QED  BY <2>2 DEF H
<1>6. CASE fits # {}
  <2>1. m \in fits
    <3>1. fits \in SUBSET Nat
      BY <1>3
    <3>. HIDE DEF fits
    <3>. QED  BY <1>6, <3>1, LeastOf
  <2>2. m \in Public(s) /\ Opens(s, m)
    BY <2>1
  <2>3. H = From(s, m)
    BY <1>4, <1>6
  <2>. HIDE DEF H, m, fits
  <2>4. m \in 1 .. n /\ m > b
    BY <1>1, <1>2, <2>2
  <2>5. PICK j \in 1 .. m : log[s][j].run = log[s][m].run /\ log[s][j].shown /\ log[s][j].role = "user"
    BY <1>1, <2>4 DEF TalkOK, StoriesOK, Led
  <2>6. j \in 1 .. n /\ j > b
    <3>1. j \in 1 .. n
      BY <1>1, <2>4
    <3>2. j <= b => log[s][j].run < log[s][m].run
      BY <1>1, <2>4, <3>1 DEF TalkOK, LogOK
    <3>. QED  BY <1>1, <2>4, <2>5, <3>1, <3>2
  <2>7. j = m
    <3>1. j \in Public(s)
      BY <1>1, <1>2, <2>5, <2>6
    <3>. QED  BY <2>2, <2>4, <2>5, <3>1 DEF Opens
  <2>8. H \subseteq Public(s) /\ m \in H /\ \A i \in H : i >= m
    BY <2>2, <2>3, <2>4 DEF From
  <2>9. \A i \in H, k \in Public(s) : k > i => k \in H
    <3>1. ASSUME NEW i \in H, NEW k \in Public(s), k > i PROVE k \in H
      <4>1. i \in Nat /\ k \in Nat /\ i >= m /\ m \in Nat
        BY <1>3, <2>4, <2>8
      <4>. QED  BY <2>3, <3>1, <4>1 DEF From
    <3>. QED  BY <3>1
  <2>10. Min(H) = m
    <3>1. H \in SUBSET Nat /\ H # {}
      BY <1>3, <2>8
    <3>2. Min(H) \in H /\ \A y \in H : Min(H) <= y
      BY <3>1, LeastOf
    <3>3. Min(H) \in Nat /\ Min(H) >= m /\ Min(H) <= m
      BY <2>8, <3>1, <3>2
    <3>. QED  BY <2>4, <3>3
  <2>11. H # {} => log[s][Min(H)].role = "user"
    BY <2>5, <2>7, <2>10
  <2>. DEFINE public == {i \in 1 .. (n + 1) - 1 : i > b /\ log[s][i].shown}
  <2>12. H \subseteq public /\ \A i \in H, k \in public : k > i => k \in H
    BY <1>2, <2>8, <2>9
  <2>. HIDE DEF n, b
  <2>13. NewestIn(log[s], b, n + 1, H)
    BY <2>11, <2>12, Zenon DEF NewestIn
  <2>. QED  BY <2>13 DEF H, n, b
<1>. QED  BY <1>5, <1>6

(* What a new run knows: what it freezes itself, or part of what the run   *)
(* knew that another one retries.                                          *)
Grounded(s, size, base, history) ==
  \/ /\ base = NextRun
     /\ WholeIn(log[s], history, size, row[s].boundary, Len(log[s]) + 1)
     /\ NewestIn(log[s], row[s].boundary, Len(log[s]) + 1, history)
  \/ /\ Exists(base) /\ runs[base].session = s
     /\ NewestIn(log[s], runs[base].since, runs[base].first, history)

LEMMA NewRunMoves ==
  ASSUME TalkOK, NEW w \in Workers, NEW size \in Nat, NEW flow \in Flows, NEW base \in Runs,
         NEW history \in SUBSET Nat, job[w].pc = "start", IdleSession(job[w].session),
         NewRun(w, size, flow, base, history), Grounded(job[w].session, size, base, history)
  PROVE  TalkOK'
<1>1. PICK s \in Sessions, r \in Runs :
        /\ s = job[w].session /\ r = NextRun
        /\ runs[r] = None /\ \A q \in Runs : runs[q] # None <=> q < r
  <2>1. job[w].session \in Sessions
    BY JobFields DEF TalkOK
  <2>. QED  BY <2>1, FirstFree DEF NewRun, NextRun
<1>. DEFINE new == [session |-> s, flow |-> flow, status |-> "running", on |-> job[w].object,
                    base |-> base, history |-> history, size |-> size,
                    since |-> row[s].boundary, first |-> Len(log[s]) + 1]
<1>2. /\ job[w].pc = "start" /\ IdleSession(s) /\ HasRow(s) /\ size <= Budget
      /\ runs' = [runs EXCEPT ![r] = new] /\ Say(s, r, "user", size, TRUE) /\ Takes(w, "begin", r)
      /\ UNCHANGED <<row, object, loads, files, temps, arts, removing, crashes, faults, inputs>>
  BY <1>1 DEF NewRun, IdleSession
<1>3. TalkTypes /\ RunsOK /\ JobsOK /\ LogOK /\ StoriesOK /\ FilesOK /\ RunsAreReachable
  BY DEF TalkOK
<1>4. Grounded(s, size, base, history)
  BY <1>1
<1>5. /\ Len(log[s]) \in Nat /\ DOMAIN log[s] = 1 .. Len(log[s])
      /\ \A i \in DOMAIN log[s] : log[s][i].run \in Runs
      /\ row[s].boundary \in Nat /\ row[s].boundary <= Len(log[s])
      /\ job[w].object \in 1 .. loads /\ loads \in Nat
  BY <1>2, <1>3, Messages DEF TalkTypes, SessionRow, HasRow, LogOK, JobsOK
<1>6. new \in RunRow
  BY <1>5 DEF RunRow, Statuses
<1>7. /\ new.session = s /\ new.status = "running" /\ new.on = job[w].object
      /\ new.base = base /\ new.history = history /\ new.size = size /\ new.since = row[s].boundary
      /\ new.first = Len(log[s]) + 1 /\ new # None /\ new # Gone
  BY <1>6, RowsDiffer
<1>. HIDE DEF new
<1>8. /\ runs'[r] = new /\ \A q \in Runs \ {r} : runs'[q] = runs[q]
      /\ runs' \in [Runs -> RunRow \cup {None, Gone}]
  BY <1>2, <1>3, <1>6 DEF TalkTypes
<1>9. Says(s, r)
  BY <1>2, <1>3, SaySays
<1>10. \A q \in Runs \ {r} : SameRun(q) /\ Alive(q)' = Alive(q) /\ Exists(q)' = Exists(q)
  BY <1>8 DEF SameRun, SameStory, Alive, Exists
<1>11. Exists(r)' /\ Alive(r)' /\ ~Exists(r) /\ ~Alive(r)
  BY <1>1, <1>7, <1>8 DEF Exists, Alive
<1>12. \A q \in Runs : Alive(q) => runs[q].session # s
  BY <1>2 DEF IdleSession, Live, RunsOf, Alive
<1>13. \A q \in Runs : Exists(q) => runs[q].session \in Sessions
  BY <1>3, RunFields DEF RunRow
<1>14. \A q \in Runs : Alive(q)' =>
          \/ q = r /\ runs'[q].session = s
          \/ q # r /\ Alive(q) /\ runs'[q] = runs[q] /\ runs[q].session # s
  BY <1>7, <1>8, <1>10, <1>12
<1>15. RunsOK'
  <2>1. ASSUME NEW q \in Runs, Exists(q)'
        PROVE  row'[runs'[q].session] \notin {None, Gone} /\ runs'[q].on \in 1 .. loads'
    <3>1. CASE q = r
      BY <1>2, <1>5, <1>7, <1>8, <3>1 DEF HasRow
    <3>2. CASE q # r
      BY <1>2, <1>3, <1>8, <1>10, <2>1, <3>2 DEF RunsOK, HasRow
    <3>. QED  BY <3>1, <3>2
  <2>2. \A p, q \in Runs : Alive(p)' /\ Alive(q)' /\ runs'[p].session = runs'[q].session => p = q
    BY <1>3, <1>14 DEF RunsOK
  <2>3. ASSUME NEW p \in Runs, NEW q \in Runs, p < q, runs'[p] = None PROVE runs'[q] = None
    <3>1. p # r /\ runs[p] = None
      BY <1>7, <1>8, <2>3
    <3>2. ~(p < r) /\ q # r
      BY <1>1, <2>3, <3>1 DEF Runs
    <3>. QED  BY <1>3, <1>8, <2>3, <3>1, <3>2 DEF RunsOK
  <2>4. \A t \in Sessions : object'[t] \in 0 .. loads'
    BY <1>2, <1>3 DEF RunsOK
  <2>. QED  BY <2>1, <2>2, <2>3, <2>4 DEF RunsOK, HasRow
<1>16. /\ job' \in [Workers -> {Idle} \cup Fetched \cup Task \cup Storing]
       /\ job'[w].pc = "begin" /\ job'[w].run = r
       /\ job'[w].session = s /\ job'[w].object = job[w].object
       /\ \A v \in Workers \ {w} : job'[v] = job[v]
  BY <1>1, <1>2, <1>3, TakesJob
<1>17. JobsOK'
  <2>1. ASSUME NEW v \in Workers \ {w} PROVE JobOK(v)' /\ Busy(v)' = Busy(v) /\ (Busy(v) => job[v].run # r)
    <3>1. job'[v] = job[v] /\ JobOK(v)
      BY <1>3, <1>16, JobsParts
    <3>2. Busy(v) => job[v].run \in Runs \ {r} /\ Exists(job[v].run)
      BY <1>11, RunInHand
    <3>3. Busy(v) => Exists(job[v].run)' /\ runs'[job[v].run] = runs[job[v].run]
      BY <1>8, <3>1, <3>2 DEF Exists
    <3>4. Busy(v)' = Busy(v) /\ loads' = loads
      BY <1>2, <3>1 DEF Busy, Works
    <3>. QED  BY <3>1, <3>2, <3>3, <3>4 DEF JobOK, Exists
  <2>2. JobOK(w)'
    BY <1>2, <1>5, <1>7, <1>8, <1>11, <1>16 DEF JobOK, Exists
  <2>3. \A v \in Workers : JobOK(v)'
    BY <2>1, <2>2
  <2>4. \A u, v \in Workers : u # v /\ Busy(u)' /\ Busy(v)' => job'[u].run # job'[v].run
    BY <1>3, <1>16, <2>1 DEF JobsOK
  <2>. QED  BY <2>3, <2>4 DEF JobsOK, JobOK
<1>18. LogOK'
  <2>1. Latest(s, r)
    BY <1>1, <1>3, <1>5 DEF Latest, LogOK, Runs
  <2>2. OnlyAlive(s, r)
    BY <1>14 DEF OnlyAlive
  <2>3. FirstsThere'
    <3>1. ASSUME NEW q \in Runs, Exists(q)' PROVE runs'[q].first \in 1 .. Len(log'[runs'[q].session])
      <4>1. CASE q = r
        BY <1>5, <1>7, <1>8, <1>9, <4>1 DEF Says
      <4>2. CASE q # r
        <5>1. PICK t \in Sessions : runs[q].session = t /\ runs'[q] = runs[q] /\ Exists(q)
          BY <1>8, <1>10, <1>13, <3>1, <4>2
        <5>2. runs[q].first \in 1 .. Len(log[t]) /\ Len(log[t]) \in Nat
          BY <1>3, <5>1, Messages DEF LogOK
        <5>3. Len(log'[t]) \in {Len(log[t]), Len(log[t]) + 1}
          BY <1>9 DEF Says
        <5>. QED  BY <5>1, <5>2, <5>3
      <4>. QED  BY <4>1, <4>2
    <3>. QED  BY <3>1 DEF FirstsThere
  <2>4. runs'[r] # None /\ \A q \in Runs : runs[q] # None => runs'[q] # None
    BY <1>7, <1>8
  <2>. QED  BY <1>2, <1>3, <1>9, <2>1, <2>2, <2>3, <2>4, LogAppends
<1>19. StoriesOK'
  <2>. DEFINE n == Len(log[s])
  <2>1. LogGrows /\ \A i \in 1 .. (n + 1) - 1 : log'[s][i] = log[s][i]
    <3>1. LogGrows
      BY <1>9 DEF Says, LogGrows
    <3>2. (n + 1) - 1 = n /\ \A i \in 1 .. n : log'[s][i] = log[s][i]
      BY <1>5, <3>1 DEF LogGrows
    <3>. QED  BY <3>1, <3>2
  <2>2. /\ \A t \in Sessions \ {s} : log'[t] = log[t]
        /\ DOMAIN log'[s] = 1 .. n + 1 /\ \A i \in 1 .. n : log'[s][i] = log[s][i]
        /\ log'[s][n + 1].run = r /\ log'[s][n + 1].shown /\ log'[s][n + 1].role = "user"
    <3>. DEFINE message == [run |-> r, role |-> "user", size |-> size, shown |-> TRUE]
    <3>1. log'[s] = Append(log[s], message) /\ log[s] \in Seq(Message)
      BY <1>2, <1>3 DEF Say, TalkTypes
    <3>2. message.run = r /\ message.shown /\ message.role = "user"
      OBVIOUS
    <3>. HIDE DEF message
    <3>3. log'[s][n + 1] = message /\ DOMAIN log'[s] = 1 .. n + 1
      BY <3>1
    <3>. QED  BY <1>5, <1>9, <3>2, <3>3 DEF Says
  <2>3. n + 1 \in Nat \ {0} /\ n \in Nat
    BY <1>5
  <2>4. ASSUME NEW q \in Runs \ {r}, Exists(q)'
        PROVE  /\ Exists(q) /\ SameStory(q) /\ runs'[q] = runs[q] /\ runs[q].session \in Sessions
               /\ \A i \in DOMAIN log[runs[q].session] :
                    log'[runs[q].session][i] = log[runs[q].session][i]
    <3>1. Exists(q) /\ SameStory(q) /\ runs'[q] = runs[q] /\ runs[q].session \in Sessions
      BY <1>8, <1>10, <1>13, <2>4 DEF SameRun
    <3>. QED  BY <2>1, <3>1 DEF LogGrows
  <2>5. HistoryIsWhole'
    <3>1. ASSUME NEW q \in Runs, Exists(q)', runs'[q].base = q PROVE Frozen(q)'
      <4>1. CASE q = r
        <5>1. WholeIn(log[s], history, size, row[s].boundary, n + 1)
          BY <1>1, <1>4, <1>7, <1>8, <1>11, <3>1, <4>1 DEF Grounded
        <5>. HIDE DEF n
        <5>2. WholeIn(log'[s], history, size, row[s].boundary, n + 1)
          BY <2>1, <2>3, <5>1, WholeStays
        <5>. QED  BY <1>7, <1>8, <4>1, <5>2 DEF Frozen, n
      <4>2. CASE q # r
        <5>1. Frozen(q)
          BY <1>3, <2>4, <3>1, <4>2, HistoryParts DEF StoriesOK
        <5>. QED  BY <1>3, <2>4, <3>1, <4>2, <5>1, FrozenStays
      <4>. QED  BY <4>1, <4>2
    <3>. QED  BY <3>1, HistoryPartsNext
  <2>6. InputIsRecent'
    <3>1. Recent(r)'
      <4>1. /\ runs'[r].base = base /\ runs'[r].session = s /\ runs'[r].history = history
            /\ inputs'[r] = {}
        BY <1>2, <1>3, <1>7, <1>8, <1>11 DEF StoriesOK, Unasked
      <4>2. CASE base = r
        <5>1. NewestIn(log[s], row[s].boundary, n + 1, history)
          BY <1>1, <1>4, <1>11, <4>2 DEF Grounded
        <5>. HIDE DEF n
        <5>2. NewestIn(log'[s], row[s].boundary, n + 1, history)
          BY <2>1, <2>3, <5>1, NewestStays
        <5>. QED  BY <1>7, <1>8, <1>11, <4>1, <4>2, <5>2 DEF Recent, n
      <4>3. CASE base # r
        <5>1. /\ Exists(base) /\ runs[base].session = s
              /\ NewestIn(log[s], runs[base].since, runs[base].first, history)
          BY <1>1, <1>4, <4>3 DEF Grounded
        <5>2. Exists(base)' /\ runs'[base] = runs[base]
          BY <1>8, <1>10, <4>3, <5>1
        <5>3. /\ runs[base].first \in Nat \ {0}
              /\ \A i \in 1 .. runs[base].first - 1 : log'[s][i] = log[s][i]
          <6>1. runs[base].first \in 1 .. n
            BY <1>3, <5>1 DEF LogOK
          <6>. QED  BY <2>1, <2>3, <6>1
        <5>4. NewestIn(log'[s], runs[base].since, runs[base].first, history)
          BY <5>1, <5>3, NewestStays
        <5>. QED  BY <4>1, <5>1, <5>2, <5>4 DEF Recent
      <4>. QED  BY <4>2, <4>3
    <3>2. ASSUME NEW q \in Runs \ {r}, Exists(q)' PROVE Recent(q)'
      <4>1. Recent(q) /\ runs[q].base \in Runs
        BY <1>3, <2>4, <3>2, InputParts, RunFields DEF StoriesOK, RunRow
      <4>2. runs[q].base \in Runs \ {r}
        BY <1>11, <4>1 DEF Recent
      <4>3. SameStory(runs[q].base) /\ inputs'[q] = inputs[q]
        BY <1>2, <1>10, <4>2 DEF SameRun
      <4>. QED  BY <1>3, <2>4, <3>2, <4>1, <4>3, RecentStays
    <3>. QED  BY <3>1, <3>2, InputPartsNext
  <2>7. Opened'
    <3>1. Goal(r)'.run = r /\ Goal(r)'.shown /\ Goal(r)'.role = "user"
      BY <1>7, <1>8, <2>2 DEF Goal
    <3>2. ASSUME NEW q \in Runs \ {r}, Exists(q)'
          PROVE  (Goal(q).run = q /\ Goal(q).shown /\ Goal(q).role = "user")'
      BY <1>3, <2>4, <3>2, OpenedStays DEF StoriesOK, Opened
    <3>. QED  BY <3>1, <3>2 DEF Opened
  <2>8. Led'
    <3>. HIDE DEF n
    <3>1. ASSUME NEW i \in 1 .. n + 1
          PROVE  \E j \in 1 .. i : log'[s][j].run = log'[s][i].run /\ log'[s][j].shown
                                   /\ log'[s][j].role = "user"
      <4>1. CASE i = n + 1
        <5>1. i \in 1 .. i
          BY <2>3, <4>1
        <5>. QED  BY <2>2, <4>1, <5>1
      <4>2. CASE i # n + 1
        <5>1. i \in 1 .. n
          BY <2>3, <4>2
        <5>2. PICK j \in 1 .. i : log[s][j].run = log[s][i].run /\ log[s][j].shown
                                  /\ log[s][j].role = "user"
          BY <1>3, <1>5, <5>1 DEF StoriesOK, Led, n
        <5>3. j \in 1 .. n
          BY <2>3, <5>1
        <5>. QED  BY <2>2, <5>1, <5>2, <5>3
      <4>. QED  BY <4>1, <4>2
    <3>2. ASSUME NEW t \in Sessions, NEW i \in DOMAIN log'[t]
          PROVE  \E j \in 1 .. i : log'[t][j].run = log'[t][i].run /\ log'[t][j].shown
                                   /\ log'[t][j].role = "user"
      <4>1. CASE t = s
        BY <2>2, <3>1, <4>1
      <4>2. CASE t # s
        <5>1. log'[t] = log[t]
          BY <2>2, <4>2
        <5>. QED  BY <1>3, <5>1 DEF StoriesOK, Led
      <4>. QED  BY <4>1, <4>2
    <3>. QED  BY <3>2 DEF Led
  <2>9. Unasked'
    BY <1>2, <1>3, <1>10, <1>11 DEF StoriesOK, Unasked
  <2>. QED  BY <2>5, <2>6, <2>7, <2>8, <2>9 DEF StoriesOK
<1>20. RunsAreReachable'
  <2>1. ASSUME NEW v \in Workers, Works(v)'
        PROVE  row'[job'[v].session] \notin {None, Gone} /\ object'[job'[v].session] = job'[v].object
    BY <1>2, <1>3, <1>16, <2>1 DEF RunsAreReachable, Works, HasRow
  <2>2. ASSUME NEW q \in Runs, Exists(q)', runs'[q].status = "waiting"
        PROVE  object'[runs'[q].session] = runs'[q].on
    BY <1>2, <1>3, <1>7, <1>8, <1>10, <2>2 DEF RunsAreReachable
  <2>. QED  BY <2>1, <2>2 DEF RunsAreReachable, HasRow, Exists
<1>21. FilesOK'
  BY <1>2, <1>3, <1>16, FilesKept DEF Holds
<1>22. TalkTypes'
  BY <1>2, <1>3, <1>8, <1>9, <1>16 DEF TalkTypes, FileTypes, Says
<1>. QED  BY <1>15, <1>17, <1>18, <1>19, <1>20, <1>21, <1>22 DEF TalkOK

(* The next number is that of a run. *)
LEMMA NextRunExists ==
  ASSUME TalkOK, \E n \in Runs : runs[n] = None
  PROVE  NextRun \in Runs /\ ~Exists(NextRun)
BY FirstFree DEF NextRun, Exists

LEMMA StartMoves ==
  ASSUME TalkOK, NEW w \in Workers, NEW size \in Nat, Start(w, size)
  PROVE  TalkOK'
<1>. DEFINE s == job[w].session
            history == Context(s, size)
<1>1. /\ job[w].pc = "start" /\ IdleSession(s) /\ HasRow(s) /\ s \in Sessions /\ size <= Budget
      /\ NewRun(w, size, row[s].flow, NextRun, history) /\ \E n \in Runs : runs[n] = None
  BY JobFields DEF Start, Startable, NewRun, IdleSession, TalkOK
<1>2. row[s].flow \in Flows
  BY <1>1 DEF TalkOK, TalkTypes, HasRow, SessionRow
<1>. HIDE DEF s
<1>3. history \in SUBSET Nat /\ Grounded(s, size, NextRun, history)
  BY <1>1, ContextFrozen, ContextRecent DEF Grounded
<1>4. NextRun \in Runs
  BY <1>1, NextRunExists
<1>. HIDE DEF history
<1>. QED  BY <1>1, <1>2, <1>3, <1>4, NewRunMoves DEF s

LEMMA RetryMoves ==
  ASSUME TalkOK, NEW w \in Workers, NEW q \in Runs, NEW size \in Nat, NEW history,
         Retry(w, q, size, history)
  PROVE  TalkOK'
<1>. DEFINE s == job[w].session
<1>1. /\ job[w].pc = "start" /\ IdleSession(s) /\ Exists(q) /\ runs[q].session = s
      /\ history \in inputs[q] \cup {{}} /\ NewRun(w, size, runs[q].flow, runs[q].base, history)
  BY DEF Retry, Known
<1>2. runs[q].flow \in Flows /\ runs[q].base \in Runs
  BY <1>1, RunFields DEF TalkOK, RunRow
<1>3. history \in SUBSET Nat
  BY <1>1 DEF TalkOK, TalkTypes
<1>4. Recent(q)
  BY <1>1, InputParts DEF TalkOK, StoriesOK
<1>. HIDE DEF s
<1>5. NewestIn(log[s], runs[runs[q].base].since, runs[runs[q].base].first, history)
  <2>1. CASE history = {}
    BY <2>1 DEF NewestIn
  <2>. QED  BY <1>1, <1>4, <2>1 DEF Recent
<1>6. Grounded(s, size, runs[q].base, history)
  BY <1>1, <1>4, <1>5 DEF Grounded, Recent
<1>. QED  BY <1>1, <1>2, <1>3, <1>6, NewRunMoves DEF s

(* A crash: every worker and the reader are gone, a run that waited and    *)
(* whose checkpoint holds waits on, with the new object of its session.    *)
LEMMA CrashMoves ==
  ASSUME TalkOK, NEW kept \in SUBSET Runs, Crash(kept)
  PROVE  TalkOK'
<1>. DEFINE back == {runs[r].session : r \in kept}
<1>1. PICK o \in [back -> loads + 1 .. loads + Cardinality(back)] :
        object' = [s \in Sessions |-> IF s \in back THEN o[s] ELSE 0]
  BY DEF Crash
<1>2. /\ crashes' = crashes + 1 /\ \A r \in kept : Exists(r) /\ runs[r].status = "waiting"
      /\ loads' = loads + Cardinality(back)
      /\ runs' = [r \in Runs |->
           IF r \in kept THEN [runs[r] EXCEPT !.on = object'[runs[r].session]]
           ELSE IF Exists(r) /\ r \in Live(runs[r].session)
                THEN [runs[r] EXCEPT !.status = "interrupted"] ELSE runs[r]]
      /\ job' = [w \in Workers |-> Idle] /\ removing' = NotRemoving
      /\ UNCHANGED <<row, log, files, temps, arts, faults, inputs>>
  BY DEF Crash
<1>3. TalkTypes /\ RunsOK /\ JobsOK /\ LogOK /\ StoriesOK /\ FilesOK /\ RunsAreReachable
  BY DEF TalkOK
<1>4. IsFiniteSet(back)
  <2>1. IsFiniteSet(Runs)
    <3>1. 1 \in Int /\ MaxRuns \in Int
      BY ConversationConstants
    <3>. QED  BY <3>1, FS_Interval DEF Runs
  <2>2. IsFiniteSet(kept)
    BY <2>1, FS_Subset
  <2>3. [r \in kept |-> runs[r].session] \in Surjection(kept, back)
    BY DEF Surjection
  <2>. QED  BY <2>2, <2>3, FS_Surjection
<1>5. Cardinality(back) \in Nat /\ loads \in Nat /\ loads' \in Nat /\ loads <= loads'
  BY <1>2, <1>3, <1>4, FS_CardinalityType DEF TalkTypes
<1>6. /\ object' \in [Sessions -> Nat] /\ \A s \in Sessions : object'[s] \in 0 .. loads'
      /\ \A s \in Sessions : s \in back => object'[s] \in 1 .. loads'
  <2>1. \A s \in back : o[s] \in 1 .. loads'
    BY <1>2, <1>5
  <2>. HIDE DEF back
  <2>. QED  BY <1>1, <1>5, <2>1
<1>7. \A r \in kept : r \in Runs /\ Alive(r) /\ runs[r] \in RunRow /\ runs[r].session \in back
  BY <1>2, <1>3, RunFields DEF Alive
<1>. HIDE DEF back
<1>8. \A r \in Runs : Alive(r) => runs[r] \in RunRow
  BY <1>3, RunFields DEF Alive
<1>9. \A r \in Runs : Exists(r) /\ r \in Live(runs[r].session) <=> Alive(r)
  BY DEF Live, RunsOf, Alive
<1>10. ASSUME NEW r \in kept
       PROVE  /\ runs'[r] \in RunRow /\ SameStory(r) /\ Exists(r)' /\ runs'[r].status = "waiting"
              /\ runs'[r].on = object'[runs'[r].session] /\ runs'[r].on \in 1 .. loads'
              /\ runs'[r].session = runs[r].session
  <2>1. PICK x \in RunRow : x = runs[r] /\ x.status = "waiting" /\ x.session \in back
    BY <1>2, <1>7
  <2>2. PICK n \in 1 .. loads' : n = object'[x.session]
    BY <1>6, <2>1 DEF RunRow
  <2>. DEFINE y == [x EXCEPT !.on = n]
  <2>3. runs'[r] = y
    BY <1>2, <1>7, <2>1, <2>2
  <2>4. /\ y \in RunRow /\ y.status = x.status /\ y.session = x.session /\ y.on = n
        /\ y.history = x.history /\ y.size = x.size /\ y.since = x.since /\ y.first = x.first
        /\ y.base = x.base
    BY <1>5 DEF RunRow
  <2>5. y # None /\ y # Gone /\ x # None /\ x # Gone
    BY <2>4, RowsDiffer
  <2>. HIDE DEF y
  <2>. QED  BY <1>7, <2>1, <2>2, <2>3, <2>4, <2>5 DEF SameStory, Exists
<1>11. ASSUME NEW r \in Runs \ kept, Alive(r)
       PROVE  /\ runs'[r] \in RunRow /\ SameRun(r) /\ runs'[r].status = "interrupted"
  <2>1. PICK x \in RunRow : x = runs[r]
    BY <1>8, <1>11
  <2>. DEFINE y == [x EXCEPT !.status = "interrupted"]
  <2>2. runs'[r] = y
    BY <1>2, <1>9, <1>11, <2>1
  <2>3. /\ y \in RunRow /\ y.status = "interrupted" /\ y.session = x.session /\ y.on = x.on
        /\ y.history = x.history /\ y.size = x.size /\ y.since = x.since /\ y.first = x.first
        /\ y.base = x.base
    BY DEF RunRow, Statuses
  <2>4. y # None /\ y # Gone /\ x # None /\ x # Gone
    BY <2>3, RowsDiffer
  <2>. HIDE DEF y
  <2>. QED  BY <2>1, <2>2, <2>3, <2>4 DEF SameRun, SameStory, Exists
<1>12. ASSUME NEW r \in Runs \ kept, ~Alive(r)
       PROVE  runs'[r] = runs[r] /\ SameRun(r) /\ ~Alive(r)'
  <2>1. runs'[r] = runs[r]
    BY <1>2, <1>9, <1>12
  <2>. QED  BY <1>12, <2>1 DEF SameRun, SameStory, Alive, Exists
<1>13. SameStories
  BY <1>10, <1>11, <1>12 DEF SameStories, SameRun
<1>14. \A r \in Runs : Alive(r)' => r \in kept
  BY <1>11, <1>12 DEF Alive
<1>15. NoneWakes
  BY <1>7, <1>14 DEF NoneWakes
<1>16. runs' \in [Runs -> RunRow \cup {None, Gone}]
  <2>1. \A r \in Runs : runs'[r] \in RunRow \cup {None, Gone}
    BY <1>3, <1>10, <1>11, <1>12 DEF TalkTypes
  <2>. QED  BY <1>2, <2>1
<1>17. RunsOK'
  <2>1. ASSUME NEW r \in Runs, Exists(r)'
        PROVE  row'[runs'[r].session] \notin {None, Gone} /\ runs'[r].on \in 1 .. loads'
    <3>1. Exists(r) /\ runs'[r].session = runs[r].session
      BY <1>13, <2>1 DEF SameStories, SameStory
    <3>2. HasRow(runs[r].session) /\ runs[r].on \in 1 .. loads
      BY <1>3, <3>1 DEF RunsOK
    <3>3. runs'[r].on \in 1 .. loads'
      <4>1. r \notin kept => runs'[r].on = runs[r].on
        BY <1>11, <1>12, <3>1 DEF SameRun
      <4>. QED  BY <1>5, <1>10, <3>2, <4>1
    <3>. QED  BY <1>2, <3>1, <3>2, <3>3 DEF HasRow
  <2>2. \A p, q \in Runs : Alive(p)' /\ Alive(q)' /\ runs'[p].session = runs'[q].session => p = q
    BY <1>3, <1>7, <1>10, <1>14 DEF RunsOK
  <2>3. \A p, q \in Runs : p < q /\ runs'[p] = None => runs'[q] = None
    BY <1>3, <1>13 DEF SameStories, SameStory, RunsOK
  <2>. QED  BY <1>6, <2>1, <2>2, <2>3 DEF RunsOK, HasRow
<1>18. \A w \in Workers : job'[w] = Idle /\ job'[w].pc = "idle"
  BY <1>2 DEF Idle
<1>19. JobsOK'
  BY <1>18 DEF JobsOK, Busy, Works
<1>20. LogOK'
  BY <1>2, <1>3, <1>13, <1>15, LogKept
<1>21. StoriesOK'
  <2>1. Speaks
    BY <1>2 DEF Speaks
  <2>. QED  BY <1>2, <1>3, <1>13, <2>1, StoriesKept
<1>22. RunsAreReachable'
  <2>1. ASSUME NEW r \in Runs, Exists(r)', runs'[r].status = "waiting"
        PROVE  object'[runs'[r].session] = runs'[r].on
    <3>1. Alive(r)'
      BY <2>1 DEF Alive
    <3>. QED  BY <1>10, <1>14, <3>1
  <2>. QED  BY <1>18, <2>1 DEF RunsAreReachable, Works, Exists
<1>23. FilesOK'
  <2>1. crashes' # 0 /\ removing'.pc = "none"
    BY <1>2, <1>3 DEF TalkTypes, FileTypes, NotRemoving
  <2>. QED  BY <1>2, <1>3, <1>18, <2>1 DEF FilesOK, FilesMatchRows, Holds
<1>24. TalkTypes'
  <2>1. FileTypes'
    BY <1>2, <1>3 DEF TalkTypes, FileTypes
  <2>2. job' \in [Workers -> {Idle} \cup Fetched \cup Task \cup Storing]
    BY <1>2
  <2>. QED  BY <1>2, <1>3, <1>5, <1>6, <1>16, <2>1, <2>2 DEF TalkTypes
<1>. QED  BY <1>17, <1>19, <1>20, <1>21, <1>22, <1>23, <1>24 DEF TalkOK

-----------------------------------------------------------------------------
(***************************************************************************)
(* The workbench: every step is a step of one part.                        *)
(***************************************************************************)
AllOK == CatalogOK /\ TestsOK /\ TalkOK /\ McpOK

LEMMA CatalogRests ==
  ASSUME CatalogOK, TestsOK, KeepCatalog
  PROVE  CatalogOK' /\ TestsOK'
<1>1. cfg' = cfg /\ edits' = edits /\ test' = test
  BY DEF KeepCatalog, catalogVars
<1>. QED  BY <1>1 DEF CatalogOK, TestsOK, CatalogTypeOK, Saved

LEMMA McpRests ==
  ASSUME McpOK, KeepMcp
  PROVE  McpOK'
<1>1. UNCHANGED <<client, process, link, packed, asked>>
  BY DEF KeepMcp, mcpVars
<1>. QED  BY <1>1 DEF McpOK, McpTypeOK, At

LEMMA TalkRests ==
  ASSUME TalkOK, KeepTalk
  PROVE  TalkOK'
<1>1. UNCHANGED <<row, log, runs, object, loads, job, files, temps, arts, removing, crashes, faults, inputs>>
  BY DEF KeepTalk, talkVars
<1>2. TalkTypes' /\ RunsOK' /\ JobsOK' /\ LogOK' /\ RunsAreReachable'
  BY <1>1 DEF TalkOK, TalkTypes, RunsOK, JobsOK, LogOK, RunsAreReachable,
              Alive, Busy, Works, HasRow, Exists, FileTypes
<1>3. FilesOK'
  BY <1>1, FilesKept DEF TalkOK
<1>4. StoriesOK'
  BY <1>1, RunsAlone, StoriesToo, StoriesKept DEF TalkOK, Speaks
<1>. QED  BY <1>2, <1>3, <1>4 DEF TalkOK

LEMMA ReadingMoves ==
  ASSUME TalkOK, Reading
  PROVE  TalkOK'
BY CreateSessionMoves, UpdateSessionMoves, ClearContextMoves, StopMoves DEF Reading

LEMMA ManagingMoves ==
  ASSUME TalkOK, Managing, removing = NotRemoving
  PROVE  TalkOK'
<1>. PICK s \in Sessions : CloseSession(s) \/ DeleteStart(s)
  BY DEF Managing
<1>1. CASE CloseSession(s)
  <2>1. removing.pc # "unlink" /\ removing' = NotRemoving
    BY <1>1 DEF CloseSession, NotRemoving
  <2>. QED  BY <1>1, <2>1, CloseObjectMoves DEF CloseSession
<1>. QED  BY <1>1, DeleteStartMoves

LEMMA RemovingMoves ==
  ASSUME TalkOK, Removing
  PROVE  TalkOK'
<1>1. CASE DeleteClose
  <2>1. removing \in Closing /\ removing.pc = "close"
    BY <1>1 DEF DeleteClose, TalkOK, TalkTypes, NotRemoving, Unlinking
  <2>2. removing.session \in Sessions /\ removing' \in Closing
    BY <1>1, <2>1 DEF DeleteClose, Closing
  <2>. QED  BY <1>1, <2>1, <2>2, CloseObjectMoves DEF DeleteClose
<1>. QED  BY <1>1, DeleteRefusedMoves, DeleteCommitMoves, UnlinkMoves, UnlinkEnds DEF Removing

LEMMA WorkingMoves ==
  ASSUME TalkOK, NEW w \in Workers, NEW sizes \in SUBSET Nat, Working(w, sizes)
  PROVE  TalkOK'
BY FetchMoves, StartMoves, ResumeMoves, RefusedMoves, BeginMoves, PauseMoves, FinishMoves DEF Working

LEMMA AnsweringMoves ==
  ASSUME TalkOK, NEW w \in Workers, NEW sizes \in SUBSET Nat, Answering(w, sizes)
  PROVE  TalkOK'
BY ClarifyMoves DEF Answering

LEMMA RetryingMoves ==
  ASSUME TalkOK, NEW w \in Workers, NEW sizes \in SUBSET Nat, Retrying(w, sizes)
  PROVE  TalkOK'
<1>1. CASE \E room \in 0 .. Budget : AgentStarts(w, room)
  BY <1>1, AgentStartsMoves, ConversationConstants
<1>. QED  BY <1>1, RetryMoves DEF Retrying

LEMMA KeepingMoves ==
  ASSUME TalkOK, NEW w \in Workers, Keeping(w)
  PROVE  TalkOK'
BY KeepTempMoves, TempFailsMoves, KeepFileMoves, KeepRowMoves, KeepFailsMoves DEF Keeping

LEMMA InitOK ==
  ASSUME Init
  PROVE  AllOK
<1>1. CatalogOK /\ TestsOK
  <2>. DEFINE provider == [on |-> TRUE, ref |-> "env", stamp |-> 0]
              model == [on |-> TRUE, type |-> "text", image |-> FALSE,
                        provider |-> First.provider, stamp |-> 0]
              agent == [on |-> TRUE, callable |-> FALSE, model |-> First.model, revision |-> 1]
              flow == [on |-> TRUE, kind |-> "single", code |-> First.agent,
                       review |-> None, revision |-> 1]
  <2>1. /\ First.provider \in Providers /\ First.model \in Models
        /\ First.agent \in Agents /\ First.flow \in Flows /\ MaxEdits \in Nat
    BY CatalogConstants
  <2>2. /\ cfg.provider = [p \in Providers |-> IF p # First.provider THEN None ELSE provider]
        /\ cfg.model = [m \in Models |-> IF m # First.model THEN None ELSE model]
        /\ cfg.agent = [a \in Agents |-> IF a # First.agent THEN None ELSE agent]
        /\ cfg.flow = [f \in Flows |-> IF f # First.flow THEN None ELSE flow]
        /\ cfg.default = First.flow /\ edits = 0 /\ test = [a \in Agents |-> None]
    BY DEF Init, CatalogInit
  <2>3. /\ provider \in ProviderRow /\ model \in ModelRow
        /\ agent \in AgentRow /\ flow \in FlowRow
    BY <2>1 DEF ProviderRow, ModelRow, AgentRow, FlowRow, Types, Kinds
  <2>4. /\ provider.stamp = 0 /\ agent.revision = 1 /\ flow.revision = 1 /\ flow.on = TRUE
        /\ flow.review = None /\ flow.kind = "single" /\ model.type = "text" /\ model.image = FALSE
    OBVIOUS
  <2>5. flow # None
    BY <2>3, CatalogConstants
  <2>. HIDE DEF provider, model, agent, flow
  <2>6. /\ cfg.provider \in [Providers -> ProviderRow \cup {None}]
        /\ cfg.model \in [Models -> ModelRow \cup {None}]
        /\ cfg.agent \in [Agents -> AgentRow \cup {None}]
        /\ cfg.flow \in [Flows -> FlowRow \cup {None}]
    BY <2>2, <2>3
  <2>7. cfg \in Config
    <3>1. cfg = [provider |-> cfg.provider, model |-> cfg.model, agent |-> cfg.agent,
                 flow |-> cfg.flow, default |-> cfg.default]
      BY DEF Init, CatalogInit
    <3>. QED  BY <2>1, <2>2, <2>6, <3>1 DEF Config
  <2>8. /\ cfg.flow[cfg.default] = flow
        /\ \A p \in Providers : cfg.provider[p] \in {None, provider}
        /\ \A m \in Models : cfg.model[m] \in {None, model}
        /\ \A a \in Agents : cfg.agent[a] \in {None, agent}
        /\ \A f \in Flows : cfg.flow[f] \in {None, flow}
    BY <2>1, <2>2
  <2>9. CatalogTypeOK
    <3>1. cfg.flow[cfg.default].on
      BY <2>4, <2>8
    <3>2. \A f \in Flows : Saved("flow", f) => (cfg.flow[f].review = None) = (cfg.flow[f].kind = "single")
      <4>1. \A f \in Flows : Saved("flow", f) => cfg.flow[f] = flow
        BY <2>8 DEF Saved
      <4>. QED  BY <2>4, <4>1
    <3>3. \A m \in Models : Saved("model", m) => cfg.model[m] = model
      BY <2>8 DEF Saved
    <3>4. \A m \in Models : Saved("model", m) /\ cfg.model[m].type # "embedding" =>
                            cfg.model[m].image = (cfg.model[m].type = "multimodal")
      BY <2>4, <3>3
    <3>. QED  BY <2>6, <3>1, <3>2, <3>4 DEF CatalogTypeOK
  <2>. QED  BY <2>1, <2>2, <2>4, <2>5, <2>7, <2>8, <2>9 DEF CatalogOK, TestsOK, Saved
<1>2. TalkOK
  <2>1. /\ row = [s \in Sessions |-> None] /\ log = [s \in Sessions |-> <<>>]
        /\ runs = [r \in Runs |-> None] /\ object = [s \in Sessions |-> 0] /\ loads = 0
        /\ job = [w \in Workers |-> Idle]
        /\ files = [f \in Files |-> 0] /\ temps = files /\ arts = files
        /\ removing = NotRemoving /\ crashes = 0 /\ faults = 0 /\ removing.pc = "none"
        /\ inputs = [r \in Runs |-> {}]
        /\ \A w \in Workers : job[w].pc = "idle"
    BY DEF Init, TalkInit, Idle, NotRemoving
  <2>2. ~(\E r \in Runs : Exists(r)) /\ ~(\E s \in Sessions : HasRow(s))
    BY <2>1 DEF Exists, HasRow
  <2>3. TalkTypes
    BY <2>1, ConversationConstants DEF TalkTypes, FileTypes
  <2>4. RunsOK /\ JobsOK /\ RunsAreReachable
    BY <2>1, <2>2 DEF RunsOK, JobsOK, RunsAreReachable, Alive, Busy, Works
  <2>5. LogOK
    BY <2>1, <2>2 DEF LogOK, Alive
  <2>6. FilesOK
    BY <2>1 DEF FilesOK, FilesMatchRows, Holds
  <2>7. StoriesOK
    <3>1. HistoryIsWhole /\ InputIsRecent
      BY <2>2, HistoryParts, InputParts
    <3>. QED  BY <2>1, <2>2, <3>1 DEF StoriesOK, Opened, Led, Unasked
  <2>. QED  BY <2>3, <2>4, <2>5, <2>6, <2>7 DEF TalkOK
<1>3. McpOK
  BY McpConstants DEF Init, McpInit, McpOK, McpTypeOK, Fresh, NoRequest, Clients
<1>. QED  BY <1>1, <1>2, <1>3 DEF AllOK

LEMMA SizesAreSizes == SizesUsed \in SUBSET Nat
BY ConversationConstants, LeastOf DEF SizesUsed

LEMMA NextOK ==
  ASSUME AllOK, [Next]_vars
  PROVE  AllOK'
<1>1. CatalogOK /\ TestsOK /\ TalkOK /\ McpOK
  BY DEF AllOK
<1>2. CASE Edits
  <2>1. CatalogOK' /\ TestsOK'
    <3>1. CatalogOK'
      BY <1>1, <1>2, CatalogStep DEF Edits
    <3>2. test' = test
      BY <1>2 DEF Edits, CatalogRequest, SaveProvider, SetCredential, DeleteCredential, SaveModel,
                  SaveAgent, SaveFlow, SetDefault, Put
    <3>. QED  BY <1>1, <3>1, <3>2 DEF TestsOK
  <2>. QED  BY <1>1, <1>2, <2>1, TalkRests, McpRests DEF Edits, AllOK
<1>3. CASE Tests
  <2>1. CatalogOK'
    <3>1. cfg' = cfg /\ edits' = edits
      BY <1>3 DEF Tests, Testing, TestBegin, TestEnd
    <3>. QED  BY <1>1, <3>1 DEF CatalogOK, CatalogTypeOK, Saved
  <2>. QED  BY <1>1, <1>3, <2>1, TestStep, TalkRests, McpRests DEF Tests, AllOK
<1>4. CASE Requests
  BY <1>1, <1>4, ReadingMoves, CatalogRests, McpRests DEF Requests, AllOK
<1>5. CASE Manages
  BY <1>1, <1>5, ManagingMoves, CatalogRests, McpRests DEF Manages, ReaderFree, AllOK
<1>6. CASE Removal
  BY <1>1, <1>6, RemovingMoves, CatalogRests, McpRests DEF Removal, AllOK
<1>7. CASE Crashes
  BY <1>1, <1>7, CrashMoves, CatalogRests, McpRests DEF Crashes, AllOK
<1>8. CASE Work
  <2>1. PICK w \in Workers : Working(w, SizesUsed)
    BY <1>8 DEF Work, WorkersUsed
  <2>2. TalkOK'
    BY <1>1, <2>1, SizesAreSizes, WorkingMoves
  <2>. QED  BY <1>1, <1>8, <2>2, CatalogRests, McpRests DEF Work, AllOK
<1>9. CASE Informs
  BY <1>1, <1>9, InformMoves, CatalogRests, McpRests DEF Informs, AllOK
<1>15. CASE Answers
  BY <1>1, <1>15, SizesAreSizes, AnsweringMoves, CatalogRests, McpRests DEF Answers, AllOK
<1>16. CASE Retries
  BY <1>1, <1>16, SizesAreSizes, RetryingMoves, CatalogRests, McpRests DEF Retries, AllOK
<1>10. CASE Keeps
  BY <1>1, <1>10, KeepingMoves, CatalogRests, McpRests DEF Keeps, AllOK
<1>11. CASE Mcp
  BY <1>1, <1>11, McpRequestMoves, CatalogRests, TalkRests DEF Mcp, ReaderFree, AllOK
<1>12. CASE McpGoes
  BY <1>1, <1>12, McpGoesMoves, CatalogRests, TalkRests DEF McpGoes, AllOK
<1>13. CASE Threads
  BY <1>1, <1>13, ThreadMoves, CatalogRests, TalkRests DEF Threads, AllOK
<1>14. CASE UNCHANGED vars
  <2>1. KeepCatalog /\ KeepTalk /\ KeepMcp
    BY <1>14 DEF vars, KeepCatalog, KeepTalk, KeepMcp
  <2>. QED  BY <1>1, <2>1, CatalogRests, TalkRests, McpRests DEF AllOK
<1>. QED
  BY <1>2, <1>3, <1>4, <1>5, <1>6, <1>7, <1>8, <1>9, <1>10, <1>11, <1>12, <1>13, <1>14,
     <1>15, <1>16 DEF Next

-----------------------------------------------------------------------------
(***************************************************************************)
(* The theorems.                                                           *)
(***************************************************************************)
(* The catalog, the conversations and the connections keep their parts of  *)
(* the invariant in every state that requests, worker threads, clients'    *)
(* threads and crashes can reach.                                          *)
THEOREM WorkbenchInvariant == Spec => []AllOK
<1>1. Init => AllOK
  BY InitOK
<1>2. AllOK /\ [Next]_vars => AllOK'
  BY NextOK
<1>. QED  BY <1>1, <1>2, PTL DEF Spec

(* A session has one live run at most, counted.                            *)
LEMMA OneLiveRun ==
  ASSUME RunsOK, NEW s \in Sessions
  PROVE  Cardinality(Live(s)) <= 1
<1>1. CASE Live(s) = {}
  BY <1>1, FS_EmptySet
<1>2. CASE Live(s) # {}
  <2>1. PICK r \in Live(s) : TRUE
    BY <1>2
  <2>2. \A q \in Live(s) : q = r
    BY <2>1 DEF RunsOK, Live, RunsOf, Alive
  <2>3. Live(s) = {r}
    BY <2>1, <2>2
  <2>4. Cardinality({r}) = 1
    BY FS_Singleton
  <2>. QED  BY <2>3, <2>4
<1>. QED  BY <1>1, <1>2

LEMMA TypesHold ==
  ASSUME AllOK
  PROVE  TypeOK
<1>1. CatalogOK /\ TalkTypes /\ RunsOK /\ LogOK /\ McpOK
  BY DEF AllOK, TalkOK
<1>2. \A s \in Sessions : HasRow(s) => row[s].flow \in Flows /\ row[s].boundary \in 0 .. Len(log[s])
  <2>. SUFFICES ASSUME NEW s \in Sessions, HasRow(s)
                PROVE  row[s].flow \in Flows /\ row[s].boundary \in 0 .. Len(log[s])
    OBVIOUS
  <2>1. row[s] \in SessionRow /\ log[s] \in Seq(Message)
    BY <1>1 DEF TalkTypes, HasRow
  <2>2. row[s].boundary <= Len(log[s])
    BY <1>1 DEF LogOK
  <2>. QED  BY <2>1, <2>2 DEF SessionRow
<1>3. \A r \in Runs : Exists(r) => /\ HasRow(runs[r].session) /\ runs[r].on \in 1 .. loads
                                   /\ runs[r].status \in Statuses
  <2>. SUFFICES ASSUME NEW r \in Runs, Exists(r)
                PROVE  /\ HasRow(runs[r].session) /\ runs[r].on \in 1 .. loads
                       /\ runs[r].status \in Statuses
    OBVIOUS
  <2>1. runs[r] \in RunRow
    BY <1>1 DEF TalkTypes, Exists
  <2>. QED  BY <1>1, <2>1 DEF RunsOK, RunRow
<1>4. \A s \in Sessions : object[s] \in 0 .. loads /\ Cardinality(Live(s)) <= 1
  BY <1>1, OneLiveRun DEF RunsOK
<1>5. \A kept \in {files, temps, arts} : kept \in [Files -> 0 .. MaxRuns]
  BY <1>1 DEF TalkTypes, FileTypes
<1>6. TalkTypeOK
  BY <1>2, <1>3, <1>4, <1>5 DEF TalkTypeOK
<1>. QED  BY <1>1, <1>6 DEF TypeOK, CatalogOK, McpOK

(* Rows have the types of their kinds, the default workflow is on, a run   *)
(* has a session with a row and an object that was loaded, a session has   *)
(* one live run at most, and a name is linked to a client that serves.     *)
THEOREM WorkbenchTypes == Spec => []TypeOK
BY WorkbenchInvariant, TypesHold, PTL

(* A connection test is shown as passed only for the configuration it was  *)
(* made with, whatever was saved meanwhile.  (agent_registry.py:133-150)   *)
THEOREM TestShownTheorem == Spec => []TestShownIsCurrent
<1>1. AllOK => TestShownIsCurrent
  BY DEF AllOK, TestsOK, TestShownIsCurrent, Shown
<1>. QED  BY <1>1, WorkbenchInvariant, PTL

(* What run.start freezes of its session are whole rounds of the public    *)
(* history, the newest that fit the budget, and none from before the       *)
(* context was cleared.  (records.py:551-597)                              *)
THEOREM HistoryTheorem == Spec => []HistoryIsWhole
<1>1. AllOK => HistoryIsWhole
  BY DEF AllOK, TalkOK, StoriesOK
<1>. QED  BY <1>1, WorkbenchInvariant, PTL

(* What an agent gets, and what a retry or a retry of a retry takes over,  *)
(* is the newest part, from some user's message on, of what was public     *)
(* when the first run of the chain started and not cleared by then.        *)
(* (workflow_session.py:203-207, 748-760, retry_plan.py:218-230)           *)
THEOREM InputTheorem == Spec => []InputIsRecent
<1>1. AllOK => InputIsRecent
  BY DEF AllOK, TalkOK, StoriesOK
<1>. QED  BY <1>1, WorkbenchInvariant, PTL

(* Every artifact row has its file, whatever fails or is deleted in        *)
(* between; and until a crash or a failed operation on a file, a file      *)
(* without a row is one that a worker or a deletion is at, and a .tmp file *)
(* one that a worker is at.  (records.py:627-652, 665-680)                 *)
THEOREM FilesTheorem == Spec => []FilesMatchRows
<1>1. AllOK => FilesMatchRows
  BY DEF AllOK, TalkOK, FilesOK
<1>. QED  BY <1>1, WorkbenchInvariant, PTL

(* A run that a worker executes, or that waits for an answer, belongs to   *)
(* the object the runtime holds for its session, so that run.cancel and an *)
(* answer reach it.  (runtime.py:378-399, persistence_api.py:227-231)      *)
THEOREM ReachTheorem == Spec => []RunsAreReachable
<1>1. AllOK => RunsAreReachable
  BY DEF AllOK, TalkOK
<1>. QED  BY <1>1, WorkbenchInvariant, PTL

(***************************************************************************)
(* Who ends the process of a server.                                       *)
(***************************************************************************)
(* The process of a client nobody holds is told to end, or will be by the  *)
(* handshake it is at.                                                     *)
LeavingOrTold(c) == client[c].shutdown \/ (client[c].pc = "shake" /\ client[c].closing)
DroppedServerEnds == \A c \in Clients : c \in process /\ Dropped(c) => LeavingOrTold(c)

(* A client that was begun is held or given up, and one that was given up  *)
(* while it serves has heard of it, or close() is about to tell it.        *)
Held(c)    == (\E n \in Names : link[n] = c) \/ (asked.pc # "free" /\ asked.client = c)
AtClose(c) == asked.pc = "close" /\ asked.client = c
HeardOf(c) == /\ client[c].pc # "none" => Held(c) \/ client[c].closing
              /\ client[c].pc = "serve" /\ client[c].closing => client[c].shutdown \/ AtClose(c)
              /\ asked.pc = "join" /\ asked.client = c => client[c].closing
HeardOK == /\ \A c \in Clients : HeardOf(c)
           /\ asked.pc \in {"wait", "list"} => link[asked.name] = 0

(* A step that leaves the clients' holders alone changes one client, and   *)
(* this one keeps what HeardOf says of it.                                 *)
LEMMA HeardMoves ==
  ASSUME HeardOK, NEW c \in Clients, client \in [Clients -> Client],
         NEW new, client' = [client EXCEPT ![c] = new], UNCHANGED <<link, asked>>,
         client[c].pc # "none", client[c].closing => new.closing,
         new.pc = "serve" /\ new.closing => new.shutdown \/ AtClose(c)
  PROVE  HeardOK'
BY DEF HeardOK, HeardOf, Held, AtClose

LEMMA HeardThreads ==
  ASSUME McpOK, HeardOK, McpThreads
  PROVE  HeardOK'
<1>. PICK c \in Clients : ThreadStep(c) \/ (ServerDies(c) /\ UNCHANGED <<link, packed, asked>>)
  BY DEF McpThreads
<1>1. /\ client \in [Clients -> Client] /\ client[c] \in Client
      /\ UNCHANGED <<link, asked>>
  BY DEF McpOK, McpTypeOK, Client, ThreadStep
<1>2. ASSUME NEW pc \in {"loop", "armed", "shake", "failed", "left", "ended"}, Goto(c, pc),
             client[c].pc # "none"
      PROVE  HeardOK'
  <2>. DEFINE new == [client[c] EXCEPT !.pc = pc]
  <2>1. client' = [client EXCEPT ![c] = new] /\ new.pc = pc /\ new.closing = client[c].closing
    BY <1>1, <1>2 DEF Goto, Become, Client
  <2>. QED  BY <1>1, <1>2, <2>1, HeardMoves
<1>3. CASE LoopUp(c) \/ Armed(c) \/ Spawn(c) \/ StartFails(c) \/ Leave(c) \/ Ends(c)
  BY <1>2, <1>3 DEF LoopUp, Armed, Spawn, StartFails, Leave, Ends, At
<1>4. CASE Shaken(c)
  <2>. DEFINE new == [client[c] EXCEPT !.pc = "serve", !.ready = TRUE,
                                       !.shutdown = @ \/ client[c].closing]
  <2>1. /\ client' = [client EXCEPT ![c] = new] /\ client[c].pc = "shake"
        /\ new.closing = client[c].closing /\ (new.closing => new.shutdown)
    BY <1>1, <1>4 DEF Shaken, Become, At, Client
  <2>. HIDE DEF new
  <2>. QED  BY <1>1, <2>1, HeardMoves
<1>5. CASE Report(c)
  <2>. DEFINE new == [client[c] EXCEPT !.pc = "left", !.ready = TRUE, !.error = TRUE]
  <2>1. /\ client' = [client EXCEPT ![c] = new] /\ client[c].pc = "failed"
        /\ new.closing = client[c].closing /\ new.pc = "left"
    BY <1>1, <1>5 DEF Report, Become, At, Client
  <2>. HIDE DEF new
  <2>. QED  BY <1>1, <2>1, HeardMoves
<1>6. CASE ServerDies(c)
  BY <1>1, <1>6 DEF ServerDies, HeardOK, HeardOf, Held, AtClose
<1>. QED
  BY <1>3, <1>4, <1>5, <1>6 DEF ThreadStep

LEMMA HeardRequest ==
  ASSUME McpOK, HeardOK, McpRequest, asked = NoRequest
  PROVE  HeardOK'
<1>. PICK n \in Names, package \in BOOLEAN : Connect(n, package) \/ Disconnect(n, package)
  BY DEF McpRequest
<1>1. asked.pc = "free" /\ client \in [Clients -> Client]
  BY DEF NoRequest, McpOK, McpTypeOK, Client
<1>2. CASE Connect(n, package)
  <2>. PICK c \in Clients : /\ \A b \in Clients : At(b, "none") <=> b >= c
                            /\ Goto(c, "started")
                            /\ asked' = [pc |-> "wait", client |-> c, name |-> n, package |-> package]
    BY <1>2 DEF Connect
  <2>1. /\ client'[c].pc = "started" /\ \A d \in Clients \ {c} : client'[d] = client[d]
        /\ asked'.pc = "wait" /\ asked'.client = c /\ asked'.name = n /\ link' = link /\ link[n] = 0
    BY <1>1, <1>2 DEF Goto, Become, Client, Connect
  <2>. QED  BY <1>1, <2>1 DEF HeardOK, HeardOf, Held, AtClose
<1>3. CASE Disconnect(n, package)
  <2>1. /\ asked'.pc = "close" /\ asked'.client = link[n] /\ client' = client
        /\ \A m \in Names \ {n} : link'[m] = link[m]
    BY <1>3 DEF Disconnect, McpOK, McpTypeOK
  <2>. QED  BY <1>1, <2>1 DEF HeardOK, HeardOf, Held, AtClose
<1>. QED  BY <1>2, <1>3

(* close() tells a client that serves; what it finds before that is told   *)
(* by its own handshake.                                                   *)
LEMMA HeardGoesOn ==
  ASSUME McpOK, HeardOK, McpGoesOn
  PROVE  HeardOK'
<1>. DEFINE c == asked.client
<1>1. /\ client \in [Clients -> Client] /\ asked.pc # "free" /\ c \in Clients
      /\ \A d \in Clients : ClientOK(client[d])
      /\ asked.pc = "wait" => ~client[c].closing
  BY DEF McpOK, McpTypeOK, Client, ClientOK, McpGoesOn, Ready, ConnectTimesOut, Listed, ListFails,
         CloseClient, Joined, Asked, NoRequest
<1>2. CASE Ready \/ ListFails
  <2>1. /\ asked'.client = c /\ asked'.pc # "free" /\ asked.pc # "close"
        /\ client' = client /\ link' = link /\ asked'.pc # "join"
        /\ (asked'.pc \in {"wait", "list"} => asked.pc = "wait" /\ asked'.name = asked.name)
    BY <1>2 DEF Ready, ListFails, Asked, McpOK, NoRequest
  <2>. QED  BY <1>1, <2>1 DEF HeardOK, HeardOf, Held, AtClose
<1>3. CASE ConnectTimesOut
  <2>1. /\ client' = [client EXCEPT ![c] = [client[c] EXCEPT !.closing = TRUE]]
        /\ asked'.client = c /\ asked'.pc = "close" /\ link' = link
    BY <1>3 DEF ConnectTimesOut, Become, Mine, Asked, McpOK, NoRequest
  <2>. QED  BY <1>1, <2>1 DEF HeardOK, HeardOf, Held, AtClose, Client
<1>4. CASE Listed
  <2>1. /\ asked'.pc = "free" /\ client' = client /\ asked.pc = "list" /\ asked.name \in Names
        /\ link' = [link EXCEPT ![asked.name] = c]
    BY <1>4 DEF Listed, Asked, McpOK, NoRequest
  <2>2. /\ link'[asked.name] = c /\ link[asked.name] = 0
        /\ \A n \in Names \ {asked.name} : link'[n] = link[n]
    BY <2>1 DEF HeardOK, McpOK, McpTypeOK
  <2>3. \A d \in Clients : d # 0
    BY McpConstants DEF Clients, McpConstants
  <2>. QED  BY <1>1, <2>1, <2>2, <2>3 DEF HeardOK, HeardOf, Held, AtClose
<1>5. CASE CloseClient
  <2>. DEFINE new == Close(c)
  <2>1. /\ new.closing /\ new.pc = client[c].pc
        /\ (new.pc = "serve" => new.shutdown) /\ client' = [client EXCEPT ![c] = new] /\ link' = link
    BY <1>1, <1>5 DEF CloseClient, Become, Close, Client
  <2>2. asked'.pc \in {"free", "join"} /\ (asked'.pc = "join" => asked'.client = c)
    BY <1>5 DEF CloseClient, Asked, McpOK, NoRequest
  <2>. HIDE DEF new
  <2>3. /\ client'[c] = new /\ \A d \in Clients \ {c} : client'[d] = client[d]
    BY <1>1, <2>1
  <2>. QED  BY <1>1, <2>1, <2>2, <2>3 DEF HeardOK, HeardOf, Held, AtClose
<1>6. CASE Joined
  <2>1. asked'.pc = "free" /\ asked.pc = "join" /\ client' = client /\ link' = link
    BY <1>6 DEF Joined, Asked, NoRequest
  <2>. QED  BY <1>1, <2>1 DEF HeardOK, HeardOf, Held, AtClose, McpOK
<1>. QED
  BY <1>2, <1>3, <1>4, <1>5, <1>6 DEF McpGoesOn

LEMMA HeardNext ==
  ASSUME AllOK, HeardOK, [Next]_vars
  PROVE  HeardOK'
<1>1. McpOK
  BY DEF AllOK
<1>2. CASE KeepMcp
  <2>1. UNCHANGED <<client, process, link, packed, asked>>
    BY <1>2 DEF KeepMcp, mcpVars
  <2>. QED  BY <2>1 DEF HeardOK, HeardOf, Held, AtClose
<1>3. CASE Mcp
  BY <1>1, <1>3, HeardRequest DEF Mcp, ReaderFree
<1>4. CASE McpGoes
  BY <1>1, <1>4, HeardGoesOn DEF McpGoes
<1>5. CASE Threads
  BY <1>1, <1>5, HeardThreads DEF Threads
<1>6. \/ KeepMcp \/ Mcp \/ McpGoes \/ Threads
  BY DEF Next, Edits, Tests, Requests, Manages, Removal, Crashes, Work, Informs, Answers,
              Retries, Keeps, vars, KeepMcp
<1>. QED  BY <1>2, <1>3, <1>4, <1>5, <1>6

(* The process of a server that nobody holds any more has been told to     *)
(* end, or is told when the handshake it is at is through: whatever stage  *)
(* its start was at when the connection failed, timed out or was closed,   *)
(* no process is forgotten.  (client.py:129-147)                           *)
THEOREM ReclaimedTheorem == Spec => []DroppedServerEnds
<1>1. Init => HeardOK
  BY DEF Init, McpInit, Fresh, NoRequest, HeardOK, HeardOf, Held, AtClose
<1>2. AllOK /\ AllOK' /\ HeardOK /\ [Next]_vars => HeardOK'
  BY HeardNext
<1>3. AllOK /\ HeardOK => DroppedServerEnds
  <2>. SUFFICES ASSUME AllOK, HeardOK, NEW c \in Clients, c \in process, Dropped(c)
                PROVE  LeavingOrTold(c)
    BY DEF DroppedServerEnds
  <2>1. client[c].pc \in {"shake", "serve"}
    BY DEF AllOK, McpOK
  <2>2. ~Held(c) /\ ~AtClose(c)
    BY DEF Dropped, Held, AtClose, Asked
  <2>. QED  BY <2>1, <2>2 DEF HeardOK, HeardOf, LeavingOrTold
<1>. QED  BY <1>1, <1>2, <1>3, WorkbenchInvariant, PTL DEF Spec
=============================================================================
