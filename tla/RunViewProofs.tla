--------------------------- MODULE RunViewProofs ---------------------------
(***************************************************************************)
(* The theorems about the page.  What the page shows is compared with the  *)
(* rows of the runtime, but it learns of them by notices, answers and      *)
(* snapshots that are older than the rows are; so the invariant says of    *)
(* each of these what it still has in common with the rows, and the        *)
(* reducers are treated as functions on views, apart from the actions.     *)
(***************************************************************************)
EXTENDS RunView, SequenceTheorems, WellFoundedInduction, TLAPS

-----------------------------------------------------------------------------
Statuses == {"none", "running", "waiting"} \cup Overs
TaskStatuses == {"none", "queued", "running", "waiting"} \cup Overs
Asks     == {"none", "pending", "approved", "rejected", "answered", "expired"}
InputKinds == {"approval", "decision"}
CardWords == {"none", "pending", "approved", "rejected", "expired"}
TaskRec  == [status : TaskStatuses, stamp : Nat, inferred : BOOLEAN]
Db       == [row : [Runs -> Statuses], task : [Runs -> TaskRec], ask : [Runs -> Asks],
             retry : SUBSET Runs, kind : [Runs -> InputKinds]]
Rows     == [phase : [Runs -> {"no", "new", "back", "work", "over"}],
             by : [Runs -> {0} \cup Calls], halt : SUBSET Runs]
View     == [session : (Statuses \ {"none"}) \cup {"idle"}, run : [Runs -> Statuses],
             task : [Runs -> TaskRec], card : [Runs -> [status : CardWords, resolved : BOOLEAN]],
             sending : [Runs -> [call : {0} \cup Calls, accepted : BOOLEAN]],
             stopping : SUBSET Runs, mine : [call : {0} \cup Calls, run : {0} \cup Runs],
             retrying : SUBSET Calls]

Unanswered(s) == s \in {"none", "pending"}      \* an input that is not answered

(* The rows of a run: a thread executes what is running, and what waits    *)
(* has an open input.                                                      *)
RowOK(phase, row, task, ask, kind) ==
  /\ phase # "no" <=> row = "running"
  /\ ask = "pending" <=> row = "waiting"
  /\ row = "none" => ask = "none"
  /\ phase = "over" => task.status \in {"completed", "failed"}
  /\ phase = "back" => ~Unanswered(ask)
  /\ IF kind = "approval" THEN ask # "answered" ELSE ask \notin {"approved", "rejected"}
DbOK ==
  /\ db \in Db /\ job \in Rows
  /\ \A r \in Runs : RowOK(job.phase[r], db.row[r], db.task[r], db.ask[r], db.kind[r])

(* What is said of a run, at the database d. *)
UpdateOK(u, d) ==
  /\ u \in [run : Runs, status : Statuses \ {"none"}, task : TaskStatuses, asks : BOOLEAN]
  /\ d.row[u.run] # "none"
  /\ u.asks => ~Ended(u.status) /\ d.ask[u.run] # "none"
  /\ Ended(u.status) => u.status = d.row[u.run]

RowsOK(rows, d) ==
  /\ rows \in [Runs -> Statuses]
  /\ \A r \in Runs : /\ Ended(rows[r]) => d.row[r] = rows[r]
                     /\ rows[r] # "none" => d.row[r] # "none"

SnapOK(s, d) ==
  /\ s \in Db /\ RowsOK(s.row, d)
  /\ \A r \in Runs :
       /\ s.ask[r] = d.ask[r] \/ s.ask[r] = "none" \/ (s.ask[r] = "pending" /\ d.ask[r] # "none")
       /\ Ended(s.row[r]) => s.ask[r] = d.ask[r]
       /\ s.ask[r] # "none" => s.kind[r] = d.kind[r]

EventOK(e, d) ==
  /\ e.run \in Runs /\ d.row[e.run] # "none"
  /\ e.type \in {"started", "plan", "task", "resumed", "ask", "resolved", "end"}
  /\ e.type = "task" => e.task \in TaskRec /\ e.task.status # "none"
  /\ e.type = "resumed" => ~Unanswered(d.ask[e.run])
  /\ e.type = "ask" => d.ask[e.run] # "none"
  /\ e.type = "resolved" => /\ d.kind[e.run] = "approval" /\ e.verdict = d.ask[e.run]
                            /\ ~Unanswered(e.verdict)
  /\ e.type = "end" => UpdateOK(e.update, d) /\ e.update.run = e.run /\ Ended(e.update.status)

(* The answer a call has got. *)
ReplyOK(k, d) ==
  \/ k.reply = Nothing
  \/ k.reply = Error
  \/ /\ k.reply.ok = TRUE
     /\ k.pc = "ask" /\ k.kind \in {"start", "retry", "answer"} => UpdateOK(k.reply.body, d)
     /\ k.pc = "ask" /\ k.kind = "stop" => k.reply.body \in BOOLEAN
     /\ k.pc = "ask" /\ k.kind \in {"answer", "resolve"} => ~Unanswered(d.ask[k.run])
     /\ k.pc \in {"load", "repair"} => SnapOK(k.reply.body, d)

CallRec(k) == [kind |-> k.kind, run |-> k.run, yes |-> k.yes, pc |-> k.pc, reply |-> k.reply,
               seen |-> k.seen, fresh |-> k.fresh, blamed |-> k.blamed]
CallOK(c, k, d) ==
  /\ k = CallRec(k)
  /\ k.kind \in {"none", "start", "retry", "stop", "resolve", "answer", "load"}
  /\ k.pc \in {"idle", "ask", "load", "repair", "done"}
  /\ k.run \in {0} \cup Runs /\ k.blamed \in {0} \cup Runs
  /\ k.kind \notin {"none", "load"} => c \in Calls
  /\ k.kind = "load" => k.pc # "ask"
  /\ k.kind \in {"resolve", "answer"} =>
       /\ k.run \in Runs /\ d.ask[k.run] # "none"
       /\ k.kind = "resolve" <=> d.kind[k.run] = "approval"
  /\ k.kind = "stop" => k.run \in Runs /\ d.row[k.run] # "none"
  /\ k.blamed # 0 => k.pc = "done"
  /\ ReplyOK(k, d)

CallsAre(cs) == cs = [c \in AllCalls |-> cs[c]]
CallsOK == CallsAre(call) /\ \A c \in AllCalls : CallOK(c, call[c], db)

(* The call a thread answers when it pauses or ends. *)
JobsOK == \A r \in Runs : job.by[r] # 0 =>
  \/ call[job.by[r]].kind = "start"
  \/ call[job.by[r]].kind = "answer" /\ call[job.by[r]].run = r /\ ~Unanswered(db.ask[r])

InboxOK == \A m \in inbox : /\ m \in AllCalls \X {"ask", "load", "repair"} \X {m[3]}
                            /\ m[3] = Unread \/ RowsOK(m[3], db)
UpdateType == [run : Runs, status : Statuses \ {"none"}, task : TaskStatuses, asks : BOOLEAN]
Notices == [type : {"started", "plan", "resumed", "ask"}, run : Runs]
             \cup [type : {"task"}, run : Runs, task : TaskRec]
             \cup [type : {"resolved"}, run : Runs, verdict : Asks]
             \cup [type : {"end"}, run : Runs, update : UpdateType]
EventsOK == events \in Seq(Notices) /\ \A i \in DOMAIN events : EventOK(events[i], db)

(* What the view v shows of the run r at the database d. *)
Fits(v, d, r) ==
  /\ v.run[r] # "none" => d.row[r] # "none"
  /\ v.card[r].status = "none" => ~v.card[r].resolved
  /\ v.card[r].status # "none" => d.ask[r] # "none"
  /\ v.card[r].resolved => /\ d.kind[r] = "approval" /\ ~Unanswered(d.ask[r])
                           /\ v.card[r].status = Word(d.ask[r]) /\ v.sending[r] = Free
  /\ v.card[r].status = "approved" /\ d.kind[r] = "approval" => d.ask[r] = "approved"
  /\ v.sending[r].accepted => ~Unanswered(d.ask[r])
  /\ v.sending[r].call = 0 => v.sending[r] = Free
ViewOK(v, d) == v \in View /\ \A r \in Runs : Fits(v, d, r)

(* What the page shows of a run as over is so. *)
OverAt(v, d, r) == Ended(v.run[r]) => v.run[r] = d.row[r] /\ v.card[r].status # "pending"
OverOK(v, d, B) == \A r \in Runs \ B : OverAt(v, d, r)

VInv == DbOK /\ CallsOK /\ JobsOK /\ InboxOK /\ EventsOK /\ ViewOK(view, db) /\ OverOK(view, db, Blamed)

(* What is still on its way. *)
Coming(es, type, r) == \E i \in DOMAIN es : es[i].type = type /\ es[i].run = r
EndComes == \A r \in Runs \ Blamed : Ended(db.row[r]) => view.run[r] = db.row[r] \/ Coming(events, "end", r)
AskComes == \A r \in Runs \ Blamed : db.ask[r] = "pending" =>
  \/ view.card[r].status = "pending"
  \/ view.card[r].status = "none" /\ Coming(events, "ask", r)
  \/ \E c \in Calls : call[c].kind = "answer" /\ call[c].run = r /\ call[c].pc = "ask"
VerdictComes == \A r \in Runs : db.kind[r] = "approval" /\ ~Unanswered(db.ask[r]) =>
  view.card[r].resolved \/ Coming(events, "resolved", r)
SendingEnds == \A r \in Runs : view.sending[r] # Free =>
  LET k == call[view.sending[r].call] IN
  /\ k.kind \in {"resolve", "answer"} /\ k.run = r
  /\ k.pc = "ask" \/ (k.kind = "resolve" /\ Coming(events, "resolved", r))
RetryingEnds == \A c \in view.retrying : call[c].kind = "retry" /\ call[c].pc \in {"ask", "load", "repair"}
SInv == EndComes /\ AskComes /\ VerdictComes /\ SendingEnds /\ RetryingEnds

-----------------------------------------------------------------------------
(***************************************************************************)
(* What the reducers keep.                                                 *)
(***************************************************************************)
Sound(v, d, B) == /\ ViewOK(v, d) /\ OverOK(v, d, B)
                 /\ d \in Db /\ \A r \in Runs : d.ask[r] = "pending" <=> d.row[r] = "waiting"

(* What is over stays so, as OverStaysOver says it. *)
OverKeptAt(v, w, r) == Ended(v.run[r]) =>
  /\ w.run[r] = v.run[r]
  /\ v.card[r].status # "pending" => w.card[r].status # "pending"
OverKept(v, w, B) == \A r \in Runs \ B : OverKeptAt(v, w, r)
TaskKept(t, u) == TaskOver(t.status) =>
  /\ u.status = t.status \/ (t.inferred /\ TaskOver(u.status))
  /\ u.inferred => t.inferred
TasksKept(v, w) == \A r \in Runs : TaskKept(v.task[r], w.task[r])

(* What is still asked for, resolved or being sent. *)
AskedStill(v, w, d, r) == d.ask[r] = "pending" => w.card[r].status \in {v.card[r].status, "pending"}
CalmAt(v, w, r) ==
  /\ v.card[r].resolved => w.card[r].resolved
  /\ w.sending[r] # Free => w.sending[r].call = v.sending[r].call /\ v.sending[r] # Free
Calm(v, w, d, B) ==
  /\ \A r \in Runs \ B : AskedStill(v, w, d, r)
  /\ \A r \in Runs : CalmAt(v, w, r)
  /\ w.retrying \subseteq v.retrying

(* A reducer leads from the view v to the view w. *)
Leads(v, w, d, B) == Sound(w, d, B) /\ OverKept(v, w, B) /\ Calm(v, w, d, B)

LEMMA LeadsOn ==
  ASSUME NEW u, NEW v, NEW w, NEW d, NEW B, Sound(u, d, B), Leads(u, v, d, B), Leads(v, w, d, B)
  PROVE  Leads(u, w, d, B)
<1>1. OverKept(u, w, B)
  BY DEF Leads, OverKept, OverKeptAt
<1>2. Calm(u, w, d, B)
  BY DEF Leads, Calm, CalmAt, AskedStill
<1>. QED  BY <1>1, <1>2 DEF Leads

LEMMA LeadsNowhere ==
  ASSUME NEW v, NEW d, NEW B, Sound(v, d, B)
  PROVE  Leads(v, v, d, B) /\ TasksKept(v, v)
BY DEF Leads, OverKept, OverKeptAt, Calm, CalmAt, AskedStill, TasksKept, TaskKept

LEMMA Words ==
  /\ \A a \in Asks : Word(a) \in CardWords \ {"none"}
  /\ \A a \in Asks : ~Unanswered(a) => Word(a) # "pending"
  /\ \A a \in Asks : Word(a) = "pending" <=> a = "pending"
BY DEF Word, Asks, CardWords, Unanswered

LEMMA MergeKeeps ==
  ASSUME NEW old \in TaskRec, NEW new \in TaskRec
  PROVE  Merge(old, new) \in TaskRec /\ TaskKept(old, Merge(old, new))
<1>1. Merge(old, new) \in {new, old, [status |-> new.status, inferred |-> FALSE, stamp |-> new.stamp],
                           [status |-> new.status, inferred |-> FALSE, stamp |-> old.stamp]}
  BY DEF Merge
<1>2. Merge(old, new) \in TaskRec
  <2>1. /\ [status |-> new.status, inferred |-> FALSE, stamp |-> new.stamp] \in TaskRec
        /\ [status |-> new.status, inferred |-> FALSE, stamp |-> old.stamp] \in TaskRec
    BY DEF TaskRec
  <2>. QED  BY <1>1, <2>1
<1>3. NoTask.status = "none" /\ ~TaskOver("none")
  BY DEF NoTask, TaskOver, Ended, Overs
<1>4. TaskKept(old, Merge(old, new))
  <2>. SUFFICES ASSUME TaskOver(old.status)
                PROVE  /\ \/ Merge(old, new).status = old.status
                          \/ old.inferred /\ TaskOver(Merge(old, new).status)
                       /\ Merge(old, new).inferred => old.inferred
    BY DEF TaskKept
  <2>1. old # NoTask
    BY <1>3
  <2>2. CASE Merge(old, new) = old
    BY <2>2
  <2>3. CASE Merge(old, new) # old
    <3>1. /\ new.status = old.status \/ (old.inferred /\ TaskOver(new.status))
          /\ Merge(old, new).status = new.status /\ Merge(old, new).inferred = FALSE
      BY <2>1, <2>3 DEF Merge
    <3>. QED  BY <3>1
  <2>. QED  BY <2>2, <2>3
<1>. QED  BY <1>2, <1>4

LEMMA TasksKeptOn ==
  ASSUME NEW u, NEW v, NEW w, TasksKept(u, v), TasksKept(v, w)
  PROVE  TasksKept(u, w)
BY DEF TasksKept, TaskKept

LEMMA InferKeeps ==
  ASSUME NEW t \in TaskRec, NEW s \in Statuses
  PROVE  /\ Infer(t, s) \in TaskRec
         /\ TaskOver(t.status) => Infer(t, s) = t
<1>1. s \in TaskStatuses
  BY DEF Statuses, TaskStatuses
<1>. QED  BY <1>1 DEF Infer, TaskRec

(* A set of runs has a latest one. *)
LEMMA LatestRun ==
  ASSUME NEW S \in SUBSET Runs, S # {}
  PROVE  (CHOOSE r \in S : \A q \in S : q <= r) \in S
<1>1. NRuns \in Nat
  BY ViewConstantsOK
<1>. DEFINE T == {i \in 0 .. NRuns : NRuns - i \in S}
<1>2. T \in SUBSET Nat /\ T # {}
  <2>1. PICK y \in S : TRUE
    OBVIOUS
  <2>2. NRuns - y \in 0 .. NRuns /\ NRuns - (NRuns - y) = y
    BY <1>1 DEF Runs
  <2>3. NRuns - y \in T
    BY <2>2
  <2>4. T \subseteq 0 .. NRuns
    OBVIOUS
  <2>. HIDE DEF T
  <2>5. T \subseteq Nat
    BY <2>4, <1>1
  <2>. QED  BY <2>3, <2>5
<1>3. PICK t \in T : \A u \in T : ~(<<u, t>> \in OpToRel(<, Nat))
  BY <1>2, NatLessThanWellFounded, WFMin
<1>4. \A u \in T : ~(u < t)
  BY <1>2, <1>3, Zenon DEF OpToRel
<1>5. NRuns - t \in S /\ t \in 0 .. NRuns
  OBVIOUS
<1>6. ASSUME NEW y \in S PROVE y <= NRuns - t
  <2>1. y \in 1 .. NRuns /\ NRuns - y \in 0 .. NRuns /\ NRuns - (NRuns - y) = y
    BY <1>1 DEF Runs
  <2>2. NRuns - y \in T
    BY <2>1
  <2>3. ~(NRuns - y < t)
    BY <1>4, <2>2
  <2>. HIDE DEF T
  <2>. QED  BY <1>1, <1>5, <2>1, <2>3
<1>. HIDE DEF T
<1>7. \E r \in S : \A q \in S : q <= r
  BY <1>5, <1>6
<1>. QED  BY <1>7

-----------------------------------------------------------------------------
(* A reducer that only touches what is shown of one run. *)
SameShown(v, w, r) ==
  w.run[r] = v.run[r] /\ w.card[r] = v.card[r] /\ w.sending[r] = v.sending[r]

LEMMA SameShownLeads ==
  ASSUME NEW v, NEW w, NEW d, NEW r \in Runs, SameShown(v, w, r)
  PROVE  /\ Fits(v, d, r) => Fits(w, d, r)
         /\ OverAt(v, d, r) => OverAt(w, d, r)
         /\ OverKeptAt(v, w, r) /\ AskedStill(v, w, d, r) /\ CalmAt(v, w, r)
<1>1. w.run[r] = v.run[r] /\ w.card[r] = v.card[r] /\ w.sending[r] = v.sending[r]
  BY DEF SameShown
<1>2. Fits(v, d, r) => Fits(w, d, r)
  BY <1>1 DEF Fits
<1>3. OverAt(v, d, r) => OverAt(w, d, r)
  BY <1>1 DEF OverAt
<1>4. OverKeptAt(v, w, r) /\ AskedStill(v, w, d, r) /\ CalmAt(v, w, r)
  BY <1>1 DEF OverKeptAt, AskedStill, CalmAt
<1>. QED  BY <1>2, <1>3, <1>4

LEMMA OneRun ==
  ASSUME NEW v, NEW w, NEW d, NEW B, NEW r \in Runs, Sound(v, d, B), w \in View,
         \A q \in Runs \ {r} : SameShown(v, w, q), w.retrying \subseteq v.retrying,
         Fits(w, d, r), r \notin B => OverAt(w, d, r) /\ OverKeptAt(v, w, r) /\ AskedStill(v, w, d, r),
         CalmAt(v, w, r)
  PROVE  Leads(v, w, d, B)
<1>1. \A q \in Runs : Fits(v, d, q)
  BY DEF Sound, ViewOK
<1>2. \A q \in Runs \ B : OverAt(v, d, q)
  BY DEF Sound, OverOK
<1>3. \A q \in Runs : Fits(w, d, q) /\ CalmAt(v, w, q)
  BY <1>1, SameShownLeads
<1>4. \A q \in Runs \ B : OverAt(w, d, q) /\ OverKeptAt(v, w, q) /\ AskedStill(v, w, d, q)
  BY <1>2, SameShownLeads
<1>5. Sound(w, d, B)
  BY <1>3, <1>4 DEF Sound, ViewOK, OverOK
<1>. QED  BY <1>3, <1>4, <1>5 DEF Leads, OverKept, Calm

LEMMA ManyRuns ==
  ASSUME NEW v, NEW w, NEW d, NEW B, Sound(v, d, B), w \in View, w.retrying \subseteq v.retrying,
         \A r \in Runs : Fits(w, d, r) /\ CalmAt(v, w, r),
         \A r \in Runs \ B : OverAt(w, d, r) /\ OverKeptAt(v, w, r) /\ AskedStill(v, w, d, r)
  PROVE  Leads(v, w, d, B)
<1>1. Sound(w, d, B)
  BY DEF Sound, ViewOK, OverOK
<1>. QED  BY <1>1 DEF Leads, OverKept, Calm

(* The parts of a view. *)
LEMMA ViewParts ==
  ASSUME NEW v \in View
  PROVE  /\ v.session \in (Statuses \ {"none"}) \cup {"idle"} /\ v.run \in [Runs -> Statuses]
         /\ v.task \in [Runs -> TaskRec] /\ v.card \in [Runs -> [status : CardWords, resolved : BOOLEAN]]
         /\ v.sending \in [Runs -> [call : {0} \cup Calls, accepted : BOOLEAN]]
         /\ v.stopping \in SUBSET Runs /\ v.mine \in [call : {0} \cup Calls, run : {0} \cup Runs]
         /\ v.retrying \in SUBSET Calls
BY DEF View

LEMMA NoneTypes ==
  /\ NoTask \in TaskRec /\ NoCard \in [status : CardWords, resolved : BOOLEAN]
  /\ Free \in [call : {0} \cup Calls, accepted : BOOLEAN] /\ NoRequest \in [call : {0} \cup Calls, run : {0} \cup Runs]
  /\ Overs \subseteq Statuses \ {"none"} /\ Statuses \subseteq TaskStatuses
  /\ NoCard.status = "none" /\ NoCard.resolved = FALSE /\ Free.call = 0 /\ Free.accepted = FALSE
BY DEF NoTask, NoCard, Free, NoRequest, TaskRec, CardWords, Statuses, TaskStatuses, Overs

(* A view with one of its fields changed. *)
WithRun(v, r, x)     == [v EXCEPT !.run[r] = x]
WithTask(v, r, x)    == [v EXCEPT !.task[r] = x]
WithCard(v, r, x)    == [v EXCEPT !.card[r] = x]
WithSending(v, r, x) == [v EXCEPT !.sending[r] = x]
WithSession(v, x)    == [v EXCEPT !.session = x]
WithMine(v, x)       == [v EXCEPT !.mine = x]
WithStopping(v, x)   == [v EXCEPT !.stopping = x]
WithRetrying(v, x)   == [v EXCEPT !.retrying = x]

Sessions == (Statuses \ {"none"}) \cup {"idle"}
CardRec  == [status : CardWords, resolved : BOOLEAN]
Sent     == [call : {0} \cup Calls, accepted : BOOLEAN]
Mine     == [call : {0} \cup Calls, run : {0} \cup Runs]

LEMMA CardChanged ==
  ASSUME NEW v \in View, NEW r \in Runs, NEW x \in CardRec
  PROVE  LET w == WithCard(v, r, x) IN
         /\ w \in View
         /\ w.run = v.run /\ w.task = v.task /\ w.sending = v.sending /\ w.retrying = v.retrying
         /\ w.stopping = v.stopping /\ w.mine = v.mine /\ w.session = v.session
         /\ w.card[r] = x /\ \A q \in Runs \ {r} : w.card[q] = v.card[q]
<1>. DEFINE w == WithCard(v, r, x)
<1>1. /\ w.run = v.run /\ w.task = v.task /\ w.sending = v.sending /\ w.retrying = v.retrying
      /\ w.stopping = v.stopping /\ w.mine = v.mine /\ w.session = v.session
  BY DEF View, WithCard
<1>2. w.card = [v.card EXCEPT ![r] = x]
  BY DEF View, WithCard
<1>3. w \in View
  BY DEF View, WithCard, CardRec
<1>4. v.card \in [Runs -> CardRec]
  BY ViewParts DEF CardRec
<1>. HIDE DEF w
<1>5. w.card[r] = x /\ \A q \in Runs \ {r} : w.card[q] = v.card[q]
  BY <1>2, <1>4
<1>. QED  BY <1>1, <1>3, <1>5 DEF w

LEMMA SendingChanged ==
  ASSUME NEW v \in View, NEW r \in Runs, NEW x \in Sent
  PROVE  LET w == WithSending(v, r, x) IN
         /\ w \in View
         /\ w.run = v.run /\ w.task = v.task /\ w.card = v.card /\ w.retrying = v.retrying
         /\ w.stopping = v.stopping /\ w.mine = v.mine /\ w.session = v.session
         /\ w.sending[r] = x /\ \A q \in Runs \ {r} : w.sending[q] = v.sending[q]
<1>. DEFINE w == WithSending(v, r, x)
<1>1. /\ w.run = v.run /\ w.task = v.task /\ w.card = v.card /\ w.retrying = v.retrying
      /\ w.stopping = v.stopping /\ w.mine = v.mine /\ w.session = v.session
  BY DEF View, WithSending
<1>2. w.sending = [v.sending EXCEPT ![r] = x]
  BY DEF View, WithSending
<1>3. w \in View
  BY DEF View, WithSending, Sent
<1>4. v.sending \in [Runs -> Sent]
  BY ViewParts DEF Sent
<1>. HIDE DEF w
<1>5. w.sending[r] = x /\ \A q \in Runs \ {r} : w.sending[q] = v.sending[q]
  BY <1>2, <1>4
<1>. QED  BY <1>1, <1>3, <1>5 DEF w

LEMMA RunChanged ==
  ASSUME NEW v \in View, NEW r \in Runs, NEW x \in Statuses
  PROVE  LET w == WithRun(v, r, x) IN
         /\ w \in View
         /\ w.task = v.task /\ w.card = v.card /\ w.sending = v.sending /\ w.retrying = v.retrying
         /\ w.stopping = v.stopping /\ w.mine = v.mine /\ w.session = v.session
         /\ w.run[r] = x /\ \A q \in Runs \ {r} : w.run[q] = v.run[q]
<1>. DEFINE w == WithRun(v, r, x)
<1>1. /\ w.task = v.task /\ w.card = v.card /\ w.sending = v.sending /\ w.retrying = v.retrying
      /\ w.stopping = v.stopping /\ w.mine = v.mine /\ w.session = v.session
  BY DEF View, WithRun
<1>2. w.run = [v.run EXCEPT ![r] = x]
  BY DEF View, WithRun
<1>3. w \in View
  BY DEF View, WithRun
<1>4. v.run \in [Runs -> Statuses]
  BY ViewParts
<1>. HIDE DEF w
<1>5. w.run[r] = x /\ \A q \in Runs \ {r} : w.run[q] = v.run[q]
  BY <1>2, <1>4
<1>. QED  BY <1>1, <1>3, <1>5 DEF w

LEMMA TaskChanged ==
  ASSUME NEW v \in View, NEW r \in Runs, NEW x \in TaskRec
  PROVE  LET w == WithTask(v, r, x) IN
         /\ w \in View
         /\ w.run = v.run /\ w.card = v.card /\ w.sending = v.sending /\ w.retrying = v.retrying
         /\ w.stopping = v.stopping /\ w.mine = v.mine /\ w.session = v.session
         /\ w.task[r] = x /\ \A q \in Runs \ {r} : w.task[q] = v.task[q]
<1>. DEFINE w == WithTask(v, r, x)
<1>1. /\ w.run = v.run /\ w.card = v.card /\ w.sending = v.sending /\ w.retrying = v.retrying
      /\ w.stopping = v.stopping /\ w.mine = v.mine /\ w.session = v.session
  BY DEF View, WithTask
<1>2. w.task = [v.task EXCEPT ![r] = x]
  BY DEF View, WithTask
<1>3. w \in View
  BY DEF View, WithTask
<1>4. v.task \in [Runs -> TaskRec]
  BY ViewParts
<1>. HIDE DEF w
<1>5. w.task[r] = x /\ \A q \in Runs \ {r} : w.task[q] = v.task[q]
  BY <1>2, <1>4
<1>. QED  BY <1>1, <1>3, <1>5 DEF w

(* What is shown of the runs. *)
Shown(v) == <<v.run, v.task, v.card, v.sending>>

LEMMA AsideChanged ==
  ASSUME NEW v \in View
  PROVE  /\ \A x \in Sessions :
              /\ WithSession(v, x) \in View /\ Shown(WithSession(v, x)) = Shown(v) /\ WithSession(v, x).session = x
              /\ WithSession(v, x).retrying = v.retrying /\ WithSession(v, x).stopping = v.stopping /\ WithSession(v, x).mine = v.mine
         /\ \A x \in Mine :
              /\ WithMine(v, x) \in View /\ Shown(WithMine(v, x)) = Shown(v) /\ WithMine(v, x).mine = x
              /\ WithMine(v, x).retrying = v.retrying /\ WithMine(v, x).stopping = v.stopping /\ WithMine(v, x).session = v.session
         /\ \A x \in SUBSET Runs :
              /\ WithStopping(v, x) \in View /\ Shown(WithStopping(v, x)) = Shown(v) /\ WithStopping(v, x).stopping = x
              /\ WithStopping(v, x).retrying = v.retrying /\ WithStopping(v, x).mine = v.mine /\ WithStopping(v, x).session = v.session
         /\ \A x \in SUBSET Calls :
              /\ WithRetrying(v, x) \in View /\ Shown(WithRetrying(v, x)) = Shown(v) /\ WithRetrying(v, x).retrying = x
              /\ WithRetrying(v, x).stopping = v.stopping /\ WithRetrying(v, x).mine = v.mine /\ WithRetrying(v, x).session = v.session
<1>1. ASSUME NEW x \in Sessions
      PROVE  /\ WithSession(v, x) \in View /\ Shown(WithSession(v, x)) = Shown(v) /\ WithSession(v, x).session = x
             /\ WithSession(v, x).retrying = v.retrying /\ WithSession(v, x).stopping = v.stopping /\ WithSession(v, x).mine = v.mine
  BY DEF View, Shown, WithSession, Sessions
<1>2. ASSUME NEW x \in Mine
      PROVE  /\ WithMine(v, x) \in View /\ Shown(WithMine(v, x)) = Shown(v) /\ WithMine(v, x).mine = x
             /\ WithMine(v, x).retrying = v.retrying /\ WithMine(v, x).stopping = v.stopping /\ WithMine(v, x).session = v.session
  BY DEF View, Shown, WithMine, Mine
<1>3. ASSUME NEW x \in SUBSET Runs
      PROVE  /\ WithStopping(v, x) \in View /\ Shown(WithStopping(v, x)) = Shown(v) /\ WithStopping(v, x).stopping = x
             /\ WithStopping(v, x).retrying = v.retrying /\ WithStopping(v, x).mine = v.mine /\ WithStopping(v, x).session = v.session
  BY DEF View, Shown, WithStopping
<1>4. ASSUME NEW x \in SUBSET Calls
      PROVE  /\ WithRetrying(v, x) \in View /\ Shown(WithRetrying(v, x)) = Shown(v) /\ WithRetrying(v, x).retrying = x
             /\ WithRetrying(v, x).stopping = v.stopping /\ WithRetrying(v, x).mine = v.mine /\ WithRetrying(v, x).session = v.session
  BY DEF View, Shown, WithRetrying
<1>. QED  BY <1>1, <1>2, <1>3, <1>4

LEMMA ShownLeads ==
  ASSUME NEW v, NEW w, NEW d, NEW B, Sound(v, d, B), w \in View, Shown(w) = Shown(v),
         w.retrying \subseteq v.retrying
  PROVE  Leads(v, w, d, B) /\ TasksKept(v, w)
<1>1. w.run = v.run /\ w.task = v.task /\ w.card = v.card /\ w.sending = v.sending
  BY DEF Shown
<1>2. \A r \in Runs : SameShown(v, w, r)
  BY <1>1 DEF SameShown
<1>3. \A r \in Runs : Fits(w, d, r) /\ CalmAt(v, w, r)
  BY <1>2, SameShownLeads DEF Sound, ViewOK
<1>4. \A r \in Runs \ B : OverAt(w, d, r) /\ OverKeptAt(v, w, r) /\ AskedStill(v, w, d, r)
  BY <1>2, SameShownLeads DEF Sound, OverOK
<1>. QED  BY <1>1, <1>3, <1>4, ManyRuns DEF TasksKept, TaskKept

LEMMA AddCardLeads ==
  ASSUME NEW v, NEW d, NEW B, Sound(v, d, B), NEW r \in Runs, d.ask[r] # "none"
  PROVE  /\ Leads(v, AddCard(v, r), d, B) /\ AddCard(v, r).task = v.task /\ AddCard(v, r).run = v.run
         /\ ~Ended(v.run[r]) /\ v.card[r].status \in {"none", "pending"} =>
              AddCard(v, r).card[r].status = "pending"
<1>. DEFINE w == AddCard(v, r)
            x == [status |-> "pending", resolved |-> FALSE]
<1>1. v \in View /\ Fits(v, d, r)
  BY DEF Sound, ViewOK
<1>2. CASE v.card[r] # NoCard \/ Ended(v.run[r])
  <2>1. w = v
    BY <1>2 DEF AddCard
  <2>2. v.card[r] \in CardRec
    BY <1>1, ViewParts DEF CardRec
  <2>3. v.card[r].status = "none" => v.card[r] = NoCard
    BY <1>1, <2>2 DEF Fits, CardRec, NoCard
  <2>4. w.task = v.task /\ w.run = v.run /\ w.card = v.card
    BY <2>1
  <2>5. Leads(v, w, d, B)
    BY <2>1, LeadsNowhere
  <2>6. ~Ended(v.run[r]) /\ v.card[r].status \in {"none", "pending"} => w.card[r].status = "pending"
    BY <1>2, <2>3, <2>4
  <2>. HIDE DEF w
  <2>. QED  BY <2>4, <2>5, <2>6 DEF w
<1>3. CASE v.card[r] = NoCard /\ ~Ended(v.run[r])
  <2>1. w = WithCard(v, r, x)
    BY <1>3 DEF AddCard, WithCard
  <2>2. x \in CardRec /\ x.status = "pending" /\ x.resolved = FALSE
    BY DEF CardRec, CardWords
  <2>. HIDE DEF w, x
  <2>3. /\ w \in View
        /\ w.run = v.run /\ w.task = v.task /\ w.sending = v.sending /\ w.retrying = v.retrying
        /\ w.card[r] = x /\ \A q \in Runs \ {r} : w.card[q] = v.card[q]
    BY <1>1, <2>1, <2>2, CardChanged
  <2>4. \A q \in Runs \ {r} : SameShown(v, w, q)
    BY <2>3 DEF SameShown
  <2>5. Fits(w, d, r)
    BY <1>1, <2>2, <2>3 DEF Fits
  <2>6. OverAt(w, d, r) /\ OverKeptAt(v, w, r) /\ AskedStill(v, w, d, r) /\ CalmAt(v, w, r)
    BY <1>3, <2>2, <2>3, NoneTypes DEF OverAt, OverKeptAt, AskedStill, CalmAt
  <2>7. Leads(v, w, d, B)
    BY <2>3, <2>4, <2>5, <2>6, OneRun
  <2>. QED  BY <2>2, <2>3, <2>7 DEF w
<1>. QED  BY <1>2, <1>3

LEMMA ResolveLeads ==
  ASSUME NEW v, NEW d, NEW B, Sound(v, d, B), NEW r \in Runs, d.kind[r] = "approval",
         d.ask[r] \in Asks, ~Unanswered(d.ask[r])
  PROVE  /\ Leads(v, Resolve(v, r, d.ask[r]), d, B)
         /\ Resolve(v, r, d.ask[r]).task = v.task /\ Resolve(v, r, d.ask[r]).run = v.run
         /\ Resolve(v, r, d.ask[r]).card[r].resolved
         /\ Resolve(v, r, d.ask[r]).sending[r] = Free
<1>. DEFINE w == Resolve(v, r, d.ask[r])
            x == [status |-> Word(d.ask[r]), resolved |-> TRUE]
            w1 == WithCard(v, r, x)
<1>1. v \in View /\ Fits(v, d, r)
  BY DEF Sound, ViewOK
<1>2. CASE v.card[r].resolved
  <2>1. w = v /\ v.sending[r] = Free
    BY <1>1, <1>2 DEF Resolve, Fits
  <2>. HIDE DEF w
  <2>2. Leads(v, w, d, B) /\ w.task = v.task /\ w.run = v.run /\ w.card[r].resolved /\ w.sending[r] = Free
    BY <1>2, <2>1, LeadsNowhere
  <2>. QED  BY <2>2 DEF w
<1>3. CASE ~v.card[r].resolved
  <2>1. w = WithSending(w1, r, Free)
    BY <1>3 DEF Resolve, WithCard, WithSending
  <2>2. x \in CardRec /\ x.status = Word(d.ask[r]) /\ x.resolved = TRUE
    BY Words DEF CardRec
  <2>. HIDE DEF w, x
  <2>3. /\ w1 \in View
        /\ w1.run = v.run /\ w1.task = v.task /\ w1.sending = v.sending /\ w1.retrying = v.retrying
        /\ w1.card[r] = x /\ \A q \in Runs \ {r} : w1.card[q] = v.card[q]
    BY <1>1, <2>2, CardChanged
  <2>. HIDE DEF w1
  <2>4. Free \in Sent
    BY NoneTypes DEF Sent
  <2>5. /\ w \in View
        /\ w.run = w1.run /\ w.task = w1.task /\ w.card = w1.card /\ w.retrying = w1.retrying
        /\ w.sending[r] = Free /\ \A q \in Runs \ {r} : w.sending[q] = w1.sending[q]
    BY <2>1, <2>3, <2>4, SendingChanged
  <2>6. \A q \in Runs \ {r} : SameShown(v, w, q)
    BY <2>3, <2>5 DEF SameShown
  <2>7. /\ w.run[r] = v.run[r] /\ w.card[r].status = Word(d.ask[r]) /\ w.card[r].resolved = TRUE
        /\ w.sending[r] = Free
    BY <2>2, <2>3, <2>5
  <2>8. Fits(w, d, r)
    <3>1. /\ Word(d.ask[r]) # "none" /\ (Word(d.ask[r]) = "approved" => d.ask[r] = "approved")
          /\ d.ask[r] # "none"
      BY Words DEF Word, Unanswered
    <3>. QED  BY <1>1, <2>7, <3>1, NoneTypes DEF Fits
  <2>9. (OverAt(v, d, r) => OverAt(w, d, r)) /\ OverKeptAt(v, w, r) /\ AskedStill(v, w, d, r) /\ CalmAt(v, w, r)
    <3>1. Word(d.ask[r]) # "pending" /\ d.ask[r] # "pending"
      BY Words DEF Unanswered
    <3>2. OverAt(v, d, r) => OverAt(w, d, r)
      BY <2>7, <3>1 DEF OverAt
    <3>3. OverKeptAt(v, w, r) /\ AskedStill(v, w, d, r) /\ CalmAt(v, w, r)
      BY <2>7, <3>1 DEF OverKeptAt, AskedStill, CalmAt
    <3>. QED  BY <3>2, <3>3
  <2>10. r \notin B => OverAt(v, d, r)
    BY DEF Sound, OverOK
  <2>11. Leads(v, w, d, B)
    BY <2>3, <2>5, <2>6, <2>8, <2>9, <2>10, OneRun
  <2>. QED  BY <2>3, <2>5, <2>7, <2>11 DEF w
<1>. QED  BY <1>2, <1>3

LEMMA CloseRunParts ==
  ASSUME NEW v \in View, NEW r \in Runs, NEW s \in Overs
  PROVE  LET w == CloseRun(v, r, s) IN
         /\ w \in View /\ w.run = v.run /\ w.retrying = v.retrying /\ w.session = v.session
         /\ w.task[r] = Infer(v.task[r], s) /\ \A q \in Runs \ {r} : w.task[q] = v.task[q]
         /\ w.card[r].status = (IF v.card[r].status = "pending" THEN "expired" ELSE v.card[r].status)
         /\ w.card[r].resolved = v.card[r].resolved /\ \A q \in Runs \ {r} : w.card[q] = v.card[q]
         /\ w.sending[r] = Free /\ \A q \in Runs \ {r} : w.sending[q] = v.sending[q]
<1>. DEFINE mine == IF v.mine.run = r THEN NoRequest ELSE v.mine
            card == [v.card[r] EXCEPT !.status = IF @ = "pending" THEN "expired" ELSE @]
            w1 == WithMine(v, mine)
            w2 == WithStopping(w1, v.stopping \ {r})
            w3 == WithCard(w2, r, card)
            w4 == WithSending(w3, r, Free)
            w5 == WithTask(w4, r, Infer(v.task[r], s))
            w  == CloseRun(v, r, s)
<1>1. /\ mine \in Mine /\ v.stopping \ {r} \in SUBSET Runs /\ card \in CardRec
      /\ Free \in Sent /\ Infer(v.task[r], s) \in TaskRec
      /\ card.status = (IF v.card[r].status = "pending" THEN "expired" ELSE v.card[r].status)
      /\ card.resolved = v.card[r].resolved
  <2>1. mine \in Mine /\ v.stopping \ {r} \in SUBSET Runs /\ Free \in Sent
    BY ViewParts, NoneTypes DEF Mine, Sent
  <2>2. v.card[r] \in CardRec
    BY ViewParts DEF CardRec
  <2>3. card \in CardRec /\ card.resolved = v.card[r].resolved
        /\ card.status = (IF v.card[r].status = "pending" THEN "expired" ELSE v.card[r].status)
    BY <2>2 DEF CardRec, CardWords
  <2>4. v.task[r] \in TaskRec /\ s \in Statuses
    BY ViewParts, NoneTypes
  <2>. QED  BY <2>1, <2>3, <2>4, InferKeeps
<1>2. w = w5
  BY DEF View, CloseRun, WithMine, WithStopping, WithCard, WithSending, WithTask
<1>. HIDE DEF mine, card, w
<1>3. w1 \in View /\ Shown(w1) = Shown(v) /\ w1.retrying = v.retrying /\ w1.stopping = v.stopping /\ w1.session = v.session
  BY <1>1, AsideChanged
<1>. HIDE DEF w1
<1>4. w2 \in View /\ Shown(w2) = Shown(w1) /\ w2.retrying = w1.retrying /\ w2.session = w1.session
  BY <1>1, <1>3, AsideChanged
<1>. HIDE DEF w2
<1>5. /\ w3 \in View /\ w3.run = w2.run /\ w3.task = w2.task /\ w3.sending = w2.sending
      /\ w3.retrying = w2.retrying /\ w3.session = w2.session
      /\ w3.card[r] = card /\ \A q \in Runs \ {r} : w3.card[q] = w2.card[q]
  BY <1>1, <1>4, CardChanged
<1>. HIDE DEF w3
<1>6. /\ w4 \in View /\ w4.run = w3.run /\ w4.task = w3.task /\ w4.card = w3.card
      /\ w4.retrying = w3.retrying /\ w4.session = w3.session
      /\ w4.sending[r] = Free /\ \A q \in Runs \ {r} : w4.sending[q] = w3.sending[q]
  BY <1>1, <1>5, SendingChanged
<1>. HIDE DEF w4
<1>7. /\ w5 \in View /\ w5.run = w4.run /\ w5.sending = w4.sending /\ w5.card = w4.card
      /\ w5.retrying = w4.retrying /\ w5.session = w4.session
      /\ w5.task[r] = Infer(v.task[r], s) /\ \A q \in Runs \ {r} : w5.task[q] = w4.task[q]
  BY <1>1, <1>6, TaskChanged
<1>. HIDE DEF w5
<1>8. w2.run = v.run /\ w2.task = v.task /\ w2.card = v.card /\ w2.sending = v.sending
  BY <1>3, <1>4 DEF Shown
<1>9. /\ w \in View /\ w.run = v.run /\ w.retrying = v.retrying /\ w.session = v.session
      /\ w.task[r] = Infer(v.task[r], s) /\ w.card[r] = card /\ w.sending[r] = Free
  BY <1>2, <1>3, <1>4, <1>5, <1>6, <1>7, <1>8
<1>10. \A q \in Runs \ {r} : w.task[q] = v.task[q] /\ w.card[q] = v.card[q] /\ w.sending[q] = v.sending[q]
  BY <1>2, <1>5, <1>6, <1>7, <1>8
<1>. QED  BY <1>1, <1>9, <1>10 DEF w

(* applyUpdate before it closes the run or adds its card. *)
TaskOf(v, u)  == IF u.task = "none" THEN v.task[u.run] ELSE Merge(v.task[u.run], Report(u.task, 0))
Updated(v, u) == WithTask(WithRun(v, u.run, u.status), u.run, TaskOf(v, u))
Answers(v, u) == IF Last(Updated(v, u)) = u.run THEN WithSession(Updated(v, u), u.status) ELSE Updated(v, u)

LEMMA ApplyUpdateIs ==
  ASSUME NEW v \in View, NEW u \in UpdateType
  PROVE  ApplyUpdate(v, u) = IF Ended(v.run[u.run]) /\ v.run[u.run] # u.status THEN v
                             ELSE IF Ended(u.status) THEN CloseRun(Answers(v, u), u.run, u.status)
                             ELSE IF u.asks THEN AddCard(Answers(v, u), u.run) ELSE Answers(v, u)
<1>. DEFINE v1 == [v EXCEPT !.run[u.run] = u.status,
                            !.task[u.run] = IF u.task = "none" THEN @ ELSE Merge(@, Report(u.task, 0))]
<1>1. v1 = Updated(v, u)
  BY DEF View, Updated, WithRun, WithTask, TaskOf
<1>2. (IF Last(v1) = u.run THEN [v1 EXCEPT !.session = u.status] ELSE v1) = Answers(v, u)
  BY <1>1, Zenon DEF Answers, WithSession
<1>3. ApplyUpdate(v, u) =
         LET v2 == IF Last(v1) = u.run THEN [v1 EXCEPT !.session = u.status] ELSE v1
         IN  IF Ended(v.run[u.run]) /\ v.run[u.run] # u.status THEN v
             ELSE IF Ended(u.status) THEN CloseRun(v2, u.run, u.status)
             ELSE IF u.asks THEN AddCard(v2, u.run) ELSE v2
  BY Zenon DEF ApplyUpdate
<1>. HIDE DEF v1
<1>. QED  BY <1>2, <1>3, Zenon

LEMMA AnswersParts ==
  ASSUME NEW v \in View, NEW u \in UpdateType
  PROVE  LET w == Answers(v, u)
             r == u.run
         IN  /\ w \in View /\ w.card = v.card /\ w.sending = v.sending /\ w.retrying = v.retrying
             /\ w.run[r] = u.status /\ \A q \in Runs \ {r} : w.run[q] = v.run[q]
             /\ w.task[r] = TaskOf(v, u) /\ \A q \in Runs \ {r} : w.task[q] = v.task[q]
             /\ TaskOf(v, u) \in TaskRec /\ TaskKept(v.task[r], TaskOf(v, u))
<1>. DEFINE r == u.run
            w1 == WithRun(v, r, u.status)
            w2 == WithTask(w1, r, TaskOf(v, u))
            w  == Answers(v, u)
<1>1. r \in Runs /\ u.status \in Statuses /\ u.status \in Sessions /\ u.task \in TaskStatuses
  BY DEF UpdateType, Sessions
<1>2. TaskOf(v, u) \in TaskRec /\ TaskKept(v.task[r], TaskOf(v, u))
  <2>1. v.task[r] \in TaskRec
    BY <1>1, ViewParts
  <2>2. Report(u.task, 0) \in TaskRec
    BY <1>1 DEF Report, TaskRec
  <2>3. TaskOf(v, u) \in {v.task[r], Merge(v.task[r], Report(u.task, 0))}
    BY DEF TaskOf
  <2>. QED  BY <2>1, <2>2, <2>3, MergeKeeps DEF TaskKept
<1>3. w \in {w2, WithSession(w2, u.status)}
  BY DEF Answers, Updated
<1>. HIDE DEF r, w
<1>4. /\ w1 \in View /\ w1.card = v.card /\ w1.task = v.task /\ w1.sending = v.sending /\ w1.retrying = v.retrying
      /\ w1.run[r] = u.status /\ \A q \in Runs \ {r} : w1.run[q] = v.run[q]
  BY <1>1, RunChanged
<1>. HIDE DEF w1
<1>5. /\ w2 \in View /\ w2.card = w1.card /\ w2.run = w1.run /\ w2.sending = w1.sending /\ w2.retrying = w1.retrying
      /\ w2.task[r] = TaskOf(v, u) /\ \A q \in Runs \ {r} : w2.task[q] = w1.task[q]
  BY <1>1, <1>2, <1>4, TaskChanged
<1>. HIDE DEF w2
<1>6. /\ WithSession(w2, u.status) \in View /\ Shown(WithSession(w2, u.status)) = Shown(w2)
      /\ WithSession(w2, u.status).retrying = w2.retrying
  BY <1>1, <1>5, AsideChanged
<1>7. /\ w \in View /\ w.card = w2.card /\ w.run = w2.run /\ w.sending = w2.sending /\ w.task = w2.task
      /\ w.retrying = w2.retrying
  BY <1>3, <1>5, <1>6 DEF Shown
<1>8. /\ w \in View /\ w.card = v.card /\ w.sending = v.sending /\ w.retrying = v.retrying
      /\ w.run[r] = u.status /\ \A q \in Runs \ {r} : w.run[q] = v.run[q]
      /\ w.task[r] = TaskOf(v, u) /\ \A q \in Runs \ {r} : w.task[q] = v.task[q]
  BY <1>4, <1>5, <1>7
<1>. QED  BY <1>2, <1>8 DEF r, w

(* An update may also repeat what the page shows of a run it is wrong about. *)
Fitting(u, d, B) ==
  /\ u \in UpdateType /\ d.row[u.run] # "none"
  /\ u.asks => ~Ended(u.status) /\ d.ask[u.run] # "none"
  /\ Ended(u.status) => u.status = d.row[u.run] \/ u.run \in B

LEMMA ApplyUpdateLeads ==
  ASSUME NEW v, NEW d, NEW B, Sound(v, d, B), NEW u, Fitting(u, d, B)
  PROVE  /\ Leads(v, ApplyUpdate(v, u), d, B) /\ TasksKept(v, ApplyUpdate(v, u))
         /\ Ended(u.status) => \/ ApplyUpdate(v, u).run[u.run] = u.status
                               \/ Ended(v.run[u.run]) /\ ApplyUpdate(v, u) = v
<1>. DEFINE r == u.run
            w1 == Answers(v, u)
            w  == ApplyUpdate(v, u)
<1>1. /\ v \in View /\ u \in UpdateType /\ r \in Runs /\ d.row[r] # "none"
      /\ u.asks => ~Ended(u.status) /\ d.ask[r] # "none"
      /\ Ended(u.status) => u.status = d.row[r] \/ r \in B
  BY DEF Sound, ViewOK, Fitting, UpdateType
<1>2. /\ Fits(v, d, r)
      /\ d.ask[r] = "pending" <=> d.row[r] = "waiting"
      /\ r \notin B => OverAt(v, d, r)
  BY <1>1 DEF Sound, ViewOK, OverOK
<1>3. /\ w1 \in View /\ w1.card = v.card /\ w1.sending = v.sending /\ w1.retrying = v.retrying
      /\ w1.run[r] = u.status /\ \A q \in Runs \ {r} : w1.run[q] = v.run[q]
      /\ w1.task[r] = TaskOf(v, u) /\ \A q \in Runs \ {r} : w1.task[q] = v.task[q]
      /\ TaskOf(v, u) \in TaskRec /\ TaskKept(v.task[r], TaskOf(v, u))
  BY <1>1, AnswersParts
<1>4. w = IF Ended(v.run[r]) /\ v.run[r] # u.status THEN v
          ELSE IF Ended(u.status) THEN CloseRun(w1, r, u.status)
          ELSE IF u.asks THEN AddCard(w1, r) ELSE w1
  BY <1>1, ApplyUpdateIs
<1>. HIDE DEF r, w1, w
<1>5. u.status \in Statuses \ {"none"}
  BY <1>1 DEF UpdateType
<1>6. CASE Ended(v.run[r]) /\ v.run[r] # u.status
  <2>1. w = v
    BY <1>4, <1>6
  <2>. QED  BY <1>6, <2>1, LeadsNowhere DEF r, w
<1>7. CASE ~(Ended(v.run[r]) /\ v.run[r] # u.status) /\ Ended(u.status)
  <2>1. w = CloseRun(w1, r, u.status) /\ u.status \in Overs
    BY <1>4, <1>7 DEF Ended
  <2>2. /\ w \in View /\ w.run = w1.run /\ w.retrying = w1.retrying
        /\ w.task[r] = Infer(w1.task[r], u.status) /\ \A q \in Runs \ {r} : w.task[q] = w1.task[q]
        /\ w.card[r].status = (IF w1.card[r].status = "pending" THEN "expired" ELSE w1.card[r].status)
        /\ w.card[r].resolved = w1.card[r].resolved /\ \A q \in Runs \ {r} : w.card[q] = w1.card[q]
        /\ w.sending[r] = Free /\ \A q \in Runs \ {r} : w.sending[q] = w1.sending[q]
    BY <1>1, <1>3, <2>1, CloseRunParts
  <2>3. \A q \in Runs \ {r} : SameShown(v, w, q)
    BY <1>3, <2>2 DEF SameShown
  <2>4. /\ w.run[r] = u.status /\ w.card[r].resolved = v.card[r].resolved /\ w.sending[r] = Free
        /\ w.card[r].status = (IF v.card[r].status = "pending" THEN "expired" ELSE v.card[r].status)
        /\ r \notin B => u.status = d.row[r] /\ d.ask[r] # "pending"
    BY <1>1, <1>2, <1>3, <1>7, <2>2 DEF Ended, Overs
  <2>5. Fits(w, d, r)
    <3>1. v.card[r].resolved => v.card[r].status # "pending"
      <4>1. d.ask[r] \in Asks
        BY <1>1 DEF Sound, Db
      <4>. QED  BY <1>2, <4>1, Words DEF Fits
    <3>. QED  BY <1>1, <1>2, <2>4, <3>1, NoneTypes DEF Fits
  <2>6. r \notin B => OverAt(w, d, r) /\ OverKeptAt(v, w, r) /\ AskedStill(v, w, d, r)
    BY <1>7, <2>4 DEF OverAt, OverKeptAt, AskedStill
  <2>7. CalmAt(v, w, r)
    BY <2>4 DEF CalmAt
  <2>8. Leads(v, w, d, B)
    BY <1>1, <1>3, <2>2, <2>3, <2>5, <2>6, <2>7, OneRun
  <2>9. TasksKept(v, w)
    <3>1. TaskKept(v.task[r], w.task[r])
      BY <1>3, <1>5, <2>2, InferKeeps DEF TaskKept
    <3>. QED  BY <1>3, <2>2, <3>1 DEF TasksKept, TaskKept
  <2>. QED  BY <2>4, <2>8, <2>9 DEF r, w
<1>8. CASE ~(Ended(v.run[r]) /\ v.run[r] # u.status) /\ ~Ended(u.status)
  <2>1. ~Ended(v.run[r])
    BY <1>8
  <2>2. \A q \in Runs \ {r} : SameShown(v, w1, q)
    BY <1>3 DEF SameShown
  <2>3. Fits(w1, d, r)
    BY <1>1, <1>2, <1>3 DEF Fits
  <2>4. OverAt(w1, d, r) /\ OverKeptAt(v, w1, r) /\ AskedStill(v, w1, d, r) /\ CalmAt(v, w1, r)
    BY <1>3, <1>8, <2>1 DEF OverAt, OverKeptAt, AskedStill, CalmAt
  <2>5. Leads(v, w1, d, B)
    BY <1>1, <1>3, <2>2, <2>3, <2>4, OneRun
  <2>6. TasksKept(v, w1)
    BY <1>3 DEF TasksKept, TaskKept
  <2>7. CASE u.asks
    <3>1. w = AddCard(w1, r) /\ d.ask[r] # "none"
      BY <1>1, <1>4, <1>8, <2>7
    <3>2. Leads(w1, w, d, B) /\ w.task = w1.task
      BY <1>1, <2>5, <3>1, AddCardLeads DEF Leads
    <3>3. Leads(v, w, d, B) /\ TasksKept(v, w)
      BY <2>5, <2>6, <3>2, LeadsOn DEF TasksKept
    <3>. QED  BY <1>8, <3>3 DEF w
  <2>8. CASE ~u.asks
    <3>1. w = w1
      BY <1>4, <1>8, <2>8
    <3>. QED  BY <1>8, <2>5, <2>6, <3>1 DEF w
  <2>. QED  BY <2>7, <2>8
<1>. QED  BY <1>6, <1>7, <1>8

LEMMA UpsertParts ==
  ASSUME NEW v \in View, NEW snap \in Db
  PROVE  LET w == Upsert(v, snap) IN
         /\ w \in View /\ w.card = v.card /\ w.sending = v.sending /\ w.retrying = v.retrying
         /\ \A r \in Runs : w.run[r] = UpsertRun(v, snap, r) /\ w.task[r] = UpsertTask(v, snap, r)
         /\ \A r \in Runs : TaskKept(v.task[r], w.task[r])
<1>. DEFINE runs == [r \in Runs |-> UpsertRun(v, snap, r)]
            tasks == [r \in Runs |-> UpsertTask(v, snap, r)]
            v1 == [v EXCEPT !.run = runs, !.task = tasks]
            w == Upsert(v, snap)
<1>1. ASSUME NEW r \in Runs
      PROVE  /\ UpsertRun(v, snap, r) \in Statuses /\ UpsertTask(v, snap, r) \in TaskRec
             /\ TaskKept(v.task[r], UpsertTask(v, snap, r))
  <2>. DEFINE s == UpsertRun(v, snap, r)
              t == IF snap.task[r] # NoTask THEN Merge(v.task[r], snap.task[r])
                   ELSE IF TaskOver(v.task[r].status) \/ Ended(s) THEN v.task[r] ELSE NoTask
  <2>1. v.run[r] \in Statuses /\ v.task[r] \in TaskRec /\ snap.row[r] \in Statuses /\ snap.task[r] \in TaskRec
    BY ViewParts DEF Db
  <2>2. s \in Statuses
    BY <2>1 DEF UpsertRun
  <2>3. t \in TaskRec /\ TaskKept(v.task[r], t)
    BY <2>1, MergeKeeps, NoneTypes DEF TaskKept
  <2>4. UpsertTask(v, snap, r) = IF Ended(s) THEN Infer(t, s) ELSE t
    BY DEF UpsertTask
  <2>. HIDE DEF s, t
  <2>5. UpsertTask(v, snap, r) \in TaskRec /\ TaskKept(v.task[r], UpsertTask(v, snap, r))
    BY <2>2, <2>3, <2>4, InferKeeps DEF TaskKept
  <2>. QED  BY <2>2, <2>5 DEF s
<1>2. runs \in [Runs -> Statuses] /\ tasks \in [Runs -> TaskRec]
  BY <1>1
<1>3. \A r \in Runs : runs[r] = UpsertRun(v, snap, r) /\ tasks[r] = UpsertTask(v, snap, r)
  OBVIOUS
<1>4. w = IF Known(v1) = {} THEN [v1 EXCEPT !.session = "idle"] ELSE [v1 EXCEPT !.session = v1.run[Last(v1)]]
  BY Zenon DEF Upsert
<1>. HIDE DEF runs, tasks, w
<1>5. /\ v1 \in View /\ v1.card = v.card /\ v1.sending = v.sending /\ v1.retrying = v.retrying
      /\ v1.run = runs /\ v1.task = tasks
  BY <1>2 DEF View
<1>. HIDE DEF v1
<1>6. w \in {WithSession(v1, "idle"), WithSession(v1, v1.run[Last(v1)])}
      /\ (Known(v1) = {} => w = WithSession(v1, "idle"))
  BY <1>4 DEF WithSession
<1>7. Known(v1) # {} => v1.run[Last(v1)] \in Sessions
  <2>1. Known(v1) \in SUBSET Runs /\ \A r \in Known(v1) : v1.run[r] # "none"
    BY DEF Known
  <2>2. Known(v1) # {} => Last(v1) \in Known(v1)
    BY <2>1, LatestRun DEF Last
  <2>3. \A r \in Runs : v1.run[r] \in Statuses
    BY <1>5, ViewParts
  <2>. QED  BY <2>1, <2>2, <2>3 DEF Sessions
<1>8. w \in View /\ Shown(w) = Shown(v1) /\ w.retrying = v1.retrying
  <2>1. "idle" \in Sessions
    BY DEF Sessions
  <2>2. CASE Known(v1) = {}
    BY <1>5, <1>6, <2>1, <2>2, AsideChanged
  <2>3. CASE Known(v1) # {}
    BY <1>5, <1>6, <1>7, <2>1, <2>3, AsideChanged
  <2>. QED  BY <2>2, <2>3
<1>9. w.run = runs /\ w.task = tasks /\ w.card = v.card /\ w.sending = v.sending /\ w.retrying = v.retrying
  BY <1>5, <1>8 DEF Shown
<1>. QED  BY <1>1, <1>3, <1>8, <1>9 DEF w

(* What syncApprovals makes of the card of a run. *)
Takes(v, snap, r) == \/ v.card[r] = NoCard
                     \/ /\ ~v.card[r].resolved
                        /\ v.card[r].status = "pending" \/ SnapCard(v, snap, r).status # "pending"

LEMMA SyncParts ==
  ASSUME NEW v \in View, NEW snap \in Db
  PROVE  LET w == Sync(v, snap) IN
         /\ w \in View /\ w.run = v.run /\ w.task = v.task /\ w.retrying = v.retrying
         /\ \A r \in Runs :
              /\ w.card[r] = IF snap.ask[r] # "none" /\ Takes(v, snap, r) THEN SnapCard(v, snap, r)
                             ELSE v.card[r]
              /\ w.sending[r] = IF snap.ask[r] # "none" /\ SnapCard(v, snap, r).status # "pending"
                                THEN Free ELSE v.sending[r]
              /\ SnapCard(v, snap, r) \in CardRec
<1>. DEFINE cards == [r \in Runs |-> IF snap.ask[r] # "none" /\ Takes(v, snap, r)
                                     THEN SnapCard(v, snap, r) ELSE v.card[r]]
            sents == [r \in Runs |-> IF snap.ask[r] # "none" /\ SnapCard(v, snap, r).status # "pending"
                                     THEN Free ELSE v.sending[r]]
            w == Sync(v, snap)
<1>1. w = [v EXCEPT !.card = cards, !.sending = sents]
  BY Zenon DEF Sync, Takes
<1>2. \A r \in Runs : SnapCard(v, snap, r) \in CardRec
  <2>. SUFFICES ASSUME NEW r \in Runs PROVE SnapCard(v, snap, r) \in CardRec
    OBVIOUS
  <2>1. Word(snap.ask[r]) \in CardWords
    BY Words DEF Db
  <2>. QED  BY <2>1 DEF SnapCard, CardRec, CardWords
<1>3. cards \in [Runs -> CardRec]
  BY <1>2, ViewParts DEF CardRec
<1>4. sents \in [Runs -> Sent]
  BY NoneTypes, ViewParts DEF Sent
<1>5. \A r \in Runs :
        /\ cards[r] = IF snap.ask[r] # "none" /\ Takes(v, snap, r) THEN SnapCard(v, snap, r) ELSE v.card[r]
        /\ sents[r] = IF snap.ask[r] # "none" /\ SnapCard(v, snap, r).status # "pending"
                      THEN Free ELSE v.sending[r]
  OBVIOUS
<1>. HIDE DEF cards, sents, w
<1>6. /\ w \in View /\ w.run = v.run /\ w.task = v.task /\ w.retrying = v.retrying
      /\ w.card = cards /\ w.sending = sents
  BY <1>1, <1>3, <1>4 DEF View, CardRec, Sent
<1>. QED  BY <1>2, <1>5, <1>6 DEF w

LEMMA LoadLeads ==
  ASSUME NEW v, NEW d, NEW B, Sound(v, d, B), NEW snap, SnapOK(snap, d)
  PROVE  Leads(v, Load(v, snap), d, B) /\ TasksKept(v, Load(v, snap))
<1>. DEFINE u == Upsert(v, snap)
            w == Load(v, snap)
<1>1. v \in View /\ snap \in Db /\ d \in Db
  BY DEF Sound, ViewOK, SnapOK
<1>2. /\ u \in View /\ u.card = v.card /\ u.sending = v.sending /\ u.retrying = v.retrying
      /\ \A r \in Runs : u.run[r] = UpsertRun(v, snap, r)
      /\ \A r \in Runs : TaskKept(v.task[r], u.task[r])
  BY <1>1, UpsertParts
<1>3. w = Sync(u, snap)
  BY DEF Load
<1>. HIDE DEF u, w
<1>4. /\ w \in View /\ w.run = u.run /\ w.task = u.task /\ w.retrying = u.retrying
      /\ \A r \in Runs :
           /\ w.card[r] = IF snap.ask[r] # "none" /\ Takes(u, snap, r) THEN SnapCard(u, snap, r)
                          ELSE u.card[r]
           /\ w.sending[r] = IF snap.ask[r] # "none" /\ SnapCard(u, snap, r).status # "pending"
                             THEN Free ELSE u.sending[r]
  BY <1>1, <1>2, <1>3, SyncParts
<1>5. ASSUME NEW r \in Runs
      PROVE  /\ Fits(w, d, r) /\ CalmAt(v, w, r)
             /\ r \notin B => OverAt(w, d, r) /\ OverKeptAt(v, w, r) /\ AskedStill(v, w, d, r)
  <2>. DEFINE in == SnapCard(u, snap, r)
              run == UpsertRun(v, snap, r)
  <2>1. /\ Fits(v, d, r)
        /\ d.ask[r] = "pending" <=> d.row[r] = "waiting"
        /\ r \notin B => OverAt(v, d, r)
        /\ d.ask[r] \in Asks /\ snap.ask[r] \in Asks
        /\ v.card[r] \in CardRec
    BY <1>1, ViewParts DEF Sound, ViewOK, OverOK, Db, CardRec
  <2>2. /\ Ended(snap.row[r]) => d.row[r] = snap.row[r] /\ snap.ask[r] = d.ask[r]
        /\ snap.row[r] # "none" => d.row[r] # "none"
        /\ snap.ask[r] = d.ask[r] \/ snap.ask[r] = "none" \/ (snap.ask[r] = "pending" /\ d.ask[r] # "none")
        /\ snap.ask[r] # "none" => snap.kind[r] = d.kind[r]
    BY DEF SnapOK, RowsOK
  <2>3. /\ run = IF snap.row[r] = "none" \/ Ended(v.run[r]) THEN v.run[r] ELSE snap.row[r]
        /\ w.run[r] = run /\ u.run[r] = run
    BY <1>2, <1>4 DEF UpsertRun
  <2>4. /\ in.status = (IF snap.ask[r] = "pending" /\ Ended(run) THEN "expired" ELSE Word(snap.ask[r]))
        /\ in.resolved <=> snap.kind[r] = "approval" /\ snap.ask[r] # "pending"
    BY <2>3 DEF SnapCard
  <2>5. /\ w.card[r] = IF snap.ask[r] # "none" /\ Takes(u, snap, r) THEN in ELSE v.card[r]
        /\ w.sending[r] = IF snap.ask[r] # "none" /\ in.status # "pending" THEN Free ELSE v.sending[r]
        /\ Takes(u, snap, r) <=> \/ v.card[r] = NoCard
                                 \/ /\ ~v.card[r].resolved
                                    /\ v.card[r].status = "pending" \/ in.status # "pending"
    BY <1>2, <1>4 DEF Takes
  <2>6. v.card[r] = NoCard => v.card[r].status = "none" /\ ~v.card[r].resolved
    BY NoneTypes
  <2>7. /\ Word(snap.ask[r]) # "none" /\ (Word(snap.ask[r]) = "pending" <=> snap.ask[r] = "pending")
        /\ Word(snap.ask[r]) = "approved" => snap.ask[r] = "approved"
    BY <2>1, Words DEF Word
  <2>. HIDE DEF in, run
  <2>8. Fits(w, d, r)
    <3>1. w.run[r] # "none" => d.row[r] # "none"
      BY <2>1, <2>2, <2>3 DEF Fits
    <3>2. CASE snap.ask[r] # "none" /\ Takes(u, snap, r)
      <4>1. w.card[r] = in /\ d.ask[r] # "none" /\ in.status # "none"
        BY <2>2, <2>4, <2>5, <2>7, <3>2
      <4>2. in.resolved => /\ d.kind[r] = "approval" /\ ~Unanswered(d.ask[r])
                           /\ in.status = Word(d.ask[r]) /\ w.sending[r] = Free
        BY <2>2, <2>4, <2>5, <2>7, <3>2 DEF Unanswered
      <4>3. in.status = "approved" => d.ask[r] = "approved"
        BY <2>2, <2>4, <2>7
      <4>4. w.sending[r] = Free \/ w.sending[r] = v.sending[r]
        BY <2>5
      <4>. QED  BY <2>1, <3>1, <4>1, <4>2, <4>3, <4>4, NoneTypes DEF Fits
    <3>3. CASE ~(snap.ask[r] # "none" /\ Takes(u, snap, r))
      <4>1. w.card[r] = v.card[r] /\ (w.sending[r] = Free \/ w.sending[r] = v.sending[r])
        BY <2>5, <3>3
      <4>. QED  BY <2>1, <3>1, <4>1, NoneTypes DEF Fits
    <3>. QED  BY <3>2, <3>3
  <2>9. CalmAt(v, w, r)
    BY <2>5, <2>6 DEF CalmAt
  <2>10. ASSUME r \notin B PROVE OverAt(w, d, r) /\ OverKeptAt(v, w, r) /\ AskedStill(v, w, d, r)
    <3>1. OverAt(v, d, r)
      BY <2>1, <2>10
    <3>2. OverKeptAt(v, w, r)
      BY <2>3, <2>4, <2>5, <2>6, <2>7 DEF OverKeptAt
    <3>3. Ended(run) => run = d.row[r]
      BY <2>2, <2>3, <3>1 DEF OverAt
    <3>4. AskedStill(v, w, d, r)
      <4>. SUFFICES ASSUME d.ask[r] = "pending" PROVE w.card[r].status \in {v.card[r].status, "pending"}
        BY DEF AskedStill
      <4>1. ~Ended(run) /\ (snap.ask[r] # "none" => snap.ask[r] = "pending")
        BY <2>1, <2>2, <3>3 DEF Ended, Overs
      <4>. QED  BY <2>4, <2>5, <2>7, <4>1
    <3>5. OverAt(w, d, r)
      <4>. SUFFICES ASSUME Ended(run) PROVE w.card[r].status # "pending"
        BY <2>3, <3>3 DEF OverAt
      <4>1. CASE Ended(v.run[r])
        BY <3>1, <3>2, <4>1 DEF OverAt, OverKeptAt
      <4>2. CASE ~Ended(v.run[r])
        <5>1. snap.row[r] = run /\ snap.ask[r] = d.ask[r] /\ d.ask[r] # "pending"
          BY <2>1, <2>2, <2>3, <4>2 DEF Ended, Overs
        <5>2. v.card[r].status = "pending" => ~v.card[r].resolved /\ d.ask[r] # "none"
          <6>1. ~Unanswered(d.ask[r]) => Word(d.ask[r]) # "pending"
            BY <2>1, Words
          <6>. QED  BY <2>1, <6>1 DEF Fits
        <5>. QED  BY <2>4, <2>5, <2>7, <5>1, <5>2
      <4>. QED  BY <4>1, <4>2
    <3>. QED  BY <3>2, <3>4, <3>5
  <2>. QED  BY <2>8, <2>9, <2>10
<1>6. Leads(v, w, d, B)
  BY <1>2, <1>4, <1>5, ManyRuns
<1>7. TasksKept(v, w)
  BY <1>2, <1>4 DEF TasksKept
<1>. QED  BY <1>6, <1>7 DEF w

LEMMA LoadAndCloseLeads ==
  ASSUME NEW v, NEW d, NEW B, Sound(v, d, B), NEW snap, SnapOK(snap, d), NEW r \in Runs
  PROVE  Leads(v, LoadAndClose(v, r, snap), d, B) /\ TasksKept(v, LoadAndClose(v, r, snap))
<1>. DEFINE w == Load(v, snap)
            u == StatusOnly(r, w.run[r])
<1>1. Leads(v, w, d, B) /\ TasksKept(v, w) /\ Sound(w, d, B)
  BY LoadLeads DEF Leads
<1>2. CASE Ended(w.run[r])
  <2>1. LoadAndClose(v, r, snap) = ApplyUpdate(w, u)
    BY <1>2, Zenon DEF LoadAndClose
  <2>. HIDE DEF w
  <2>2. u.run = r /\ u.status = w.run[r] /\ u.asks = FALSE /\ u \in UpdateType
    <3>1. w.run[r] \in Statuses /\ w.run[r] # "none"
      BY <1>1, <1>2, ViewParts DEF Sound, ViewOK, Ended, Overs
    <3>. QED  BY <3>1 DEF StatusOnly, UpdateType, TaskStatuses
  <2>3. Fitting(u, d, B)
    <3>1. Fits(w, d, r) /\ (r \notin B => OverAt(w, d, r))
      BY <1>1 DEF Sound, ViewOK, OverOK
    <3>2. w.run[r] # "none"
      BY <1>2 DEF Ended, Overs
    <3>. HIDE DEF u
    <3>. QED  BY <1>2, <2>2, <3>1, <3>2 DEF Fitting, Fits, OverAt
  <2>. HIDE DEF u
  <2>4. Leads(w, ApplyUpdate(w, u), d, B) /\ TasksKept(w, ApplyUpdate(w, u))
    BY <1>1, <2>3, ApplyUpdateLeads
  <2>5. Leads(v, ApplyUpdate(w, u), d, B)
    BY <1>1, <2>4, LeadsOn
  <2>6. TasksKept(v, ApplyUpdate(w, u))
    BY <1>1, <2>4, TasksKeptOn
  <2>. QED  BY <2>1, <2>5, <2>6
<1>3. CASE ~Ended(w.run[r])
  <2>1. LoadAndClose(v, r, snap) = w
    BY <1>3, Zenon DEF LoadAndClose
  <2>. QED  BY <1>1, <2>1
<1>. QED  BY <1>2, <1>3

(* The handlers of notices. *)
Started(v, r) ==
  WithSession(WithRun(WithMine(v, IF v.mine.call # 0 /\ v.mine.run = 0
                                  THEN [v.mine EXCEPT !.run = r] ELSE v.mine),
                      r, IF v.run[r] = "none" THEN "running" ELSE v.run[r]), "running")
Resumed(v, r) ==
  WithSession(WithRun(WithSending(v, r, IF v.sending[r].call # 0
                                        THEN [v.sending[r] EXCEPT !.accepted = TRUE] ELSE v.sending[r]),
                      r, IF v.run[r] = "none" THEN v.run[r] ELSE "running"), "running")

LEMMA StartedLeads ==
  ASSUME NEW v, NEW d, NEW B, Sound(v, d, B), NEW r \in Runs, d.row[r] # "none"
  PROVE  Leads(v, Started(v, r), d, B) /\ TasksKept(v, Started(v, r))
<1>. DEFINE mine == IF v.mine.call # 0 /\ v.mine.run = 0 THEN [v.mine EXCEPT !.run = r] ELSE v.mine
            run == IF v.run[r] = "none" THEN "running" ELSE v.run[r]
            w1 == WithMine(v, mine)
            w2 == WithRun(w1, r, run)
            w  == WithSession(w2, "running")
<1>1. v \in View /\ Fits(v, d, r) /\ v.run[r] \in Statuses
  BY ViewParts DEF Sound, ViewOK
<1>2. mine \in Mine /\ run \in Statuses /\ "running" \in Sessions
  <2>1. v.mine \in Mine
    BY <1>1, ViewParts DEF Mine
  <2>. QED  BY <1>1, <2>1 DEF Mine, Sessions, Statuses
<1>3. (Ended(v.run[r]) \/ Ended(run)) => run = v.run[r]
  BY DEF Ended, Overs
<1>. HIDE DEF mine, run
<1>4. w1 \in View /\ Shown(w1) = Shown(v) /\ w1.retrying = v.retrying
  BY <1>1, <1>2, AsideChanged
<1>. HIDE DEF w1
<1>5. Leads(v, w1, d, B) /\ TasksKept(v, w1) /\ Sound(w1, d, B)
  BY <1>4, ShownLeads DEF Leads
<1>6. /\ w2 \in View /\ w2.task = w1.task /\ w2.card = w1.card /\ w2.sending = w1.sending
      /\ w2.retrying = w1.retrying /\ w2.run[r] = run /\ \A q \in Runs \ {r} : w2.run[q] = w1.run[q]
  BY <1>2, <1>4, RunChanged
<1>. HIDE DEF w2
<1>7. w1.run = v.run /\ w1.card = v.card
  BY <1>4 DEF Shown
<1>8. Fits(w1, d, r) /\ (r \notin B => OverAt(w1, d, r))
  BY <1>5 DEF Sound, ViewOK, OverOK
<1>9. Leads(w1, w2, d, B) /\ TasksKept(w1, w2) /\ Sound(w2, d, B)
  <2>1. \A q \in Runs \ {r} : SameShown(w1, w2, q)
    BY <1>6 DEF SameShown
  <2>2. Fits(w2, d, r)
    BY <1>6, <1>8 DEF Fits
  <2>3. /\ r \notin B => OverAt(w2, d, r)
        /\ OverKeptAt(w1, w2, r) /\ AskedStill(w1, w2, d, r) /\ CalmAt(w1, w2, r)
    BY <1>3, <1>6, <1>7, <1>8 DEF OverAt, OverKeptAt, AskedStill, CalmAt
  <2>. QED  BY <1>5, <1>6, <2>1, <2>2, <2>3, OneRun DEF Leads, TasksKept, TaskKept
<1>10. w \in View /\ Shown(w) = Shown(w2) /\ w.retrying = w2.retrying
  BY <1>2, <1>6, AsideChanged
<1>11. w = Started(v, r)
  BY DEF w, w2, w1, mine, run, Started
<1>. HIDE DEF w
<1>12. Leads(w2, w, d, B) /\ TasksKept(w2, w)
  BY <1>9, <1>10, ShownLeads
<1>13. Leads(v, w2, d, B) /\ TasksKept(v, w2)
  BY <1>5, <1>9, LeadsOn, TasksKeptOn
<1>. QED  BY <1>11, <1>12, <1>13, LeadsOn, TasksKeptOn

LEMMA ResumedLeads ==
  ASSUME NEW v, NEW d, NEW B, Sound(v, d, B), NEW r \in Runs, d.row[r] # "none",
         ~Unanswered(d.ask[r]), ~Ended(v.run[r])
  PROVE  Leads(v, Resumed(v, r), d, B) /\ TasksKept(v, Resumed(v, r))
<1>. DEFINE sent == IF v.sending[r].call # 0 THEN [v.sending[r] EXCEPT !.accepted = TRUE] ELSE v.sending[r]
            run == IF v.run[r] = "none" THEN v.run[r] ELSE "running"
            w1 == WithSending(v, r, sent)
            w2 == WithRun(w1, r, run)
            w  == WithSession(w2, "running")
<1>1. v \in View /\ Fits(v, d, r) /\ v.run[r] \in Statuses /\ v.sending[r] \in Sent
  BY ViewParts DEF Sound, ViewOK, Sent
<1>2. /\ sent \in Sent /\ run \in Statuses /\ "running" \in Sessions /\ ~Ended(run)
      /\ sent.call = v.sending[r].call /\ (v.sending[r].call = 0 => sent = v.sending[r])
  BY <1>1 DEF Sent, Sessions, Statuses, Ended, Overs
<1>. HIDE DEF sent, run
<1>3. /\ w1 \in View /\ w1.run = v.run /\ w1.task = v.task /\ w1.card = v.card /\ w1.retrying = v.retrying
      /\ w1.sending[r] = sent /\ \A q \in Runs \ {r} : w1.sending[q] = v.sending[q]
  BY <1>1, <1>2, SendingChanged
<1>. HIDE DEF w1
<1>4. /\ w2 \in View /\ w2.task = w1.task /\ w2.card = w1.card /\ w2.sending = w1.sending
      /\ w2.retrying = w1.retrying /\ w2.run[r] = run /\ \A q \in Runs \ {r} : w2.run[q] = w1.run[q]
  BY <1>2, <1>3, RunChanged
<1>. HIDE DEF w2
<1>5. Leads(v, w2, d, B) /\ TasksKept(v, w2) /\ Sound(w2, d, B)
  <2>1. \A q \in Runs \ {r} : SameShown(v, w2, q)
    BY <1>3, <1>4 DEF SameShown
  <2>2. Fits(w2, d, r)
    <3>1. v.card[r].resolved => v.sending[r] = Free /\ Free.call = 0
      BY <1>1, NoneTypes DEF Fits
    <3>. QED  BY <1>1, <1>2, <1>3, <1>4, <3>1 DEF Fits
  <2>3. /\ OverAt(w2, d, r)
        /\ OverKeptAt(v, w2, r) /\ AskedStill(v, w2, d, r) /\ CalmAt(v, w2, r)
    <3>1. v.sending[r] = Free => sent = Free
      BY <1>2, NoneTypes
    <3>. QED  BY <1>2, <1>3, <1>4, <3>1 DEF OverAt, OverKeptAt, AskedStill, CalmAt
  <2>. QED  BY <1>3, <1>4, <2>1, <2>2, <2>3, OneRun DEF Leads, TasksKept, TaskKept
<1>6. w \in View /\ Shown(w) = Shown(w2) /\ w.retrying = w2.retrying
  BY <1>2, <1>4, AsideChanged
<1>7. w = Resumed(v, r)
  BY DEF w, w2, w1, sent, run, Resumed
<1>. HIDE DEF w
<1>8. Leads(w2, w, d, B) /\ TasksKept(w2, w)
  BY <1>5, <1>6, ShownLeads
<1>. QED  BY <1>5, <1>7, <1>8, LeadsOn, TasksKeptOn

LEMMA MergedLeads ==
  ASSUME NEW v, NEW d, NEW B, Sound(v, d, B), NEW r \in Runs, NEW t \in TaskRec
  PROVE  LET w == WithTask(v, r, Merge(v.task[r], t)) IN Leads(v, w, d, B) /\ TasksKept(v, w)
<1>. DEFINE m == Merge(v.task[r], t)
            w == WithTask(v, r, m)
<1>1. v \in View /\ v.task[r] \in TaskRec
  BY ViewParts DEF Sound, ViewOK
<1>2. m \in TaskRec /\ TaskKept(v.task[r], m)
  BY <1>1, MergeKeeps
<1>. HIDE DEF m
<1>3. /\ w \in View /\ w.run = v.run /\ w.card = v.card /\ w.sending = v.sending /\ w.retrying = v.retrying
      /\ w.task[r] = m /\ \A q \in Runs \ {r} : w.task[q] = v.task[q]
  BY <1>1, <1>2, TaskChanged
<1>. HIDE DEF w
<1>4. \A q \in Runs : SameShown(v, w, q)
  BY <1>3 DEF SameShown
<1>5. \A q \in Runs : Fits(w, d, q) /\ CalmAt(v, w, q)
  BY <1>4, SameShownLeads DEF Sound, ViewOK
<1>6. \A q \in Runs \ B : OverAt(w, d, q) /\ OverKeptAt(v, w, q) /\ AskedStill(v, w, d, q)
  BY <1>4, SameShownLeads DEF Sound, OverOK
<1>7. Leads(v, w, d, B)
  BY <1>3, <1>5, <1>6, ManyRuns
<1>8. TasksKept(v, w)
  BY <1>2, <1>3 DEF TasksKept, TaskKept
<1>. QED  BY <1>7, <1>8 DEF m, w

LEMMA HandleIs ==
  ASSUME NEW v \in View, NEW e, e.run \in Runs,
         e.type \in {"started", "plan", "task", "resumed", "ask", "resolved", "end"}
  PROVE  LET r == e.run IN
         /\ e.type = "resolved" => Handle(v, e) = Resolve(v, r, e.verdict)
         /\ e.type = "task" => Handle(v, e) \in {v, WithTask(v, r, Merge(v.task[r], e.task))}
         /\ e.type \notin {"resolved", "task"} /\ Ended(v.run[r]) => Handle(v, e) = v
         /\ ~Ended(v.run[r]) =>
              /\ e.type = "started" => Handle(v, e) = Started(v, r)
              /\ e.type = "resumed" => Handle(v, e) = Resumed(v, r)
              /\ e.type = "plan" => Handle(v, e) = WithTask(v, r, Merge(v.task[r], Report("queued", 0)))
              /\ e.type = "ask" => Handle(v, e) = AddCard(v, r)
              /\ e.type = "end" => Handle(v, e) = ApplyUpdate(v, e.update)
<1>. DEFINE r == e.run
<1>1. e.type = "resolved" => Handle(v, e) = Resolve(v, r, e.verdict)
  BY DEF Handle
<1>2. ASSUME e.type = "task" PROVE Handle(v, e) \in {v, WithTask(v, r, Merge(v.task[r], e.task))}
  <2>1. Handle(v, e) = HandleTask(v, e)
    BY <1>2 DEF Handle
  <2>2. HandleTask(v, e) \in {v, [v EXCEPT !.task[e.run] = Merge(@, e.task)]}
    BY DEF HandleTask
  <2>3. [v EXCEPT !.task[e.run] = Merge(@, e.task)] = WithTask(v, r, Merge(v.task[r], e.task))
    BY DEF View, WithTask
  <2>. QED  BY <2>1, <2>2, <2>3
<1>3. e.type \notin {"resolved", "task"} /\ Ended(v.run[r]) => Handle(v, e) = v
  BY DEF Handle
<1>4. ASSUME ~Ended(v.run[r]), e.type = "started" PROVE Handle(v, e) = Started(v, r)
  <2>1. Handle(v, e) = [v EXCEPT !.mine = IF @.call # 0 /\ @.run = 0 THEN [@ EXCEPT !.run = r] ELSE @,
                                 !.run[r] = IF @ = "none" THEN "running" ELSE @,
                                 !.session = "running"]
    BY <1>4 DEF Handle
  <2>2. @ = Started(v, r)
    BY DEF View, Started, WithMine, WithRun, WithSession
  <2>. QED  BY <2>1, <2>2
<1>5. ASSUME ~Ended(v.run[r]), e.type = "resumed" PROVE Handle(v, e) = Resumed(v, r)
  <2>1. Handle(v, e) = [v EXCEPT !.sending[r] = IF @.call # 0 THEN [@ EXCEPT !.accepted = TRUE] ELSE @,
                                 !.run[r] = IF @ = "none" THEN @ ELSE "running",
                                 !.session = "running"]
    BY <1>5 DEF Handle
  <2>2. @ = Resumed(v, r)
    BY DEF View, Resumed, WithSending, WithRun, WithSession
  <2>. QED  BY <2>1, <2>2
<1>6. ASSUME ~Ended(v.run[r]), e.type = "plan"
      PROVE  Handle(v, e) = WithTask(v, r, Merge(v.task[r], Report("queued", 0)))
  <2>1. Handle(v, e) = [v EXCEPT !.task[r] = Merge(@, Report("queued", 0))]
    BY <1>6 DEF Handle
  <2>2. @ = WithTask(v, r, Merge(v.task[r], Report("queued", 0)))
    BY DEF View, WithTask
  <2>. QED  BY <2>1, <2>2
<1>7. ~Ended(v.run[r]) /\ e.type = "ask" => Handle(v, e) = AddCard(v, r)
  BY DEF Handle
<1>8. ~Ended(v.run[r]) /\ e.type = "end" => Handle(v, e) = ApplyUpdate(v, e.update)
  BY DEF Handle
<1>. QED  BY <1>1, <1>2, <1>3, <1>4, <1>5, <1>6, <1>7, <1>8

LEMMA HandleLeads ==
  ASSUME NEW v, NEW d, NEW B, Sound(v, d, B), NEW e, EventOK(e, d)
  PROVE  LET w == Handle(v, e)
             r == e.run
         IN  /\ Leads(v, w, d, B) /\ TasksKept(v, w)
             /\ e.type = "resolved" => w.card[r].resolved /\ w.sending[r] = Free
             /\ e.type = "ask" /\ ~Ended(v.run[r]) /\ v.card[r].status \in {"none", "pending"} =>
                  w.card[r].status = "pending"
             /\ e.type = "end" => w.run[r] = d.row[r] \/ (Ended(v.run[r]) /\ w = v)
<1>. DEFINE r == e.run
            w == Handle(v, e)
<1>1. v \in View /\ d \in Db /\ e.run \in Runs /\ d.row[e.run] # "none"
      /\ e.type \in {"started", "plan", "task", "resumed", "ask", "resolved", "end"}
  BY DEF Sound, ViewOK, EventOK
<1>2. CASE e.type = "resolved"
  <2>1. d.kind[r] = "approval" /\ e.verdict = d.ask[r] /\ ~Unanswered(d.ask[r]) /\ d.ask[r] \in Asks
    BY <1>1, <1>2 DEF EventOK, Db
  <2>2. w = Resolve(v, r, d.ask[r])
    BY <1>1, <1>2, <2>1, HandleIs
  <2>3. Leads(v, w, d, B) /\ w.task = v.task /\ w.card[r].resolved /\ w.sending[r] = Free
    BY <1>1, <2>1, <2>2, ResolveLeads
  <2>. HIDE DEF w
  <2>4. TasksKept(v, w)
    BY <2>3 DEF TasksKept, TaskKept
  <2>. QED  BY <1>2, <2>3, <2>4 DEF w
<1>3. CASE e.type = "task"
  <2>1. w \in {v, WithTask(v, r, Merge(v.task[r], e.task))} /\ e.task \in TaskRec
    BY <1>1, <1>3, HandleIs DEF EventOK
  <2>2. Leads(v, w, d, B) /\ TasksKept(v, w)
    BY <1>1, <2>1, MergedLeads, LeadsNowhere
  <2>. QED  BY <1>3, <2>2
<1>4. CASE e.type \notin {"resolved", "task"} /\ Ended(v.run[r])
  <2>1. w = v
    BY <1>1, <1>4, HandleIs
  <2>. QED  BY <1>4, <2>1, LeadsNowhere
<1>5. CASE e.type = "started" /\ ~Ended(v.run[r])
  <2>1. w = Started(v, r)
    BY <1>1, <1>5, HandleIs
  <2>. QED  BY <1>1, <1>5, <2>1, StartedLeads
<1>6. CASE e.type = "resumed" /\ ~Ended(v.run[r])
  <2>1. w = Resumed(v, r) /\ ~Unanswered(d.ask[r])
    BY <1>1, <1>6, HandleIs DEF EventOK
  <2>. QED  BY <1>1, <1>6, <2>1, ResumedLeads
<1>7. CASE e.type = "plan" /\ ~Ended(v.run[r])
  <2>1. w = WithTask(v, r, Merge(v.task[r], Report("queued", 0)))
    BY <1>1, <1>7, HandleIs
  <2>2. Report("queued", 0) \in TaskRec
    BY DEF Report, TaskRec, TaskStatuses
  <2>. QED  BY <1>1, <1>7, <2>1, <2>2, MergedLeads
<1>8. CASE e.type = "ask" /\ ~Ended(v.run[r])
  <2>1. w = AddCard(v, r) /\ d.ask[r] # "none"
    BY <1>1, <1>8, HandleIs DEF EventOK
  <2>2. /\ Leads(v, w, d, B) /\ w.task = v.task
        /\ v.card[r].status \in {"none", "pending"} => w.card[r].status = "pending"
    BY <1>1, <1>8, <2>1, AddCardLeads
  <2>. HIDE DEF w
  <2>3. TasksKept(v, w)
    BY <2>2 DEF TasksKept, TaskKept
  <2>. QED  BY <1>8, <2>2, <2>3 DEF w
<1>9. CASE e.type = "end" /\ ~Ended(v.run[r])
  <2>1. w = ApplyUpdate(v, e.update)
    BY <1>1, <1>9, HandleIs
  <2>2. UpdateOK(e.update, d) /\ e.update.run = r /\ Ended(e.update.status)
    BY <1>9 DEF EventOK
  <2>3. Fitting(e.update, d, B) /\ e.update.status = d.row[r]
    BY <2>2 DEF UpdateOK, Fitting, UpdateType
  <2>4. Leads(v, w, d, B) /\ TasksKept(v, w) /\ w.run[r] = d.row[r]
    BY <1>9, <2>1, <2>2, <2>3, ApplyUpdateLeads
  <2>. QED  BY <1>9, <2>4
<1>. QED  BY <1>1, <1>2, <1>3, <1>4, <1>5, <1>6, <1>7, <1>8, <1>9

-----------------------------------------------------------------------------
(***************************************************************************)
(* How the rows move, and that what was said of them stays true.           *)
(***************************************************************************)
Moves(d, e) == \A r \in Runs :
  /\ d.row[r] # "none" => e.row[r] # "none"
  /\ Ended(d.row[r]) => e.row[r] = d.row[r] /\ e.ask[r] = d.ask[r]
  /\ d.ask[r] # "none" => e.ask[r] # "none" /\ e.kind[r] = d.kind[r]
  /\ ~Unanswered(d.ask[r]) => e.ask[r] = d.ask[r]

LEMMA UpdateStaysTrue ==
  ASSUME NEW d, NEW e, Moves(d, e), NEW u, UpdateOK(u, d)
  PROVE  UpdateOK(u, e)
<1>1. u.run \in Runs
  BY DEF UpdateOK
<1>. QED  BY <1>1 DEF UpdateOK, Moves

LEMMA RowsStayTrue ==
  ASSUME NEW d, NEW e, Moves(d, e), NEW rows, RowsOK(rows, d)
  PROVE  RowsOK(rows, e)
<1>1. ASSUME NEW r \in Runs PROVE (Ended(rows[r]) => e.row[r] = rows[r]) /\ (rows[r] # "none" => e.row[r] # "none")
  <2>1. /\ Ended(rows[r]) => d.row[r] = rows[r]
        /\ rows[r] # "none" => d.row[r] # "none"
    BY DEF RowsOK
  <2>2. /\ d.row[r] # "none" => e.row[r] # "none"
        /\ Ended(d.row[r]) => e.row[r] = d.row[r]
    BY DEF Moves
  <2>. QED  BY <2>1, <2>2
<1>. QED  BY <1>1 DEF RowsOK

LEMMA SnapStaysTrue ==
  ASSUME NEW d, NEW e, Moves(d, e), NEW s, SnapOK(s, d)
  PROVE  SnapOK(s, e)
<1>1. RowsOK(s.row, d) /\ RowsOK(s.row, e)
  BY RowsStayTrue DEF SnapOK
<1>2. ASSUME NEW r \in Runs
      PROVE  /\ s.ask[r] = e.ask[r] \/ s.ask[r] = "none" \/ (s.ask[r] = "pending" /\ e.ask[r] # "none")
             /\ Ended(s.row[r]) => s.ask[r] = e.ask[r]
             /\ s.ask[r] # "none" => s.kind[r] = e.kind[r]
  <2>1. /\ s.ask[r] = d.ask[r] \/ s.ask[r] = "none" \/ (s.ask[r] = "pending" /\ d.ask[r] # "none")
        /\ Ended(s.row[r]) => s.ask[r] = d.ask[r]
        /\ s.ask[r] # "none" => s.kind[r] = d.kind[r]
    BY DEF SnapOK
  <2>2. Ended(s.row[r]) => d.row[r] = s.row[r]
    BY <1>1 DEF RowsOK
  <2>3. /\ Ended(d.row[r]) => e.ask[r] = d.ask[r]
        /\ d.ask[r] # "none" => e.ask[r] # "none" /\ e.kind[r] = d.kind[r]
        /\ ~Unanswered(d.ask[r]) => e.ask[r] = d.ask[r]
    BY DEF Moves
  <2>. QED  BY <2>1, <2>2, <2>3 DEF Unanswered
<1>. QED  BY <1>1, <1>2 DEF SnapOK

LEMMA EventStaysTrue ==
  ASSUME NEW d, NEW e, Moves(d, e), NEW n, EventOK(n, d)
  PROVE  EventOK(n, e)
<1>1. n.run \in Runs /\ d.row[n.run] # "none"
  BY DEF EventOK
<1>2. e.row[n.run] # "none"
  BY <1>1 DEF Moves
<1>3. n.type = "resumed" => ~Unanswered(e.ask[n.run])
  BY <1>1 DEF EventOK, Moves
<1>4. n.type = "ask" => e.ask[n.run] # "none"
  BY <1>1 DEF EventOK, Moves
<1>5. n.type = "resolved" => /\ e.kind[n.run] = "approval" /\ n.verdict = e.ask[n.run]
                             /\ ~Unanswered(n.verdict)
  BY <1>1 DEF EventOK, Moves, Unanswered
<1>6. n.type = "end" => UpdateOK(n.update, e) /\ n.update.run = n.run /\ Ended(n.update.status)
  BY UpdateStaysTrue DEF EventOK
<1>. QED  BY <1>1, <1>2, <1>3, <1>4, <1>5, <1>6 DEF EventOK

LEMMA CallStaysTrue ==
  ASSUME NEW d, NEW e, Moves(d, e), NEW c, NEW k, CallOK(c, k, d)
  PROVE  CallOK(c, k, e)
<1>1. k.kind \in {"resolve", "answer"} =>
        /\ k.run \in Runs /\ e.ask[k.run] # "none"
        /\ k.kind = "resolve" <=> e.kind[k.run] = "approval"
  BY DEF CallOK, Moves
<1>2. k.kind = "stop" => k.run \in Runs /\ e.row[k.run] # "none"
  BY DEF CallOK, Moves
<1>3. ReplyOK(k, d)
  BY DEF CallOK
<1>4. ReplyOK(k, e)
  <2>1. CASE k.reply = Nothing \/ k.reply = Error
    BY <2>1 DEF ReplyOK
  <2>2. CASE ~(k.reply = Nothing \/ k.reply = Error)
    <3>1. k.pc = "ask" /\ k.kind \in {"start", "retry", "answer"} => UpdateOK(k.reply.body, e)
      BY <1>3, <2>2, UpdateStaysTrue DEF ReplyOK
    <3>2. k.pc = "ask" /\ k.kind \in {"answer", "resolve"} => ~Unanswered(e.ask[k.run])
      <4>1. k.kind \in {"answer", "resolve"} => k.run \in Runs
        BY DEF CallOK
      <4>. QED  BY <1>3, <2>2, <4>1 DEF ReplyOK, Moves
    <3>3. k.pc \in {"load", "repair"} => SnapOK(k.reply.body, e)
      BY <1>3, <2>2, SnapStaysTrue DEF ReplyOK
    <3>. QED  BY <1>3, <2>2, <3>1, <3>2, <3>3 DEF ReplyOK
  <2>. QED  BY <2>1, <2>2
<1>. QED  BY <1>1, <1>2, <1>4 DEF CallOK

LEMMA ViewStaysTrue ==
  ASSUME NEW d, NEW e, Moves(d, e), NEW v, NEW B,
         ViewOK(v, d), OverOK(v, d, B)
  PROVE  ViewOK(v, e) /\ OverOK(v, e, B)
<1>1. ASSUME NEW r \in Runs PROVE Fits(v, e, r)
  <2>1. Fits(v, d, r)
    BY DEF ViewOK
  <2>2. /\ d.row[r] # "none" => e.row[r] # "none"
        /\ d.ask[r] # "none" => e.ask[r] # "none" /\ e.kind[r] = d.kind[r]
        /\ ~Unanswered(d.ask[r]) => e.ask[r] = d.ask[r] /\ d.ask[r] # "none"
    BY DEF Moves, Unanswered
  <2>3. d.ask[r] = "approved" => ~Unanswered(d.ask[r])
    BY DEF Unanswered
  <2>4. v.run[r] # "none" => e.row[r] # "none"
    BY <2>1, <2>2 DEF Fits
  <2>5. v.card[r].status # "none" => e.ask[r] # "none" /\ e.kind[r] = d.kind[r]
    BY <2>1, <2>2 DEF Fits
  <2>6. v.card[r].resolved => /\ e.kind[r] = "approval" /\ ~Unanswered(e.ask[r])
                              /\ v.card[r].status = Word(e.ask[r]) /\ v.sending[r] = Free
    BY <2>1, <2>2 DEF Fits
  <2>7. v.card[r].status = "approved" /\ e.kind[r] = "approval" => e.ask[r] = "approved"
    BY <2>1, <2>2, <2>3, <2>5 DEF Fits
  <2>8. v.sending[r].accepted => ~Unanswered(e.ask[r])
    BY <2>1, <2>2 DEF Fits
  <2>. QED  BY <2>1, <2>4, <2>5, <2>6, <2>7, <2>8 DEF Fits
<1>2. ASSUME NEW r \in Runs \ B PROVE OverAt(v, e, r)
  BY DEF OverOK, OverAt, Moves
<1>. QED  BY <1>1, <1>2 DEF ViewOK, OverOK

LEMMA StaysPut == \A d : Moves(d, d)
BY DEF Moves

(* The rows of a run, and its thread, changed. *)
WithRows(d, r, row, task, ask, kind, retry) ==
  [d EXCEPT !.row[r] = row, !.task[r] = task, !.ask[r] = ask, !.kind[r] = kind, !.retry = retry]
WithJob(j, r, phase, by, halt) == [j EXCEPT !.phase[r] = phase, !.by[r] = by, !.halt = halt]
Phases == {"no", "new", "back", "work", "over"}

LEMMA RowsChanged ==
  ASSUME NEW d \in Db, NEW r \in Runs, NEW row \in Statuses, NEW task \in TaskRec, NEW ask \in Asks,
         NEW kind \in InputKinds, NEW retry \in SUBSET Runs
  PROVE  LET e == WithRows(d, r, row, task, ask, kind, retry) IN
         /\ e \in Db /\ e.retry = retry
         /\ e.row[r] = row /\ e.task[r] = task /\ e.ask[r] = ask /\ e.kind[r] = kind
         /\ \A q \in Runs \ {r} : e.row[q] = d.row[q] /\ e.task[q] = d.task[q]
                                  /\ e.ask[q] = d.ask[q] /\ e.kind[q] = d.kind[q]
<1>. DEFINE e == WithRows(d, r, row, task, ask, kind, retry)
<1>1. /\ e.row = [d.row EXCEPT ![r] = row] /\ e.task = [d.task EXCEPT ![r] = task]
      /\ e.ask = [d.ask EXCEPT ![r] = ask] /\ e.kind = [d.kind EXCEPT ![r] = kind]
      /\ e.retry = retry
  BY DEF Db, WithRows
<1>2. e \in Db
  BY DEF Db, WithRows
<1>. HIDE DEF e
<1>3. /\ d.row \in [Runs -> Statuses] /\ d.task \in [Runs -> TaskRec]
      /\ d.ask \in [Runs -> Asks] /\ d.kind \in [Runs -> InputKinds]
  BY DEF Db
<1>. QED  BY <1>1, <1>2, <1>3 DEF e

LEMMA JobChanged ==
  ASSUME NEW j \in Rows, NEW r \in Runs, NEW phase \in Phases, NEW by \in {0} \cup Calls, NEW halt \in SUBSET Runs
  PROVE  LET k == WithJob(j, r, phase, by, halt) IN
         /\ k \in Rows /\ k.halt = halt
         /\ k.phase[r] = phase /\ k.by[r] = by
         /\ \A q \in Runs \ {r} : k.phase[q] = j.phase[q] /\ k.by[q] = j.by[q]
<1>. DEFINE k == WithJob(j, r, phase, by, halt)
<1>1. /\ k.phase = [j.phase EXCEPT ![r] = phase] /\ k.by = [j.by EXCEPT ![r] = by] /\ k.halt = halt
  BY DEF Rows, WithJob
<1>2. k \in Rows
  BY DEF Rows, WithJob, Phases
<1>. HIDE DEF k
<1>3. j.phase \in [Runs -> Phases] /\ j.by \in [Runs -> {0} \cup Calls]
  BY DEF Rows, Phases
<1>. QED  BY <1>1, <1>2, <1>3 DEF k

LEMMA RowTypes ==
  ASSUME DbOK, NEW r \in Runs
  PROVE  /\ db \in Db /\ job \in Rows
         /\ db.row[r] \in Statuses /\ db.task[r] \in TaskRec /\ db.ask[r] \in Asks /\ db.kind[r] \in InputKinds
         /\ db.retry \in SUBSET Runs
         /\ job.phase[r] \in Phases /\ job.by[r] \in {0} \cup Calls /\ job.halt \in SUBSET Runs
         /\ RowOK(job.phase[r], db.row[r], db.task[r], db.ask[r], db.kind[r])
<1>1. db \in Db /\ job \in Rows /\ RowOK(job.phase[r], db.row[r], db.task[r], db.ask[r], db.kind[r])
  BY DEF DbOK
<1>2. /\ db.row[r] \in Statuses /\ db.task[r] \in TaskRec /\ db.ask[r] \in Asks /\ db.kind[r] \in InputKinds
      /\ db.retry \in SUBSET Runs
  BY <1>1 DEF Db
<1>3. job.phase[r] \in Phases /\ job.by[r] \in {0} \cup Calls /\ job.halt \in SUBSET Runs
  BY <1>1 DEF Rows, Phases
<1>. QED  BY <1>1, <1>2, <1>3

(* One run moves on. *)
MayMove(row, ask, kind, row2, ask2, kind2) ==
  /\ row # "none" => row2 # "none"
  /\ Ended(row) => row2 = row /\ ask2 = ask
  /\ ask # "none" => ask2 # "none" /\ kind2 = kind
  /\ ~Unanswered(ask) => ask2 = ask

OnlyRun(r) == \A q \in Runs \ {r} :
  /\ db'.row[q] = db.row[q] /\ db'.ask[q] = db.ask[q] /\ db'.kind[q] = db.kind[q]
  /\ job'.by[q] = job.by[q]

Change(r, row, task, ask, kind, retry, phase, by, halt) ==
  /\ row \in Statuses /\ task \in TaskRec /\ ask \in Asks /\ kind \in InputKinds /\ retry \in SUBSET Runs
  /\ phase \in Phases /\ by \in {0} \cup Calls /\ halt \in SUBSET Runs
  /\ db' = WithRows(db, r, row, task, ask, kind, retry) /\ job' = WithJob(job, r, phase, by, halt)
  /\ RowOK(phase, row, task, ask, kind)
  /\ MayMove(db.row[r], db.ask[r], db.kind[r], row, ask, kind)

LEMMA RunMoves ==
  ASSUME DbOK, NEW r \in Runs, NEW row, NEW task, NEW ask, NEW kind, NEW retry, NEW phase, NEW by, NEW halt,
         Change(r, row, task, ask, kind, retry, phase, by, halt)
  PROVE  /\ DbOK' /\ Moves(db, db') /\ OnlyRun(r)
         /\ db'.row[r] = row /\ db'.task[r] = task /\ db'.ask[r] = ask /\ db'.kind[r] = kind
         /\ job'.by[r] = by
<1>1. /\ row \in Statuses /\ task \in TaskRec /\ ask \in Asks /\ kind \in InputKinds /\ retry \in SUBSET Runs
      /\ phase \in Phases /\ by \in {0} \cup Calls /\ halt \in SUBSET Runs
      /\ db' = WithRows(db, r, row, task, ask, kind, retry) /\ job' = WithJob(job, r, phase, by, halt)
      /\ RowOK(phase, row, task, ask, kind)
      /\ MayMove(db.row[r], db.ask[r], db.kind[r], row, ask, kind)
  BY DEF Change
<1>2. db \in Db /\ job \in Rows
  BY DEF DbOK
<1>3. /\ db' \in Db
      /\ db'.row[r] = row /\ db'.task[r] = task /\ db'.ask[r] = ask /\ db'.kind[r] = kind
      /\ \A q \in Runs \ {r} : db'.row[q] = db.row[q] /\ db'.task[q] = db.task[q]
                               /\ db'.ask[q] = db.ask[q] /\ db'.kind[q] = db.kind[q]
  BY <1>1, <1>2, RowsChanged
<1>4. /\ job' \in Rows /\ job'.phase[r] = phase /\ job'.by[r] = by
      /\ \A q \in Runs \ {r} : job'.phase[q] = job.phase[q] /\ job'.by[q] = job.by[q]
  <2>1. r \in Runs /\ phase \in Phases /\ by \in {0} \cup Calls /\ halt \in SUBSET Runs
    BY <1>1
  <2>2. job' = WithJob(job, r, phase, by, halt)
    BY <1>1
  <2>. QED  BY <1>2, <2>1, <2>2, JobChanged
<1>5. \A q \in Runs \ {r} : RowOK(job'.phase[q], db'.row[q], db'.task[q], db'.ask[q], db'.kind[q])
  BY <1>3, <1>4 DEF DbOK
<1>6. RowOK(job'.phase[r], db'.row[r], db'.task[r], db'.ask[r], db'.kind[r])
  BY <1>1, <1>3, <1>4
<1>7. \A q \in Runs : RowOK(job'.phase[q], db'.row[q], db'.task[q], db'.ask[q], db'.kind[q])
  BY <1>5, <1>6
<1>8. DbOK'
  BY <1>3, <1>4, <1>7 DEF DbOK
<1>9. Moves(db, db')
  BY <1>1, <1>3 DEF Moves, MayMove
<1>. QED  BY <1>3, <1>4, <1>8, <1>9 DEF OnlyRun

(* What is sent keeps its order: the notices on their way stay so. *)
LEMMA Emitted ==
  ASSUME EventsOK, Moves(db, db'), NEW list \in Seq(Notices), Emit(list),
         \A i \in 1 .. Len(list) : EventOK(list[i], db')
  PROVE  /\ EventsOK'
         /\ \A type, r : Coming(events, type, r) => Coming(events', type, r)
         /\ \A i \in 1 .. Len(list) : Coming(events', list[i].type, list[i].run)
<1>. DEFINE es == events'
<1>1. es = events \o list /\ events \in Seq(Notices)
  BY DEF Emit, EventsOK
<1>2. /\ es \in Seq(Notices) /\ Len(es) = Len(events) + Len(list)
      /\ \A i \in 1 .. Len(events) : es[i] = events[i]
      /\ \A i \in (1 + Len(events)) .. (Len(events) + Len(list)) : es[i] = list[i - Len(events)]
  BY <1>1, ConcatProperties
<1>. HIDE DEF es
<1>3. /\ DOMAIN es = 1 .. (Len(events) + Len(list)) /\ DOMAIN events = 1 .. Len(events)
      /\ Len(events) \in Nat /\ Len(list) \in Nat
  BY <1>1, <1>2, LenProperties
<1>4. \A i \in DOMAIN events : EventOK(events[i], db')
  BY EventStaysTrue DEF EventsOK
<1>5. ASSUME NEW i \in DOMAIN es PROVE EventOK(es[i], db')
  <2>1. CASE i \in 1 .. Len(events)
    BY <1>2, <1>3, <1>4, <2>1
  <2>2. CASE i \notin 1 .. Len(events)
    <3>1. i \in (1 + Len(events)) .. (Len(events) + Len(list)) /\ i - Len(events) \in 1 .. Len(list)
      BY <1>3, <2>2
    <3>. QED  BY <1>2, <3>1
  <2>. QED  BY <2>1, <2>2
<1>6. EventsOK'
  BY <1>2, <1>5 DEF es, EventsOK
<1>7. ASSUME NEW type, NEW r, Coming(events, type, r) PROVE Coming(es, type, r)
  <2>1. PICK i \in DOMAIN events : events[i].type = type /\ events[i].run = r
    BY <1>7 DEF Coming
  <2>2. i \in DOMAIN es /\ es[i] = events[i]
    BY <1>2, <1>3
  <2>. QED  BY <2>1, <2>2 DEF Coming
<1>8. ASSUME NEW i \in 1 .. Len(list) PROVE Coming(es, list[i].type, list[i].run)
  <2>1. Len(events) + i \in DOMAIN es /\ es[Len(events) + i] = list[i]
    <3>1. /\ Len(events) + i \in (1 + Len(events)) .. (Len(events) + Len(list))
          /\ (Len(events) + i) - Len(events) = i
      BY <1>3
    <3>2. es[Len(events) + i] = list[(Len(events) + i) - Len(events)]
      BY <1>2, <3>1
    <3>. QED  BY <1>3, <3>1, <3>2
  <2>. QED  BY <2>1 DEF Coming
<1>. QED  BY <1>6, <1>7, <1>8 DEF es

LEMMA NothingEmitted ==
  ASSUME EventsOK, Moves(db, db'), UNCHANGED events
  PROVE  /\ EventsOK'
         /\ \A type, r : Coming(events, type, r) => Coming(events', type, r)
<1>1. \A i \in DOMAIN events : EventOK(events[i], db')
  BY EventStaysTrue DEF EventsOK
<1>. QED  BY <1>1 DEF EventsOK

(* An answer, or the end of the wait for it, only changes the reply. *)
WithReply(k, x) == [k EXCEPT !.reply = x]
SameCalls(cs, ds) == \A c \in AllCalls :
  ds[c].kind = cs[c].kind /\ ds[c].run = cs[c].run /\ ds[c].pc = cs[c].pc /\ ds[c].blamed = cs[c].blamed

LEMMA ReplyChanged ==
  ASSUME NEW k, k = CallRec(k), NEW x
  PROVE  LET m == WithReply(k, x) IN
         /\ m = CallRec(m) /\ m.reply = x
         /\ m.kind = k.kind /\ m.run = k.run /\ m.pc = k.pc /\ m.blamed = k.blamed
<1>1. WithReply(k, x) = CallRec(WithReply(k, x))
  BY DEF WithReply, CallRec
<1>2. /\ WithReply(k, x).reply = x
      /\ WithReply(k, x).kind = k.kind /\ WithReply(k, x).run = k.run
      /\ WithReply(k, x).pc = k.pc /\ WithReply(k, x).blamed = k.blamed
  BY DEF WithReply, CallRec
<1>. QED  BY <1>1, <1>2

(* What a reply must be, of a call of this kind that waits at pc. *)
ReplyFits(kind, run, pc, x, d) ==
  \/ x = Nothing
  \/ x = Error
  \/ /\ x.ok = TRUE
     /\ pc = "ask" /\ kind \in {"start", "retry", "answer"} => UpdateOK(x.body, d)
     /\ pc = "ask" /\ kind = "stop" => x.body \in BOOLEAN
     /\ pc = "ask" /\ kind \in {"answer", "resolve"} => ~Unanswered(d.ask[run])
     /\ pc \in {"load", "repair"} => SnapOK(x.body, d)

LEMMA CallReplied ==
  ASSUME NEW c \in AllCalls, NEW x, CallsOK, Moves(db, db'),
         call' = [call EXCEPT ![c].reply = x] \/ call' = call,
         ReplyFits(call[c].kind, call[c].run, call[c].pc, x, db') \/ call' = call
  PROVE  CallsOK' /\ SameCalls(call, call')
<1>1. CallsAre(call) /\ \A b \in AllCalls : CallOK(b, call[b], db) /\ CallOK(b, call[b], db')
  BY CallStaysTrue DEF CallsOK
<1>2. CASE call' = call
  BY <1>1, <1>2 DEF CallsOK, SameCalls
<1>3. CASE call' # call
  <2>. DEFINE k == WithReply(call[c], x)
  <2>1. call' = [call EXCEPT ![c] = k]
    BY <1>1, <1>3 DEF CallsAre, WithReply
  <2>2. call[c] = CallRec(call[c])
    BY <1>1 DEF CallOK
  <2>. HIDE DEF k
  <2>3. /\ CallsAre(call') /\ call'[c] = k /\ \A b \in AllCalls \ {c} : call'[b] = call[b]
    BY <1>1, <2>1 DEF CallsAre
  <2>4. /\ k = CallRec(k) /\ k.reply = x
        /\ k.kind = call[c].kind /\ k.run = call[c].run /\ k.pc = call[c].pc /\ k.blamed = call[c].blamed
    BY <2>2, ReplyChanged DEF k
  <2>5. ReplyOK(k, db')
    BY <1>3, <2>4 DEF ReplyOK, ReplyFits
  <2>6. CallOK(c, k, db')
    BY <1>1, <2>4, <2>5 DEF CallOK
  <2>7. \A b \in AllCalls : CallOK(b, call'[b], db')
    BY <1>1, <2>3, <2>6
  <2>8. SameCalls(call, call')
    BY <2>3, <2>4 DEF SameCalls
  <2>. QED  BY <2>3, <2>7, <2>8 DEF CallsOK
<1>. QED  BY <1>2, <1>3

LEMMA CallAnswered ==
  ASSUME NEW c, NEW pc, NEW x, CallsOK, Moves(db, db'), call' = Answer(call, c, pc, x),
         c \in AllCalls /\ call[c].pc = pc => ReplyFits(call[c].kind, call[c].run, pc, x, db')
  PROVE  CallsOK' /\ SameCalls(call, call')
<1>1. CASE c \in AllCalls /\ call[c].pc = pc /\ call[c].reply = Nothing
  <2>1. call' = [call EXCEPT ![c].reply = x]
    BY <1>1 DEF Answer
  <2>. QED  BY <1>1, <2>1, CallReplied
<1>2. CASE ~(c \in AllCalls /\ call[c].pc = pc /\ call[c].reply = Nothing)
  <2>1. call' = call
    BY <1>2 DEF Answer
  <2>2. CallsAre(call) /\ \A b \in AllCalls : CallOK(b, call[b], db')
    BY CallStaysTrue DEF CallsOK
  <2>. QED  BY <2>1, <2>2 DEF CallsOK, SameCalls
<1>. QED  BY <1>1, <1>2

-----------------------------------------------------------------------------
(***************************************************************************)
(* The steps of the runtime.                                               *)
(***************************************************************************)
Inv == VInv /\ SInv

News(r) ==
  /\ Ended(db'.row[r]) => Ended(db.row[r]) \/ Coming(events', "end", r)
  /\ db'.ask[r] = "pending" => db.ask[r] = "pending" \/ (db.ask[r] = "none" /\ Coming(events', "ask", r))
  /\ db'.kind[r] = "approval" /\ ~Unanswered(db'.ask[r]) =>
       ~Unanswered(db.ask[r]) \/ Coming(events', "resolved", r)

LEMMA CallNumbers == Calls \subseteq AllCalls /\ \A r \in Runs : Reload(r) \in AllCalls \ Calls
BY ViewConstantsOK DEF Calls, AllCalls, Runs, Reload

LEMMA RuntimeStep ==
  ASSUME Inv, DbOK', Moves(db, db'), CallsOK', SameCalls(call, call'), JobsOK', InboxOK', EventsOK',
         \A type, r : Coming(events, type, r) => Coming(events', type, r),
         \A r \in Runs : News(r), UNCHANGED view
  PROVE  Inv' /\ Blamed' = Blamed
<1>1. Blamed' = Blamed
  BY CallNumbers DEF Blamed, SameCalls
<1>2. ViewOK(view', db') /\ OverOK(view', db', Blamed')
  BY <1>1, ViewStaysTrue DEF Inv, VInv
<1>3. VInv'
  BY <1>2 DEF VInv
<1>4. ASSUME NEW r \in Runs \ Blamed, Ended(db'.row[r])
      PROVE  view.run[r] = db'.row[r] \/ Coming(events', "end", r)
  <2>1. CASE Ended(db.row[r])
    <3>1. db'.row[r] = db.row[r]
      BY <2>1 DEF Moves
    <3>2. view.run[r] = db.row[r] \/ Coming(events, "end", r)
      BY <2>1 DEF Inv, SInv, EndComes
    <3>. QED  BY <3>1, <3>2
  <2>2. CASE ~Ended(db.row[r])
    BY <1>4, <2>2 DEF News
  <2>. QED  BY <2>1, <2>2
<1>5. ASSUME NEW r \in Runs \ Blamed, db'.ask[r] = "pending"
      PROVE  \/ view.card[r].status = "pending"
             \/ view.card[r].status = "none" /\ Coming(events', "ask", r)
             \/ \E c \in Calls : call'[c].kind = "answer" /\ call'[c].run = r /\ call'[c].pc = "ask"
  <2>1. CASE db.ask[r] = "pending"
    <3>1. \/ view.card[r].status = "pending"
          \/ view.card[r].status = "none" /\ Coming(events, "ask", r)
          \/ \E c \in Calls : call[c].kind = "answer" /\ call[c].run = r /\ call[c].pc = "ask"
      BY <2>1 DEF Inv, SInv, AskComes
    <3>2. CASE \E c \in Calls : call[c].kind = "answer" /\ call[c].run = r /\ call[c].pc = "ask"
      <4>1. PICK c \in Calls : call[c].kind = "answer" /\ call[c].run = r /\ call[c].pc = "ask"
        BY <3>2
      <4>2. call'[c].kind = "answer" /\ call'[c].run = r /\ call'[c].pc = "ask"
        BY <4>1, CallNumbers DEF SameCalls
      <4>. QED  BY <4>2
    <3>. QED  BY <3>1, <3>2
  <2>2. CASE db.ask[r] # "pending"
    <3>1. db.ask[r] = "none" /\ Coming(events', "ask", r)
      BY <1>5, <2>2 DEF News
    <3>2. Fits(view, db, r)
      BY DEF Inv, VInv, ViewOK
    <3>. QED  BY <3>1, <3>2 DEF Fits
  <2>. QED  BY <2>1, <2>2
<1>6. ASSUME NEW r \in Runs, db'.kind[r] = "approval", ~Unanswered(db'.ask[r])
      PROVE  view.card[r].resolved \/ Coming(events', "resolved", r)
  <2>1. CASE ~Unanswered(db.ask[r])
    <3>1. db.kind[r] = "approval"
      BY <1>6, <2>1 DEF Moves, Unanswered
    <3>2. view.card[r].resolved \/ Coming(events, "resolved", r)
      BY <2>1, <3>1 DEF Inv, SInv, VerdictComes
    <3>. QED  BY <3>2
  <2>2. CASE Unanswered(db.ask[r])
    BY <1>6, <2>2 DEF News
  <2>. QED  BY <2>1, <2>2
<1>7. ASSUME NEW r \in Runs, view.sending[r] # Free
      PROVE  LET k == call'[view.sending[r].call] IN
             /\ k.kind \in {"resolve", "answer"} /\ k.run = r
             /\ k.pc = "ask" \/ (k.kind = "resolve" /\ Coming(events', "resolved", r))
  <2>. DEFINE c == view.sending[r].call
  <2>1. /\ call[c].kind \in {"resolve", "answer"} /\ call[c].run = r
        /\ call[c].pc = "ask" \/ (call[c].kind = "resolve" /\ Coming(events, "resolved", r))
    BY <1>7 DEF Inv, SInv, SendingEnds
  <2>2. c \in AllCalls
    <3>1. view \in View /\ Fits(view, db, r)
      BY DEF Inv, VInv, ViewOK
    <3>2. view.sending[r] \in Sent
      BY <3>1, ViewParts DEF Sent
    <3>. QED  BY <1>7, <3>1, <3>2, CallNumbers DEF Fits, Sent
  <2>3. call'[c].kind = call[c].kind /\ call'[c].run = call[c].run /\ call'[c].pc = call[c].pc
    BY <2>2 DEF SameCalls
  <2>. QED  BY <2>1, <2>3
<1>8. ASSUME NEW c \in view.retrying
      PROVE  call'[c].kind = "retry" /\ call'[c].pc \in {"ask", "load", "repair"}
  <2>1. call[c].kind = "retry" /\ call[c].pc \in {"ask", "load", "repair"}
    BY DEF Inv, SInv, RetryingEnds
  <2>2. c \in AllCalls
    BY CallNumbers, ViewParts DEF Inv, VInv, ViewOK
  <2>. QED  BY <2>1, <2>2 DEF SameCalls
<1>9. SInv'
  BY <1>1, <1>4, <1>5, <1>6, <1>7, <1>8 DEF SInv, EndComes, AskComes, VerdictComes, SendingEnds, RetryingEnds
<1>. QED  BY <1>1, <1>3, <1>9 DEF Inv

LEMMA JobsKept ==
  ASSUME Inv, DbOK', Moves(db, db'), SameCalls(call, call'),
         \A r \in Runs : \/ job'.by[r] \in {0, job.by[r]}
                         \/ call[job'.by[r]].kind = "start"
                         \/ /\ call[job'.by[r]].kind = "answer" /\ call[job'.by[r]].run = r
                            /\ ~Unanswered(db'.ask[r])
  PROVE  JobsOK'
<1>. SUFFICES ASSUME NEW r \in Runs, job'.by[r] # 0
              PROVE  \/ call'[job'.by[r]].kind = "start"
                     \/ /\ call'[job'.by[r]].kind = "answer" /\ call'[job'.by[r]].run = r
                        /\ ~Unanswered(db'.ask[r])
  BY DEF JobsOK
<1>1. job'.by[r] \in AllCalls
  <2>1. job' \in Rows
    BY DEF DbOK
  <2>2. job'.by[r] \in {0} \cup Calls
    BY <2>1 DEF Rows
  <2>. QED  BY <2>2, CallNumbers
<1>2. call'[job'.by[r]].kind = call[job'.by[r]].kind /\ call'[job'.by[r]].run = call[job'.by[r]].run
  BY <1>1 DEF SameCalls
<1>3. CASE job'.by[r] = job.by[r]
  <2>1. \/ call[job.by[r]].kind = "start"
        \/ call[job.by[r]].kind = "answer" /\ call[job.by[r]].run = r /\ ~Unanswered(db.ask[r])
    BY <1>3 DEF Inv, VInv, JobsOK
  <2>2. ~Unanswered(db.ask[r]) => ~Unanswered(db'.ask[r])
    BY DEF Moves
  <2>. QED  BY <1>2, <1>3, <2>1, <2>2
<1>4. CASE job'.by[r] # job.by[r]
  BY <1>2, <1>4
<1>. QED  BY <1>3, <1>4

LEMMA InboxKept ==
  ASSUME InboxOK, Moves(db, db'), inbox' \subseteq inbox
  PROVE  InboxOK'
<1>. SUFFICES ASSUME NEW m \in inbox
              PROVE  /\ m \in AllCalls \X {"ask", "load", "repair"} \X {m[3]}
                     /\ m[3] = Unread \/ RowsOK(m[3], db')
  BY DEF InboxOK
<1>. QED  BY RowsStayTrue DEF InboxOK

LEMMA PlainNotice ==
  ASSUME NEW r \in Runs, NEW d, d.row[r] # "none", NEW type \in {"started", "plan", "resumed", "ask"},
         type = "resumed" => ~Unanswered(d.ask[r]), type = "ask" => d.ask[r] # "none"
  PROVE  Event(type, r) \in Notices /\ EventOK(Event(type, r), d)
         /\ Event(type, r).type = type /\ Event(type, r).run = r
<1>. DEFINE e == Event(type, r)
<1>1. e.type = type /\ e.run = r /\ e \in Notices
  BY DEF Event, Notices
<1>. HIDE DEF e
<1>2. EventOK(e, d)
  BY <1>1 DEF EventOK
<1>. QED  BY <1>1, <1>2 DEF e

LEMMA TaskNotice ==
  ASSUME NEW r \in Runs, NEW d, d.row[r] # "none", NEW t \in TaskRec, t.status # "none"
  PROVE  TaskEvent(r, t) \in Notices /\ EventOK(TaskEvent(r, t), d)
<1>. DEFINE u == [t EXCEPT !.stamp = @ + 1]
            e == TaskEvent(r, t)
<1>1. u \in TaskRec /\ u.status = t.status
  BY DEF TaskRec
<1>2. e = [type |-> "task", run |-> r, task |-> u]
  BY DEF TaskEvent
<1>. HIDE DEF u
<1>3. e.type = "task" /\ e.run = r /\ e.task = u /\ e \in Notices
  BY <1>1, <1>2 DEF Notices
<1>. HIDE DEF e
<1>4. EventOK(e, d)
  BY <1>1, <1>3 DEF EventOK
<1>. QED  BY <1>3, <1>4 DEF e

LEMMA RowOfTask ==
  ASSUME DbOK, NEW r \in Runs, NEW s \in TaskStatuses
  PROVE  TaskRow(r, s) \in TaskRec /\ TaskRow(r, s).status = s
<1>1. db.task[r] \in TaskRec
  BY RowTypes
<1>2. db.task[r].stamp + 2 \in Nat
  BY <1>1 DEF TaskRec
<1>3. \A x \in Nat : LET t == [db.task[r] EXCEPT !.status = s, !.stamp = x] IN t \in TaskRec /\ t.status = s
  BY <1>1 DEF TaskRec
<1>. QED  BY <1>2, <1>3 DEF TaskRow

LEMMA ClosedRow ==
  ASSUME DbOK, NEW r \in Runs, NEW s \in Overs
  PROVE  ClosedTask(r, s) \in TaskRec
<1>1. s \in TaskStatuses
  BY NoneTypes
<1>. QED  BY <1>1, RowTypes, RowOfTask DEF ClosedTask

LEMMA UpdateFits ==
  ASSUME NEW r \in Runs, NEW s \in Statuses \ {"none"}, NEW t \in TaskRec, NEW d,
         d.row[r] = s, s = "waiting" => d.ask[r] # "none"
  PROVE  LET u == Update(r, s, t) IN
         u \in UpdateType /\ UpdateOK(u, d) /\ u.run = r /\ u.status = s
<1>. DEFINE u == Update(r, s, t)
<1>1. t.status \in TaskStatuses
  BY DEF TaskRec
<1>2. u.run = r /\ u.status = s /\ u.task = t.status /\ u.asks = (s = "waiting")
  BY DEF Update
<1>3. u \in UpdateType
  BY <1>1 DEF Update, UpdateType
<1>. HIDE DEF u
<1>4. UpdateOK(u, d)
  BY <1>2, <1>3 DEF UpdateOK, UpdateType, Ended, Overs
<1>. QED  BY <1>2, <1>3, <1>4 DEF u

LEMMA QuietRun ==
  ASSUME DbOK, NEW r \in Runs, OnlyRun(r), Moves(db, db'), News(r)
  PROVE  \A q \in Runs : News(q)
BY DEF OnlyRun, News

LEMMA RunEnds ==
  ASSUME VInv, NEW r \in Runs, NEW s \in Overs, db.row[r] \in {"running", "waiting"},
         db' = Ending(r, s), Emit(EndNotices(r, s)),
         NEW by \in {0} \cup Calls, NEW halt \in SUBSET Runs, job' = WithJob(job, r, "no", by, halt)
  PROVE  /\ DbOK' /\ Moves(db, db') /\ OnlyRun(r) /\ EventsOK' /\ job'.by[r] = by
         /\ \A type, q : Coming(events, type, q) => Coming(events', type, q)
         /\ \A q \in Runs : News(q)
         /\ UpdateOK(Update(r, s, ClosedTask(r, s)), db')
<1>. DEFINE ask == IF db.ask[r] = "pending" THEN "expired" ELSE db.ask[r]
            task == ClosedTask(r, s)
            open == db.ask[r] = "pending" /\ db.kind[r] = "approval"
            last == [type |-> "end", run |-> r, update |-> Update(r, s, task)]
            notice == [type |-> "resolved", run |-> r, verdict |-> "expired"]
            list == EndNotices(r, s)
<1>1. DbOK /\ EventsOK
  BY DEF VInv
<1>2. /\ db \in Db /\ job \in Rows
      /\ db.row[r] \in Statuses /\ db.task[r] \in TaskRec /\ db.ask[r] \in Asks /\ db.kind[r] \in InputKinds
      /\ db.retry \in SUBSET Runs
      /\ RowOK(job.phase[r], db.row[r], db.task[r], db.ask[r], db.kind[r])
  BY <1>1, RowTypes
<1>3. s \in Statuses /\ s # "none" /\ s # "waiting" /\ s # "running" /\ Ended(s)
  BY NoneTypes DEF Overs, Ended
<1>4. ask \in Asks /\ task \in TaskRec /\ "no" \in Phases
  BY <1>1, <1>2, ClosedRow DEF Asks, Phases
<1>5. db' = WithRows(db, r, s, task, ask, db.kind[r], db.retry)
  BY <1>2 DEF Ending, WithRows, Db
<1>6. /\ RowOK("no", s, task, ask, db.kind[r])
      /\ MayMove(db.row[r], db.ask[r], db.kind[r], s, ask, db.kind[r])
  <2>1. RowOK("no", s, task, ask, db.kind[r])
    BY <1>2, <1>3 DEF RowOK
  <2>2. MayMove(db.row[r], db.ask[r], db.kind[r], s, ask, db.kind[r])
    BY <1>3 DEF MayMove, Ended, Overs, Unanswered
  <2>. QED  BY <2>1, <2>2
<1>. HIDE DEF ask
<1>. HIDE DEF task
<1>7. Change(r, s, task, ask, db.kind[r], db.retry, "no", by, halt)
  BY <1>2, <1>3, <1>4, <1>5, <1>6 DEF Change
<1>8. /\ DbOK' /\ Moves(db, db') /\ OnlyRun(r)
      /\ db'.row[r] = s /\ db'.ask[r] = ask /\ db'.kind[r] = db.kind[r] /\ job'.by[r] = by
  BY <1>1, <1>7, RunMoves
<1>9. /\ Update(r, s, task) \in UpdateType /\ UpdateOK(Update(r, s, task), db')
      /\ Update(r, s, task).run = r /\ Update(r, s, task).status = s
  BY <1>3, <1>4, <1>8, UpdateFits
<1>10. last \in Notices /\ EventOK(last, db') /\ last.type = "end" /\ last.run = r
  <2>1. last.type = "end" /\ last.run = r /\ last.update = Update(r, s, task)
    OBVIOUS
  <2>2. last \in Notices
    BY <1>9 DEF Notices
  <2>. HIDE DEF last
  <2>3. EventOK(last, db')
    BY <1>3, <1>8, <1>9, <2>1 DEF EventOK
  <2>. QED  BY <2>1, <2>2, <2>3
<1>11. open => /\ notice \in Notices /\ EventOK(notice, db') /\ notice.type = "resolved" /\ notice.run = r
  <2>1. notice.type = "resolved" /\ notice.run = r /\ notice.verdict = "expired" /\ notice \in Notices
    BY DEF Notices, Asks
  <2>2. open => db'.ask[r] = "expired" /\ db'.kind[r] = "approval"
    BY <1>8 DEF ask
  <2>. HIDE DEF notice
  <2>3. open => EventOK(notice, db')
    BY <1>3, <1>8, <2>1, <2>2 DEF EventOK, Unanswered
  <2>. QED  BY <2>1, <2>3
<1>12. list = (IF open THEN <<notice>> ELSE <<>>) \o <<last>>
  BY DEF EndNotices, task
<1>. HIDE DEF last
<1>. HIDE DEF notice
<1>. HIDE DEF list
<1>13. /\ list \in Seq(Notices) /\ \A i \in 1 .. Len(list) : EventOK(list[i], db')
       /\ \E i \in 1 .. Len(list) : list[i] = last
       /\ open => \E i \in 1 .. Len(list) : list[i] = notice
  <2>1. CASE open
    <3>1. <<notice>> \in Seq(Notices) /\ <<last>> \in Seq(Notices) /\ list = <<notice>> \o <<last>>
      BY <1>10, <1>11, <1>12, <2>1
    <3>2. /\ list \in Seq(Notices) /\ Len(list) = Len(<<notice>>) + Len(<<last>>)
          /\ \A i \in 1 .. Len(<<notice>>) + Len(<<last>>) :
               list[i] = IF i <= Len(<<notice>>) THEN <<notice>>[i] ELSE <<last>>[i - Len(<<notice>>)]
      BY <3>1, ConcatProperties, Zenon
    <3>3. Len(<<notice>>) = 1 /\ Len(<<last>>) = 1 /\ <<notice>>[1] = notice /\ <<last>>[1] = last
      OBVIOUS
    <3>4. Len(list) = 2 /\ list[1] = notice /\ list[2] = last
      BY <3>2, <3>3
    <3>. QED  BY <1>10, <1>11, <2>1, <3>2, <3>4
  <2>2. CASE ~open
    <3>1. <<last>> \in Seq(Notices)
      BY <1>10
    <3>2. list = << >> \o <<last>>
      BY <1>12, <2>2, Zenon
    <3>3. list = <<last>>
      BY <3>1, <3>2, ConcatEmptySeq, Zenon
    <3>4. Len(<<last>>) = 1 /\ <<last>>[1] = last
      OBVIOUS
    <3>. QED  BY <1>10, <2>2, <3>1, <3>4, <3>3
  <2>. QED  BY <2>1, <2>2
<1>14. /\ EventsOK'
       /\ \A type, q : Coming(events, type, q) => Coming(events', type, q)
       /\ \A i \in 1 .. Len(list) : Coming(events', list[i].type, list[i].run)
  BY <1>1, <1>8, <1>13, Emitted DEF list
<1>15. Coming(events', "end", r) /\ (open => Coming(events', "resolved", r))
  BY <1>10, <1>11, <1>13, <1>14
<1>16. News(r)
  <2>1. db'.ask[r] # "pending"
    BY <1>8 DEF ask
  <2>2. db'.kind[r] = "approval" /\ ~Unanswered(db'.ask[r]) => ~Unanswered(db.ask[r]) \/ open
    BY <1>8 DEF ask, Unanswered
  <2>. QED  BY <1>15, <2>1, <2>2 DEF News
<1>. QED  BY <1>1, <1>8, <1>9, <1>14, <1>16, QuietRun DEF task

LEMMA CallsStay ==
  ASSUME CallsOK, Moves(db, db'), UNCHANGED call
  PROVE  CallsOK' /\ SameCalls(call, call')
<1>1. CallsAre(call) /\ \A b \in AllCalls : CallOK(b, call[b], db')
  BY CallStaysTrue DEF CallsOK
<1>. QED  BY <1>1 DEF CallsOK, SameCalls

(* A step of one run. *)
LEMMA RunStep ==
  ASSUME Inv, NEW r \in Runs, DbOK', Moves(db, db'), OnlyRun(r), EventsOK',
         \A type, q : Coming(events, type, q) => Coming(events', type, q),
         \A q \in Runs : News(q), UNCHANGED view, inbox' \subseteq inbox,
         CallsOK', SameCalls(call, call'),
         \/ job'.by[r] \in {0, job.by[r]}
         \/ call[job'.by[r]].kind = "start"
         \/ /\ call[job'.by[r]].kind = "answer" /\ call[job'.by[r]].run = r
            /\ ~Unanswered(db'.ask[r])
  PROVE  Inv' /\ Blamed' = Blamed
<1>1. \A q \in Runs : \/ job'.by[q] \in {0, job.by[q]}
                      \/ call[job'.by[q]].kind = "start"
                      \/ /\ call[job'.by[q]].kind = "answer" /\ call[job'.by[q]].run = q
                         /\ ~Unanswered(db'.ask[q])
  BY DEF OnlyRun
<1>2. JobsOK'
  BY <1>1, JobsKept
<1>3. InboxOK'
  BY InboxKept DEF Inv, VInv
<1>. QED  BY <1>2, <1>3, RuntimeStep

LEMMA BeginStep ==
  ASSUME Inv, NEW r \in Runs, Begin(r)
  PROVE  Inv' /\ Blamed' = Blamed
<1>. DEFINE t == Report("running", 2)
            a == Event("started", r)
            b == Event("plan", r)
            e == TaskEvent(r, t)
<1>1. DbOK /\ CallsOK /\ EventsOK
  BY DEF Inv, VInv
<1>2. /\ db \in Db /\ job \in Rows
      /\ db.row[r] \in Statuses /\ db.task[r] \in TaskRec /\ db.ask[r] \in Asks /\ db.kind[r] \in InputKinds
      /\ db.retry \in SUBSET Runs /\ job.by[r] \in {0} \cup Calls /\ job.halt \in SUBSET Runs
      /\ RowOK(job.phase[r], db.row[r], db.task[r], db.ask[r], db.kind[r])
  BY <1>1, RowTypes
<1>3. /\ job.phase[r] = "new"
      /\ job' = [job EXCEPT !.phase[r] = "work"] /\ db' = [db EXCEPT !.task[r] = t]
      /\ Emit(<<a, b, e>>) /\ UNCHANGED <<inbox, call, view>>
  BY DEF Begin
<1>4. t \in TaskRec /\ t.status = "running" /\ "work" \in Phases
  BY DEF Report, TaskRec, TaskStatuses, Phases
<1>. HIDE DEF t
<1>5. db' = WithRows(db, r, db.row[r], t, db.ask[r], db.kind[r], db.retry)
  BY <1>2, <1>3 DEF WithRows, Db
<1>6. job' = WithJob(job, r, "work", job.by[r], job.halt)
  BY <1>2, <1>3 DEF WithJob, Rows
<1>7. /\ RowOK("work", db.row[r], t, db.ask[r], db.kind[r])
      /\ MayMove(db.row[r], db.ask[r], db.kind[r], db.row[r], db.ask[r], db.kind[r])
      /\ db.row[r] = "running"
  BY <1>2, <1>3 DEF RowOK, MayMove
<1>8. Change(r, db.row[r], t, db.ask[r], db.kind[r], db.retry, "work", job.by[r], job.halt)
  BY <1>2, <1>4, <1>5, <1>6, <1>7 DEF Change
<1>9. /\ DbOK' /\ Moves(db, db') /\ OnlyRun(r)
      /\ db'.row[r] = db.row[r] /\ db'.ask[r] = db.ask[r] /\ db'.kind[r] = db.kind[r] /\ job'.by[r] = job.by[r]
  BY <1>1, <1>8, RunMoves
<1>10. /\ a \in Notices /\ EventOK(a, db') /\ b \in Notices /\ EventOK(b, db')
      /\ e \in Notices /\ EventOK(e, db')
  BY <1>4, <1>7, <1>9, PlainNotice, TaskNotice
<1>. HIDE DEF a, b, e
<1>11. /\ <<a, b, e>> \in Seq(Notices)
      /\ \A i \in 1 .. Len(<<a, b, e>>) : EventOK(<<a, b, e>>[i], db')
  BY <1>10
<1>12. EventsOK' /\ \A type, q : Coming(events, type, q) => Coming(events', type, q)
  BY <1>1, <1>3, <1>9, <1>11, Emitted
<1>13. \A q \in Runs : News(q)
  BY <1>1, <1>9, QuietRun DEF News
<1>14. CallsOK' /\ SameCalls(call, call')
  BY <1>1, <1>3, <1>9, CallsStay
<1>. QED  BY <1>3, <1>9, <1>12, <1>13, <1>14, RunStep

LEMMA ContinueStep ==
  ASSUME Inv, NEW r \in Runs, Continue(r)
  PROVE  Inv' /\ Blamed' = Blamed
<1>. DEFINE t == TaskRow(r, "running")
            a == Event("resumed", r)
            e == TaskEvent(r, t)
<1>1. DbOK /\ CallsOK /\ EventsOK
  BY DEF Inv, VInv
<1>2. /\ db \in Db /\ job \in Rows
      /\ db.row[r] \in Statuses /\ db.task[r] \in TaskRec /\ db.ask[r] \in Asks /\ db.kind[r] \in InputKinds
      /\ db.retry \in SUBSET Runs /\ job.by[r] \in {0} \cup Calls /\ job.halt \in SUBSET Runs
      /\ RowOK(job.phase[r], db.row[r], db.task[r], db.ask[r], db.kind[r])
  BY <1>1, RowTypes
<1>3. /\ job.phase[r] = "back"
      /\ job' = [job EXCEPT !.phase[r] = "work"] /\ db' = [db EXCEPT !.task[r] = t]
      /\ Emit(<<a, e>>) /\ UNCHANGED <<inbox, call, view>>
  BY DEF Continue
<1>4. t \in TaskRec /\ t.status = "running" /\ "work" \in Phases
  BY <1>1, RowOfTask DEF TaskStatuses, Phases
<1>. HIDE DEF t
<1>5. db' = WithRows(db, r, db.row[r], t, db.ask[r], db.kind[r], db.retry)
  BY <1>2, <1>3 DEF WithRows, Db
<1>6. job' = WithJob(job, r, "work", job.by[r], job.halt)
  BY <1>2, <1>3 DEF WithJob, Rows
<1>7. /\ RowOK("work", db.row[r], t, db.ask[r], db.kind[r])
      /\ MayMove(db.row[r], db.ask[r], db.kind[r], db.row[r], db.ask[r], db.kind[r])
      /\ db.row[r] = "running"
  BY <1>2, <1>3 DEF RowOK, MayMove
<1>8. Change(r, db.row[r], t, db.ask[r], db.kind[r], db.retry, "work", job.by[r], job.halt)
  BY <1>2, <1>4, <1>5, <1>6, <1>7 DEF Change
<1>9. /\ DbOK' /\ Moves(db, db') /\ OnlyRun(r)
      /\ db'.row[r] = db.row[r] /\ db'.ask[r] = db.ask[r] /\ db'.kind[r] = db.kind[r] /\ job'.by[r] = job.by[r]
  BY <1>1, <1>8, RunMoves
<1>10. ~Unanswered(db.ask[r])
  BY <1>2, <1>3 DEF RowOK
<1>11. /\ a \in Notices /\ EventOK(a, db')
      /\ e \in Notices /\ EventOK(e, db')
  BY <1>4, <1>7, <1>9, <1>10, PlainNotice, TaskNotice
<1>. HIDE DEF a, e
<1>12. /\ <<a, e>> \in Seq(Notices)
      /\ \A i \in 1 .. Len(<<a, e>>) : EventOK(<<a, e>>[i], db')
  BY <1>11
<1>13. EventsOK' /\ \A type, q : Coming(events, type, q) => Coming(events', type, q)
  BY <1>1, <1>3, <1>9, <1>12, Emitted
<1>14. \A q \in Runs : News(q)
  BY <1>1, <1>9, QuietRun DEF News
<1>15. CallsOK' /\ SameCalls(call, call')
  BY <1>1, <1>3, <1>9, CallsStay
<1>. QED  BY <1>3, <1>9, <1>13, <1>14, <1>15, RunStep

LEMMA TaskDoneStep ==
  ASSUME Inv, NEW r \in Runs, NEW s \in {"completed", "failed"}, TaskDone(r, s)
  PROVE  Inv' /\ Blamed' = Blamed
<1>. DEFINE t == TaskRow(r, s)
            e == TaskEvent(r, t)
<1>1. DbOK /\ CallsOK /\ EventsOK
  BY DEF Inv, VInv
<1>2. /\ db \in Db /\ job \in Rows
      /\ db.row[r] \in Statuses /\ db.task[r] \in TaskRec /\ db.ask[r] \in Asks /\ db.kind[r] \in InputKinds
      /\ db.retry \in SUBSET Runs /\ job.by[r] \in {0} \cup Calls /\ job.halt \in SUBSET Runs
      /\ RowOK(job.phase[r], db.row[r], db.task[r], db.ask[r], db.kind[r])
  BY <1>1, RowTypes
<1>3. /\ job.phase[r] = "work"
      /\ job' = [job EXCEPT !.phase[r] = "over"] /\ db' = [db EXCEPT !.task[r] = t]
      /\ Emit(<<e>>) /\ UNCHANGED <<inbox, call, view>>
  BY DEF TaskDone
<1>4. t \in TaskRec /\ t.status = s /\ "over" \in Phases
  BY <1>1, RowOfTask DEF TaskStatuses, Overs, Phases
<1>. HIDE DEF t
<1>5. db' = WithRows(db, r, db.row[r], t, db.ask[r], db.kind[r], db.retry)
  BY <1>2, <1>3 DEF WithRows, Db
<1>6. job' = WithJob(job, r, "over", job.by[r], job.halt)
  BY <1>2, <1>3 DEF WithJob, Rows
<1>7. /\ RowOK("over", db.row[r], t, db.ask[r], db.kind[r])
      /\ MayMove(db.row[r], db.ask[r], db.kind[r], db.row[r], db.ask[r], db.kind[r])
      /\ db.row[r] = "running"
  BY <1>2, <1>3, <1>4 DEF RowOK, MayMove
<1>8. Change(r, db.row[r], t, db.ask[r], db.kind[r], db.retry, "over", job.by[r], job.halt)
  BY <1>2, <1>4, <1>5, <1>6, <1>7 DEF Change
<1>9. /\ DbOK' /\ Moves(db, db') /\ OnlyRun(r)
      /\ db'.row[r] = db.row[r] /\ db'.ask[r] = db.ask[r] /\ db'.kind[r] = db.kind[r] /\ job'.by[r] = job.by[r]
  BY <1>1, <1>8, RunMoves
<1>10. e \in Notices /\ EventOK(e, db')
  BY <1>4, <1>7, <1>9, TaskNotice
<1>. HIDE DEF e
<1>11. <<e>> \in Seq(Notices) /\ \A i \in 1 .. Len(<<e>>) : EventOK(<<e>>[i], db')
  BY <1>10
<1>12. EventsOK' /\ \A type, q : Coming(events, type, q) => Coming(events', type, q)
  BY <1>1, <1>3, <1>9, <1>11, Emitted
<1>13. \A q \in Runs : News(q)
  BY <1>1, <1>9, QuietRun DEF News
<1>14. CallsOK' /\ SameCalls(call, call')
  BY <1>1, <1>3, <1>9, CallsStay
<1>. QED  BY <1>3, <1>9, <1>12, <1>13, <1>14, RunStep

(* What a thread answers fits the call it was started by. *)
LEMMA ThreadAnswers ==
  ASSUME VInv, NEW r \in Runs, Moves(db, db'), NEW u, UpdateOK(u, db'),
         ReplyTo(job.by[r], Ok(u))
  PROVE  CallsOK' /\ SameCalls(call, call')
<1>. DEFINE c == job.by[r]
            x == Ok(u)
<1>1. x.ok = TRUE /\ x.body = u
  BY DEF Ok
<1>2. call' = Answer(call, c, "ask", x) /\ CallsOK
  BY DEF ReplyTo, VInv
<1>3. ASSUME c \in AllCalls PROVE ReplyFits(call[c].kind, call[c].run, "ask", x, db')
  <2>1. c # 0
    BY <1>3, ViewConstantsOK DEF AllCalls
  <2>2. \/ call[c].kind = "start"
        \/ call[c].kind = "answer" /\ call[c].run = r /\ ~Unanswered(db.ask[r])
    BY <2>1 DEF VInv, JobsOK
  <2>3. ~Unanswered(db.ask[r]) => ~Unanswered(db'.ask[r])
    BY DEF Moves
  <2>. HIDE DEF x
  <2>. QED  BY <1>1, <2>2, <2>3 DEF ReplyFits
<1>. HIDE DEF c, x
<1>. QED  BY <1>2, <1>3, CallAnswered

LEMMA PauseStep ==
  ASSUME Inv, NEW r \in Runs, NEW kind \in InputKinds, Pause(r, kind)
  PROVE  Inv' /\ Blamed' = Blamed
<1>. DEFINE t == TaskRow(r, "waiting")
            e == TaskEvent(r, t)
            a == Event("ask", r)
            u == Update(r, "waiting", t)
<1>1. DbOK /\ CallsOK /\ EventsOK /\ VInv
  BY DEF Inv, VInv
<1>2. /\ db \in Db /\ job \in Rows
      /\ db.row[r] \in Statuses /\ db.task[r] \in TaskRec /\ db.ask[r] \in Asks /\ db.kind[r] \in InputKinds
      /\ db.retry \in SUBSET Runs /\ job.by[r] \in {0} \cup Calls /\ job.halt \in SUBSET Runs
      /\ RowOK(job.phase[r], db.row[r], db.task[r], db.ask[r], db.kind[r])
  BY <1>1, RowTypes
<1>3. /\ job.phase[r] = "work" /\ db.ask[r] = "none"
      /\ db' = [db EXCEPT !.row[r] = "waiting", !.task[r] = t, !.ask[r] = "pending", !.kind[r] = kind]
      /\ job' = [job EXCEPT !.phase[r] = "no", !.by[r] = 0]
      /\ ReplyTo(job.by[r], Ok(u)) /\ Emit(<<e, a>>) /\ UNCHANGED <<inbox, view>>
  BY DEF Pause
<1>4. /\ t \in TaskRec /\ t.status = "waiting" /\ "no" \in Phases
      /\ "waiting" \in Statuses \ {"none"} /\ "pending" \in Asks
  BY <1>1, RowOfTask DEF TaskStatuses, Phases, Statuses, Asks
<1>. HIDE DEF t
<1>5. db' = WithRows(db, r, "waiting", t, "pending", kind, db.retry)
  BY <1>2, <1>3 DEF WithRows, Db
<1>6. job' = WithJob(job, r, "no", 0, job.halt)
  BY <1>2, <1>3 DEF WithJob, Rows
<1>7. /\ RowOK("no", "waiting", t, "pending", kind)
      /\ MayMove(db.row[r], db.ask[r], db.kind[r], "waiting", "pending", kind)
      /\ db.row[r] = "running"
  BY <1>2, <1>3, <1>4 DEF RowOK, MayMove, Unanswered, Ended, Overs
<1>8. Change(r, "waiting", t, "pending", kind, db.retry, "no", 0, job.halt)
  BY <1>2, <1>4, <1>5, <1>6, <1>7 DEF Change
<1>9. /\ DbOK' /\ Moves(db, db') /\ OnlyRun(r)
      /\ db'.row[r] = "waiting" /\ db'.ask[r] = "pending" /\ db'.kind[r] = kind /\ job'.by[r] = 0
  BY <1>1, <1>8, RunMoves
<1>10. e \in Notices /\ EventOK(e, db') /\ a \in Notices /\ EventOK(a, db') /\ a.type = "ask" /\ a.run = r
  BY <1>4, <1>9, TaskNotice, PlainNotice
<1>11. UpdateOK(u, db')
  BY <1>4, <1>9, UpdateFits
<1>. HIDE DEF e, a, u
<1>12. /\ <<e, a>> \in Seq(Notices) /\ \A i \in 1 .. Len(<<e, a>>) : EventOK(<<e, a>>[i], db')
       /\ 2 \in 1 .. Len(<<e, a>>) /\ <<e, a>>[2] = a
  BY <1>10
<1>13. /\ EventsOK' /\ \A type, q : Coming(events, type, q) => Coming(events', type, q)
       /\ \A i \in 1 .. Len(<<e, a>>) : Coming(events', <<e, a>>[i].type, <<e, a>>[i].run)
  BY <1>1, <1>3, <1>9, <1>12, Emitted
<1>14. Coming(events', "ask", r)
  BY <1>10, <1>12, <1>13
<1>15. News(r)
  BY <1>3, <1>9, <1>14 DEF News, Unanswered, Ended, Overs
<1>16. \A q \in Runs : News(q)
  BY <1>1, <1>9, <1>15, QuietRun
<1>17. CallsOK' /\ SameCalls(call, call')
  BY <1>1, <1>3, <1>9, <1>11, ThreadAnswers
<1>. QED  BY <1>3, <1>9, <1>13, <1>16, <1>17, RunStep

LEMMA EndStep ==
  ASSUME Inv, NEW r \in Runs, End(r)
  PROVE  Inv' /\ Blamed' = Blamed
<1>. DEFINE s == IF r \in job.halt THEN "cancelled"
                 ELSE IF job.phase[r] = "over" THEN db.task[r].status ELSE "failed"
<1>1. DbOK /\ VInv
  BY DEF Inv, VInv
<1>2. /\ db \in Db /\ job \in Rows /\ job.halt \in SUBSET Runs
      /\ RowOK(job.phase[r], db.row[r], db.task[r], db.ask[r], db.kind[r])
  BY <1>1, RowTypes
<1>3. /\ job.phase[r] # "no" /\ db' = Ending(r, s)
      /\ job' = [job EXCEPT !.phase[r] = "no", !.by[r] = 0, !.halt = @ \ {r}]
      /\ ReplyTo(job.by[r], Ok(Update(r, s, ClosedTask(r, s))))
      /\ Emit(EndNotices(r, s)) /\ UNCHANGED <<inbox, view>>
  BY DEF End
<1>4. s \in Overs /\ db.row[r] = "running"
  BY <1>2, <1>3 DEF RowOK, Overs
<1>. HIDE DEF s
<1>5. job' = WithJob(job, r, "no", 0, job.halt \ {r}) /\ job.halt \ {r} \in SUBSET Runs
  BY <1>2, <1>3 DEF WithJob, Rows
<1>6. /\ DbOK' /\ Moves(db, db') /\ OnlyRun(r) /\ EventsOK' /\ job'.by[r] = 0
      /\ \A type, q : Coming(events, type, q) => Coming(events', type, q)
      /\ \A q \in Runs : News(q)
      /\ UpdateOK(Update(r, s, ClosedTask(r, s)), db')
  BY <1>1, <1>3, <1>4, <1>5, RunEnds
<1>7. CallsOK' /\ SameCalls(call, call')
  BY <1>1, <1>3, <1>6, ThreadAnswers
<1>. QED  BY <1>3, <1>6, <1>7, RunStep

LEMMA ExpireStep ==
  ASSUME Inv, NEW r \in Runs, Expire(r)
  PROVE  Inv' /\ Blamed' = Blamed
<1>1. DbOK /\ VInv /\ CallsOK
  BY DEF Inv, VInv
<1>2. /\ db \in Db /\ job \in Rows /\ job.halt \in SUBSET Runs /\ job.by[r] \in {0} \cup Calls
      /\ RowOK(job.phase[r], db.row[r], db.task[r], db.ask[r], db.kind[r])
  BY <1>1, RowTypes
<1>3. /\ db.row[r] = "waiting" /\ db' = Ending(r, "failed")
      /\ Emit(EndNotices(r, "failed")) /\ UNCHANGED <<job, inbox, call, view>>
  BY DEF Expire
<1>4. "failed" \in Overs /\ job.phase[r] = "no"
  BY <1>2, <1>3 DEF RowOK, Overs
<1>5. job' = WithJob(job, r, "no", job.by[r], job.halt)
  BY <1>2, <1>3, <1>4 DEF WithJob, Rows
<1>6. /\ DbOK' /\ Moves(db, db') /\ OnlyRun(r) /\ EventsOK' /\ job'.by[r] = job.by[r]
      /\ \A type, q : Coming(events, type, q) => Coming(events', type, q)
      /\ \A q \in Runs : News(q)
  BY <1>1, <1>2, <1>3, <1>4, <1>5, RunEnds
<1>7. CallsOK' /\ SameCalls(call, call')
  BY <1>1, <1>3, <1>6, CallsStay
<1>. QED  BY <1>3, <1>6, <1>7, RunStep

(* A set of runs has a first one. *)
LEMMA FirstRun ==
  ASSUME NEW S \in SUBSET Runs, S # {}
  PROVE  (CHOOSE r \in S : \A q \in S : r <= q) \in S
<1>1. S \in SUBSET Nat
  BY ViewConstantsOK DEF Runs
<1>2. PICK r \in S : \A q \in S : ~(<<q, r>> \in OpToRel(<, Nat))
  BY <1>1, NatLessThanWellFounded, WFMin
<1>3. \A q \in S : ~(q < r)
  BY <1>1, <1>2, Zenon DEF OpToRel
<1>4. \A q \in S : r <= q
  BY <1>1, <1>3
<1>. QED  BY <1>4

LEMMA NoRunStep ==
  ASSUME Inv, UNCHANGED <<db, events, view>>, DbOK', job'.by = job.by, InboxOK',
         CallsOK', SameCalls(call, call')
  PROVE  Inv' /\ Blamed' = Blamed
<1>1. Moves(db, db')
  BY StaysPut
<1>2. EventsOK' /\ \A type, r : Coming(events, type, r) => Coming(events', type, r)
  BY <1>1, NothingEmitted DEF Inv, VInv
<1>3. \A r \in Runs : News(r)
  BY DEF News
<1>4. JobsOK'
  BY <1>1, JobsKept
<1>. QED  BY <1>1, <1>2, <1>3, <1>4, RuntimeStep

LEMMA RefuseStep ==
  ASSUME Inv, NEW c \in AllCalls, NEW x, ReplyFits(call[c].kind, call[c].run, "ask", x, db),
         ReplyTo(c, x), inbox' \subseteq inbox, UNCHANGED <<db, job, events, view>>
  PROVE  Inv' /\ Blamed' = Blamed
<1>1. Moves(db, db')
  BY StaysPut
<1>2. CallsOK' /\ SameCalls(call, call')
  <2>1. call' = Answer(call, c, "ask", x) /\ CallsOK /\ db' = db
    BY DEF ReplyTo, Inv, VInv
  <2>2. ReplyFits(call[c].kind, call[c].run, "ask", x, db')
    BY <2>1
  <2>. QED  BY <1>1, <2>1, <2>2, CallAnswered
<1>3. InboxOK'
  BY <1>1, InboxKept DEF Inv, VInv
<1>4. DbOK'
  BY DEF Inv, VInv, DbOK
<1>. QED  BY <1>2, <1>3, <1>4, NoRunStep

LEMMA ErrorFits == \A kind, run, pc, d : ReplyFits(kind, run, pc, Error, d)
BY DEF ReplyFits

LEMMA LoseStep ==
  ASSUME Inv, NEW c \in AllCalls, Lose(c)
  PROVE  Inv' /\ Blamed' = Blamed
<1>1. call' = [call EXCEPT ![c].reply = Error] /\ UNCHANGED <<db, job, inbox, events, view>>
  BY DEF Lose
<1>2. Moves(db, db') /\ CallsOK
  BY <1>1, StaysPut DEF Inv, VInv
<1>3. CallsOK' /\ SameCalls(call, call')
  BY <1>1, <1>2, ErrorFits, CallReplied
<1>4. InboxOK'
  BY <1>1, <1>2, InboxKept DEF Inv, VInv
<1>5. DbOK'
  BY <1>1 DEF Inv, VInv, DbOK
<1>. QED  BY <1>1, <1>3, <1>4, <1>5, NoRunStep

LEMMA ServeLoadStep ==
  ASSUME Inv, NEW c \in AllCalls, ServeLoad(c)
  PROVE  Inv' /\ Blamed' = Blamed
<1>1. PICK m \in inbox :
        /\ m[1] = c /\ m[2] \in {"load", "repair"}
        /\ IF m[3] = Unread
           THEN /\ inbox' = (inbox \ {m}) \cup {<<c, m[2], db.row>>}
                /\ UNCHANGED call
           ELSE /\ inbox' = inbox \ {m}
                /\ call' = Answer(call, c, m[2], Ok([db EXCEPT !.row = m[3]]))
        /\ UNCHANGED <<db, job, events, view>>
  BY DEF ServeLoad
<1>2. /\ Moves(db, db') /\ CallsOK /\ InboxOK /\ DbOK /\ db' = db
      /\ m[3] = Unread \/ RowsOK(m[3], db)
  BY <1>1, StaysPut DEF Inv, VInv, InboxOK
<1>3. DbOK'
  BY <1>1, <1>2 DEF DbOK
<1>4. CASE m[3] = Unread
  <2>1. inbox' = (inbox \ {m}) \cup {<<c, m[2], db.row>>} /\ UNCHANGED call
    BY <1>1, <1>4
  <2>2. RowsOK(db.row, db)
    BY <1>2 DEF RowsOK, DbOK, Db
  <2>3. InboxOK'
    <3>1. ASSUME NEW n \in inbox'
          PROVE  /\ n \in AllCalls \X {"ask", "load", "repair"} \X {n[3]}
                 /\ n[3] = Unread \/ RowsOK(n[3], db')
      <4>1. CASE n \in inbox
        BY <1>2, <4>1 DEF InboxOK
      <4>2. CASE n \notin inbox
        <5>1. n = <<c, m[2], db.row>>
          BY <2>1, <4>2
        <5>. QED  BY <1>1, <1>2, <2>2, <5>1
      <4>. QED  BY <4>1, <4>2
    <3>. QED  BY <3>1 DEF InboxOK
  <2>4. CallsOK' /\ SameCalls(call, call')
    BY <1>2, <2>1, CallsStay
  <2>. QED  BY <1>1, <1>3, <2>3, <2>4, NoRunStep
<1>5. CASE m[3] # Unread
  <2>. DEFINE s == [db EXCEPT !.row = m[3]]
              x == Ok(s)
  <2>1. inbox' = inbox \ {m} /\ call' = Answer(call, c, m[2], x)
    BY <1>1, <1>5
  <2>2. RowsOK(m[3], db)
    BY <1>2, <1>5
  <2>3. SnapOK(s, db)
    <3>1. db \in Db /\ m[3] \in [Runs -> Statuses]
      BY <1>2, <2>2 DEF DbOK, RowsOK
    <3>2. /\ s \in Db /\ s.row = m[3] /\ s.ask = db.ask /\ s.kind = db.kind
      BY <3>1 DEF Db
    <3>. HIDE DEF s
    <3>. QED  BY <2>2, <3>2 DEF SnapOK
  <2>4. x.ok = TRUE /\ x.body = s
    BY DEF Ok
  <2>. HIDE DEF x, s
  <2>5. ReplyFits(call[c].kind, call[c].run, m[2], x, db')
    BY <1>1, <1>2, <2>3, <2>4 DEF ReplyFits
  <2>6. CallsOK' /\ SameCalls(call, call')
    BY <1>2, <2>1, <2>5, CallAnswered
  <2>7. InboxOK'
    BY <1>2, <2>1, InboxKept
  <2>. QED  BY <1>1, <1>3, <2>6, <2>7, NoRunStep
<1>. QED  BY <1>4, <1>5

LEMMA ServeCreateStep ==
  ASSUME Inv, NEW c \in AllCalls, ServeCreate(c)
  PROVE  Inv' /\ Blamed' = Blamed
<1>1. DbOK /\ VInv /\ CallsOK /\ EventsOK /\ CallOK(c, call[c], db)
  BY DEF Inv, VInv, CallsOK
<1>2. /\ call[c].kind \in {"start", "retry"} /\ inbox' \subseteq inbox /\ UNCHANGED view
  BY DEF ServeCreate, Serve
<1>3. CASE Locked \/ \E r \in Runs : Live(r)
  <2>1. Refuse(c)
    BY <1>3 DEF ServeCreate
  <2>. QED  BY <1>2, <2>1, ErrorFits, RefuseStep DEF Refuse
<1>4. CASE ~(Locked \/ \E r \in Runs : Live(r))
  <2>. DEFINE r == NextRun
              again == call[c].kind = "retry"
              retry == IF again THEN db.retry \cup {r} ELSE db.retry
              by == IF again THEN 0 ELSE c
              u == StatusOnly(r, "running")
  <2>1. /\ Unused # {}
        /\ db' = [db EXCEPT !.row[r] = "running", !.retry = IF again THEN @ \cup {r} ELSE @]
        /\ job' = [job EXCEPT !.phase[r] = "new", !.by[r] = IF again THEN 0 ELSE c]
        /\ call' = IF again THEN Answer(call, c, "ask", Ok(u)) ELSE call
        /\ UNCHANGED events
    BY <1>4 DEF ServeCreate
  <2>2. r \in Runs /\ db.row[r] = "none"
    BY <2>1, FirstRun DEF Unused, NextRun
  <2>. HIDE DEF r
  <2>3. /\ db \in Db /\ job \in Rows
        /\ db.row[r] \in Statuses /\ db.task[r] \in TaskRec /\ db.ask[r] \in Asks /\ db.kind[r] \in InputKinds
        /\ db.retry \in SUBSET Runs /\ job.by[r] \in {0} \cup Calls /\ job.halt \in SUBSET Runs
        /\ RowOK(job.phase[r], db.row[r], db.task[r], db.ask[r], db.kind[r])
    BY <1>1, <2>2, RowTypes
  <2>4. retry \in SUBSET Runs /\ by \in {0} \cup Calls /\ "new" \in Phases /\ "running" \in Statuses
    BY <1>1, <1>2, <2>2, <2>3 DEF CallOK, Phases, Statuses
  <2>5. db' = WithRows(db, r, "running", db.task[r], db.ask[r], db.kind[r], retry)
    BY <2>1, <2>2, <2>3 DEF WithRows, Db
  <2>6. job' = WithJob(job, r, "new", by, job.halt)
    BY <2>1, <2>2, <2>3 DEF WithJob, Rows
  <2>. HIDE DEF retry, by
  <2>7. /\ RowOK("new", "running", db.task[r], db.ask[r], db.kind[r])
        /\ MayMove(db.row[r], db.ask[r], db.kind[r], "running", db.ask[r], db.kind[r])
    BY <2>2, <2>3 DEF RowOK, MayMove, Ended, Overs
  <2>8. Change(r, "running", db.task[r], db.ask[r], db.kind[r], retry, "new", by, job.halt)
    BY <2>3, <2>4, <2>5, <2>6, <2>7 DEF Change
  <2>9. /\ DbOK' /\ Moves(db, db') /\ OnlyRun(r)
        /\ db'.row[r] = "running" /\ db'.ask[r] = db.ask[r] /\ db'.kind[r] = db.kind[r] /\ job'.by[r] = by
    BY <1>1, <2>2, <2>8, RunMoves
  <2>10. EventsOK' /\ \A type, q : Coming(events, type, q) => Coming(events', type, q)
    BY <1>1, <2>1, <2>9, NothingEmitted
  <2>11. News(r)
    BY <2>2, <2>9 DEF News, Ended, Overs
  <2>12. \A q \in Runs : News(q)
    BY <1>1, <2>2, <2>9, <2>11, QuietRun
  <2>13. CallsOK' /\ SameCalls(call, call')
    <3>1. CASE again
      <4>1. u.run = r /\ u.status = "running" /\ u.task = "none" /\ u.asks = FALSE /\ u \in UpdateType
        BY <2>2 DEF StatusOnly, UpdateType, Statuses, TaskStatuses
      <4>2. Ok(u).ok = TRUE /\ Ok(u).body = u
        BY DEF Ok
      <4>. HIDE DEF u
      <4>3. UpdateOK(u, db')
        BY <2>9, <4>1 DEF UpdateOK, UpdateType, Ended, Overs
      <4>4. ReplyFits(call[c].kind, call[c].run, "ask", Ok(u), db')
        BY <3>1, <4>2, <4>3 DEF ReplyFits
      <4>5. call' = Answer(call, c, "ask", Ok(u))
        BY <2>1, <3>1 DEF u
      <4>. QED  BY <1>1, <2>9, <4>4, <4>5, CallAnswered
    <3>2. CASE ~again
      BY <1>1, <2>1, <2>9, <3>2, CallsStay
    <3>. QED  BY <3>1, <3>2
  <2>14. job'.by[r] = 0 \/ call[job'.by[r]].kind = "start"
    BY <1>2, <2>9 DEF by
  <2>. QED  BY <1>2, <2>2, <2>9, <2>10, <2>12, <2>13, <2>14, RunStep
<1>. QED  BY <1>3, <1>4

LEMMA ServeInputStep ==
  ASSUME Inv, NEW c \in AllCalls, ServeInput(c)
  PROVE  Inv' /\ Blamed' = Blamed
<1>. DEFINE r == call[c].run
            approval == call[c].kind = "resolve"
            verdict == IF ~approval THEN "answered"
                       ELSE IF call[c].yes THEN "approved" ELSE "rejected"
            by == IF approval THEN 0 ELSE c
            n == [type |-> "resolved", run |-> r, verdict |-> verdict]
<1>1. DbOK /\ VInv /\ CallsOK /\ EventsOK /\ CallOK(c, call[c], db)
  BY DEF Inv, VInv, CallsOK
<1>2. /\ call[c].kind \in {"resolve", "answer"} /\ inbox' \subseteq inbox /\ UNCHANGED view
  BY DEF ServeInput, Serve
<1>3. /\ r \in Runs /\ c \in Calls /\ (approval <=> db.kind[r] = "approval")
  BY <1>1, <1>2 DEF CallOK
<1>4. CASE Locked \/ db.ask[r] # "pending"
  <2>1. Refuse(c)
    BY <1>4 DEF ServeInput
  <2>. QED  BY <1>2, <2>1, ErrorFits, RefuseStep DEF Refuse
<1>5. CASE ~(Locked \/ db.ask[r] # "pending")
  <2>1. /\ db' = [db EXCEPT !.row[r] = "running", !.ask[r] = verdict]
        /\ job' = [job EXCEPT !.phase[r] = "back", !.by[r] = IF approval THEN 0 ELSE c]
        /\ call' = IF approval THEN Answer(call, c, "ask", Ok(TRUE)) ELSE call
        /\ IF approval THEN Emit(<<n>>) ELSE UNCHANGED events
    BY <1>5 DEF ServeInput
  <2>2. db.ask[r] = "pending"
    BY <1>5
  <2>3. /\ db \in Db /\ job \in Rows
        /\ db.row[r] \in Statuses /\ db.task[r] \in TaskRec /\ db.ask[r] \in Asks /\ db.kind[r] \in InputKinds
        /\ db.retry \in SUBSET Runs /\ job.by[r] \in {0} \cup Calls /\ job.halt \in SUBSET Runs
        /\ RowOK(job.phase[r], db.row[r], db.task[r], db.ask[r], db.kind[r])
    BY <1>1, <1>3, RowTypes
  <2>4. /\ verdict \in Asks /\ ~Unanswered(verdict)
        /\ IF db.kind[r] = "approval" THEN verdict # "answered" ELSE verdict \notin {"approved", "rejected"}
    BY <1>3 DEF Asks, Unanswered
  <2>5. n.type = "resolved" /\ n.run = r /\ n.verdict = verdict
    OBVIOUS
  <2>6. n \in Notices
    BY <1>3, <2>4 DEF Notices
  <2>. HIDE DEF n
  <2>. HIDE DEF verdict
  <2>7. by \in {0} \cup Calls /\ "back" \in Phases /\ "running" \in Statuses
    BY <1>3 DEF Phases, Statuses
  <2>. HIDE DEF r
  <2>8. db' = WithRows(db, r, "running", db.task[r], verdict, db.kind[r], db.retry)
    BY <1>3, <2>1, <2>3 DEF WithRows, Db
  <2>9. job' = WithJob(job, r, "back", by, job.halt)
    BY <1>3, <2>1, <2>3 DEF WithJob, Rows
  <2>10. /\ RowOK("back", "running", db.task[r], verdict, db.kind[r])
         /\ MayMove(db.row[r], db.ask[r], db.kind[r], "running", verdict, db.kind[r])
    <3>1. RowOK("back", "running", db.task[r], verdict, db.kind[r])
      BY <2>4 DEF RowOK, Unanswered
    <3>2. MayMove(db.row[r], db.ask[r], db.kind[r], "running", verdict, db.kind[r])
      BY <2>2, <2>3, <2>4 DEF RowOK, MayMove, Unanswered, Ended, Overs
    <3>. QED  BY <3>1, <3>2
  <2>. HIDE DEF by
  <2>11. Change(r, "running", db.task[r], verdict, db.kind[r], db.retry, "back", by, job.halt)
    BY <2>3, <2>4, <2>7, <2>8, <2>9, <2>10 DEF Change
  <2>12. /\ DbOK' /\ Moves(db, db') /\ OnlyRun(r)
         /\ db'.row[r] = "running" /\ db'.ask[r] = verdict /\ db'.kind[r] = db.kind[r] /\ job'.by[r] = by
    BY <1>1, <1>3, <2>11, RunMoves
  <2>13. /\ EventsOK' /\ \A type, q : Coming(events, type, q) => Coming(events', type, q)
         /\ approval => Coming(events', "resolved", r)
    <3>1. CASE approval
      <4>1. EventOK(n, db')
        BY <1>3, <2>4, <2>5, <2>12, <3>1 DEF EventOK
      <4>2. /\ <<n>> \in Seq(Notices) /\ \A i \in 1 .. Len(<<n>>) : EventOK(<<n>>[i], db')
            /\ 1 \in 1 .. Len(<<n>>) /\ <<n>>[1] = n
        BY <2>6, <4>1
      <4>3. /\ EventsOK' /\ \A type, q : Coming(events, type, q) => Coming(events', type, q)
            /\ \A i \in 1 .. Len(<<n>>) : Coming(events', <<n>>[i].type, <<n>>[i].run)
        BY <1>1, <2>1, <2>12, <3>1, <4>2, Emitted
      <4>. QED  BY <2>5, <4>2, <4>3
    <3>2. CASE ~approval
      BY <1>1, <2>1, <2>12, <3>2, NothingEmitted
    <3>. QED  BY <3>1, <3>2
  <2>14. News(r)
    BY <1>3, <2>4, <2>12, <2>13 DEF News, Ended, Overs, Unanswered
  <2>15. \A q \in Runs : News(q)
    BY <1>1, <1>3, <2>12, <2>14, QuietRun
  <2>16. CallsOK' /\ SameCalls(call, call')
    <3>1. CASE approval
      <4>1. Ok(TRUE).ok = TRUE
        BY DEF Ok
      <4>2. ReplyFits(call[c].kind, call[c].run, "ask", Ok(TRUE), db')
        BY <2>4, <2>12, <3>1, <4>1 DEF ReplyFits, r
      <4>. QED  BY <1>1, <2>1, <2>12, <3>1, <4>2, CallAnswered
    <3>2. CASE ~approval
      BY <1>1, <2>1, <2>12, <3>2, CallsStay
    <3>. QED  BY <3>1, <3>2
  <2>17. \/ job'.by[r] \in {0, job.by[r]}
         \/ /\ call[job'.by[r]].kind = "answer" /\ call[job'.by[r]].run = r
            /\ ~Unanswered(db'.ask[r])
    BY <1>2, <2>4, <2>12 DEF by, r
  <2>. QED  BY <1>2, <1>3, <2>12, <2>13, <2>15, <2>16, <2>17, RunStep
<1>. QED  BY <1>4, <1>5

LEMMA ServeStopStep ==
  ASSUME Inv, NEW c \in AllCalls, ServeStop(c)
  PROVE  Inv' /\ Blamed' = Blamed
<1>. DEFINE r == call[c].run
<1>1. DbOK /\ VInv /\ CallsOK /\ EventsOK /\ CallOK(c, call[c], db)
  BY DEF Inv, VInv, CallsOK
<1>2. call[c].kind = "stop" /\ inbox' \subseteq inbox /\ UNCHANGED view
  BY DEF ServeStop, Serve
<1>3. r \in Runs /\ db.row[r] # "none"
  BY <1>1, <1>2 DEF CallOK
<1>4. /\ db \in Db /\ job \in Rows /\ db.row[r] \in Statuses
      /\ job.halt \in SUBSET Runs /\ job.by[r] \in {0} \cup Calls
      /\ RowOK(job.phase[r], db.row[r], db.task[r], db.ask[r], db.kind[r])
  BY <1>1, <1>3, RowTypes
<1>5. ASSUME NEW b \in BOOLEAN, NEW d
      PROVE  ReplyFits(call[c].kind, call[c].run, "ask", Ok(b), d)
  <2>1. Ok(b).ok = TRUE /\ Ok(b).body = b
    BY DEF Ok
  <2>. QED  BY <1>2, <2>1 DEF ReplyFits
<1>6. CASE Ended(db.row[r])
  <2>1. ReplyTo(c, Ok(db.row[r] = "cancelled")) /\ UNCHANGED <<db, job, events>>
    BY <1>6 DEF ServeStop
  <2>2. (db.row[r] = "cancelled") \in BOOLEAN
    OBVIOUS
  <2>. QED  BY <1>2, <1>5, <2>1, <2>2, RefuseStep
<1>7. CASE ~Ended(db.row[r]) /\ job.phase[r] # "no"
  <2>1. ReplyTo(c, Ok(TRUE)) /\ job' = [job EXCEPT !.halt = @ \cup {r}] /\ UNCHANGED <<db, events>>
    BY <1>7 DEF ServeStop
  <2>2. Moves(db, db') /\ InboxOK'
    BY <1>1, <1>2, <2>1, StaysPut, InboxKept DEF VInv
  <2>3. CallsOK' /\ SameCalls(call, call')
    BY <1>1, <1>5, <2>1, <2>2, CallAnswered DEF ReplyTo
  <2>4. job' \in Rows /\ job'.by = job.by /\ job'.phase = job.phase
    BY <1>3, <1>4, <2>1 DEF Rows
  <2>5. DbOK'
    BY <1>1, <2>1, <2>4 DEF DbOK
  <2>. QED  BY <1>2, <2>1, <2>2, <2>3, <2>4, <2>5, NoRunStep
<1>8. CASE ~Ended(db.row[r]) /\ job.phase[r] = "no"
  <2>1. /\ ReplyTo(c, Ok(TRUE)) /\ db' = Ending(r, "cancelled") /\ Emit(EndNotices(r, "cancelled"))
        /\ UNCHANGED job
    BY <1>8 DEF ServeStop
  <2>2. "cancelled" \in Overs /\ db.row[r] = "waiting"
    BY <1>3, <1>4, <1>8 DEF RowOK, Overs, Ended, Statuses
  <2>3. job' = WithJob(job, r, "no", job.by[r], job.halt)
    BY <1>3, <1>4, <1>8, <2>1 DEF WithJob, Rows
  <2>. HIDE DEF r
  <2>4. /\ DbOK' /\ Moves(db, db') /\ OnlyRun(r) /\ EventsOK' /\ job'.by[r] = job.by[r]
        /\ \A type, q : Coming(events, type, q) => Coming(events', type, q)
        /\ \A q \in Runs : News(q)
    BY <1>1, <1>3, <1>4, <2>1, <2>2, <2>3, RunEnds
  <2>5. CallsOK' /\ SameCalls(call, call')
    BY <1>1, <1>5, <2>1, <2>4, CallAnswered DEF ReplyTo
  <2>. QED  BY <1>2, <1>3, <2>4, <2>5, RunStep
<1>. QED  BY <1>6, <1>7, <1>8

-----------------------------------------------------------------------------
(***************************************************************************)
(* The operations of the page: how their calls move.                       *)
(***************************************************************************)
(* The call c goes on to pc; nothing else becomes of the others. *)
Goes(c, pc, blamed) ==
  /\ \A b \in AllCalls : call'[b].kind = call[b].kind /\ call'[b].run = call[b].run
  /\ \A b \in AllCalls \ {c} : call'[b].pc = call[b].pc /\ call'[b].blamed = call[b].blamed
  /\ call'[c].pc = pc /\ call'[c].blamed = blamed /\ call[c].blamed = 0

WithStep(k, x)      == [k EXCEPT !.pc = x]
WithSeen(k, x)      == [k EXCEPT !.seen = x]
WithFresh(k, fresh) == [k EXCEPT !.fresh = fresh]
WithBlamed(k, x)    == [k EXCEPT !.blamed = x]
WithPc(k, pc)       == WithReply(WithStep(k, pc), Nothing)
WithEnd(k, blamed)  == WithBlamed(WithFresh(WithSeen(WithPc(k, "done"), 0), {}), blamed)

LEMMA StepParts ==
  ASSUME NEW k, k = CallRec(k), NEW x
  PROVE  LET m == WithStep(k, x) IN
         /\ m = CallRec(m) /\ m.pc = x
         /\ m.kind = k.kind /\ m.run = k.run /\ m.reply = k.reply /\ m.blamed = k.blamed
<1>1. WithStep(k, x) = CallRec(WithStep(k, x))
  BY DEF WithStep, CallRec
<1>2. /\ WithStep(k, x).pc = x
      /\ WithStep(k, x).kind = k.kind /\ WithStep(k, x).run = k.run
      /\ WithStep(k, x).reply = k.reply /\ WithStep(k, x).blamed = k.blamed
  BY DEF WithStep, CallRec
<1>. QED  BY <1>1, <1>2

LEMMA SeenParts ==
  ASSUME NEW k, k = CallRec(k), NEW x
  PROVE  LET m == WithSeen(k, x) IN
         /\ m = CallRec(m) /\ m.pc = k.pc
         /\ m.kind = k.kind /\ m.run = k.run /\ m.reply = k.reply /\ m.blamed = k.blamed
<1>1. WithSeen(k, x) = CallRec(WithSeen(k, x))
  BY DEF WithSeen, CallRec
<1>2. /\ WithSeen(k, x).pc = k.pc
      /\ WithSeen(k, x).kind = k.kind /\ WithSeen(k, x).run = k.run
      /\ WithSeen(k, x).reply = k.reply /\ WithSeen(k, x).blamed = k.blamed
  BY DEF WithSeen, CallRec
<1>. QED  BY <1>1, <1>2

LEMMA FreshParts ==
  ASSUME NEW k, k = CallRec(k), NEW x
  PROVE  LET m == WithFresh(k, x) IN
         /\ m = CallRec(m) /\ m.pc = k.pc
         /\ m.kind = k.kind /\ m.run = k.run /\ m.reply = k.reply /\ m.blamed = k.blamed
<1>1. WithFresh(k, x) = CallRec(WithFresh(k, x))
  BY DEF WithFresh, CallRec
<1>2. /\ WithFresh(k, x).pc = k.pc
      /\ WithFresh(k, x).kind = k.kind /\ WithFresh(k, x).run = k.run
      /\ WithFresh(k, x).reply = k.reply /\ WithFresh(k, x).blamed = k.blamed
  BY DEF WithFresh, CallRec
<1>. QED  BY <1>1, <1>2

LEMMA BlamedParts ==
  ASSUME NEW k, k = CallRec(k), NEW x
  PROVE  LET m == WithBlamed(k, x) IN
         /\ m = CallRec(m) /\ m.pc = k.pc
         /\ m.kind = k.kind /\ m.run = k.run /\ m.reply = k.reply /\ m.blamed = x
<1>1. WithBlamed(k, x) = CallRec(WithBlamed(k, x))
  BY DEF WithBlamed, CallRec
<1>2. /\ WithBlamed(k, x).pc = k.pc
      /\ WithBlamed(k, x).kind = k.kind /\ WithBlamed(k, x).run = k.run
      /\ WithBlamed(k, x).reply = k.reply /\ WithBlamed(k, x).blamed = x
  BY DEF WithBlamed, CallRec
<1>. QED  BY <1>1, <1>2

LEMMA PcParts ==
  ASSUME NEW k, k = CallRec(k), NEW x
  PROVE  LET m == WithPc(k, x) IN
         /\ m = CallRec(m) /\ m.reply = Nothing /\ m.pc = x
         /\ m.kind = k.kind /\ m.run = k.run /\ m.blamed = k.blamed
<1>. DEFINE n == WithStep(k, x)
<1>1. n = CallRec(n) /\ n.pc = x /\ n.kind = k.kind /\ n.run = k.run /\ n.blamed = k.blamed
  BY StepParts
<1>. HIDE DEF n
<1>2. LET m == WithReply(n, Nothing) IN
      /\ m = CallRec(m) /\ m.reply = Nothing
      /\ m.kind = n.kind /\ m.run = n.run /\ m.pc = n.pc /\ m.blamed = n.blamed
  BY <1>1, ReplyChanged
<1>. QED  BY <1>1, <1>2 DEF WithPc, n

LEMMA EndParts ==
  ASSUME NEW k, k = CallRec(k), NEW x
  PROVE  LET m == WithEnd(k, x) IN
         /\ m = CallRec(m) /\ m.reply = Nothing /\ m.pc = "done"
         /\ m.kind = k.kind /\ m.run = k.run /\ m.blamed = x
<1>. DEFINE n1 == WithPc(k, "done")
            n2 == WithSeen(n1, 0)
            n3 == WithFresh(n2, {})
            n4 == WithBlamed(n3, x)
<1>1. n1 = CallRec(n1) /\ n1.reply = Nothing /\ n1.pc = "done" /\ n1.kind = k.kind /\ n1.run = k.run
  BY PcParts
<1>. HIDE DEF n1
<1>2. n2 = CallRec(n2) /\ n2.reply = n1.reply /\ n2.pc = n1.pc /\ n2.kind = n1.kind /\ n2.run = n1.run
  BY <1>1, SeenParts
<1>. HIDE DEF n2
<1>3. n3 = CallRec(n3) /\ n3.reply = n2.reply /\ n3.pc = n2.pc /\ n3.kind = n2.kind /\ n3.run = n2.run
  BY <1>2, FreshParts
<1>. HIDE DEF n3
<1>4. /\ n4 = CallRec(n4) /\ n4.reply = n3.reply /\ n4.pc = n3.pc /\ n4.kind = n3.kind /\ n4.run = n3.run
      /\ n4.blamed = x
  BY <1>3, BlamedParts
<1>5. WithEnd(k, x) = n4
  BY DEF WithEnd, n1, n2, n3
<1>. HIDE DEF n4
<1>. QED  BY <1>1, <1>2, <1>3, <1>4, <1>5

LEMMA CallGoesOn ==
  ASSUME CallsOK, NEW c \in AllCalls, call[c].pc \in {"ask", "load", "repair"},
         NEW pc \in {"load", "repair"}, Next1(call, c, pc), UNCHANGED db
  PROVE  CallsOK' /\ Goes(c, pc, 0)
<1>. DEFINE k == WithPc(call[c], pc)
<1>1. CallsAre(call) /\ \A b \in AllCalls : CallOK(b, call[b], db)
  BY DEF CallsOK
<1>2. call' = [call EXCEPT ![c] = k]
  BY <1>1 DEF Next1, CallsAre, WithPc, WithReply, WithStep
<1>3. CallOK(c, call[c], db) /\ call[c] = CallRec(call[c])
  BY <1>1 DEF CallOK
<1>4. /\ k = CallRec(k) /\ k.reply = Nothing /\ k.pc = pc
      /\ k.kind = call[c].kind /\ k.run = call[c].run /\ k.blamed = call[c].blamed
  BY <1>3, PcParts
<1>. HIDE DEF k
<1>5. CallsAre(call') /\ call'[c] = k /\ \A b \in AllCalls \ {c} : call'[b] = call[b]
  BY <1>1, <1>2 DEF CallsAre
<1>6. k.blamed = 0
  BY <1>3, <1>4 DEF CallOK
<1>7. CallOK(c, k, db)
  <2>1. ReplyOK(k, db)
    BY <1>4 DEF ReplyOK
  <2>. QED  BY <1>3, <1>4, <1>6, <2>1 DEF CallOK
<1>8. CallsOK'
  BY <1>1, <1>5, <1>7 DEF CallsOK
<1>9. Goes(c, pc, 0)
  BY <1>4, <1>5, <1>6 DEF Goes
<1>. QED  BY <1>8, <1>9

LEMMA CallEnds ==
  ASSUME CallsOK, NEW c \in AllCalls, call[c].pc \in {"ask", "load", "repair"},
         NEW blamed \in {0} \cup Runs, NEW cs, CallsAre(cs),
         \A b \in AllCalls : cs[b] = call[b] \/ \E f : cs[b] = WithFresh(call[b], f),
         Done(cs, c, blamed), UNCHANGED db
  PROVE  CallsOK' /\ Goes(c, "done", blamed)
<1>. DEFINE k == WithEnd(cs[c], blamed)
<1>1. CallsAre(call) /\ \A b \in AllCalls : CallOK(b, call[b], db) /\ call[b] = CallRec(call[b])
  BY DEF CallsOK, CallOK
<1>2. ASSUME NEW b \in AllCalls
      PROVE  /\ cs[b] = CallRec(cs[b]) /\ cs[b].reply = call[b].reply /\ cs[b].pc = call[b].pc
             /\ cs[b].kind = call[b].kind /\ cs[b].run = call[b].run /\ cs[b].blamed = call[b].blamed
             /\ CallOK(b, cs[b], db)
  <2>1. /\ cs[b] = CallRec(cs[b]) /\ cs[b].reply = call[b].reply /\ cs[b].pc = call[b].pc
        /\ cs[b].kind = call[b].kind /\ cs[b].run = call[b].run /\ cs[b].blamed = call[b].blamed
    BY <1>1, FreshParts
  <2>2. CallOK(b, call[b], db)
    BY <1>1
  <2>3. ReplyOK(cs[b], db)
    BY <2>1, <2>2 DEF ReplyOK, CallOK
  <2>4. CallOK(b, cs[b], db)
    BY <2>1, <2>2, <2>3 DEF CallOK
  <2>. QED  BY <2>1, <2>4
<1>3. call' = [cs EXCEPT ![c] = k]
  BY DEF Done, WithEnd, WithPc, WithReply, WithStep, WithSeen, WithFresh, WithBlamed
<1>4. /\ k = CallRec(k) /\ k.reply = Nothing /\ k.pc = "done"
      /\ k.kind = cs[c].kind /\ k.run = cs[c].run /\ k.blamed = blamed
  BY <1>2, EndParts
<1>. HIDE DEF k
<1>5. CallsAre(call') /\ call'[c] = k /\ \A b \in AllCalls \ {c} : call'[b] = cs[b]
  <2>1. CallsAre(cs)
    OBVIOUS
  <2>. QED  BY <1>3, <2>1 DEF CallsAre
<1>6. call[c].blamed = 0
  BY <1>1 DEF CallOK
<1>7. CallOK(c, k, db)
  <2>1. ReplyOK(k, db)
    BY <1>4 DEF ReplyOK
  <2>2. CallOK(c, cs[c], db)
    BY <1>2
  <2>. QED  BY <1>4, <2>1, <2>2 DEF CallOK
<1>8. CallsOK'
  BY <1>2, <1>5, <1>7 DEF CallsOK
<1>9. Goes(c, "done", blamed)
  BY <1>2, <1>4, <1>5, <1>6 DEF Goes
<1>. QED  BY <1>8, <1>9

LEMMA ReplacedCalls ==
  ASSUME NEW snap
  PROVE  LET cs == Replaced(call, snap) IN
         CallsAre(cs) /\ \A b \in AllCalls : \E f : cs[b] = WithFresh(call[b], f)
<1>. DEFINE f(b) == IF call[b].kind # "answer" THEN call[b].fresh
                    ELSE call[b].fresh \ ({"session"} \cup
                         (IF snap.row[call[b].run] # "none" /\ ~Ended(view.run[call[b].run]) THEN {"run"} ELSE {}))
            cs == Replaced(call, snap)
<1>1. cs = [b \in AllCalls |-> WithFresh(call[b], f(b))]
  BY DEF Replaced, WithFresh
<1>. HIDE DEF cs, f
<1>2. CallsAre(cs) /\ \A b \in AllCalls : cs[b] = WithFresh(call[b], f(b))
  BY <1>1 DEF CallsAre
<1>. QED  BY <1>2 DEF cs

(* What a call that moves on owes to what it was asked for. *)
Settled(c, pc) ==
  LET k == call[c] IN
  /\ k.kind = "answer" /\ k.pc = "ask" =>
       /\ view'.sending[k.run] = Free
       /\ k.run \notin Blamed' /\ db.ask[k.run] = "pending" => view'.card[k.run].status = "pending"
  /\ k.kind = "resolve" /\ k.pc = "ask" => view'.sending[k.run].call # c \/ ~Unanswered(db.ask[k.run])
  /\ c \in view'.retrying => pc \in {"load", "repair"}

LEMMA BlamedGrows ==
  ASSUME NEW c \in AllCalls, NEW pc, NEW blamed, Goes(c, pc, blamed)
  PROVE  /\ blamed = 0 => Blamed' = Blamed
         /\ \A r \in Runs : r \in Blamed => r \in Blamed'
         /\ c \in Calls => blamed \in Blamed'
<1>1. \A b \in AllCalls \ {c} : call'[b].blamed = call[b].blamed
  BY DEF Goes
<1>2. call'[c].blamed = blamed /\ call[c].blamed = 0
  BY DEF Goes
<1>3. blamed = 0 => Blamed' = Blamed
  BY <1>1, <1>2, CallNumbers DEF Blamed
<1>4. ASSUME NEW r \in Runs, r \in Blamed PROVE r \in Blamed'
  <2>1. PICK b \in Calls : call[b].blamed = r
    BY <1>4 DEF Blamed
  <2>2. r # 0
    BY ViewConstantsOK DEF Runs
  <2>3. call'[b].blamed = r
    BY <1>1, <1>2, <2>1, <2>2, CallNumbers
  <2>. QED  BY <2>3 DEF Blamed
<1>5. c \in Calls => blamed \in Blamed'
  BY <1>2 DEF Blamed
<1>. QED  BY <1>3, <1>4, <1>5

LEMMA InboxGrows ==
  ASSUME InboxOK, UNCHANGED db, NEW c \in AllCalls, NEW pc \in {"ask", "load", "repair"},
         inbox' \subseteq inbox \cup {Request(c, pc)}
  PROVE  InboxOK'
<1>. DEFINE m == Request(c, pc)
<1>1. m \in AllCalls \X {"ask", "load", "repair"} \X {m[3]} /\ m[3] = Unread
  BY DEF Request
<1>. HIDE DEF m
<1>. QED  BY <1>1 DEF InboxOK, m

LEMMA SettleStep ==
  ASSUME Inv, NEW c \in AllCalls, NEW pc, NEW blamed, UNCHANGED <<db, job, events>>,
         CallsOK', Goes(c, pc, blamed), InboxOK', Leads(view, view', db, Blamed'), Settled(c, pc)
  PROVE  Inv'
<1>1. /\ \A b \in AllCalls : call'[b].kind = call[b].kind /\ call'[b].run = call[b].run
      /\ \A b \in AllCalls \ {c} : call'[b].pc = call[b].pc
      /\ call'[c].pc = pc
  BY DEF Goes
<1>2. /\ DbOK /\ CallsOK /\ JobsOK /\ EventsOK /\ ViewOK(view, db)
      /\ EndComes /\ AskComes /\ VerdictComes /\ SendingEnds /\ RetryingEnds
  BY DEF Inv, VInv, SInv
<1>3. /\ ViewOK(view', db) /\ OverOK(view', db, Blamed')
      /\ OverKept(view, view', Blamed') /\ Calm(view, view', db, Blamed')
  BY DEF Leads, Sound
<1>4. \A r \in Runs : r \in Blamed => r \in Blamed'
  BY BlamedGrows
<1>5. JobsOK'
  <2>. SUFFICES ASSUME NEW r \in Runs, job.by[r] # 0
                PROVE  \/ call'[job.by[r]].kind = "start"
                       \/ /\ call'[job.by[r]].kind = "answer" /\ call'[job.by[r]].run = r
                          /\ ~Unanswered(db.ask[r])
    BY DEF JobsOK
  <2>1. job.by[r] \in AllCalls
    BY <1>2, RowTypes, CallNumbers
  <2>. QED  BY <1>1, <1>2, <2>1 DEF JobsOK
<1>6. VInv'
  BY <1>2, <1>3, <1>5 DEF VInv, DbOK, EventsOK
<1>7. ASSUME NEW r \in Runs \ Blamed', Ended(db.row[r])
      PROVE  view'.run[r] = db.row[r] \/ Coming(events, "end", r)
  <2>1. view.run[r] = db.row[r] \/ Coming(events, "end", r)
    BY <1>2, <1>4, <1>7 DEF EndComes
  <2>2. OverKeptAt(view, view', r)
    BY <1>3 DEF OverKept
  <2>. QED  BY <1>7, <2>1, <2>2 DEF OverKeptAt
<1>8. ASSUME NEW r \in Runs \ Blamed', db.ask[r] = "pending"
      PROVE  \/ view'.card[r].status = "pending"
             \/ view'.card[r].status = "none" /\ Coming(events, "ask", r)
             \/ \E b \in Calls : call'[b].kind = "answer" /\ call'[b].run = r /\ call'[b].pc = "ask"
  <2>1. \/ view.card[r].status = "pending"
        \/ view.card[r].status = "none" /\ Coming(events, "ask", r)
        \/ \E b \in Calls : call[b].kind = "answer" /\ call[b].run = r /\ call[b].pc = "ask"
    BY <1>2, <1>4, <1>8 DEF AskComes
  <2>2. view'.card[r].status \in {view.card[r].status, "pending"}
    BY <1>3, <1>8 DEF Calm, AskedStill
  <2>3. CASE \E b \in Calls : call[b].kind = "answer" /\ call[b].run = r /\ call[b].pc = "ask"
    <3>1. PICK b \in Calls : call[b].kind = "answer" /\ call[b].run = r /\ call[b].pc = "ask"
      BY <2>3
    <3>2. CASE b = c
      BY <1>8, <3>1, <3>2 DEF Settled
    <3>3. CASE b # c
      BY <1>1, <3>1, <3>3, CallNumbers
    <3>. QED  BY <3>2, <3>3
  <2>. QED  BY <2>1, <2>2, <2>3
<1>9. ASSUME NEW r \in Runs, db.kind[r] = "approval", ~Unanswered(db.ask[r])
      PROVE  view'.card[r].resolved \/ Coming(events, "resolved", r)
  BY <1>2, <1>3, <1>9 DEF VerdictComes, Calm, CalmAt
<1>10. ASSUME NEW r \in Runs, view'.sending[r] # Free
       PROVE  LET k == call'[view'.sending[r].call] IN
              /\ k.kind \in {"resolve", "answer"} /\ k.run = r
              /\ k.pc = "ask" \/ (k.kind = "resolve" /\ Coming(events, "resolved", r))
  <2>. DEFINE s == view.sending[r].call
  <2>1. view'.sending[r].call = s /\ view.sending[r] # Free
    BY <1>3, <1>10 DEF Calm, CalmAt
  <2>2. /\ call[s].kind \in {"resolve", "answer"} /\ call[s].run = r
        /\ call[s].pc = "ask" \/ (call[s].kind = "resolve" /\ Coming(events, "resolved", r))
    BY <1>2, <2>1 DEF SendingEnds
  <2>3. s \in AllCalls
    <3>1. view \in View /\ Fits(view, db, r)
      BY <1>2 DEF ViewOK
    <3>2. view.sending[r] \in Sent
      BY <3>1, ViewParts DEF Sent
    <3>. QED  BY <2>1, <3>1, <3>2, CallNumbers DEF Fits, Sent
  <2>. HIDE DEF s
  <2>4. CASE s # c
    BY <1>1, <2>1, <2>2, <2>3, <2>4
  <2>5. CASE s = c
    <3>1. CASE Coming(events, "resolved", r) /\ call[c].kind = "resolve"
      BY <1>1, <2>1, <2>2, <2>5, <3>1
    <3>2. CASE ~(Coming(events, "resolved", r) /\ call[c].kind = "resolve")
      <4>1. call[c].pc = "ask" /\ call[c].run = r
        BY <2>2, <2>5, <3>2
      <4>2. call[c].kind = "resolve" /\ ~Unanswered(db.ask[r])
        BY <1>10, <2>1, <2>2, <2>5, <4>1 DEF Settled
      <4>3. db.kind[r] = "approval"
        BY <1>2, <4>1, <4>2 DEF CallsOK, CallOK
      <4>4. view.card[r].resolved
        BY <1>2, <3>2, <4>2, <4>3 DEF VerdictComes
      <4>5. view.sending[r] = Free
        BY <1>2, <4>4 DEF ViewOK, Fits
      <4>. QED  BY <2>1, <4>5
    <3>. QED  BY <3>1, <3>2
  <2>. QED  BY <2>4, <2>5
<1>11. ASSUME NEW b \in view'.retrying
       PROVE  call'[b].kind = "retry" /\ call'[b].pc \in {"ask", "load", "repair"}
  <2>1. call[b].kind = "retry" /\ call[b].pc \in {"ask", "load", "repair"}
    BY <1>2, <1>3 DEF RetryingEnds, Calm
  <2>2. b \in AllCalls
    <3>1. view' \in View
      BY <1>3 DEF ViewOK
    <3>2. view'.retrying \in SUBSET Calls
      BY <3>1, ViewParts
    <3>. QED  BY <3>2, CallNumbers
  <2>3. CASE b = c
    BY <1>1, <2>1, <2>2, <2>3 DEF Settled
  <2>4. CASE b # c
    BY <1>1, <2>1, <2>2, <2>4
  <2>. QED  BY <2>3, <2>4
<1>12. SInv'
  BY <1>7, <1>8, <1>9, <1>10, <1>11 DEF SInv, EndComes, AskComes, VerdictComes, SendingEnds, RetryingEnds
<1>. QED  BY <1>6, <1>12 DEF Inv

-----------------------------------------------------------------------------
(***************************************************************************)
(* The steps of the page's operations after an await.                      *)
(***************************************************************************)
Waits(c) == call[c].pc \in {"ask", "load", "repair"}
Keeps    == OverKept(view, view', Blamed) /\ TasksKept(view, view')

(* A call whose request was taken, or failed, gives back what it holds. *)
Paid(c) ==
  LET k == call[c] IN
  /\ k.kind = "answer" /\ k.pc = "ask" =>
       view'.sending[k.run] = Free /\ db.ask[k.run] # "pending"
  /\ k.kind = "resolve" /\ k.pc = "ask" => view'.sending[k.run].call # c \/ ~Unanswered(db.ask[k.run])

LEMMA ViewSound ==
  ASSUME Inv
  PROVE  Sound(view, db, Blamed)
<1>1. DbOK /\ ViewOK(view, db) /\ OverOK(view, db, Blamed)
  BY DEF Inv, VInv
<1>2. db \in Db /\ \A r \in Runs : db.ask[r] = "pending" <=> db.row[r] = "waiting"
  BY <1>1 DEF DbOK, RowOK
<1>. QED  BY <1>1, <1>2 DEF Sound

LEMMA GoodReply ==
  ASSUME Inv, NEW c \in AllCalls, call[c].reply # Nothing, Good(c)
  PROVE  LET k == call[c] IN
         /\ k.pc = "ask" /\ k.kind \in {"start", "retry", "answer"} => Fitting(Body(c), db, Blamed)
         /\ k.pc = "ask" /\ k.kind = "stop" => Body(c) \in BOOLEAN
         /\ k.pc = "ask" /\ k.kind \in {"answer", "resolve"} => ~Unanswered(db.ask[k.run])
         /\ k.pc \in {"load", "repair"} => SnapOK(Body(c), db)
<1>1. ReplyOK(call[c], db)
  BY DEF Inv, VInv, CallsOK, CallOK
<1>2. call[c].reply # Error
  BY DEF Good, Error
<1>3. LET k == call[c] IN
      /\ k.pc = "ask" /\ k.kind \in {"start", "retry", "answer"} => UpdateOK(Body(c), db)
      /\ k.pc = "ask" /\ k.kind = "stop" => Body(c) \in BOOLEAN
      /\ k.pc = "ask" /\ k.kind \in {"answer", "resolve"} => ~Unanswered(db.ask[k.run])
      /\ k.pc \in {"load", "repair"} => SnapOK(Body(c), db)
  BY <1>1, <1>2 DEF ReplyOK, Body
<1>4. UpdateOK(Body(c), db) => Fitting(Body(c), db, Blamed)
  BY DEF UpdateOK, Fitting, UpdateType
<1>. QED  BY <1>3, <1>4

LEMMA GoesOnStep ==
  ASSUME Inv, NEW c \in AllCalls, Waits(c), NEW pc \in {"load", "repair"}, Next1(call, c, pc),
         UNCHANGED <<db, job, events>>, Leads(view, view', db, Blamed), TasksKept(view, view'), Paid(c)
  PROVE  Inv' /\ Keeps
<1>1. CallsOK' /\ Goes(c, pc, 0)
  BY CallGoesOn DEF Inv, VInv, Waits
<1>2. Blamed' = Blamed
  BY <1>1, BlamedGrows
<1>3. inbox' \subseteq inbox \cup {Request(c, pc)}
  BY DEF Next1
<1>4. InboxOK'
  BY <1>3, InboxGrows DEF Inv, VInv
<1>5. Settled(c, pc)
  BY DEF Settled, Paid
<1>6. Inv'
  BY <1>1, <1>2, <1>4, <1>5, SettleStep
<1>. QED  BY <1>6 DEF Keeps, Leads

LEMMA EndsStep ==
  ASSUME Inv, NEW c \in AllCalls, Waits(c), NEW cs, Finished(cs, c),
         cs = call \/ \E snap : cs = Replaced(call, snap),
         UNCHANGED <<db, job, events>>, Leads(view, view', db, Blamed), TasksKept(view, view'), Paid(c),
         c \notin view'.retrying
  PROVE  Inv' /\ Keeps
<1>1. CallsOK /\ InboxOK /\ CallsAre(call)
  BY DEF Inv, VInv, CallsOK
<1>2. CallsAre(cs) /\ \A b \in AllCalls : cs[b] = call[b] \/ \E f : cs[b] = WithFresh(call[b], f)
  BY <1>1, ReplacedCalls
<1>3. Done(cs, c, 0)
  BY DEF Finished
<1>4. CallsOK' /\ Goes(c, "done", 0)
  <2>1. 0 \in {0} \cup Runs
    OBVIOUS
  <2>. QED  BY <1>1, <1>2, <1>3, <2>1, CallEnds DEF Waits
<1>5. Blamed' = Blamed
  BY <1>4, BlamedGrows
<1>6. InboxOK'
  BY <1>1, <1>3 DEF Done, InboxOK
<1>7. Settled(c, "done")
  BY DEF Settled, Paid
<1>8. Inv'
  BY <1>4, <1>5, <1>6, <1>7, SettleStep
<1>. QED  BY <1>8 DEF Keeps, Leads

(* Only a retry holds the lock of retries. *)
LEMMA NotRetrying ==
  ASSUME Inv, NEW c \in AllCalls, call[c].kind # "retry", view'.retrying \subseteq view.retrying
  PROVE  c \notin view'.retrying
BY DEF Inv, SInv, RetryingEnds

LEMMA DropMineLeads ==
  ASSUME NEW v, NEW d, NEW B, Sound(v, d, B), NEW c
  PROVE  Leads(v, DropMine(v, c), d, B) /\ TasksKept(v, DropMine(v, c))
<1>1. v \in View /\ NoRequest \in Mine
  BY NoneTypes DEF Sound, ViewOK, Mine
<1>2. DropMine(v, c) = v \/ DropMine(v, c) = WithMine(v, NoRequest)
  BY DEF DropMine, WithMine
<1>3. CASE DropMine(v, c) = v
  BY <1>3, LeadsNowhere
<1>4. CASE DropMine(v, c) = WithMine(v, NoRequest)
  <2>. DEFINE w == WithMine(v, NoRequest)
  <2>1. w \in View /\ Shown(w) = Shown(v) /\ w.retrying = v.retrying
    BY <1>1, AsideChanged
  <2>. HIDE DEF w
  <2>2. Leads(v, w, d, B) /\ TasksKept(v, w)
    BY <2>1, ShownLeads
  <2>. QED  BY <1>4, <2>2 DEF w
<1>. QED  BY <1>2, <1>3, <1>4

LEMMA LoadAndDropLeads ==
  ASSUME NEW v, NEW d, NEW B, Sound(v, d, B), NEW snap, SnapOK(snap, d), NEW c
  PROVE  LET w == DropMine(Load(v, snap), c) IN Leads(v, w, d, B) /\ TasksKept(v, w)
<1>. DEFINE u == Load(v, snap)
            w == DropMine(u, c)
<1>1. Leads(v, u, d, B) /\ TasksKept(v, u)
  BY LoadLeads
<1>. HIDE DEF u
<1>2. Leads(u, w, d, B) /\ TasksKept(u, w)
  BY <1>1, DropMineLeads DEF Leads
<1>. HIDE DEF w
<1>3. Leads(v, w, d, B) /\ TasksKept(v, w)
  BY <1>1, <1>2, LeadsOn, TasksKeptOn
<1>. QED  BY <1>3 DEF w, u

LEMMA RetryAnsweredStep ==
  ASSUME Inv, NEW c \in AllCalls, RetryAnswered(c)
  PROVE  Inv' /\ Keeps
<1>1. /\ call[c].kind = "retry" /\ call[c].pc = "ask" /\ call[c].reply # Nothing
      /\ UNCHANGED <<db, job, events>>
  BY DEF RetryAnswered, Answered
<1>2. Waits(c) /\ Paid(c) /\ c \in Calls /\ Sound(view, db, Blamed)
  <2>1. c \in Calls
    BY <1>1 DEF Inv, VInv, CallsOK, CallOK
  <2>. QED  BY <1>1, <2>1, ViewSound DEF Waits, Paid
<1>3. CASE Good(c)
  <2>. DEFINE u == Body(c)
              v == ApplyUpdate(view, u)
              w == WithMine(v, [call |-> c, run |-> u.run])
  <2>1. Fitting(u, db, Blamed)
    BY <1>1, <1>3, GoodReply
  <2>2. view' \in {v, w} /\ Next1(call, c, "load")
    BY <1>3 DEF RetryAnswered, WithMine
  <2>3. u.run \in Runs
    BY <2>1 DEF Fitting, UpdateType
  <2>. HIDE DEF u
  <2>4. Leads(view, v, db, Blamed) /\ TasksKept(view, v)
    BY <1>2, <2>1, ApplyUpdateLeads
  <2>. HIDE DEF v
  <2>5. v \in View /\ [call |-> c, run |-> u.run] \in Mine
    BY <1>2, <2>3, <2>4 DEF Leads, Sound, ViewOK, Mine
  <2>6. w \in View /\ Shown(w) = Shown(v) /\ w.retrying = v.retrying
    BY <2>5, AsideChanged
  <2>. HIDE DEF w
  <2>7. Leads(v, w, db, Blamed) /\ TasksKept(v, w)
    BY <2>4, <2>6, ShownLeads DEF Leads
  <2>8. Leads(view, w, db, Blamed) /\ TasksKept(view, w)
    BY <1>2, <2>4, <2>7, LeadsOn, TasksKeptOn
  <2>. QED  BY <1>1, <1>2, <2>2, <2>4, <2>8, GoesOnStep
<1>4. CASE ~Good(c)
  <2>1. view' = view /\ Next1(call, c, "repair")
    BY <1>4 DEF RetryAnswered
  <2>2. Leads(view, view', db, Blamed) /\ TasksKept(view, view')
    BY <1>2, <2>1, LeadsNowhere
  <2>. QED  BY <1>1, <1>2, <2>1, <2>2, GoesOnStep
<1>. QED  BY <1>3, <1>4

LEMMA RetryLoadedStep ==
  ASSUME Inv, NEW c \in AllCalls, RetryLoaded(c)
  PROVE  Inv' /\ Keeps
<1>. DEFINE v == WithRetrying(view, view.retrying \ {c})
<1>1. /\ call[c].kind = "retry" /\ call[c].pc \in {"load", "repair"} /\ call[c].reply # Nothing
      /\ UNCHANGED <<db, job, events>>
      /\ IF Good(c) THEN view' = Load(v, Body(c)) /\ Finished(Replaced(call, Body(c)), c)
                    ELSE view' = v /\ Finished(call, c)
  BY DEF RetryLoaded, Answered, WithRetrying
<1>2. Waits(c) /\ Paid(c) /\ Sound(view, db, Blamed) /\ view \in View
  BY <1>1, ViewSound DEF Waits, Paid, Sound, ViewOK
<1>3. v \in View /\ Shown(v) = Shown(view) /\ v.retrying = view.retrying \ {c}
  BY <1>2, AsideChanged, ViewParts
<1>. HIDE DEF v
<1>4. Leads(view, v, db, Blamed) /\ TasksKept(view, v)
  BY <1>2, <1>3, ShownLeads
<1>5. CASE Good(c)
  <2>. DEFINE w == Load(v, Body(c))
  <2>1. SnapOK(Body(c), db)
    BY <1>1, <1>5, GoodReply
  <2>2. Leads(v, w, db, Blamed) /\ TasksKept(v, w)
    BY <1>4, <2>1, LoadLeads DEF Leads
  <2>. HIDE DEF w
  <2>3. Leads(view, w, db, Blamed) /\ TasksKept(view, w)
    BY <1>2, <1>4, <2>2, LeadsOn, TasksKeptOn
  <2>4. view' = w /\ c \notin view'.retrying
    BY <1>1, <1>3, <1>5, <2>2 DEF w, Leads, Calm
  <2>5. Leads(view, view', db, Blamed) /\ TasksKept(view, view')
    BY <2>3, <2>4
  <2>6. Finished(Replaced(call, Body(c)), c)
    BY <1>1, <1>5
  <2>. QED  BY <1>1, <1>2, <2>4, <2>5, <2>6, EndsStep
<1>6. CASE ~Good(c)
  <2>1. view' = v /\ Finished(call, c)
    BY <1>1, <1>6
  <2>. QED  BY <1>1, <1>2, <1>3, <1>4, <2>1, EndsStep
<1>. QED  BY <1>5, <1>6

(* A load that follows the request of a call that holds nothing any more. *)
LEMMA LoadEnds ==
  ASSUME Inv, NEW c \in AllCalls, call[c].pc \in {"load", "repair"}, call[c].kind # "retry",
         call[c].reply # Nothing, UNCHANGED <<db, job, events>>,
         IF Good(c)
         THEN /\ \/ view' = Load(view, Body(c)) \/ view' = DropMine(Load(view, Body(c)), c)
                 \/ \E r \in Runs : view' = LoadAndClose(view, r, Body(c))
              /\ Finished(Replaced(call, Body(c)), c)
         ELSE view' = view /\ Finished(call, c)
  PROVE  Inv' /\ Keeps
<1>1. Waits(c) /\ Paid(c) /\ Sound(view, db, Blamed)
  BY ViewSound DEF Waits, Paid
<1>2. Leads(view, view', db, Blamed) /\ TasksKept(view, view')
  <2>1. CASE Good(c)
    <3>1. SnapOK(Body(c), db)
      BY <2>1, GoodReply
    <3>2. CASE view' = Load(view, Body(c))
      BY <1>1, <3>1, <3>2, LoadLeads
    <3>3. CASE view' = DropMine(Load(view, Body(c)), c)
      BY <1>1, <3>1, <3>3, LoadAndDropLeads
    <3>4. CASE \E r \in Runs : view' = LoadAndClose(view, r, Body(c))
      BY <1>1, <3>1, <3>4, LoadAndCloseLeads
    <3>. QED  BY <2>1, <3>2, <3>3, <3>4
  <2>2. CASE ~Good(c)
    BY <1>1, <2>2, LeadsNowhere
  <2>. QED  BY <2>1, <2>2
<1>3. c \notin view'.retrying
  BY <1>2, NotRetrying DEF Leads, Calm
<1>4. PICK cs : Finished(cs, c) /\ (cs = call \/ \E snap : cs = Replaced(call, snap))
  BY Zenon
<1>. QED  BY <1>1, <1>2, <1>3, <1>4, EndsStep

LEMMA LoadedStep ==
  ASSUME Inv, NEW c \in AllCalls,
         Loaded(c) \/ ResolveLoaded(c) \/ (StartLoaded(c) /\ Good(c)) \/ (CancelLoaded(c) /\ Good(c))
  PROVE  Inv' /\ Keeps
<1>1. CASE Loaded(c)
  <2>1. call[c].kind \in {"load", "answer"} /\ call[c].pc = "load" /\ call[c].reply # Nothing /\ UNCHANGED <<db, job, events>>
    BY <1>1 DEF Loaded, Answered
  <2>2. IF Good(c) THEN view' = Load(view, Body(c)) /\ Finished(Replaced(call, Body(c)), c)
                   ELSE view' = view /\ Finished(call, c)
    BY <1>1 DEF Loaded
  <2>. QED  BY <2>1, <2>2, LoadEnds
<1>2. CASE ResolveLoaded(c)
  <2>1. /\ call[c].kind = "resolve" /\ call[c].pc \in {"load", "repair"} /\ call[c].reply # Nothing
        /\ UNCHANGED <<db, job, events>>
    BY <1>2 DEF ResolveLoaded, Answered
  <2>2. call[c].run \in Runs
    BY <2>1 DEF Inv, VInv, CallsOK, CallOK
  <2>3. IF Good(c)
        THEN /\ view' = Load(view, Body(c)) \/ view' = LoadAndClose(view, call[c].run, Body(c))
             /\ Finished(Replaced(call, Body(c)), c)
        ELSE view' = view /\ Finished(call, c)
    BY <1>2 DEF ResolveLoaded
  <2>. QED  BY <2>1, <2>2, <2>3, LoadEnds
<1>3. CASE StartLoaded(c) /\ Good(c)
  <2>1. call[c].kind = "start" /\ call[c].pc = "load" /\ call[c].reply # Nothing /\ UNCHANGED <<db, job, events>>
    BY <1>3 DEF StartLoaded, Answered
  <2>2. view' = DropMine(Load(view, Body(c)), c) /\ Finished(Replaced(call, Body(c)), c)
    BY <1>3 DEF StartLoaded
  <2>. QED  BY <1>3, <2>1, <2>2, LoadEnds
<1>4. CASE CancelLoaded(c) /\ Good(c)
  <2>1. call[c].kind = "stop" /\ call[c].pc = "load" /\ call[c].reply # Nothing /\ UNCHANGED <<db, job, events>>
    BY <1>4 DEF CancelLoaded, Answered
  <2>2. call[c].run \in Runs
    BY <2>1 DEF Inv, VInv, CallsOK, CallOK
  <2>3. view' = LoadAndClose(view, call[c].run, Body(c)) /\ Finished(Replaced(call, Body(c)), c)
    BY <1>4 DEF CancelLoaded
  <2>. QED  BY <1>4, <2>1, <2>2, <2>3, LoadEnds
<1>. QED  BY <1>1, <1>2, <1>3, <1>4

LEMMA CancelStep ==
  ASSUME Inv, NEW c \in AllCalls, CancelAnswered(c) \/ (CancelLoaded(c) /\ ~Good(c))
  PROVE  Inv' /\ Keeps
<1>. DEFINE v == WithStopping(view, view.stopping \ {call[c].run})
<1>1. /\ call[c].kind = "stop" /\ call[c].pc \in {"ask", "load"} /\ call[c].reply # Nothing
      /\ UNCHANGED <<db, job, events>>
      /\ view' \in {view, v}
      /\ Next1(call, c, "load") \/ Finished(call, c)
  BY DEF CancelAnswered, CancelLoaded, Answered, WithStopping
<1>2. Waits(c) /\ Paid(c) /\ Sound(view, db, Blamed) /\ view \in View
  BY <1>1, ViewSound DEF Waits, Paid, Sound, ViewOK
<1>3. v \in View /\ Shown(v) = Shown(view) /\ v.retrying = view.retrying
  BY <1>2, AsideChanged, ViewParts
<1>. HIDE DEF v
<1>4. Leads(view, view', db, Blamed) /\ TasksKept(view, view')
  <2>1. CASE view' = view
    BY <1>2, <2>1, LeadsNowhere
  <2>2. CASE view' = v
    BY <1>2, <1>3, <2>2, ShownLeads
  <2>. QED  BY <1>1, <2>1, <2>2
<1>5. c \notin view'.retrying
  BY <1>1, <1>4, NotRetrying DEF Leads, Calm
<1>. QED  BY <1>1, <1>2, <1>4, <1>5, GoesOnStep, EndsStep

LEMMA ResolveAnsweredStep ==
  ASSUME Inv, NEW c \in AllCalls, ResolveAnswered(c)
  PROVE  Inv' /\ Keeps
<1>. DEFINE r == call[c].run
            s == view.sending[r]
            accepted == [s EXCEPT !.accepted = TRUE]
            x == IF Good(c) THEN accepted ELSE Free
            w == WithSending(view, r, x)
<1>1. /\ call[c].kind = "resolve" /\ call[c].pc = "ask" /\ call[c].reply # Nothing
      /\ UNCHANGED <<db, job, events>>
  BY DEF ResolveAnswered, Answered
<1>2. /\ r \in Runs /\ c \in Calls /\ c # 0 /\ db.kind[r] = "approval"
      /\ Good(c) => ~Unanswered(db.ask[r])
  <2>1. c \in Calls /\ r \in Runs /\ db.kind[r] = "approval"
    BY <1>1 DEF Inv, VInv, CallsOK, CallOK
  <2>2. c # 0
    BY <2>1 DEF Calls
  <2>. QED  BY <1>1, <2>1, <2>2, GoodReply
<1>3. Waits(c) /\ Sound(view, db, Blamed) /\ view \in View /\ Fits(view, db, r) /\ s \in Sent
  <2>1. Sound(view, db, Blamed) /\ view \in View /\ Fits(view, db, r)
    BY <1>2, ViewSound DEF Sound, ViewOK
  <2>. QED  BY <1>1, <1>2, <2>1, ViewParts DEF Waits, Sent
<1>4. x \in Sent /\ accepted.call = s.call
  <2>1. accepted \in Sent /\ accepted.call = s.call
    BY <1>3 DEF Sent
  <2>. QED  BY <2>1, NoneTypes DEF Sent
<1>5. /\ view' = view \/ (view' = w /\ s # Free)
      /\ Good(c) \/ view'.sending[r].call # c
      /\ Next1(call, c, "load") \/ Next1(call, c, "repair")
  <2>1. CASE Good(c)
    <3>1. view' = IF s = Free THEN view ELSE [view EXCEPT !.sending[r].accepted = TRUE]
      BY <2>1 DEF ResolveAnswered
    <3>2. [view EXCEPT !.sending[r].accepted = TRUE] = w
      BY <2>1 DEF WithSending
    <3>. QED  BY <2>1, <3>1, <3>2 DEF ResolveAnswered
  <2>2. CASE ~Good(c)
    <3>1. view' = IF s.call = c THEN [view EXCEPT !.sending[r] = Free] ELSE view
      BY <2>2 DEF ResolveAnswered
    <3>2. [view EXCEPT !.sending[r] = Free] = w
      <4>1. w = WithSending(view, r, Free)
        <5>1. x = Free
          BY <2>2
        <5>. HIDE DEF x
        <5>. QED  BY <5>1
      <4>. HIDE DEF w, x
      <4>. QED  BY <4>1 DEF WithSending
    <3>3. w.sending[r] = Free
      <4>1. w.sending[r] = x
        <5>. HIDE DEF x
        <5>. QED  BY <1>2, <1>3, <1>4, SendingChanged
      <4>. QED  BY <2>2, <4>1
    <3>4. s.call = c => s # Free
      BY <1>2, NoneTypes
    <3>. QED  BY <1>2, <2>2, <3>1, <3>2, <3>3, <3>4, NoneTypes DEF ResolveAnswered
  <2>. QED  BY <2>1, <2>2
<1>6. x = Free \/ (x = accepted /\ ~Unanswered(db.ask[r]))
  BY <1>2
<1>. HIDE DEF x, accepted
<1>7. /\ w \in View
      /\ w.run = view.run /\ w.task = view.task /\ w.card = view.card /\ w.retrying = view.retrying
      /\ w.sending[r] = x /\ \A q \in Runs \ {r} : w.sending[q] = view.sending[q]
  BY <1>2, <1>3, <1>4, SendingChanged
<1>. HIDE DEF w
<1>8. s # Free => Leads(view, w, db, Blamed) /\ TasksKept(view, w)
  <2>. SUFFICES ASSUME s # Free PROVE Leads(view, w, db, Blamed) /\ TasksKept(view, w)
    OBVIOUS
  <2>1. ~view.card[r].resolved /\ s.call # 0
    BY <1>3 DEF Fits
  <2>2. Fits(w, db, r) /\ CalmAt(view, w, r)
    <3>1. x = Free \/ (x.call = s.call /\ ~Unanswered(db.ask[r]))
      BY <1>4, <1>6
    <3>2. Fits(w, db, r)
      BY <1>3, <1>7, <2>1, <3>1, NoneTypes DEF Fits
    <3>3. CalmAt(view, w, r)
      BY <1>7, <2>1, <3>1 DEF CalmAt
    <3>. QED  BY <3>2, <3>3
  <2>3. \A q \in Runs \ {r} : SameShown(view, w, q)
    BY <1>7 DEF SameShown
  <2>4. /\ r \notin Blamed => OverAt(w, db, r)
        /\ OverKeptAt(view, w, r) /\ AskedStill(view, w, db, r)
    BY <1>2, <1>3, <1>7 DEF Sound, OverOK, OverAt, OverKeptAt, AskedStill
  <2>5. Leads(view, w, db, Blamed)
    BY <1>2, <1>3, <1>7, <2>2, <2>3, <2>4, OneRun
  <2>6. TasksKept(view, w)
    BY <1>7 DEF TasksKept, TaskKept
  <2>. QED  BY <2>5, <2>6
<1>9. Leads(view, view', db, Blamed) /\ TasksKept(view, view')
  BY <1>3, <1>5, <1>8, LeadsNowhere
<1>10. Paid(c)
  BY <1>1, <1>2, <1>5 DEF Paid
<1>. QED  BY <1>1, <1>3, <1>5, <1>9, <1>10, GoesOnStep

LEMMA TakenStep ==
  ASSUME Inv, NEW c \in AllCalls, (StartAnswered(c) \/ AnswerAnswered(c)) /\ Good(c)
  PROVE  Inv' /\ Keeps
<1>. DEFINE r == call[c].run
            v == ApplyUpdate(view, Body(c))
            w == WithSending(v, r, Free)
<1>1. /\ call[c].kind \in {"start", "answer"} /\ call[c].pc = "ask" /\ call[c].reply # Nothing
      /\ UNCHANGED <<db, job, events>> /\ Next1(call, c, "load")
      /\ view' = IF call[c].kind = "start" THEN v ELSE w
  BY DEF StartAnswered, AnswerAnswered, Answered, WithSending
<1>2. /\ Waits(c) /\ Sound(view, db, Blamed)
      /\ call[c].kind = "answer" => r \in Runs /\ db.ask[r] # "pending"
  <2>1. call[c].kind = "answer" => r \in Runs
    BY DEF Inv, VInv, CallsOK, CallOK
  <2>2. call[c].kind = "answer" => ~Unanswered(db.ask[r])
    BY <1>1, GoodReply
  <2>. QED  BY <1>1, <2>1, <2>2, ViewSound DEF Waits, Unanswered
<1>3. Leads(view, v, db, Blamed) /\ TasksKept(view, v)
  <2>1. Fitting(Body(c), db, Blamed)
    BY <1>1, GoodReply
  <2>. QED  BY <1>2, <2>1, ApplyUpdateLeads
<1>. HIDE DEF v
<1>4. CASE call[c].kind = "start"
  <2>1. Paid(c)
    BY <1>4 DEF Paid
  <2>. QED  BY <1>1, <1>2, <1>3, <1>4, <2>1, GoesOnStep
<1>5. CASE call[c].kind = "answer"
  <2>1. v \in View /\ Fits(v, db, r) /\ Sound(v, db, Blamed)
    BY <1>2, <1>3, <1>5 DEF Leads, Sound, ViewOK
  <2>2. /\ w \in View
        /\ w.run = v.run /\ w.task = v.task /\ w.card = v.card /\ w.retrying = v.retrying
        /\ w.sending[r] = Free /\ \A q \in Runs \ {r} : w.sending[q] = v.sending[q]
    BY <1>2, <1>5, <2>1, NoneTypes, SendingChanged DEF Sent
  <2>. HIDE DEF w
  <2>3. Fits(w, db, r) /\ CalmAt(v, w, r)
    BY <2>1, <2>2, NoneTypes DEF Fits, CalmAt
  <2>4. \A q \in Runs \ {r} : SameShown(v, w, q)
    BY <2>2 DEF SameShown
  <2>5. /\ r \notin Blamed => OverAt(w, db, r)
        /\ OverKeptAt(v, w, r) /\ AskedStill(v, w, db, r)
    BY <1>2, <1>5, <2>1, <2>2 DEF Sound, OverOK, OverAt, OverKeptAt, AskedStill
  <2>6. Leads(v, w, db, Blamed)
    BY <1>2, <1>5, <2>1, <2>2, <2>3, <2>4, <2>5, OneRun
  <2>7. TasksKept(v, w)
    BY <2>2 DEF TasksKept, TaskKept
  <2>8. Leads(view, w, db, Blamed) /\ TasksKept(view, w)
    BY <1>2, <1>3, <2>6, <2>7, LeadsOn, TasksKeptOn
  <2>9. view' = w
    BY <1>1, <1>5
  <2>10. Paid(c)
    BY <1>2, <1>5, <2>2, <2>9 DEF Paid
  <2>. QED  BY <1>1, <1>2, <2>8, <2>9, <2>10, GoesOnStep
<1>. QED  BY <1>1, <1>4, <1>5

(* The end of a call that failed: only r may be marked, and is blamed then. *)
LEMMA BlameStep ==
  ASSUME Inv, NEW c \in Calls, Waits(c), call[c].kind \in {"start", "answer"}, Blame(c),
         UNCHANGED <<db, job, events>>, NEW r \in Runs,
         view' \in View, view'.retrying = view.retrying, TasksKept(view, view'),
         \A q \in Runs \ {r} : SameShown(view, view', q),
         Fits(view', db, r), CalmAt(view, view', r), OverKeptAt(view, view', r), AskedStill(view, view', db, r),
         Ended(view'.run[r]) => \/ view'.run[r] = "failed" /\ view.run[r] # "failed"
                                \/ view'.run[r] = view.run[r] /\ view'.card[r] = view.card[r],
         call[c].kind = "answer" =>
           /\ call[c].run = r /\ view'.sending[r] = Free
           /\ r \notin Blamed /\ db.ask[r] = "pending" => view'.card[r].status = "pending"
  PROVE  Inv' /\ Keeps
<1>. DEFINE hit == {q \in Runs : view.run[q] # "failed" /\ view'.run[q] = "failed"}
            b == IF hit = {} THEN 0 ELSE CHOOSE q \in hit : TRUE
<1>1. hit \subseteq {r} /\ (view'.run[r] = "failed" /\ view.run[r] # "failed" => r \in hit)
  BY DEF SameShown
<1>2. Done(call, c, b)
  BY DEF Blame
<1>. HIDE DEF hit
<1>3. b \in {0} \cup Runs /\ (r \in hit => b = r)
  BY <1>1
<1>. HIDE DEF b
<1>4. c \in AllCalls
  BY CallNumbers
<1>5. CallsOK' /\ Goes(c, "done", b)
  <2>1. CallsOK /\ CallsAre(call)
    BY DEF Inv, VInv, CallsOK
  <2>. QED  BY <1>2, <1>3, <1>4, <2>1, CallEnds DEF Waits
<1>6. /\ \A q \in Runs : q \in Blamed => q \in Blamed'
      /\ r \in hit => r \in Blamed'
  BY <1>3, <1>4, <1>5, BlamedGrows
<1>7. Sound(view, db, Blamed')
  <2>1. Sound(view, db, Blamed)
    BY ViewSound
  <2>. QED  BY <1>6, <2>1 DEF Sound, OverOK
<1>8. r \notin Blamed' => OverAt(view', db, r)
  <2>. SUFFICES ASSUME r \notin Blamed', Ended(view'.run[r])
                PROVE  view'.run[r] = db.row[r] /\ view'.card[r].status # "pending"
    BY DEF OverAt
  <2>1. view'.run[r] = view.run[r] /\ view'.card[r] = view.card[r]
    BY <1>1, <1>6
  <2>2. OverAt(view, db, r)
    BY <1>7 DEF Sound, OverOK
  <2>. QED  BY <2>1, <2>2 DEF OverAt
<1>9. Leads(view, view', db, Blamed')
  BY <1>7, <1>8, OneRun
<1>10. InboxOK'
  BY <1>2 DEF Done, Inv, VInv, InboxOK
<1>11. Settled(c, "done")
  <2>1. c \notin view'.retrying
    BY <1>4, NotRetrying
  <2>2. r \notin Blamed' => r \notin Blamed
    BY <1>6
  <2>. QED  BY <2>1, <2>2 DEF Settled
<1>12. Inv'
  BY <1>3, <1>4, <1>5, <1>9, <1>10, <1>11, SettleStep
<1>13. OverKept(view, view', Blamed)
  BY DEF OverKept, OverKeptAt, SameShown
<1>. QED  BY <1>12, <1>13 DEF Keeps

LEMMA StartFailedIs ==
  ASSUME NEW v \in View, NEW c
  PROVE  \/ StartFailed(v, c) = v
         \/ \E s \in Sessions : StartFailed(v, c) = WithSession(v, s)
         \/ \E r \in Open(v), s \in Sessions : StartFailed(v, c) = WithRun(WithSession(v, s), r, "failed")
<1>. DEFINE r == CHOOSE q \in Open(v) : \A p \in Open(v) : p <= q
            v1 == WithSession(v, "failed")
<1>1. "failed" \in Sessions
  BY DEF Sessions, Statuses, Overs
<1>2. StartFailed(v, c) \in {v, v1, [v1 EXCEPT !.run[r] = "failed"]}
  BY DEF StartFailed, WithSession
<1>3. Open(v) = {} => StartFailed(v, c) \in {v, v1}
  BY DEF StartFailed, WithSession
<1>4. Open(v) # {} => r \in Open(v)
  BY LatestRun DEF Open, Known
<1>5. [v1 EXCEPT !.run[r] = "failed"] = WithRun(v1, r, "failed")
  BY DEF WithRun
<1>. HIDE DEF r
<1>. QED  BY <1>1, <1>2, <1>3, <1>4, <1>5

LEMMA StartFailedStep ==
  ASSUME Inv, NEW c \in AllCalls, (StartAnswered(c) \/ StartLoaded(c)) /\ ~Good(c)
  PROVE  Inv' /\ Keeps
<1>. DEFINE v == StartFailed(view, c)
<1>1. /\ call[c].kind = "start" /\ call[c].pc \in {"ask", "load"} /\ UNCHANGED <<db, job, events>>
      /\ view' = DropMine(v, c) /\ Blame(c)
  BY DEF StartAnswered, StartLoaded, Answered
<1>2. /\ c \in Calls /\ Waits(c) /\ view \in View /\ \A r \in Runs : Fits(view, db, r)
  <2>1. c \in Calls
    BY <1>1 DEF Inv, VInv, CallsOK, CallOK
  <2>. QED  BY <1>1, <2>1, ViewSound DEF Waits, Sound, ViewOK
<1>3. \E r \in Runs :
        /\ v \in View /\ v.task = view.task /\ v.card = view.card /\ v.sending = view.sending
        /\ v.retrying = view.retrying /\ \A q \in Runs \ {r} : v.run[q] = view.run[q]
        /\ v.run[r] = view.run[r] \/ (v.run[r] = "failed" /\ view.run[r] # "none" /\ ~Ended(view.run[r]))
  <2>1. 1 \in Runs
    BY ViewConstantsOK DEF Runs
  <2>2. CASE v = view
    BY <1>2, <2>1, <2>2
  <2>3. CASE \E s \in Sessions : v = WithSession(view, s)
    <3>1. PICK s \in Sessions : v = WithSession(view, s)
      BY <2>3
    <3>. HIDE DEF v
    <3>2. v \in View /\ Shown(v) = Shown(view) /\ v.retrying = view.retrying
      BY <1>2, <3>1, AsideChanged
    <3>. QED  BY <2>1, <3>2 DEF Shown
  <2>4. CASE \E r \in Open(view), s \in Sessions : v = WithRun(WithSession(view, s), r, "failed")
    <3>1. PICK r \in Open(view), s \in Sessions : v = WithRun(WithSession(view, s), r, "failed")
      BY <2>4
    <3>. HIDE DEF v
    <3>. DEFINE u == WithSession(view, s)
    <3>2. u \in View /\ Shown(u) = Shown(view) /\ u.retrying = view.retrying
      BY <1>2, <3>1, AsideChanged
    <3>3. r \in Runs /\ view.run[r] # "none" /\ ~Ended(view.run[r]) /\ "failed" \in Statuses
      BY DEF Open, Known, Statuses, Overs
    <3>. HIDE DEF u
    <3>4. /\ v \in View /\ v.task = u.task /\ v.card = u.card /\ v.sending = u.sending /\ v.retrying = u.retrying
          /\ v.run[r] = "failed" /\ \A q \in Runs \ {r} : v.run[q] = u.run[q]
      BY <3>1, <3>2, <3>3, RunChanged DEF u
    <3>. QED  BY <3>2, <3>3, <3>4 DEF Shown
  <2>. QED  BY <1>2, <2>2, <2>3, <2>4, StartFailedIs
<1>. HIDE DEF v
<1>4. PICK r \in Runs :
        /\ v \in View /\ v.task = view.task /\ v.card = view.card /\ v.sending = view.sending
        /\ v.retrying = view.retrying /\ \A q \in Runs \ {r} : v.run[q] = view.run[q]
        /\ v.run[r] = view.run[r] \/ (v.run[r] = "failed" /\ view.run[r] # "none" /\ ~Ended(view.run[r]))
  BY <1>3
<1>5. view' \in View /\ Shown(view') = Shown(v) /\ view'.retrying = v.retrying
  <2>1. view' = v \/ view' = WithMine(v, NoRequest)
    BY <1>1 DEF DropMine, WithMine
  <2>2. NoRequest \in Mine
    BY NoneTypes DEF Mine
  <2>3. CASE view' = v
    BY <1>4, <2>3
  <2>4. CASE view' = WithMine(v, NoRequest)
    BY <1>4, <2>2, <2>4, AsideChanged
  <2>. QED  BY <2>1, <2>3, <2>4
<1>6. /\ view'.task = view.task /\ view'.card = view.card /\ view'.sending = view.sending
      /\ view'.retrying = view.retrying /\ \A q \in Runs \ {r} : view'.run[q] = view.run[q]
      /\ \/ view'.run[r] = view.run[r]
         \/ view'.run[r] = "failed" /\ view.run[r] # "none" /\ ~Ended(view.run[r])
  BY <1>4, <1>5 DEF Shown
<1>7. \A q \in Runs \ {r} : SameShown(view, view', q)
  BY <1>6 DEF SameShown
<1>8. Fits(view', db, r) /\ CalmAt(view, view', r) /\ OverKeptAt(view, view', r) /\ AskedStill(view, view', db, r)
  <2>1. Fits(view', db, r)
    BY <1>2, <1>6 DEF Fits
  <2>. QED  BY <1>6, <2>1 DEF CalmAt, OverKeptAt, AskedStill
<1>9. TasksKept(view, view')
  BY <1>6 DEF TasksKept, TaskKept
<1>10. Ended(view'.run[r]) => \/ view'.run[r] = "failed" /\ view.run[r] # "failed"
                              \/ view'.run[r] = view.run[r] /\ view'.card[r] = view.card[r]
  BY <1>6 DEF Ended, Overs
<1>. QED  BY <1>1, <1>2, <1>5, <1>6, <1>7, <1>8, <1>9, <1>10, BlameStep

(* What the catch of an answered input leaves: w is the view it marks. *)
Marked(w, r, s, x) == WithRun(WithSession(w, s), r, x)
Asked(v, r) == WithCard(v, r, [v.card[r] EXCEPT !.status = "pending"])

LEMMA AnswerFailedIs ==
  ASSUME NEW v \in View, NEW c, NEW r \in Runs, call[c].run = r
  PROVE  LET w == AnswerFailed(v, c) IN
         IF Ended(v.run[r]) THEN w = v
         ELSE IF ~v.sending[r].accepted
         THEN \E s \in Sessions, x \in {v.run[r], "waiting"} :
                w = Marked(Asked(v, r), r, s, x) /\ (v.run[r] = "none" => x = "none")
         ELSE \E s \in Sessions, x \in {v.run[r], "failed"} :
                w = Marked(v, r, s, x) /\ (v.run[r] = "none" => x = "none")
<1>. DEFINE from1 == {"idle", "running", "waiting", "completed", "failed", "cancelled"}
            S(w, from, status) == IF "session" \in call[c].fresh /\ w.session \in from THEN status ELSE w.session
            X(w, from, status) == IF "run" \in call[c].fresh /\ w.run[r] \in from THEN status ELSE w.run[r]
            mark(w, from, status) ==
              [w EXCEPT
                !.session = IF "session" \in call[c].fresh /\ @ \in from THEN status ELSE @,
                !.run[r] = IF "run" \in call[c].fresh /\ @ \in from THEN status ELSE @]
            u == Asked(v, r)
<1>1. AnswerFailed(v, c) =
        IF Ended(v.run[r]) THEN v
        ELSE IF ~v.sending[r].accepted
        THEN mark([v EXCEPT !.card[r].status = "pending"], from1, "waiting")
        ELSE mark(v, {"running"}, "failed")
  BY DEF AnswerFailed
<1>2. [v EXCEPT !.card[r].status = "pending"] = u
  BY DEF Asked, WithCard
<1>3. ASSUME NEW w \in View, NEW from, NEW status
      PROVE  mark(w, from, status) = Marked(w, r, S(w, from, status), X(w, from, status))
  BY <1>3 DEF Marked, WithRun, WithSession, View
<1>4. u \in View /\ u.run = v.run /\ u.session = v.session
  <2>1. v.card[r] \in CardRec
    BY ViewParts DEF CardRec
  <2>2. [v.card[r] EXCEPT !.status = "pending"] \in CardRec
    BY <2>1 DEF CardRec, CardWords
  <2>. QED  BY <2>2, CardChanged DEF Asked
<1>5. v.session \in Sessions /\ "waiting" \in Sessions /\ "failed" \in Sessions
  BY ViewParts DEF Sessions, Statuses, Overs
<1>. HIDE DEF mark, u
<1>6. CASE Ended(v.run[r])
  BY <1>1, <1>6
<1>7. CASE ~Ended(v.run[r]) /\ ~v.sending[r].accepted
  <2>1. AnswerFailed(v, c) = Marked(u, r, S(u, from1, "waiting"), X(u, from1, "waiting"))
    BY <1>1, <1>2, <1>3, <1>4, <1>7
  <2>2. /\ S(u, from1, "waiting") \in Sessions /\ X(u, from1, "waiting") \in {v.run[r], "waiting"}
        /\ v.run[r] = "none" => X(u, from1, "waiting") = "none"
    BY <1>4, <1>5
  <2>. QED  BY <1>7, <2>1, <2>2 DEF u
<1>8. CASE ~Ended(v.run[r]) /\ v.sending[r].accepted
  <2>1. AnswerFailed(v, c) = Marked(v, r, S(v, {"running"}, "failed"), X(v, {"running"}, "failed"))
    BY <1>1, <1>3, <1>8
  <2>2. /\ S(v, {"running"}, "failed") \in Sessions /\ X(v, {"running"}, "failed") \in {v.run[r], "failed"}
        /\ v.run[r] = "none" => X(v, {"running"}, "failed") = "none"
    BY <1>5
  <2>. QED  BY <1>8, <2>1, <2>2
<1>. QED  BY <1>6, <1>7, <1>8

LEMMA MarkedParts ==
  ASSUME NEW w \in View, NEW r \in Runs, NEW s \in Sessions, NEW x \in Statuses
  PROVE  LET m == Marked(w, r, s, x) IN
         /\ m \in View /\ m.task = w.task /\ m.card = w.card /\ m.sending = w.sending /\ m.retrying = w.retrying
         /\ m.run[r] = x /\ \A q \in Runs \ {r} : m.run[q] = w.run[q]
<1>. DEFINE u == WithSession(w, s)
<1>1. u \in View /\ Shown(u) = Shown(w) /\ u.retrying = w.retrying
  BY AsideChanged
<1>. HIDE DEF u
<1>2. LET m == WithRun(u, r, x) IN
      /\ m \in View /\ m.task = u.task /\ m.card = u.card /\ m.sending = u.sending /\ m.retrying = u.retrying
      /\ m.run[r] = x /\ \A q \in Runs \ {r} : m.run[q] = u.run[q]
  BY <1>1, RunChanged
<1>. QED  BY <1>1, <1>2 DEF Shown, Marked, u

LEMMA AnswerFailedStep ==
  ASSUME Inv, NEW c \in AllCalls, AnswerAnswered(c) /\ ~Good(c)
  PROVE  Inv' /\ Keeps
<1>. DEFINE r == call[c].run
            v == AnswerFailed(view, c)
            card == [view.card[r] EXCEPT !.status = "pending"]
            offered == ~Ended(view.run[r]) /\ ~view.sending[r].accepted
<1>1. /\ call[c].kind = "answer" /\ call[c].pc = "ask" /\ UNCHANGED <<db, job, events>>
      /\ view' = WithSending(v, r, Free) /\ Blame(c)
  BY DEF AnswerAnswered, Answered, WithSending
<1>2. c \in Calls /\ r \in Runs /\ db.ask[r] # "none" /\ db.kind[r] # "approval"
  BY <1>1 DEF Inv, VInv, CallsOK, CallOK
<1>3. Waits(c) /\ view \in View /\ Fits(view, db, r) /\ Sound(view, db, Blamed)
  BY <1>1, <1>2, ViewSound DEF Waits, Sound, ViewOK
<1>4. ~view.card[r].resolved /\ view.card[r] \in CardRec /\ view.run[r] \in Statuses
  BY <1>2, <1>3, ViewParts DEF Fits, CardRec
<1>5. card \in CardRec /\ card.status = "pending" /\ ~card.resolved
  BY <1>4 DEF CardRec, CardWords
<1>6. /\ v \in View /\ v.task = view.task /\ v.sending = view.sending /\ v.retrying = view.retrying
      /\ \A q \in Runs \ {r} : v.run[q] = view.run[q] /\ v.card[q] = view.card[q]
      /\ v.card[r] = IF offered THEN card ELSE view.card[r]
      /\ view.run[r] = "none" => v.run[r] = "none"
      /\ IF Ended(view.run[r]) THEN v.run[r] = view.run[r]
         ELSE IF offered THEN v.run[r] \in {view.run[r], "waiting"} ELSE v.run[r] \in {view.run[r], "failed"}
  <2>1. CASE Ended(view.run[r])
    <3>1. v = view
      BY <1>2, <1>3, <2>1, AnswerFailedIs
    <3>. QED  BY <1>3, <2>1, <3>1
  <2>2. CASE offered
    <3>1. PICK s \in Sessions, x \in {view.run[r], "waiting"} :
            v = Marked(Asked(view, r), r, s, x) /\ (view.run[r] = "none" => x = "none")
      BY <1>2, <1>3, <2>2, AnswerFailedIs
    <3>. DEFINE u == Asked(view, r)
    <3>2. /\ u \in View
          /\ u.run = view.run /\ u.task = view.task /\ u.sending = view.sending /\ u.retrying = view.retrying
          /\ u.card[r] = card /\ \A q \in Runs \ {r} : u.card[q] = view.card[q]
      <4>. HIDE DEF card
      <4>1. u = WithCard(view, r, card)
        BY DEF Asked, card
      <4>. HIDE DEF u
      <4>. QED  BY <1>2, <1>3, <1>5, <4>1, CardChanged
    <3>. HIDE DEF u, v, card
    <3>3. x \in Statuses
      BY <1>4 DEF Statuses
    <3>4. /\ v \in View /\ v.task = u.task /\ v.card = u.card /\ v.sending = u.sending /\ v.retrying = u.retrying
          /\ v.run[r] = x /\ \A q \in Runs \ {r} : v.run[q] = u.run[q]
      BY <1>2, <3>1, <3>2, <3>3, MarkedParts DEF u
    <3>. QED  BY <2>2, <3>1, <3>2, <3>4
  <2>3. CASE ~Ended(view.run[r]) /\ view.sending[r].accepted
    <3>1. PICK s \in Sessions, x \in {view.run[r], "failed"} :
            v = Marked(view, r, s, x) /\ (view.run[r] = "none" => x = "none")
      BY <1>2, <1>3, <2>3, AnswerFailedIs
    <3>. HIDE DEF v
    <3>2. x \in Statuses
      BY <1>4 DEF Statuses, Overs
    <3>3. /\ v \in View /\ v.task = view.task /\ v.card = view.card /\ v.sending = view.sending
          /\ v.retrying = view.retrying
          /\ v.run[r] = x /\ \A q \in Runs \ {r} : v.run[q] = view.run[q]
      BY <1>2, <1>3, <3>1, <3>2, MarkedParts
    <3>. QED  BY <2>3, <3>1, <3>3
  <2>. QED  BY <2>1, <2>2, <2>3
<1>. HIDE DEF v, card
<1>7. /\ view' \in View
      /\ view'.run = v.run /\ view'.task = v.task /\ view'.card = v.card /\ view'.retrying = v.retrying
      /\ view'.sending[r] = Free /\ \A q \in Runs \ {r} : view'.sending[q] = v.sending[q]
  BY <1>1, <1>2, <1>6, NoneTypes, SendingChanged DEF Sent
<1>8. \A q \in Runs \ {r} : SameShown(view, view', q)
  BY <1>6, <1>7 DEF SameShown
<1>9. view'.run[r] # "none" => view.run[r] # "none"
  BY <1>6, <1>7
<1>10. Fits(view', db, r)
  BY <1>2, <1>3, <1>4, <1>5, <1>6, <1>7, <1>9, NoneTypes DEF Fits
<1>11. CalmAt(view, view', r) /\ OverKeptAt(view, view', r) /\ AskedStill(view, view', db, r)
  <2>1. Ended(view.run[r]) => view'.run[r] = view.run[r] /\ view'.card[r] = view.card[r]
    BY <1>6, <1>7
  <2>2. view'.card[r].status \in {view.card[r].status, "pending"}
    BY <1>5, <1>6, <1>7
  <2>. QED  BY <1>4, <1>7, <2>1, <2>2 DEF CalmAt, OverKeptAt, AskedStill
<1>12. TasksKept(view, view')
  BY <1>6, <1>7 DEF TasksKept, TaskKept
<1>13. ~Ended("waiting")
  BY DEF Ended, Overs
<1>14. Ended(view'.run[r]) => \/ view'.run[r] = "failed" /\ view.run[r] # "failed"
                              \/ view'.run[r] = view.run[r] /\ view'.card[r] = view.card[r]
  BY <1>6, <1>7, <1>13
<1>15. r \notin Blamed /\ db.ask[r] = "pending" => view'.card[r].status = "pending"
  <2>. SUFFICES ASSUME r \notin Blamed, db.ask[r] = "pending" PROVE offered
    BY <1>5, <1>6, <1>7
  <2>1. ~view.sending[r].accepted
    BY <1>3 DEF Fits, Unanswered
  <2>2. db.row[r] = "waiting"
    BY <1>2, <1>3 DEF Sound
  <2>3. ~Ended(view.run[r])
    BY <1>2, <1>3, <1>13, <2>2 DEF Sound, OverOK, OverAt
  <2>. QED  BY <2>1, <2>3
<1>. QED  BY <1>1, <1>2, <1>3, <1>6, <1>7, <1>8, <1>10, <1>11, <1>12, <1>14, <1>15, BlameStep

-----------------------------------------------------------------------------
(***************************************************************************)
(* The operations the user starts.                                         *)
(***************************************************************************)
WithKind(k, x)   == [k EXCEPT !.kind = x]
WithTarget(k, x) == [k EXCEPT !.run = x]
WithYes(k, x)    == [k EXCEPT !.yes = x]
NewCall(kind, r, yes) ==
  WithStep(WithFresh(WithYes(WithTarget(WithKind(IdleCall, kind), r), yes), {"session", "run"}),
           IF kind = "load" THEN "load" ELSE "ask")

LEMMA AimParts ==
  ASSUME NEW k, k = CallRec(k), NEW x
  PROVE  /\ LET m == WithKind(k, x) IN
              /\ m = CallRec(m) /\ m.kind = x
              /\ m.pc = k.pc /\ m.run = k.run /\ m.reply = k.reply /\ m.blamed = k.blamed
         /\ LET m == WithTarget(k, x) IN
              /\ m = CallRec(m) /\ m.run = x
              /\ m.pc = k.pc /\ m.kind = k.kind /\ m.reply = k.reply /\ m.blamed = k.blamed
         /\ LET m == WithYes(k, x) IN
              /\ m = CallRec(m) /\ m.run = k.run
              /\ m.pc = k.pc /\ m.kind = k.kind /\ m.reply = k.reply /\ m.blamed = k.blamed
<1>1. WithKind(k, x) = CallRec(WithKind(k, x))
  BY DEF WithKind, CallRec
<1>2. /\ WithKind(k, x).kind = x
      /\ WithKind(k, x).pc = k.pc /\ WithKind(k, x).run = k.run
      /\ WithKind(k, x).reply = k.reply /\ WithKind(k, x).blamed = k.blamed
  BY DEF WithKind, CallRec
<1>3. WithTarget(k, x) = CallRec(WithTarget(k, x))
  BY DEF WithTarget, CallRec
<1>4. /\ WithTarget(k, x).run = x
      /\ WithTarget(k, x).pc = k.pc /\ WithTarget(k, x).kind = k.kind
      /\ WithTarget(k, x).reply = k.reply /\ WithTarget(k, x).blamed = k.blamed
  BY DEF WithTarget, CallRec
<1>5. WithYes(k, x) = CallRec(WithYes(k, x))
  BY DEF WithYes, CallRec
<1>6. /\ WithYes(k, x).run = k.run
      /\ WithYes(k, x).pc = k.pc /\ WithYes(k, x).kind = k.kind
      /\ WithYes(k, x).reply = k.reply /\ WithYes(k, x).blamed = k.blamed
  BY DEF WithYes, CallRec
<1>. QED  BY <1>1, <1>2, <1>3, <1>4, <1>5, <1>6

LEMMA NewCallParts ==
  ASSUME NEW kind, NEW r, NEW yes
  PROVE  LET k == NewCall(kind, r, yes) IN
         /\ k = CallRec(k) /\ k.kind = kind /\ k.run = r /\ k.reply = Nothing /\ k.blamed = 0
         /\ k.pc = IF kind = "load" THEN "load" ELSE "ask"
<1>. DEFINE k1 == WithKind(IdleCall, kind)
            k2 == WithTarget(k1, r)
            k3 == WithYes(k2, yes)
            k4 == WithFresh(k3, {"session", "run"})
            pc == IF kind = "load" THEN "load" ELSE "ask"
            k5 == WithStep(k4, pc)
<1>1. IdleCall = CallRec(IdleCall) /\ IdleCall.reply = Nothing /\ IdleCall.blamed = 0
  BY DEF IdleCall, CallRec
<1>2. k1 = CallRec(k1) /\ k1.kind = kind /\ k1.reply = Nothing /\ k1.blamed = 0
  BY <1>1, AimParts
<1>. HIDE DEF k1
<1>3. k2 = CallRec(k2) /\ k2.kind = kind /\ k2.run = r /\ k2.reply = Nothing /\ k2.blamed = 0
  BY <1>2, AimParts
<1>. HIDE DEF k2
<1>4. k3 = CallRec(k3) /\ k3.kind = kind /\ k3.run = r /\ k3.reply = Nothing /\ k3.blamed = 0
  BY <1>3, AimParts
<1>. HIDE DEF k3
<1>5. k4 = CallRec(k4) /\ k4.kind = kind /\ k4.run = r /\ k4.reply = Nothing /\ k4.blamed = 0
  BY <1>4, FreshParts
<1>. HIDE DEF k4, pc
<1>6. k5 = CallRec(k5) /\ k5.kind = kind /\ k5.run = r /\ k5.reply = Nothing /\ k5.blamed = 0 /\ k5.pc = pc
  BY <1>5, StepParts
<1>7. k5 = NewCall(kind, r, yes)
  BY DEF NewCall, k4, k3, k2, k1, pc
<1>. HIDE DEF k5
<1>. QED  BY <1>6, <1>7 DEF pc

(* What the operation k of c shows of the run r at once. *)
Shows(c, k, r) ==
  /\ Fits(view', db, r)
  /\ r \notin Blamed => OverAt(view', db, r) /\ OverKeptAt(view, view', r)
  /\ view'.card[r].status = view.card[r].status \/ (k.kind = "answer" /\ k.run = r /\ k.pc = "ask")
  /\ view.card[r].resolved => view'.card[r].resolved
  /\ \/ view'.sending[r] = view.sending[r]
     \/ view'.sending[r].call = c /\ k.kind \in {"resolve", "answer"} /\ k.run = r /\ k.pc = "ask"

LEMMA AskStep ==
  ASSUME Inv, NEW c \in Calls, NEW kind, NEW run, NEW yes, Ask(c, kind, run, yes),
         CallOK(c, NewCall(kind, run, yes), db), view' \in View,
         \A r \in Runs : Shows(c, NewCall(kind, run, yes), r), TasksKept(view, view'),
         \A b \in view'.retrying : b \in view.retrying \/ (b = c /\ kind = "retry")
  PROVE  Inv' /\ Keeps
<1>. DEFINE k == NewCall(kind, run, yes)
<1>1. /\ call' = [call EXCEPT ![c] = k] /\ inbox' = inbox \cup {Request(c, k.pc)} /\ call[c] = IdleCall
      /\ UNCHANGED <<db, job, events>> /\ c \in AllCalls
  <2>1. call' = [call EXCEPT ![c] = k]
    BY DEF Ask, NewCall, WithKind, WithTarget, WithYes, WithFresh, WithStep
  <2>2. k.pc = IF kind = "load" THEN "load" ELSE "ask"
    BY NewCallParts
  <2>. HIDE DEF k
  <2>. QED  BY <2>1, <2>2, CallNumbers DEF Ask
<1>2. /\ k = CallRec(k) /\ k.kind = kind /\ k.run = run /\ k.reply = Nothing /\ k.blamed = 0
      /\ k.pc = IF kind = "load" THEN "load" ELSE "ask"
  BY NewCallParts
<1>3. /\ DbOK /\ CallsOK /\ JobsOK /\ InboxOK /\ EventsOK /\ ViewOK(view, db)
      /\ EndComes /\ AskComes /\ VerdictComes /\ SendingEnds /\ RetryingEnds
  BY DEF Inv, VInv, SInv
<1>4. call[c].kind = "none" /\ call[c].pc = "idle" /\ call[c].blamed = 0
  BY <1>1 DEF IdleCall
<1>5. CallOK(c, k, db)
  OBVIOUS
<1>6. \A r \in Runs : Shows(c, k, r)
  OBVIOUS
<1>. HIDE DEF k
<1>7. CallsAre(call') /\ call'[c] = k /\ \A b \in AllCalls \ {c} : call'[b] = call[b]
  BY <1>1, <1>3 DEF CallsOK, CallsAre
<1>8. CallsOK'
  BY <1>1, <1>3, <1>5, <1>7 DEF CallsOK
<1>9. Blamed' = Blamed
  BY <1>2, <1>4, <1>7, CallNumbers DEF Blamed
<1>10. InboxOK'
  <2>1. k.pc \in {"ask", "load", "repair"}
    BY <1>2
  <2>. QED  BY <1>1, <1>3, <2>1, InboxGrows
<1>11. JobsOK'
  <2>. SUFFICES ASSUME NEW r \in Runs, job.by[r] # 0
                PROVE  \/ call'[job.by[r]].kind = "start"
                       \/ /\ call'[job.by[r]].kind = "answer" /\ call'[job.by[r]].run = r
                          /\ ~Unanswered(db.ask[r])
    BY <1>1 DEF JobsOK
  <2>1. job.by[r] \in AllCalls
    BY <1>3, RowTypes, CallNumbers
  <2>. QED  BY <1>3, <1>4, <1>7, <2>1 DEF JobsOK
<1>12. ViewOK(view', db) /\ OverOK(view', db, Blamed) /\ OverKept(view, view', Blamed)
  BY <1>6 DEF ViewOK, OverOK, OverKept, Shows
<1>13. VInv'
  BY <1>1, <1>3, <1>8, <1>9, <1>10, <1>11, <1>12 DEF VInv, DbOK, EventsOK
<1>14. EndComes'
  <2>. SUFFICES ASSUME NEW r \in Runs \ Blamed, Ended(db.row[r])
                PROVE  view'.run[r] = db.row[r] \/ Coming(events, "end", r)
    BY <1>1, <1>9 DEF EndComes
  <2>. QED  BY <1>3, <1>12 DEF EndComes, OverKept, OverKeptAt
<1>15. AskComes'
  <2>. SUFFICES ASSUME NEW r \in Runs \ Blamed, db.ask[r] = "pending"
                PROVE  \/ view'.card[r].status = "pending"
                       \/ view'.card[r].status = "none" /\ Coming(events, "ask", r)
                       \/ \E b \in Calls : call'[b].kind = "answer" /\ call'[b].run = r /\ call'[b].pc = "ask"
    BY <1>1, <1>9 DEF AskComes
  <2>1. \/ view.card[r].status = "pending"
        \/ view.card[r].status = "none" /\ Coming(events, "ask", r)
        \/ \E b \in Calls : call[b].kind = "answer" /\ call[b].run = r /\ call[b].pc = "ask"
    BY <1>3 DEF AskComes
  <2>2. view'.card[r].status = view.card[r].status \/ (k.kind = "answer" /\ k.run = r /\ k.pc = "ask")
    BY <1>6 DEF Shows
  <2>3. CASE k.kind = "answer" /\ k.run = r /\ k.pc = "ask"
    BY <1>7, <2>3
  <2>4. CASE \E b \in Calls : call[b].kind = "answer" /\ call[b].run = r /\ call[b].pc = "ask"
    <3>1. PICK b \in Calls : call[b].kind = "answer" /\ call[b].run = r /\ call[b].pc = "ask"
      BY <2>4
    <3>2. call'[b] = call[b]
      BY <1>4, <1>7, <3>1, CallNumbers
    <3>. QED  BY <3>1, <3>2
  <2>. QED  BY <2>1, <2>2, <2>3, <2>4
<1>16. VerdictComes'
  BY <1>1, <1>3, <1>6 DEF VerdictComes, Shows
<1>17. SendingEnds'
  <2>. SUFFICES ASSUME NEW r \in Runs, view'.sending[r] # Free
                PROVE  LET m == call'[view'.sending[r].call] IN
                       /\ m.kind \in {"resolve", "answer"} /\ m.run = r
                       /\ m.pc = "ask" \/ (m.kind = "resolve" /\ Coming(events, "resolved", r))
    BY <1>1 DEF SendingEnds
  <2>1. CASE view'.sending[r] = view.sending[r]
    <3>. DEFINE s == view.sending[r].call
    <3>1. /\ call[s].kind \in {"resolve", "answer"} /\ call[s].run = r
          /\ call[s].pc = "ask" \/ (call[s].kind = "resolve" /\ Coming(events, "resolved", r))
      BY <1>3, <2>1 DEF SendingEnds
    <3>2. s \in AllCalls
      <4>1. view \in View /\ Fits(view, db, r)
        BY <1>3 DEF ViewOK
      <4>2. view.sending[r] \in Sent
        BY <4>1, ViewParts DEF Sent
      <4>. QED  BY <2>1, <4>1, <4>2, CallNumbers DEF Fits, Sent
    <3>3. call'[s] = call[s]
      BY <1>4, <1>7, <3>1, <3>2
    <3>. QED  BY <2>1, <3>1, <3>3
  <2>2. CASE view'.sending[r] # view.sending[r]
    <3>1. view'.sending[r].call = c /\ k.kind \in {"resolve", "answer"} /\ k.run = r /\ k.pc = "ask"
      BY <1>6, <2>2 DEF Shows
    <3>. QED  BY <1>7, <3>1
  <2>. QED  BY <2>1, <2>2
<1>18. RetryingEnds'
  <2>. SUFFICES ASSUME NEW b \in view'.retrying
                PROVE  call'[b].kind = "retry" /\ call'[b].pc \in {"ask", "load", "repair"}
    BY DEF RetryingEnds
  <2>1. CASE b = c /\ kind = "retry"
    BY <1>2, <1>7, <2>1
  <2>2. CASE b \in view.retrying
    <3>1. call[b].kind = "retry" /\ call[b].pc \in {"ask", "load", "repair"}
      BY <1>3, <2>2 DEF RetryingEnds
    <3>2. b \in AllCalls
      BY <1>3, <2>2, ViewParts, CallNumbers DEF ViewOK
    <3>. QED  BY <1>4, <1>7, <3>1, <3>2
  <2>. QED  BY <2>1, <2>2
<1>. QED  BY <1>12, <1>13, <1>14, <1>15, <1>16, <1>17, <1>18 DEF Inv, SInv, Keeps

LEMMA NewCallOK ==
  ASSUME NEW c \in Calls, NEW kind \in {"start", "retry", "stop", "resolve", "answer", "load"},
         NEW run \in {0} \cup Runs, NEW yes,
         kind \in {"resolve", "answer"} =>
           /\ run \in Runs /\ db.ask[run] # "none"
           /\ kind = "resolve" <=> db.kind[run] = "approval",
         kind = "stop" => run \in Runs /\ db.row[run] # "none"
  PROVE  CallOK(c, NewCall(kind, run, yes), db)
<1>. DEFINE k == NewCall(kind, run, yes)
<1>1. /\ k = CallRec(k) /\ k.kind = kind /\ k.run = run /\ k.reply = Nothing /\ k.blamed = 0
      /\ k.pc = IF kind = "load" THEN "load" ELSE "ask"
  BY NewCallParts
<1>. HIDE DEF k
<1>2. ReplyOK(k, db)
  BY <1>1 DEF ReplyOK
<1>3. CallOK(c, k, db)
  BY <1>1, <1>2 DEF CallOK
<1>. QED  BY <1>3 DEF k

LEMMA QuietAskStep ==
  ASSUME Inv, NEW c \in Calls, NEW kind \in {"start", "retry", "stop", "load"},
         NEW run \in {0} \cup Runs, NEW yes, Ask(c, kind, run, yes),
         kind = "stop" => run \in Runs /\ db.row[run] # "none",
         view' \in View, Shown(view') = Shown(view),
         view'.retrying = view.retrying \/ (view'.retrying = {c} /\ kind = "retry")
  PROVE  Inv' /\ Keeps
<1>1. CallOK(c, NewCall(kind, run, yes), db)
  BY NewCallOK
<1>2. /\ view'.run = view.run /\ view'.task = view.task /\ view'.card = view.card /\ view'.sending = view.sending
  BY DEF Shown
<1>3. ASSUME NEW r \in Runs PROVE Shows(c, NewCall(kind, run, yes), r)
  <2>1. Fits(view, db, r) /\ (r \notin Blamed => OverAt(view, db, r))
    BY DEF Inv, VInv, ViewOK, OverOK
  <2>2. Fits(view', db, r)
    BY <1>2, <2>1 DEF Fits
  <2>3. (r \notin Blamed => OverAt(view', db, r)) /\ OverKeptAt(view, view', r)
    BY <1>2, <2>1 DEF OverAt, OverKeptAt
  <2>. QED  BY <1>2, <2>2, <2>3 DEF Shows
<1>4. TasksKept(view, view')
  BY <1>2 DEF TasksKept, TaskKept
<1>. QED  BY <1>1, <1>3, <1>4, AskStep

LEMMA UserStep ==
  ASSUME Inv, NEW c \in Calls,
         StartRun(c) \/ CancelRun(c) \/ LoadSession(c) \/ (\E r \in Runs : RetryRun(c, r))
  PROVE  Inv' /\ Keeps
<1>1. view \in View /\ \A r \in Runs : Fits(view, db, r)
  BY DEF Inv, VInv, ViewOK
<1>2. CASE StartRun(c)
  <2>. DEFINE u == WithSession(view, "running")
              m == [call |-> c, run |-> 0]
  <2>1. Ask(c, "start", 0, FALSE) /\ view' = WithMine(u, m)
    BY <1>2 DEF StartRun, WithSession, WithMine
  <2>2. "running" \in Sessions /\ m \in Mine
    BY DEF Sessions, Statuses, Mine
  <2>3. u \in View /\ Shown(u) = Shown(view) /\ u.retrying = view.retrying
    BY <1>1, <2>2, AsideChanged
  <2>. HIDE DEF u, m
  <2>4. view' \in View /\ Shown(view') = Shown(u) /\ view'.retrying = u.retrying
    BY <2>1, <2>2, <2>3, AsideChanged
  <2>. QED  BY <2>1, <2>3, <2>4, QuietAskStep
<1>3. CASE CancelRun(c)
  <2>. DEFINE r == ActiveRun
  <2>1. r # 0 /\ Ask(c, "stop", r, FALSE) /\ view' = WithStopping(view, view.stopping \cup {r})
    BY <1>3 DEF CancelRun, WithStopping
  <2>2. r \in Open(view)
    <3>1. Open(view) \subseteq Runs
      BY DEF Open, Known
    <3>2. CASE view.mine.run \in Open(view)
      BY <3>2 DEF ActiveRun
    <3>3. CASE view.mine.run \notin Open(view)
      BY <2>1, <3>1, <3>3, LatestRun DEF ActiveRun
    <3>. QED  BY <3>2, <3>3
  <2>. HIDE DEF r
  <2>3. r \in Runs /\ db.row[r] # "none"
    BY <1>1, <2>2 DEF Open, Known, Fits
  <2>4. view.stopping \cup {r} \in SUBSET Runs
    BY <1>1, <2>3, ViewParts
  <2>5. view' \in View /\ Shown(view') = Shown(view) /\ view'.retrying = view.retrying
    BY <1>1, <2>1, <2>4, AsideChanged
  <2>. QED  BY <2>1, <2>3, <2>5, QuietAskStep
<1>4. CASE LoadSession(c)
  <2>1. Ask(c, "load", 0, FALSE) /\ view' = view
    BY <1>4 DEF LoadSession
  <2>. QED  BY <1>1, <2>1, QuietAskStep
<1>5. CASE \E r \in Runs : RetryRun(c, r)
  <2>1. PICK r \in Runs : RetryRun(c, r)
    BY <1>5
  <2>2. Ask(c, "retry", r, FALSE) /\ view' = WithRetrying(view, {c})
    BY <2>1 DEF RetryRun, WithRetrying
  <2>3. {c} \in SUBSET Calls
    OBVIOUS
  <2>4. view' \in View /\ Shown(view') = Shown(view) /\ view'.retrying = {c}
    BY <1>1, <2>2, <2>3, AsideChanged
  <2>. QED  BY <2>2, <2>4, QuietAskStep
<1>. QED  BY <1>2, <1>3, <1>4, <1>5

LEMMA SubmitStep ==
  ASSUME Inv, NEW c \in Calls, NEW r \in Runs, NEW yes, Submit(c, r, yes)
  PROVE  Inv' /\ Keeps
<1>. DEFINE s == [call |-> c, accepted |-> FALSE]
            u == WithSending(view, r, s)
            card == [view.card[r] EXCEPT !.status = "approved"]
            kind == IF db.kind[r] = "approval" THEN "resolve" ELSE "answer"
<1>1. view \in View /\ Fits(view, db, r) /\ view.card[r].status = "pending" /\ DbOK
  BY DEF Inv, VInv, ViewOK, Submit
<1>2. /\ db.ask[r] # "none" /\ db.row[r] # "none" /\ db.ask[r] \in Asks
  BY <1>1, RowTypes DEF Fits, RowOK
<1>3. ~view.card[r].resolved
  BY <1>1, <1>2, Words DEF Fits
<1>4. Ask(c, kind, r, yes)
  BY DEF Submit
<1>5. /\ kind \in {"resolve", "answer"} /\ (kind = "resolve" <=> db.kind[r] = "approval")
      /\ CallOK(c, NewCall(kind, r, yes), db)
  <2>1. kind \in {"resolve", "answer"} /\ (kind = "resolve" <=> db.kind[r] = "approval")
    OBVIOUS
  <2>. HIDE DEF kind
  <2>. QED  BY <1>2, <2>1, NewCallOK
<1>6. s \in Sent /\ s.call = c /\ s.accepted = FALSE /\ c # 0
  BY DEF Sent, Calls
<1>7. /\ u \in View /\ u.run = view.run /\ u.task = view.task /\ u.card = view.card /\ u.retrying = view.retrying
      /\ u.sending[r] = s /\ \A q \in Runs \ {r} : u.sending[q] = view.sending[q]
  <2>. HIDE DEF s
  <2>. QED  BY <1>1, <1>6, SendingChanged
<1>8. ASSUME NEW q \in Runs \ {r}, NEW k, view'.run[q] = view.run[q], view'.card[q] = view.card[q],
             view'.sending[q] = view.sending[q]
      PROVE  Shows(c, k, q)
  <2>1. Fits(view, db, q) /\ (q \notin Blamed => OverAt(view, db, q))
    BY DEF Inv, VInv, ViewOK, OverOK
  <2>2. Fits(view', db, q)
    BY <1>8, <2>1 DEF Fits
  <2>3. (q \notin Blamed => OverAt(view', db, q)) /\ OverKeptAt(view, view', q)
    BY <1>8, <2>1 DEF OverAt, OverKeptAt
  <2>. QED  BY <1>8, <2>2, <2>3 DEF Shows
<1>9. r \notin Blamed => ~Ended(view.run[r])
  BY <1>1 DEF Inv, VInv, OverOK, OverAt
<1>. DEFINE k == NewCall(kind, r, yes)
<1>10. k.kind = kind /\ k.run = r /\ k.pc = "ask"
  <2>. HIDE DEF kind
  <2>. QED  BY <1>5, NewCallParts
<1>. HIDE DEF k
<1>11. CASE db.kind[r] = "approval"
  <2>1. view' = u
    BY <1>11 DEF Submit, WithSending
  <2>. HIDE DEF u, s
  <2>2. Fits(view', db, r)
    BY <1>1, <1>3, <1>6, <1>7, <2>1 DEF Fits
  <2>3. (r \notin Blamed => OverAt(view', db, r)) /\ OverKeptAt(view, view', r)
    BY <1>7, <1>9, <2>1 DEF OverAt, OverKeptAt
  <2>4. Shows(c, k, r)
    BY <1>5, <1>6, <1>7, <1>10, <2>1, <2>2, <2>3 DEF Shows
  <2>5. \A q \in Runs : Shows(c, k, q)
    BY <1>7, <1>8, <2>1, <2>4
  <2>6. TasksKept(view, view')
    BY <1>7, <2>1 DEF TasksKept, TaskKept
  <2>. HIDE DEF kind
  <2>. QED  BY <1>4, <1>5, <1>7, <2>1, <2>5, <2>6, AskStep DEF k
<1>12. CASE db.kind[r] # "approval"
  <2>. DEFINE u2 == WithCard(u, r, card)
              u3 == WithSession(u2, "running")
              u4 == WithRun(u3, r, "running")
  <2>1. view' = u4
    <3>1. view' = [view EXCEPT !.sending[r] = s, !.card[r].status = "approved",
                               !.session = "running", !.run[r] = "running"]
      BY <1>12 DEF Submit
    <3>2. u4 = [view EXCEPT !.sending[r] = s, !.card[r] = card, !.session = "running", !.run[r] = "running"]
      BY DEF WithSending, WithCard, WithSession, WithRun
    <3>. HIDE DEF s, u4
    <3>. QED  BY <3>1, <3>2
  <2>2. card \in CardRec /\ card.status = "approved" /\ card.resolved = FALSE
    <3>1. view.card[r] \in CardRec
      BY <1>1, ViewParts DEF CardRec
    <3>. QED  BY <1>3, <3>1 DEF CardRec, CardWords
  <2>. HIDE DEF u, s, card
  <2>3. /\ u2 \in View /\ u2.run = u.run /\ u2.task = u.task /\ u2.sending = u.sending /\ u2.retrying = u.retrying
        /\ u2.card[r] = card /\ \A q \in Runs \ {r} : u2.card[q] = u.card[q]
    BY <1>7, <2>2, CardChanged
  <2>. HIDE DEF u2
  <2>4. "running" \in Sessions /\ "running" \in Statuses /\ ~Ended("running")
    BY DEF Sessions, Statuses, Ended, Overs
  <2>5. u3 \in View /\ Shown(u3) = Shown(u2) /\ u3.retrying = u2.retrying
    BY <2>3, <2>4, AsideChanged
  <2>. HIDE DEF u3
  <2>6. /\ u4 \in View /\ u4.task = u3.task /\ u4.card = u3.card /\ u4.sending = u3.sending /\ u4.retrying = u3.retrying
        /\ u4.run[r] = "running" /\ \A q \in Runs \ {r} : u4.run[q] = u3.run[q]
    BY <2>4, <2>5, RunChanged
  <2>. HIDE DEF u4
  <2>7. /\ view' \in View /\ view'.task = view.task /\ view'.retrying = view.retrying
        /\ view'.card[r] = card /\ view'.run[r] = "running" /\ view'.sending[r] = s
        /\ \A q \in Runs \ {r} : /\ view'.card[q] = view.card[q] /\ view'.run[q] = view.run[q]
                                 /\ view'.sending[q] = view.sending[q]
    BY <1>7, <2>1, <2>3, <2>5, <2>6 DEF Shown
  <2>8. Fits(view', db, r)
    BY <1>2, <1>6, <1>12, <2>2, <2>7 DEF Fits
  <2>9. (r \notin Blamed => OverAt(view', db, r) /\ OverKeptAt(view, view', r))
    BY <1>9, <2>4, <2>7 DEF OverAt, OverKeptAt
  <2>10. Shows(c, k, r)
    BY <1>3, <1>6, <1>10, <1>12, <2>7, <2>8, <2>9 DEF Shows
  <2>11. \A q \in Runs : Shows(c, k, q)
    BY <1>8, <2>7, <2>10
  <2>12. TasksKept(view, view')
    BY <2>7 DEF TasksKept, TaskKept
  <2>. HIDE DEF kind
  <2>. QED  BY <1>4, <1>5, <2>7, <2>11, <2>12, AskStep DEF k
<1>. QED  BY <1>11, <1>12

-----------------------------------------------------------------------------
(***************************************************************************)
(* A notice is handled.                                                    *)
(***************************************************************************)
LEMMA NoticesLeft ==
  ASSUME EventsOK, events # <<>>, events' = Tail(events), UNCHANGED db
  PROVE  /\ EventsOK' /\ EventOK(Head(events), db)
         /\ \A type, r : Coming(events, type, r) =>
              Coming(events', type, r) \/ (Head(events).type = type /\ Head(events).run = r)
<1>. DEFINE es == events'
<1>1. events \in Seq(Notices) /\ events # <<>> /\ \A i \in DOMAIN events : EventOK(events[i], db)
  BY DEF EventsOK
<1>2. /\ es \in Seq(Notices) /\ Len(es) = Len(events) - 1
      /\ \A i \in 1 .. Len(es) : es[i] = events[i + 1]
  BY <1>1, HeadTailProperties
<1>3. Head(events) = events[1] /\ Len(events) \in Nat /\ Len(events) >= 1
  BY <1>1, EmptySeq
<1>. HIDE DEF es
<1>4. DOMAIN es = 1 .. Len(es) /\ DOMAIN events = 1 .. Len(events)
  BY <1>1, <1>2, LenProperties
<1>5. EventOK(Head(events), db)
  BY <1>1, <1>3, <1>4
<1>6. ASSUME NEW i \in DOMAIN es PROVE EventOK(es[i], db)
  <2>1. i + 1 \in DOMAIN events /\ es[i] = events[i + 1]
    BY <1>2, <1>3, <1>4
  <2>. QED  BY <1>1, <2>1
<1>7. EventsOK'
  BY <1>2, <1>6 DEF es, EventsOK
<1>8. ASSUME NEW type, NEW r, Coming(events, type, r)
      PROVE  Coming(es, type, r) \/ (Head(events).type = type /\ Head(events).run = r)
  <2>1. PICK i \in DOMAIN events : events[i].type = type /\ events[i].run = r
    BY <1>8 DEF Coming
  <2>2. CASE i = 1
    BY <1>3, <2>1, <2>2
  <2>3. CASE i # 1
    <3>1. i - 1 \in DOMAIN es /\ es[i - 1] = events[(i - 1) + 1] /\ (i - 1) + 1 = i
      BY <1>2, <1>3, <1>4, <2>3
    <3>. QED  BY <2>1, <3>1 DEF Coming
  <2>. QED  BY <2>2, <2>3
<1>. QED  BY <1>5, <1>7, <1>8 DEF es

ReloadCall == WithStep(WithKind(IdleCall, "load"), "load")

LEMMA CallsHeard ==
  ASSUME CallsOK, NEW m, NEW x, NEW r \in Runs, UNCHANGED db,
         LET seen == [call EXCEPT ![m].seen = x] IN
         \/ call' = call \/ call' = seen
         \/ call' = [call EXCEPT ![Reload(r)] = ReloadCall] \/ call' = [seen EXCEPT ![Reload(r)] = ReloadCall]
  PROVE  /\ CallsOK'
         /\ \A c \in Calls : /\ call'[c].kind = call[c].kind /\ call'[c].run = call[c].run
                             /\ call'[c].pc = call[c].pc /\ call'[c].blamed = call[c].blamed
<1>. DEFINE seen == [call EXCEPT ![m].seen = x]
            ok(cs) == /\ CallsAre(cs) /\ \A c \in AllCalls : CallOK(c, cs[c], db)
                      /\ \A c \in Calls : /\ cs[c].kind = call[c].kind /\ cs[c].run = call[c].run
                                          /\ cs[c].pc = call[c].pc /\ cs[c].blamed = call[c].blamed
<1>1. ok(call)
  BY DEF CallsOK
<1>2. ok(seen)
  <2>1. CASE m \in AllCalls
    <3>. DEFINE k == WithSeen(call[m], x)
    <3>1. CallsAre(call) /\ seen = [call EXCEPT ![m] = k]
      BY <1>1 DEF WithSeen
    <3>2. CallOK(m, call[m], db) /\ call[m] = CallRec(call[m])
      BY <1>1, <2>1 DEF CallOK
    <3>3. /\ k = CallRec(k) /\ k.pc = call[m].pc
          /\ k.kind = call[m].kind /\ k.run = call[m].run /\ k.reply = call[m].reply /\ k.blamed = call[m].blamed
      BY <3>2, SeenParts
    <3>. HIDE DEF k, seen
    <3>4. CallsAre(seen) /\ seen[m] = k /\ \A c \in AllCalls \ {m} : seen[c] = call[c]
      BY <2>1, <3>1 DEF CallsAre
    <3>5. ReplyOK(k, db)
      BY <3>2, <3>3 DEF CallOK, ReplyOK
    <3>6. CallOK(m, k, db)
      BY <3>2, <3>3, <3>5 DEF CallOK
    <3>. QED  BY <1>1, <3>3, <3>4, <3>6, CallNumbers
  <2>2. CASE m \notin AllCalls
    <3>1. seen = call
      BY <1>1, <2>2 DEF CallsAre
    <3>. QED  BY <1>1, <3>1
  <2>. QED  BY <2>1, <2>2
<1>. HIDE DEF seen
<1>3. ASSUME NEW cs, ok(cs) PROVE ok([cs EXCEPT ![Reload(r)] = ReloadCall])
  <2>. DEFINE k == ReloadCall
              ds == [cs EXCEPT ![Reload(r)] = k]
  <2>1. k = CallRec(k) /\ k.kind = "load" /\ k.run = 0 /\ k.pc = "load" /\ k.reply = Nothing /\ k.blamed = 0
    <3>. DEFINE n == WithKind(IdleCall, "load")
    <3>1. IdleCall = CallRec(IdleCall) /\ IdleCall.reply = Nothing /\ IdleCall.blamed = 0 /\ IdleCall.run = 0
      BY DEF IdleCall, CallRec
    <3>2. n = CallRec(n) /\ n.kind = "load" /\ n.run = 0 /\ n.reply = Nothing /\ n.blamed = 0
      BY <3>1, AimParts
    <3>. HIDE DEF n
    <3>. QED  BY <3>2, StepParts DEF ReloadCall, n
  <2>. HIDE DEF k
  <2>2. CallOK(Reload(r), k, db)
    BY <2>1 DEF CallOK, ReplyOK
  <2>3. Reload(r) \in AllCalls \ Calls /\ Calls \subseteq AllCalls
    BY CallNumbers
  <2>4. CallsAre(ds) /\ ds[Reload(r)] = k /\ \A c \in AllCalls \ {Reload(r)} : ds[c] = cs[c]
    BY <1>3, <2>3 DEF CallsAre
  <2>. HIDE DEF ds
  <2>5. ok(ds)
    BY <1>3, <2>2, <2>3, <2>4
  <2>. QED  BY <2>5 DEF ds, k
<1>4. ok(call')
  <2>. HIDE DEF ok
  <2>. QED  BY <1>1, <1>2, <1>3 DEF seen
<1>. QED  BY <1>4 DEF CallsOK

LEMMA DeliverStep ==
  ASSUME Inv, Deliver
  PROVE  Inv' /\ Keeps
<1>. DEFINE e == Head(events)
            r == e.run
<1>1. events # <<>> /\ events' = Tail(events) /\ view' = Handle(view, e) /\ UNCHANGED <<db, job>>
  BY DEF Deliver
<1>2. /\ DbOK /\ CallsOK /\ JobsOK /\ InboxOK /\ EventsOK /\ ViewOK(view, db) /\ OverOK(view, db, Blamed)
      /\ EndComes /\ AskComes /\ VerdictComes /\ SendingEnds /\ RetryingEnds /\ Sound(view, db, Blamed)
  BY ViewSound DEF Inv, VInv, SInv
<1>3. /\ EventsOK' /\ EventOK(e, db)
      /\ \A type, q : Coming(events, type, q) => Coming(events', type, q) \/ (e.type = type /\ r = q)
  BY <1>1, <1>2, NoticesLeft
<1>4. r \in Runs
  BY <1>3 DEF EventOK
<1>5. /\ Leads(view, view', db, Blamed) /\ TasksKept(view, view')
      /\ e.type = "resolved" => view'.card[r].resolved /\ view'.sending[r] = Free
      /\ e.type = "ask" /\ ~Ended(view.run[r]) /\ view.card[r].status \in {"none", "pending"} =>
           view'.card[r].status = "pending"
      /\ e.type = "end" => view'.run[r] = db.row[r] \/ (Ended(view.run[r]) /\ view' = view)
  BY <1>1, <1>2, <1>3, HandleLeads
<1>6. /\ CallsOK'
      /\ \A c \in Calls : /\ call'[c].kind = call[c].kind /\ call'[c].run = call[c].run
                          /\ call'[c].pc = call[c].pc /\ call'[c].blamed = call[c].blamed
  <2>. DEFINE seen == [call EXCEPT ![view.mine.call].seen = r]
  <2>1. [IdleCall EXCEPT !.kind = "load", !.pc = "load"] = ReloadCall
    BY DEF ReloadCall, WithKind, WithStep
  <2>2. \/ call' = call \/ call' = seen
        \/ call' = [call EXCEPT ![Reload(r)] = ReloadCall] \/ call' = [seen EXCEPT ![Reload(r)] = ReloadCall]
    BY <2>1 DEF Deliver
  <2>. QED  BY <1>1, <1>2, <1>4, <2>2, CallsHeard
<1>7. InboxOK'
  <2>1. inbox' \subseteq inbox \cup {Request(Reload(r), "load")}
    BY DEF Deliver
  <2>. QED  BY <1>1, <1>2, <1>4, <2>1, CallNumbers, InboxGrows
<1>. HIDE DEF e, r
<1>8. Blamed' = Blamed
  BY <1>6 DEF Blamed
<1>9. JobsOK'
  <2>. SUFFICES ASSUME NEW q \in Runs, job.by[q] # 0
                PROVE  \/ call'[job.by[q]].kind = "start"
                       \/ /\ call'[job.by[q]].kind = "answer" /\ call'[job.by[q]].run = q
                          /\ ~Unanswered(db.ask[q])
    BY <1>1 DEF JobsOK
  <2>1. job.by[q] \in Calls
    BY <1>2, RowTypes
  <2>. QED  BY <1>2, <1>6, <2>1 DEF JobsOK
<1>10. ViewOK(view', db) /\ OverOK(view', db, Blamed) /\ OverKept(view, view', Blamed) /\ Calm(view, view', db, Blamed)
  BY <1>5 DEF Leads, Sound
<1>11. VInv'
  BY <1>1, <1>2, <1>3, <1>6, <1>7, <1>8, <1>9, <1>10 DEF VInv, DbOK
<1>12. EndComes'
  <2>. SUFFICES ASSUME NEW q \in Runs \ Blamed, Ended(db.row[q])
                PROVE  view'.run[q] = db.row[q] \/ Coming(events', "end", q)
    BY <1>1, <1>8 DEF EndComes
  <2>1. view.run[q] = db.row[q] \/ Coming(events, "end", q)
    BY <1>2 DEF EndComes
  <2>2. CASE view.run[q] = db.row[q]
    BY <1>10, <2>2 DEF OverKept, OverKeptAt
  <2>3. CASE Coming(events, "end", q) /\ ~Coming(events', "end", q)
    <3>1. e.type = "end" /\ r = q
      BY <1>3, <2>3
    <3>2. Ended(view.run[q]) => view.run[q] = db.row[q]
      BY <1>2 DEF OverOK, OverAt
    <3>. QED  BY <1>5, <3>1, <3>2
  <2>. QED  BY <2>1, <2>2, <2>3
<1>13. AskComes'
  <2>. SUFFICES ASSUME NEW q \in Runs \ Blamed, db.ask[q] = "pending"
                PROVE  \/ view'.card[q].status = "pending"
                       \/ view'.card[q].status = "none" /\ Coming(events', "ask", q)
                       \/ \E c \in Calls : call'[c].kind = "answer" /\ call'[c].run = q /\ call'[c].pc = "ask"
    BY <1>1, <1>8 DEF AskComes
  <2>1. \/ view.card[q].status = "pending"
        \/ view.card[q].status = "none" /\ Coming(events, "ask", q)
        \/ \E c \in Calls : call[c].kind = "answer" /\ call[c].run = q /\ call[c].pc = "ask"
    BY <1>2 DEF AskComes
  <2>2. view'.card[q].status \in {view.card[q].status, "pending"}
    BY <1>10 DEF Calm, AskedStill
  <2>3. CASE \E c \in Calls : call[c].kind = "answer" /\ call[c].run = q /\ call[c].pc = "ask"
    BY <1>6, <2>3
  <2>4. CASE view.card[q].status = "none" /\ Coming(events, "ask", q) /\ ~Coming(events', "ask", q)
    <3>1. e.type = "ask" /\ r = q
      BY <1>3, <2>4
    <3>2. ~Ended(view.run[q])
      <4>1. Ended(view.run[q]) => view.run[q] = db.row[q]
        BY <1>2 DEF OverOK, OverAt
      <4>2. db.row[q] = "waiting"
        BY <1>2 DEF Sound
      <4>. QED  BY <4>1, <4>2 DEF Ended, Overs
    <3>. QED  BY <1>5, <2>4, <3>1, <3>2
  <2>. QED  BY <2>1, <2>2, <2>3, <2>4
<1>14. VerdictComes'
  <2>. SUFFICES ASSUME NEW q \in Runs, db.kind[q] = "approval", ~Unanswered(db.ask[q])
                PROVE  view'.card[q].resolved \/ Coming(events', "resolved", q)
    BY <1>1 DEF VerdictComes
  <2>1. view.card[q].resolved \/ Coming(events, "resolved", q)
    BY <1>2 DEF VerdictComes
  <2>2. view.card[q].resolved => view'.card[q].resolved
    BY <1>10 DEF Calm, CalmAt
  <2>. QED  BY <1>3, <1>5, <2>1, <2>2
<1>15. SendingEnds'
  <2>. SUFFICES ASSUME NEW q \in Runs, view'.sending[q] # Free
                PROVE  LET k == call'[view'.sending[q].call] IN
                       /\ k.kind \in {"resolve", "answer"} /\ k.run = q
                       /\ k.pc = "ask" \/ (k.kind = "resolve" /\ Coming(events', "resolved", q))
    BY DEF SendingEnds
  <2>. DEFINE s == view.sending[q].call
  <2>1. view'.sending[q].call = s /\ view.sending[q] # Free
    BY <1>10 DEF Calm, CalmAt
  <2>2. /\ call[s].kind \in {"resolve", "answer"} /\ call[s].run = q
        /\ call[s].pc = "ask" \/ (call[s].kind = "resolve" /\ Coming(events, "resolved", q))
    BY <1>2, <2>1 DEF SendingEnds
  <2>3. s \in Calls
    <3>1. view \in View /\ Fits(view, db, q)
      BY <1>2 DEF ViewOK
    <3>2. view.sending[q] \in Sent
      BY <3>1, ViewParts DEF Sent
    <3>. QED  BY <2>1, <3>1, <3>2 DEF Fits, Sent
  <2>. HIDE DEF s
  <2>4. Coming(events, "resolved", q) => Coming(events', "resolved", q)
    BY <1>3, <1>5
  <2>. QED  BY <1>6, <2>1, <2>2, <2>3, <2>4
<1>16. RetryingEnds'
  <2>. SUFFICES ASSUME NEW c \in view'.retrying
                PROVE  call'[c].kind = "retry" /\ call'[c].pc \in {"ask", "load", "repair"}
    BY DEF RetryingEnds
  <2>1. c \in view.retrying
    BY <1>10 DEF Calm
  <2>2. c \in Calls
    BY <1>2, <2>1, ViewParts DEF ViewOK
  <2>. QED  BY <1>2, <1>6, <2>1, <2>2 DEF RetryingEnds
<1>. QED  BY <1>5, <1>10, <1>11, <1>12, <1>13, <1>14, <1>15, <1>16 DEF Inv, SInv, Keeps

-----------------------------------------------------------------------------
(***************************************************************************)
(* The invariant, and the theorems.                                        *)
(***************************************************************************)
LEMMA InvInit ==
  ASSUME Init
  PROVE  Inv
<1>1. /\ db = [row |-> [r \in Runs |-> "none"], task |-> [r \in Runs |-> NoTask],
               ask |-> [r \in Runs |-> "none"], retry |-> {}, kind |-> [r \in Runs |-> "approval"]]
      /\ job = [phase |-> [r \in Runs |-> "no"], by |-> [r \in Runs |-> 0], halt |-> {}]
      /\ inbox = {} /\ events = <<>> /\ call = [c \in AllCalls |-> IdleCall]
  BY DEF Init
<1>2. view = [session |-> "idle", run |-> [r \in Runs |-> "none"],
              task |-> [r \in Runs |-> NoTask], card |-> [r \in Runs |-> NoCard],
              sending |-> [r \in Runs |-> Free], stopping |-> {}, mine |-> NoRequest, retrying |-> {}]
  BY DEF Init
<1>3. DbOK
  <2>1. db \in Db /\ job \in Rows
    BY <1>1, NoneTypes DEF Db, Rows, Statuses, Asks, InputKinds
  <2>2. \A r \in Runs : /\ db.row[r] = "none" /\ db.ask[r] = "none" /\ db.kind[r] = "approval"
                        /\ job.phase[r] = "no"
    BY <1>1
  <2>3. \A r \in Runs : RowOK(job.phase[r], db.row[r], db.task[r], db.ask[r], db.kind[r])
    BY <2>2 DEF RowOK
  <2>. QED  BY <2>1, <2>3 DEF DbOK
<1>4. CallsOK
  <2>1. IdleCall = CallRec(IdleCall)
    BY DEF IdleCall, CallRec
  <2>2. ReplyOK(IdleCall, db)
    BY DEF IdleCall, ReplyOK
  <2>3. /\ IdleCall.kind = "none" /\ IdleCall.pc = "idle" /\ IdleCall.run = 0 /\ IdleCall.blamed = 0
    BY DEF IdleCall
  <2>4. \A c \in AllCalls : CallOK(c, IdleCall, db)
    BY <2>1, <2>2, <2>3 DEF CallOK
  <2>. QED  BY <1>1, <2>4 DEF CallsOK, CallsAre
<1>5. JobsOK /\ InboxOK /\ EventsOK
  <2>1. \A r \in Runs : job.by[r] = 0
    BY <1>1
  <2>2. events \in Seq(Notices) /\ DOMAIN events = {}
    BY <1>1
  <2>. QED  BY <1>1, <2>1, <2>2 DEF JobsOK, InboxOK, EventsOK
<1>6. /\ view \in View /\ view.retrying = {}
      /\ \A r \in Runs : view.run[r] = "none" /\ view.card[r] = NoCard /\ view.sending[r] = Free
  <2>1. view \in View
    BY <1>2, NoneTypes DEF View, Statuses
  <2>. QED  BY <1>2, <2>1
<1>7. ViewOK(view, db) /\ \A B : OverOK(view, db, B)
  BY <1>6, NoneTypes DEF ViewOK, Fits, OverOK, OverAt, Ended, Overs
<1>8. \A r \in Runs : /\ db.row[r] = "none" /\ db.ask[r] = "none"
                      /\ ~Ended(db.row[r]) /\ Unanswered(db.ask[r])
  BY <1>1 DEF Ended, Overs, Unanswered
<1>9. SInv
  BY <1>6, <1>8 DEF SInv, EndComes, AskComes, VerdictComes, SendingEnds, RetryingEnds
<1>. QED  BY <1>3, <1>4, <1>5, <1>7, <1>9 DEF Inv, VInv

LEMMA InvNext ==
  ASSUME Inv, Next
  PROVE  Inv' /\ (Keeps \/ view' = view)
<1>1. ASSUME NEW c \in Calls, User(c) PROVE Inv' /\ Keeps
  <2>1. CASE \E r \in Runs, yes \in BOOLEAN : Submit(c, r, yes)
    BY <2>1, SubmitStep
  <2>2. CASE StartRun(c) \/ CancelRun(c) \/ LoadSession(c) \/ (\E r \in Runs : RetryRun(c, r))
    BY <2>2, UserStep
  <2>. QED  BY <1>1, <2>1, <2>2 DEF User
<1>2. ASSUME NEW c \in AllCalls, Settle(c) PROVE Inv' /\ Keeps
  <2>1. CASE StartAnswered(c) \/ StartLoaded(c)
    <3>1. CASE StartAnswered(c) /\ Good(c)
      BY <3>1, TakenStep
    <3>2. CASE StartLoaded(c) /\ Good(c)
      BY <3>2, LoadedStep
    <3>. QED  BY <2>1, <3>1, <3>2, StartFailedStep
  <2>2. CASE RetryAnswered(c)
    BY <2>2, RetryAnsweredStep
  <2>3. CASE RetryLoaded(c)
    BY <2>3, RetryLoadedStep
  <2>4. CASE CancelAnswered(c) \/ CancelLoaded(c)
    BY <2>4, CancelStep, LoadedStep
  <2>5. CASE ResolveAnswered(c)
    BY <2>5, ResolveAnsweredStep
  <2>6. CASE ResolveLoaded(c) \/ Loaded(c)
    BY <2>6, LoadedStep
  <2>7. CASE AnswerAnswered(c)
    BY <2>7, TakenStep, AnswerFailedStep
  <2>. QED  BY <1>2, <2>1, <2>2, <2>3, <2>4, <2>5, <2>6, <2>7 DEF Settle
<1>3. ASSUME NEW c \in AllCalls, ServeAny(c) \/ Lose(c) PROVE Inv' /\ view' = view
  <2>1. view' = view
    BY <1>3 DEF ServeAny, ServeCreate, ServeInput, ServeStop, ServeLoad, Lose
  <2>. QED  BY <1>3, <2>1, ServeCreateStep, ServeInputStep, ServeStopStep, ServeLoadStep, LoseStep DEF ServeAny
<1>4. ASSUME NEW r \in Runs, Execute(r) \/ Expire(r) PROVE Inv' /\ view' = view
  <2>1. CASE Begin(r)
    BY <2>1, BeginStep DEF Begin
  <2>2. CASE Continue(r)
    BY <2>2, ContinueStep DEF Continue
  <2>3. CASE End(r)
    BY <2>3, EndStep DEF End
  <2>4. CASE \E kind \in {"approval", "decision"} : Pause(r, kind)
    BY <2>4, PauseStep DEF Pause, InputKinds
  <2>5. CASE \E s \in {"completed", "failed"} : TaskDone(r, s)
    BY <2>5, TaskDoneStep DEF TaskDone
  <2>6. CASE Expire(r)
    BY <2>6, ExpireStep DEF Expire
  <2>. QED  BY <1>4, <2>1, <2>2, <2>3, <2>4, <2>5, <2>6 DEF Execute
<1>. QED  BY <1>1, <1>2, <1>3, <1>4, DeliverStep DEF Next

LEMMA InvStays ==
  ASSUME Inv, [Next]_vars
  PROVE  Inv' /\ (Keeps \/ view' = view)
<1>1. CASE Next
  BY <1>1, InvNext
<1>2. CASE UNCHANGED vars
  <2>1. /\ db' = db /\ job' = job /\ inbox' = inbox /\ events' = events /\ call' = call /\ view' = view
    BY <1>2 DEF vars
  <2>2. Blamed' = Blamed
    BY <2>1 DEF Blamed
  <2>3. DbOK' /\ CallsOK' /\ JobsOK' /\ InboxOK' /\ EventsOK'
    BY <2>1 DEF Inv, VInv, DbOK, CallsOK, JobsOK, InboxOK, EventsOK
  <2>4. VInv'
    BY <2>1, <2>2, <2>3 DEF Inv, VInv
  <2>5. SInv'
    BY <2>1, <2>2 DEF Inv, SInv, EndComes, AskComes, VerdictComes, SendingEnds, RetryingEnds
  <2>. QED  BY <2>1, <2>4, <2>5 DEF Inv
<1>. QED  BY <1>1, <1>2

(* What the page shows is what the runtime has recorded, or news of it is  *)
(* still on its way: this holds of every reachable state, whatever the     *)
(* order in which notices, answers and snapshots arrive.                   *)
THEOREM PageInvariant == Spec => []Inv
<1>1. Init => Inv
  BY InvInit
<1>2. Inv /\ [Next]_vars => Inv'
  BY InvStays
<1>. QED  BY <1>1, <1>2, PTL DEF Spec

(* The stores and the rows keep their types, exactly the runs with a       *)
(* thread are recorded as running, and a card is asked only of an input    *)
(* that exists (TypeOK).                                                   *)
THEOREM PageTypes == Spec => []TypeOK
<1>1. Inv => TypeOK
  <2>. SUFFICES ASSUME Inv PROVE TypeOK
    OBVIOUS
  <2>1. DbOK /\ ViewOK(view, db) /\ db \in Db /\ job \in Rows /\ view \in View
    BY DEF Inv, VInv, DbOK, ViewOK
  <2>2. DOMAIN db = {"row", "task", "ask", "retry", "kind"} /\ db.retry \subseteq Runs
    BY <2>1 DEF Db
  <2>3. view.session \in {"idle", "running", "waiting"} \cup Overs
    BY <2>1, ViewParts DEF Statuses, Overs
  <2>4. ASSUME NEW r \in Runs
        PROVE  /\ db.row[r] \in {"none", "running", "waiting"} \cup Overs
               /\ view.run[r] \in {"none", "running", "waiting"} \cup Overs
               /\ view.task[r].status \in {"none", "queued", "running", "waiting"} \cup Overs
               /\ job.phase[r] \in {"no", "new", "back", "work", "over"}
               /\ view.sending[r].call \in {0} \cup Calls
               /\ (job.phase[r] # "no") = (db.row[r] = "running")
               /\ view.card[r].status = "pending" => view.run[r] # "none" \/ db.ask[r] # "none"
    <3>1. /\ db.row[r] \in Statuses /\ job.phase[r] \in Phases
          /\ RowOK(job.phase[r], db.row[r], db.task[r], db.ask[r], db.kind[r])
      BY <2>1, RowTypes
    <3>2. view.run[r] \in Statuses /\ view.task[r] \in TaskRec /\ view.sending[r] \in Sent
      BY <2>1, ViewParts DEF Sent
    <3>3. view.task[r].status \in TaskStatuses /\ view.sending[r].call \in {0} \cup Calls
      BY <3>2 DEF TaskRec, Sent
    <3>4. view.card[r].status = "pending" => db.ask[r] # "none"
      BY <2>1 DEF ViewOK, Fits
    <3>5. (job.phase[r] # "no") = (db.row[r] = "running")
      BY <3>1 DEF RowOK
    <3>. QED  BY <3>1, <3>2, <3>3, <3>4, <3>5 DEF Statuses, TaskStatuses, Phases
  <2>. QED  BY <2>2, <2>3, <2>4 DEF TypeOK
<1>. QED  BY <1>1, PageInvariant, PTL

(* No approval is shown as granted that the runtime has not recorded so,   *)
(* and a resolution that is shown is the recorded one (VerdictIsTrue),     *)
(* whichever of the notice of the resolution, the answer of the call and   *)
(* the snapshots comes last.                                               *)
THEOREM VerdictTheorem == Spec => []VerdictIsTrue
<1>1. Inv => VerdictIsTrue
  BY DEF Inv, VInv, ViewOK, Fits, VerdictIsTrue
<1>. QED  BY <1>1, PageInvariant, PTL

(* A run that is shown as over, and not by the catch of a failed start or  *)
(* answer, stays so, its card stays closed, and the result of a task is    *)
(* final but for one that was inferred from the end of its run             *)
(* (OverStaysOver): no late notice, answer or snapshot takes it back.      *)
THEOREM OverTheorem == Spec => OverStaysOver
<1>. DEFINE Over == \A r \in Runs :
       /\ Ended(view.run[r]) /\ r \notin Blamed =>
            /\ view'.run[r] = view.run[r]
            /\ view.card[r].status # "pending" => view'.card[r].status # "pending"
       /\ TaskOver(view.task[r].status) =>
            \/ view'.task[r].status = view.task[r].status
            \/ view.task[r].inferred /\ TaskOver(view'.task[r].status)
<1>1. Inv /\ [Next]_vars => [Over]_view
  <2>1. Keeps => Over
    BY DEF Keeps, OverKept, OverKeptAt, TasksKept, TaskKept
  <2>. HIDE DEF Over
  <2>. QED  BY <2>1, InvStays
<1>. HIDE DEF Over
<1>2. Spec => [][Over]_view
  BY <1>1, PageInvariant, PTL DEF Spec
<1>. QED  BY <1>2 DEF OverStaysOver, Over

(* With nothing under way, the page shows of every run that no failed call *)
(* marked whether and how it is over, asks exactly for the inputs the      *)
(* runtime waits for, and holds no lock of an operation (ViewSettles).     *)
THEOREM SettlesTheorem == Spec => []ViewSettles
<1>1. Inv => ViewSettles
  <2>. SUFFICES ASSUME Inv, Quiet
                PROVE  /\ \A r \in Runs \ Blamed :
                            /\ Ended(db.row[r]) \/ Ended(view.run[r]) => view.run[r] = db.row[r]
                            /\ (view.card[r].status = "pending") = (db.ask[r] = "pending")
                       /\ \A r \in Runs : view.sending[r] = Free
                       /\ view.retrying = {}
    BY DEF ViewSettles
  <2>1. /\ DbOK /\ ViewOK(view, db) /\ OverOK(view, db, Blamed) /\ view \in View
        /\ EndComes /\ AskComes /\ VerdictComes /\ SendingEnds /\ RetryingEnds
    BY DEF Inv, VInv, SInv, ViewOK
  <2>2. \A type, r : ~Coming(events, type, r)
    BY DEF Quiet, Coming
  <2>3. \A c \in AllCalls : call[c].pc \in {"idle", "done"}
    BY DEF Quiet
  <2>4. ASSUME NEW r \in Runs \ Blamed
        PROVE  /\ Ended(db.row[r]) \/ Ended(view.run[r]) => view.run[r] = db.row[r]
               /\ (view.card[r].status = "pending") = (db.ask[r] = "pending")
    <3>1. OverAt(view, db, r) /\ Fits(view, db, r)
      BY <2>1 DEF OverOK, ViewOK
    <3>2. Ended(db.row[r]) \/ Ended(view.run[r]) => view.run[r] = db.row[r]
      BY <2>1, <2>2, <3>1 DEF EndComes, OverAt
    <3>3. db.ask[r] = "pending" => view.card[r].status = "pending"
      BY <2>1, <2>2, <2>3, CallNumbers DEF AskComes
    <3>4. ASSUME view.card[r].status = "pending", db.ask[r] # "pending" PROVE FALSE
      <4>1. /\ db.row[r] \in Statuses
            /\ RowOK(job.phase[r], db.row[r], db.task[r], db.ask[r], db.kind[r])
        BY <2>1, RowTypes
      <4>2. db.row[r] # "none"
        BY <3>1, <3>4, <4>1 DEF Fits, RowOK
      <4>3. db.row[r] # "running" /\ db.row[r] # "waiting"
        BY <3>4, <4>1 DEF RowOK, Quiet, Locked
      <4>4. Ended(db.row[r])
        BY <4>1, <4>2, <4>3 DEF Statuses, Ended
      <4>. QED  BY <3>1, <3>2, <3>4, <4>4 DEF OverAt
    <3>. QED  BY <3>2, <3>3, <3>4
  <2>5. ASSUME NEW r \in Runs PROVE view.sending[r] = Free
    <3>. SUFFICES ASSUME view.sending[r] # Free PROVE FALSE
      OBVIOUS
    <3>1. call[view.sending[r].call].pc = "ask"
      BY <2>1, <2>2 DEF SendingEnds
    <3>2. view.sending[r].call \in AllCalls
      <4>1. view.sending[r] \in Sent /\ Fits(view, db, r)
        BY <2>1, ViewParts DEF Sent, ViewOK
      <4>. QED  BY <4>1, CallNumbers DEF Fits, Sent
    <3>. QED  BY <2>3, <3>1, <3>2
  <2>6. view.retrying = {}
    <3>. SUFFICES ASSUME NEW c \in view.retrying PROVE FALSE
      OBVIOUS
    <3>1. c \in AllCalls
      BY <2>1, ViewParts, CallNumbers
    <3>. QED  BY <2>1, <2>3, <3>1 DEF RetryingEnds
  <2>. QED  BY <2>4, <2>5, <2>6
<1>. QED  BY <1>1, PageInvariant, PTL

-----------------------------------------------------------------------------
(***************************************************************************)
(* Nothing the page waits for is forgotten.                                *)
(***************************************************************************)
(* A call that has no answer yet has its request in the runtime, or, once  *)
(* that is taken, a thread that answers it when its run pauses or ends.    *)
Served(c, k, requests, work) ==
  k.reply = Nothing =>
    /\ k.pc = "ask" => \/ Request(c, "ask") \in requests
                       \/ \E r \in Runs : work.by[r] = c /\ work.phase[r] # "no"
    /\ k.pc \in {"load", "repair"} => \E m \in requests : m[1] = c /\ m[2] = k.pc
CallsAreServed == \A c \in AllCalls : Served(c, call[c], inbox, job)

(* Only a thread that executes owes an answer. *)
OwedOK == \A r \in Runs : job.by[r] # 0 => job.phase[r] # "no"

AwaitInv == Inv /\ CallsAreServed /\ OwedOK

SameWait(b) == call'[b].pc = call[b].pc /\ call'[b].reply = call[b].reply

(* A step of the page that sends no request twice and takes none back. *)
LEMMA PageServes ==
  ASSUME AwaitInv, UNCHANGED job, inbox \subseteq inbox', NEW c \in AllCalls,
         \A b \in AllCalls \ {c} : SameWait(b),
         \/ call'[c].pc \in {"idle", "done"}
         \/ call'[c].pc \in {"ask", "load", "repair"} /\ Request(c, call'[c].pc) \in inbox'
  PROVE  CallsAreServed' /\ OwedOK'
<1>1. ASSUME NEW b \in AllCalls \ {c} PROVE Served(b, call'[b], inbox', job)
  <2>1. SameWait(b) /\ Served(b, call[b], inbox, job)
    BY DEF AwaitInv, CallsAreServed
  <2> QED BY <2>1 DEF SameWait, Served
<1>2. Served(c, call'[c], inbox', job)
  BY DEF Served, Request
<1> QED BY <1>1, <1>2 DEF CallsAreServed, AwaitInv, OwedOK

LEMMA CallParts ==
  ASSUME Inv
  PROVE  CallsAre(call) /\ \A b \in AllCalls : call[b] = CallRec(call[b])
BY DEF Inv, VInv, CallsOK, CallOK

LEMMA Next1Serves ==
  ASSUME AwaitInv, UNCHANGED job, NEW c \in AllCalls, NEW pc \in {"load", "repair"}, Next1(call, c, pc)
  PROVE  CallsAreServed' /\ OwedOK'
<1>1. CallsAre(call) /\ \A b \in AllCalls : call[b] = CallRec(call[b])
  BY CallParts DEF AwaitInv
<1>2. inbox' = inbox \cup {Request(c, pc)} /\ call' = [call EXCEPT ![c] = WithPc(call[c], pc)]
  BY <1>1 DEF Next1, CallsAre, WithPc, WithReply, WithStep
<1>3. WithPc(call[c], pc).pc = pc
  BY <1>1, PcParts
<1>4. call'[c].pc = pc /\ \A b \in AllCalls \ {c} : SameWait(b)
  BY <1>1, <1>2, <1>3 DEF CallsAre, SameWait
<1> QED BY <1>2, <1>4, PageServes

LEMMA DoneServes ==
  ASSUME AwaitInv, UNCHANGED job, NEW c \in AllCalls, NEW cs, NEW x, Done(cs, c, x),
         cs = call \/ \E snap : cs = Replaced(call, snap)
  PROVE  CallsAreServed' /\ OwedOK'
<1>1. CallsAre(call) /\ \A b \in AllCalls : call[b] = CallRec(call[b])
  BY CallParts DEF AwaitInv
<1>2. CallsAre(cs) /\ \A b \in AllCalls : /\ cs[b] = CallRec(cs[b])
                                          /\ cs[b].pc = call[b].pc /\ cs[b].reply = call[b].reply
  <2>1. CASE cs = call
    BY <1>1, <2>1
  <2>2. CASE \E snap : cs = Replaced(call, snap)
    <3>1. PICK snap : cs = Replaced(call, snap)
      BY <2>2
    <3>2. CallsAre(cs) /\ \A b \in AllCalls : \E f : cs[b] = WithFresh(call[b], f)
      BY <3>1, ReplacedCalls
    <3>3. ASSUME NEW b \in AllCalls
          PROVE  cs[b] = CallRec(cs[b]) /\ cs[b].pc = call[b].pc /\ cs[b].reply = call[b].reply
      <4>1. PICK f : cs[b] = WithFresh(call[b], f)
        BY <3>2
      <4> QED BY <1>1, <4>1, FreshParts
    <3> QED BY <3>2, <3>3
  <2> QED BY <2>1, <2>2
<1>3. inbox' = inbox /\ call' = [cs EXCEPT ![c] = WithEnd(cs[c], x)]
  <2>1. [cs[c] EXCEPT !.pc = "done", !.reply = Nothing, !.seen = 0, !.fresh = {}, !.blamed = x]
          = WithEnd(cs[c], x)
    BY DEF WithEnd, WithPc, WithReply, WithStep, WithSeen, WithFresh, WithBlamed
  <2> QED BY <1>2, <2>1 DEF Done, CallsAre
<1>4. WithEnd(cs[c], x).pc = "done"
  BY <1>2, EndParts
<1>5. call'[c].pc = "done" /\ \A b \in AllCalls \ {c} : SameWait(b)
  BY <1>2, <1>3, <1>4 DEF CallsAre, SameWait
<1> QED BY <1>3, <1>5, PageServes

LEMMA SettleServes ==
  ASSUME AwaitInv, NEW c \in AllCalls, Settle(c)
  PROVE  CallsAreServed' /\ OwedOK'
<1>1. UNCHANGED job
  BY DEF Settle, StartAnswered, StartLoaded, RetryAnswered, RetryLoaded, CancelAnswered,
         CancelLoaded, ResolveAnswered, ResolveLoaded, AnswerAnswered, Loaded
<1>2. \/ Next1(call, c, "load") \/ Next1(call, c, "repair")
      \/ Done(Replaced(call, Body(c)), c, 0) \/ Done(call, c, 0) \/ \E x : Done(call, c, x)
  <2>1. Blame(c) => \E x : Done(call, c, x)
    BY DEF Blame
  <2>2. \A cs : Finished(cs, c) => Done(cs, c, 0)
    BY DEF Finished
  <2> HIDE DEF Next1, Done, Blame, Finished
  <2> QED BY <2>1, <2>2
          DEF Settle, StartAnswered, StartLoaded, RetryAnswered, RetryLoaded, CancelAnswered,
              CancelLoaded, ResolveAnswered, ResolveLoaded, AnswerAnswered, Loaded
<1>3. ASSUME NEW x, Done(call, c, x) PROVE CallsAreServed' /\ OwedOK'
  BY <1>1, <1>3, DoneServes
<1>4. ASSUME Done(Replaced(call, Body(c)), c, 0) PROVE CallsAreServed' /\ OwedOK'
  BY <1>1, <1>4, DoneServes
<1> QED BY <1>1, <1>2, <1>3, <1>4, Next1Serves

LEMMA UserServes ==
  ASSUME AwaitInv, NEW c \in Calls, User(c)
  PROVE  CallsAreServed' /\ OwedOK'
<1>1. PICK kind, r, yes : Ask(c, kind, r, yes)
  BY DEF User, StartRun, CancelRun, LoadSession, RetryRun, Submit
<1> DEFINE pc == IF kind = "load" THEN "load" ELSE "ask"
           k  == [IdleCall EXCEPT !.kind = kind, !.run = r, !.yes = yes,
                                  !.fresh = {"session", "run"}, !.pc = pc]
<1>2. UNCHANGED job /\ inbox' = inbox \cup {Request(c, pc)} /\ call' = [call EXCEPT ![c] = k]
  BY <1>1 DEF Ask
<1>3. k.pc = pc /\ pc \in {"ask", "load"}
  BY DEF IdleCall
<1>4. c \in AllCalls /\ CallsAre(call)
  BY CallNumbers, CallParts DEF AwaitInv
<1> HIDE DEF k, pc
<1>5. call'[c].pc = pc /\ \A b \in AllCalls \ {c} : SameWait(b)
  BY <1>2, <1>3, <1>4 DEF CallsAre, SameWait
<1> QED BY <1>2, <1>3, <1>4, <1>5, PageServes

(* A notice of an end starts a load, and may tell a call which run is its. *)
LEMMA DeliverServes ==
  ASSUME AwaitInv, Deliver
  PROVE  CallsAreServed' /\ OwedOK'
<1> DEFINE e == Head(events)
           seen == IF view'.mine # view.mine /\ view'.mine.run = e.run
                   THEN [call EXCEPT ![view.mine.call].seen = e.run] ELSE call
<1>1. CallsAre(call) /\ \A b \in AllCalls : call[b] = CallRec(call[b])
  BY CallParts DEF AwaitInv
<1>2. CallsAre(seen) /\ \A b \in AllCalls : seen[b].pc = call[b].pc /\ seen[b].reply = call[b].reply
  <2>1. CASE seen = call
    BY <1>1, <2>1
  <2>2. CASE seen = [call EXCEPT ![view.mine.call].seen = e.run]
    <3>1. CallsAre(seen)
      BY <1>1, <2>2 DEF CallsAre
    <3>2. ASSUME NEW b \in AllCalls
          PROVE  seen[b].pc = call[b].pc /\ seen[b].reply = call[b].reply
      <4>1. seen[b] = call[b] \/ seen[b] = WithSeen(call[b], e.run)
        BY <1>1, <2>2 DEF CallsAre, WithSeen
      <4> QED BY <1>1, <4>1, SeenParts
    <3> QED BY <3>1, <3>2
  <2> QED BY <2>1, <2>2
<1>3. UNCHANGED job
  BY DEF Deliver
<1>4. CASE Reloads(e)
  <2> DEFINE c == Reload(e.run)
             k == [IdleCall EXCEPT !.kind = "load", !.pc = "load"]
  <2>1. call' = [seen EXCEPT ![c] = k] /\ inbox' = inbox \cup {Request(c, "load")}
    BY <1>4 DEF Deliver
  <2>2. c \in AllCalls
    <3>1. events # <<>> /\ events \in Seq(Notices) /\ \A i \in DOMAIN events : EventOK(events[i], db)
      BY DEF Deliver, AwaitInv, Inv, VInv, EventsOK
    <3>2. e = events[1] /\ 1 \in DOMAIN events
      BY <3>1
    <3>3. e.run \in Runs
      BY <3>1, <3>2 DEF EventOK
    <3> QED BY <3>3, CallNumbers
  <2>3. k.pc = "load"
    BY DEF IdleCall
  <2> HIDE DEF seen, k, c
  <2>4. call'[c].pc = "load" /\ \A b \in AllCalls \ {c} : SameWait(b)
    BY <1>2, <2>1, <2>2, <2>3 DEF CallsAre, SameWait
  <2> QED BY <1>3, <2>1, <2>2, <2>4, PageServes
<1>5. CASE ~Reloads(e)
  <2>1. call' = seen /\ inbox' = inbox
    BY <1>5 DEF Deliver
  <2> HIDE DEF seen
  <2> QED BY <1>2, <1>3, <2>1 DEF CallsAreServed, Served, AwaitInv, OwedOK
<1> QED BY <1>4, <1>5

-----------------------------------------------------------------------------
(* The runtime answers at most one call in a step, and with an answer. *)
AnswersOnly(b, pc) ==
  \A c \in AllCalls : /\ call'[c].pc = call[c].pc
                      /\ call'[c].reply = Nothing =>
                           call[c].reply = Nothing /\ ~(c = b /\ call[c].pc = pc)

LEMMA AnswerParts ==
  ASSUME Inv, NEW b, NEW pc, NEW x, x # Nothing, call' = Answer(call, b, pc, x)
  PROVE  AnswersOnly(b, pc)
<1>1. CallsAre(call) /\ \A c \in AllCalls : call[c] = CallRec(call[c])
  BY CallParts
<1>2. CASE b \in AllCalls /\ call[b].pc = pc /\ call[b].reply = Nothing
  <2>1. call' = [call EXCEPT ![b] = WithReply(call[b], x)]
    BY <1>1, <1>2 DEF Answer, CallsAre, WithReply
  <2>2. WithReply(call[b], x).reply = x /\ WithReply(call[b], x).pc = call[b].pc
    BY <1>1, <1>2, ReplyChanged
  <2>3. call'[b] = WithReply(call[b], x) /\ \A c \in AllCalls \ {b} : call'[c] = call[c]
    BY <1>1, <1>2, <2>1 DEF CallsAre
  <2> QED BY <2>2, <2>3 DEF AnswersOnly
<1>3. CASE ~(b \in AllCalls /\ call[b].pc = pc /\ call[b].reply = Nothing)
  <2>1. call' = call
    BY <1>3 DEF Answer
  <2> QED BY <1>3, <2>1 DEF AnswersOnly
<1> QED BY <1>2, <1>3

LEMMA RealAnswers == Error # Nothing /\ \A x : Ok(x) # Nothing
BY DEF Error, Nothing, Ok

(* A step of the runtime: a request that is gone, and a thread that is,    *)
(* leave an answer, or a thread that owes one.                             *)
LEMMA RuntimeServes ==
  ASSUME AwaitInv, OwedOK', \A c \in AllCalls : call'[c].pc = call[c].pc,
         \A c \in AllCalls : call'[c].reply = Nothing =>
           /\ call[c].reply = Nothing
           /\ call[c].pc = "ask" /\ Request(c, "ask") \in inbox =>
                \/ Request(c, "ask") \in inbox'
                \/ \E r \in Runs : job'.by[r] = c /\ job'.phase[r] # "no"
           /\ \A r \in Runs : call[c].pc = "ask" /\ job.by[r] = c /\ job.phase[r] # "no" =>
                job'.by[r] = c /\ job'.phase[r] # "no"
           /\ \A m \in inbox : call[c].pc \in {"load", "repair"} /\ m[1] = c /\ m[2] = call[c].pc =>
                \E n \in inbox' : n[1] = c /\ n[2] = call[c].pc
  PROVE  CallsAreServed' /\ OwedOK'
<1> SUFFICES ASSUME NEW c \in AllCalls, call'[c].reply = Nothing
             PROVE  /\ call[c].pc = "ask" =>
                         \/ Request(c, "ask") \in inbox'
                         \/ \E r \in Runs : job'.by[r] = c /\ job'.phase[r] # "no"
                    /\ call[c].pc \in {"load", "repair"} =>
                         \E m \in inbox' : m[1] = c /\ m[2] = call[c].pc
  BY DEF CallsAreServed, Served
<1>1. Served(c, call[c], inbox, job) /\ call[c].reply = Nothing
  BY DEF AwaitInv, CallsAreServed
<1>2. CASE call[c].pc = "ask"
  BY <1>1, <1>2 DEF Served
<1>3. CASE call[c].pc \in {"load", "repair"}
  <2>1. PICK m \in inbox : m[1] = c /\ m[2] = call[c].pc
    BY <1>1, <1>3 DEF Served
  <2> QED BY <1>3, <2>1
<1> QED BY <1>2, <1>3

(* A thread goes on, or answers the call it owes an answer. *)
LEMMA ThreadServes ==
  ASSUME AwaitInv, NEW r \in Runs, Execute(r) \/ Expire(r)
  PROVE  CallsAreServed' /\ OwedOK'
<1>1. job \in Rows /\ Inv
  BY DEF AwaitInv, Inv, VInv, DbOK
<1>2. CASE Begin(r) \/ Continue(r) \/ (\E s \in {"completed", "failed"} : TaskDone(r, s)) \/ Expire(r)
  <2>1. UNCHANGED <<inbox, call>>
    BY <1>2 DEF Begin, Continue, TaskDone, Expire
  <2>2. \A q \in Runs : job'.by[q] = job.by[q] /\ (job.phase[q] # "no" => job'.phase[q] # "no")
    BY <1>1, <1>2 DEF Begin, Continue, TaskDone, Expire, Rows
  <2>3. OwedOK'
    BY <2>2 DEF AwaitInv, OwedOK
  <2> QED BY <2>1, <2>2, <2>3, RuntimeServes
<1>3. CASE End(r) \/ (\E kind \in {"approval", "decision"} : Pause(r, kind))
  <2>1. inbox' = inbox /\ job'.phase[r] = "no" /\ job'.by[r] = 0
        /\ \A q \in Runs \ {r} : job'.by[q] = job.by[q] /\ job'.phase[q] = job.phase[q]
    <3>1. inbox' = inbox /\ \E halt : job' = [job EXCEPT !.phase[r] = "no", !.by[r] = 0, !.halt = halt]
      <4>1. CASE End(r)
        BY <4>1 DEF End
      <4>2. CASE \E kind \in {"approval", "decision"} : Pause(r, kind)
        <5>1. inbox' = inbox /\ job' = [job EXCEPT !.phase[r] = "no", !.by[r] = 0]
          BY <4>2 DEF Pause
        <5>2. job' = [job EXCEPT !.phase[r] = "no", !.by[r] = 0, !.halt = job.halt]
          BY <1>1, <5>1 DEF Rows
        <5> QED BY <5>1, <5>2
      <4> QED BY <1>3, <4>1, <4>2
    <3>2. PICK halt : job' = [job EXCEPT !.phase[r] = "no", !.by[r] = 0, !.halt = halt]
      BY <3>1
    <3> QED BY <1>1, <3>1, <3>2 DEF Rows
  <2>2. \E u : call' = Answer(call, job.by[r], "ask", Ok(u))
    BY <1>3 DEF End, Pause, ReplyTo
  <2>3. AnswersOnly(job.by[r], "ask")
    BY <1>1, <2>2, AnswerParts, RealAnswers
  <2>4. OwedOK'
    BY <2>1 DEF AwaitInv, OwedOK
  <2> QED BY <2>1, <2>3, <2>4, RuntimeServes DEF AnswersOnly
<1> QED BY <1>2, <1>3 DEF Execute

(* A request is answered at once and no thread that works loses its call,  *)
(* or a thread that rests is set to work for the call.                     *)
AtOnce(c) ==
  /\ AnswersOnly(c, "ask")
  /\ \A q \in Runs : /\ job'.by[q] \in {0, job.by[q]}
                     /\ job.phase[q] # "no" => job'.by[q] = job.by[q] /\ job'.phase[q] # "no"
SetToWork(c) ==
  /\ UNCHANGED call
  /\ \E r \in Runs :
       /\ job.phase[r] = "no" /\ job'.phase[r] # "no" /\ job'.by[r] = c
       /\ \A q \in Runs \ {r} : job'.by[q] = job.by[q] /\ job'.phase[q] = job.phase[q]

LEMMA TakingServes ==
  ASSUME AwaitInv, NEW c \in AllCalls, Serve(c), AtOnce(c) \/ SetToWork(c)
  PROVE  CallsAreServed' /\ OwedOK'
<1>1. inbox' = inbox \ {Request(c, "ask")}
  BY DEF Serve
<1>2. \A b \in AllCalls \ {c} : Request(b, "ask") \in inbox => Request(b, "ask") \in inbox'
  BY <1>1 DEF Request
<1>3. \A m \in inbox : m[2] \in {"load", "repair"} => m \in inbox'
  BY <1>1 DEF Request
<1>4. OwedOK'
  BY DEF AwaitInv, OwedOK, AtOnce, SetToWork
<1>5. CASE AtOnce(c)
  BY <1>2, <1>3, <1>4, <1>5, RuntimeServes DEF AtOnce, AnswersOnly
<1>6. CASE SetToWork(c)
  BY <1>2, <1>3, <1>4, <1>6, RuntimeServes DEF SetToWork
<1> QED BY <1>5, <1>6

LEMMA CreateServes ==
  ASSUME AwaitInv, NEW c \in AllCalls, ServeCreate(c)
  PROVE  CallsAreServed' /\ OwedOK'
<1>1. job \in Rows /\ Inv /\ Serve(c)
  BY DEF AwaitInv, Inv, VInv, DbOK, ServeCreate
<1>2. CASE Locked \/ \E r \in Runs : Live(r)
  <2>1. UNCHANGED job /\ call' = Answer(call, c, "ask", Error)
    BY <1>2 DEF ServeCreate, Refuse, ReplyTo
  <2>2. AnswersOnly(c, "ask")
    BY <1>1, <2>1, AnswerParts, RealAnswers
  <2> QED BY <1>1, <2>1, <2>2, TakingServes DEF AtOnce, SetToWork
<1>3. CASE ~(Locked \/ \E r \in Runs : Live(r))
  <2> DEFINE r == NextRun
             again == call[c].kind = "retry"
  <2>1. r \in Runs
    <3>1. Unused # {} /\ Unused \in SUBSET Runs
      BY <1>3 DEF ServeCreate, Unused
    <3>2. NextRun \in Unused
      BY <3>1, FirstRun DEF NextRun
    <3> QED BY <3>1, <3>2
  <2>2. /\ job' = [job EXCEPT !.phase[r] = "new", !.by[r] = IF again THEN 0 ELSE c]
        /\ call' = IF again THEN Answer(call, c, "ask", Ok(StatusOnly(r, "running"))) ELSE call
    BY <1>3 DEF ServeCreate
  <2>3. \A q \in Runs : job.phase[q] = "no"
    BY <1>3 DEF Locked
  <2> HIDE DEF r
  <2>4. /\ job'.phase[r] = "new" /\ job'.by[r] = IF again THEN 0 ELSE c
        /\ \A q \in Runs \ {r} : job'.by[q] = job.by[q] /\ job'.phase[q] = job.phase[q]
    BY <1>1, <2>1, <2>2 DEF Rows
  <2>5. CASE again
    <3>1. AnswersOnly(c, "ask")
      BY <1>1, <2>2, <2>5, AnswerParts, RealAnswers
    <3> QED BY <1>1, <2>1, <2>3, <2>4, <2>5, <3>1, TakingServes DEF AtOnce, SetToWork
  <2>6. CASE ~again
    BY <1>1, <2>1, <2>2, <2>3, <2>4, <2>6, TakingServes DEF AtOnce, SetToWork
  <2> QED BY <2>5, <2>6
<1> QED BY <1>2, <1>3

LEMMA InputServes ==
  ASSUME AwaitInv, NEW c \in AllCalls, ServeInput(c)
  PROVE  CallsAreServed' /\ OwedOK'
<1> DEFINE r == call[c].run
           approval == call[c].kind = "resolve"
<1>1. job \in Rows /\ Inv /\ Serve(c)
  BY DEF AwaitInv, Inv, VInv, DbOK, ServeInput
<1>2. CASE Locked \/ db.ask[r] # "pending"
  <2>1. UNCHANGED job /\ call' = Answer(call, c, "ask", Error)
    BY <1>2 DEF ServeInput, Refuse, ReplyTo
  <2>2. AnswersOnly(c, "ask")
    BY <1>1, <2>1, AnswerParts, RealAnswers
  <2> QED BY <1>1, <2>1, <2>2, TakingServes DEF AtOnce, SetToWork
<1>3. CASE ~(Locked \/ db.ask[r] # "pending")
  <2>1. r \in Runs
    BY <1>1 DEF ServeInput, Inv, VInv, CallsOK, CallOK
  <2>2. /\ job' = [job EXCEPT !.phase[r] = "back", !.by[r] = IF approval THEN 0 ELSE c]
        /\ call' = IF approval THEN Answer(call, c, "ask", Ok(TRUE)) ELSE call
    BY <1>3 DEF ServeInput
  <2>3. \A q \in Runs : job.phase[q] = "no"
    BY <1>3 DEF Locked
  <2> HIDE DEF r
  <2>4. /\ job'.phase[r] = "back" /\ job'.by[r] = IF approval THEN 0 ELSE c
        /\ \A q \in Runs \ {r} : job'.by[q] = job.by[q] /\ job'.phase[q] = job.phase[q]
    BY <1>1, <2>1, <2>2 DEF Rows
  <2>5. CASE approval
    <3>1. AnswersOnly(c, "ask")
      BY <1>1, <2>2, <2>5, AnswerParts, RealAnswers
    <3> QED BY <1>1, <2>1, <2>3, <2>4, <2>5, <3>1, TakingServes DEF AtOnce, SetToWork
  <2>6. CASE ~approval
    BY <1>1, <2>1, <2>2, <2>3, <2>4, <2>6, TakingServes DEF AtOnce, SetToWork
  <2> QED BY <2>5, <2>6
<1> QED BY <1>2, <1>3

LEMMA StopServes ==
  ASSUME AwaitInv, NEW c \in AllCalls, ServeStop(c)
  PROVE  CallsAreServed' /\ OwedOK'
<1>1. job \in Rows /\ Inv /\ Serve(c)
  BY DEF AwaitInv, Inv, VInv, DbOK, ServeStop
<1>2. \E x : call' = Answer(call, c, "ask", Ok(x))
  BY DEF ServeStop, ReplyTo
<1>3. AnswersOnly(c, "ask")
  BY <1>1, <1>2, AnswerParts, RealAnswers
<1>4. job' = job \/ \E halt : job' = [job EXCEPT !.halt = halt]
  BY DEF ServeStop
<1>5. \A q \in Runs : job'.by[q] = job.by[q] /\ job'.phase[q] = job.phase[q]
  BY <1>1, <1>4 DEF Rows
<1> QED BY <1>1, <1>3, <1>5, TakingServes DEF AtOnce, SetToWork

LEMMA LoadServes ==
  ASSUME AwaitInv, NEW c \in AllCalls, ServeLoad(c)
  PROVE  CallsAreServed' /\ OwedOK'
<1>1. PICK m \in inbox :
        /\ m[1] = c /\ m[2] \in {"load", "repair"}
        /\ IF m[3] = Unread
           THEN inbox' = (inbox \ {m}) \cup {<<c, m[2], db.row>>} /\ UNCHANGED call
           ELSE /\ inbox' = inbox \ {m}
                /\ call' = Answer(call, c, m[2], Ok([db EXCEPT !.row = m[3]]))
        /\ UNCHANGED job
  BY DEF ServeLoad
<1>2. \A b \in AllCalls : Request(b, "ask") \in inbox => Request(b, "ask") \in inbox'
  BY <1>1 DEF Request
<1>3. Inv /\ OwedOK'
  BY <1>1 DEF AwaitInv, OwedOK
<1>4. CASE m[3] = Unread
  <2>1. \A n \in inbox : \E l \in inbox' : l[1] = n[1] /\ l[2] = n[2]
    BY <1>1, <1>4
  <2>2. UNCHANGED <<call, job>>
    BY <1>1, <1>4
  <2> QED BY <1>2, <1>3, <2>1, <2>2, RuntimeServes
<1>5. CASE m[3] # Unread
  <2>1. AnswersOnly(c, m[2])
    BY <1>1, <1>3, <1>5, AnswerParts, RealAnswers
  <2>2. \A n \in inbox : n \in inbox' \/ (n[1] = c /\ n[2] = m[2])
    BY <1>1, <1>5
  <2>3. UNCHANGED job
    BY <1>1
  <2> QED BY <1>2, <1>3, <2>1, <2>2, <2>3, RuntimeServes DEF AnswersOnly
<1> QED BY <1>4, <1>5

LEMMA LoseServes ==
  ASSUME AwaitInv, NEW c \in AllCalls, Lose(c)
  PROVE  CallsAreServed' /\ OwedOK'
<1>1. UNCHANGED <<inbox, job>> /\ call[c].reply = Nothing
      /\ call' = [call EXCEPT ![c] = WithReply(call[c], Error)]
  BY CallParts DEF Lose, AwaitInv, CallsAre, WithReply
<1>2. call' = Answer(call, c, call[c].pc, Error)
  BY <1>1 DEF Answer, WithReply
<1>3. AnswersOnly(c, call[c].pc)
  BY <1>2, AnswerParts, RealAnswers DEF AwaitInv
<1> QED BY <1>1, <1>3, RuntimeServes DEF AnswersOnly, AwaitInv, OwedOK

(* A call of the page that has no answer has its request in the runtime or *)
(* a thread that answers it when its run pauses or ends, whatever was      *)
(* served, given up or loaded again meanwhile: no operation of the page    *)
(* waits for an answer nobody will send (runtimeStore.ts, runtime_api.py). *)
THEOREM CallsServedTheorem == Spec => []CallsAreServed
<1>1. Init => AwaitInv
  <2> SUFFICES ASSUME Init PROVE AwaitInv
    OBVIOUS
  <2>1. \A c \in AllCalls : call[c].pc = "idle"
    BY DEF Init, IdleCall
  <2>2. \A r \in Runs : job.by[r] = 0
    BY DEF Init
  <2> QED BY <2>1, <2>2, InvInit DEF AwaitInv, CallsAreServed, Served, OwedOK
<1>2. AwaitInv /\ [Next]_vars => AwaitInv'
  <2> SUFFICES ASSUME AwaitInv, [Next]_vars PROVE CallsAreServed' /\ OwedOK'
    BY InvStays DEF AwaitInv
  <2>1. ASSUME NEW c \in AllCalls, ServeAny(c) PROVE CallsAreServed' /\ OwedOK'
    BY <2>1, CreateServes, InputServes, StopServes, LoadServes DEF ServeAny
  <2>2. CASE UNCHANGED vars
    BY <2>2 DEF vars, AwaitInv, CallsAreServed, Served, OwedOK
  <2> QED BY <2>1, <2>2, UserServes, SettleServes, LoseServes, ThreadServes, DeliverServes DEF Next
<1>3. AwaitInv => CallsAreServed
  BY DEF AwaitInv
<1> QED BY <1>1, <1>2, <1>3, PTL DEF Spec
=============================================================================
