--------------------------- MODULE StagesProofs ---------------------------
(***************************************************************************)
(* The theorems about the staged workflow and its snapshots.  The keys of  *)
(* the agents, the pictures and the files are three invariants of their    *)
(* own: they share the types and the lemmas about the list of checkpoints. *)
(***************************************************************************)
EXTENDS Stages, TLAPS

-----------------------------------------------------------------------------
(* The types of every variable, with all of the state of a run.            *)
Phases   == {"code", "capture", "review", "summary"}
Manuals  == {"", "preview", "capture_approval", "review_unavailable", "review_limit"}
Verdicts == {"", "passed", "changes_requested", "unable_to_review"}
Keys     == {"code", "review", "summary"} \X Nat \X Nat
Shots    == [tree : Tree \cup {None}, iteration : Nat, stirred : Nat]
State    == [run : Runs \cup {0}, kind : Kinds, approval_mode : Modes,
             status : Terminal \cup {"running", "waiting"},
             pc : {"drive", "coding", "shooting", "reviewing"}, phase : Phases, manual : Manuals,
             iteration : Nat, attempt : Nat, code_tree : Tree \cup {None}, graph : BOOLEAN,
             review_agent : BOOLEAN, shots : Shots, verdict : Verdicts, accepted : BOOLEAN,
             capture_approved : BOOLEAN, frozen : Snapshot \cup {None}, agents : SUBSET Keys,
             duplicate : BOOLEAN, retries : Nat]
Live == st.status \in {"running", "waiting"}

OneEach(ps)     == \A i, j \in DOMAIN ps : ps[i].run = ps[j].run => i = j
HasIn(ps, r)    == \E i \in DOMAIN ps : ps[i].run = r
PointIn(ps, r)  == ps[CHOOSE i \in DOMAIN ps : ps[i].run = r]

TFiles  == /\ wt \in [Paths -> File] /\ index \in Index /\ clock \in Nat
           /\ head \in [id : 0..MaxClock, branch : {"main", "topic"}, tree : Tree]
TPoints == points \in Seq(Point) /\ OneEach(points)
Packs   == [Runs -> [before : Snapshot, after : Snapshot, paused : Snapshot] \cup {None}]
RbType  == [run : Runs, target : Snapshot, todo : SUBSET Scope, safety : Snapshot,
            edited : SUBSET Paths, undo : BOOLEAN]
TPacks  == packs \in Packs
TRb     == rb = None \/ rb \in RbType
TSt     == st \in State /\ (Live => st.run \in Runs /\ Has(st.run))
Timely  == st.pc = "shooting" => st.shots.stirred <= clock
RbHas   == rb # None => Has(rb.run)
TInv    == TFiles /\ TPoints /\ TPacks /\ TRb /\ RbHas /\ TSt /\ Timely /\ preview \in BOOLEAN

(* The keys under which the agents of a run have run.                      *)
AgentsOK(s) ==
  /\ ~s.duplicate
  /\ \A k \in s.agents : /\ k[3] <= s.iteration
                         /\ k[1] = "review" /\ k[3] = s.iteration => k[2] <= s.attempt
  /\ s.phase = "code" =>
       /\ \A k \in s.agents : k[1] = "review" => k[3] < s.iteration
       /\ ~s.graph => KeyOf(s, "code") \notin s.agents
       /\ ~s.review_agent
  /\ s.pc = "coding" => s.phase = "code" /\ s.graph
  /\ s.pc = "shooting" => s.phase = "capture"
  /\ s.pc = "reviewing" => s.phase = "review" /\ s.review_agent
  /\ s.review_agent => s.pc = "reviewing"
  /\ s.status = "running" /\ s.phase \in {"capture", "review"} /\ s.pc # "reviewing" =>
       KeyOf(s, "review") \notin s.agents
  /\ s.status = "waiting" =>
       /\ s.pc = "drive"
       /\ s.manual = "" <=> s.phase = "code"
       /\ s.manual = "" => s.graph
       /\ s.manual \in {"preview", "capture_approval"} =>
            s.phase = "capture" /\ KeyOf(s, "review") \notin s.agents
       /\ s.manual \in {"review_unavailable", "review_limit"} => s.phase \in {"capture", "review"}

(* What the pictures of the current iteration show of its code.            *)
Backed(s) == /\ s.shots.iteration = s.iteration
             /\ s.shots.tree = s.code_tree \/ s.shots.stirred >= 2
ShotsOK(s, tree, now) ==
  /\ s.phase = "review" => Backed(s)
  /\ s.phase = "summary" => s.accepted \/ (s.verdict = "passed" /\ Backed(s))
  /\ s.pc = "shooting" =>
       LET n == s.shots.stirred IN
       /\ n <= now
       /\ IF s.shots.tree = None THEN tree = s.code_tree \/ n + 1 <= now
          ELSE /\ s.shots.iteration = s.iteration
               /\ s.shots.tree = s.code_tree \/ n + 2 <= now \/ (n + 1 <= now /\ tree = s.shots.tree)
ReviewInv == ShotsOK(st, capture.tree, clock)

(* What a run changed between two snapshots it wrote itself.               *)
Wrote(before, after, r) ==
  \A p \in Scope : \/ after.tree[p] = before.tree[p] \/ after.tree[p] = NoContent
                   \/ after.tree[p].by = r
PointOK(k) == k.after # None => Wrote(k.before, k.after, k.run)
LiveOK ==
  LET before == PointIn(points, st.run).before IN
  /\ Executing => Wrote(before, capture, st.run)
  /\ Live /\ st.frozen # None => Wrote(before, st.frozen, st.run)
  /\ st.status = "waiting" => st.frozen # None
  /\ st.status = "waiting" /\ packs[st.run] # None =>
       LET pack == packs[st.run] IN
       Wrote(pack.before, pack.after, st.run) /\ Wrote(pack.before, pack.paused, st.run)
RollbackOK ==
  rb # None =>
    LET before == PointIn(points, rb.run).before IN
    /\ ~Executing /\ Has(rb.run)
    /\ rb.target = IF rb.undo THEN rb.safety ELSE before
    /\ ~rb.undo => \A p \in rb.todo : rb.safety.tree[p] = NoContent \/ rb.safety.tree[p].by = rb.run
    /\ \A p \in Scope \ rb.edited :
         wt[p].c = IF p \notin rb.todo THEN rb.target.tree[p]
                   ELSE IF rb.undo THEN before.tree[p] ELSE rb.safety.tree[p]
PointsOK == \A i \in DOMAIN points : PointOK(points[i])
FilesInv == PointsOK /\ LiveOK /\ RollbackOK /\ faults \in Nat
AInv == AgentsOK(st)

-----------------------------------------------------------------------------
(* The list of checkpoints.                                                *)
LEMMA PointIs ==
  ASSUME NEW ps, NEW r, HasIn(ps, r)
  PROVE  /\ PointIn(ps, r).run = r
         /\ \E i \in DOMAIN ps : PointIn(ps, r) = ps[i]
BY DEF HasIn, PointIn

LEMMA PointAt ==
  ASSUME NEW ps, OneEach(ps), NEW i \in DOMAIN ps
  PROVE  HasIn(ps, ps[i].run) /\ PointIn(ps, ps[i].run) = ps[i]
BY DEF HasIn, PointIn, OneEach

LEMMA Pointed == Has(st.run) <=> HasIn(points, st.run)
BY DEF Has, HasIn

(* The list after a checkpoint is replaced. *)
LEMMA PutKeeps ==
  ASSUME NEW k \in Point, points \in Seq(Point), OneEach(points)
  PROVE  /\ Put(k) \in Seq(Point) /\ OneEach(Put(k)) /\ DOMAIN Put(k) = DOMAIN points
         /\ \A r : HasIn(Put(k), r) <=> HasIn(points, r)
         /\ \A r : HasIn(points, r) => PointIn(Put(k), r) = IF r = k.run THEN k ELSE PointIn(points, r)
         /\ \A i \in DOMAIN points : Put(k)[i] = k \/ Put(k)[i] = points[i]
<1>1. DOMAIN Put(k) = DOMAIN points /\ \A i \in DOMAIN points : Put(k)[i].run = points[i].run
  BY DEF Put
<1>2. Put(k) \in Seq(Point)
  BY DEF Put
<1>3. OneEach(Put(k))
  BY <1>1 DEF OneEach
<1>4. \A r : HasIn(Put(k), r) <=> HasIn(points, r)
  BY <1>1 DEF HasIn
<1>5. ASSUME NEW r, HasIn(points, r)
      PROVE  PointIn(Put(k), r) = IF r = k.run THEN k ELSE PointIn(points, r)
  <2>1. PICK i \in DOMAIN points : points[i].run = r
    BY <1>5 DEF HasIn
  <2>2. PointIn(points, r) = points[i] /\ PointIn(Put(k), r) = Put(k)[i]
    BY <2>1, <1>1, <1>3, PointAt
  <2>. QED  BY <2>1, <2>2 DEF Put
<1>6. \A i \in DOMAIN points : Put(k)[i] = k \/ Put(k)[i] = points[i]
  BY DEF Put
<1>. QED  BY <1>1, <1>2, <1>3, <1>4, <1>5, <1>6

LEMMA AppendKeeps ==
  ASSUME NEW k \in Point, points \in Seq(Point), OneEach(points), ~Has(k.run), NEW qs, qs = Append(points, k)
  PROVE  /\ qs \in Seq(Point) /\ OneEach(qs)
         /\ HasIn(qs, k.run) /\ PointIn(qs, k.run) = k
         /\ \A r : HasIn(points, r) => HasIn(qs, r) /\ PointIn(qs, r) = PointIn(points, r)
         /\ \A i \in DOMAIN qs : qs[i] = k \/ (i \in DOMAIN points /\ qs[i] = points[i])
<1>1. /\ qs \in Seq(Point) /\ DOMAIN points \subseteq DOMAIN qs
      /\ \A i \in DOMAIN points : qs[i] = points[i]
      /\ Len(points) + 1 \in DOMAIN qs /\ qs[Len(points) + 1] = k
      /\ \A i \in DOMAIN qs : i = Len(points) + 1 \/ i \in DOMAIN points
  OBVIOUS
<1>2. OneEach(qs)
  BY <1>1 DEF OneEach, Has
<1>3. \A r : HasIn(points, r) => HasIn(qs, r) /\ PointIn(qs, r) = PointIn(points, r)
  <2>. SUFFICES ASSUME NEW r, HasIn(points, r) PROVE HasIn(qs, r) /\ PointIn(qs, r) = PointIn(points, r)
    OBVIOUS
  <2>1. PICK i \in DOMAIN points : points[i].run = r
    BY DEF HasIn
  <2>2. qs[i].run = r /\ i \in DOMAIN qs /\ qs[i] = points[i]
    BY <1>1, <2>1
  <2>3. PointIn(qs, r) = qs[i] /\ HasIn(qs, r)
    BY <1>2, <2>2, PointAt
  <2>4. PointIn(points, r) = points[i]
    BY <2>1, PointAt
  <2>. QED  BY <2>2, <2>3, <2>4
<1>4. HasIn(qs, k.run) /\ PointIn(qs, k.run) = k
  BY <1>1, <1>2, PointAt
<1>. QED  BY <1>1, <1>2, <1>3, <1>4

LEMMA OnePoint ==
  ASSUME NEW k \in Point, NEW qs, qs = <<k>>
  PROVE  qs \in Seq(Point) /\ OneEach(qs) /\ HasIn(qs, k.run) /\ PointIn(qs, k.run) = k
<1>1. qs \in Seq(Point) /\ DOMAIN qs = {1} /\ qs[1] = k
  OBVIOUS
<1>2. OneEach(qs)
  BY <1>1 DEF OneEach
<1>. QED  BY <1>1, <1>2, PointAt

-----------------------------------------------------------------------------
(* The types.                                                              *)
LEMMA Small ==
  /\ MaxClock \in Nat /\ NoContent \in Content /\ Absent \in File /\ None \notin Snapshot
  /\ Scope \subseteq Paths /\ Siblings \subseteq Paths
<1>1. MaxClock \in Nat
  BY ClockBounded
<1>2. NoContent \in Content
  BY <1>1 DEF NoContent, Content
<1>3. Absent \in File
  BY <1>2 DEF Absent, File
<1>4. None \notin Snapshot
  <2>1. \A s \in Snapshot : "tree" \in DOMAIN s
    BY DEF Snapshot
  <2>2. "tree" \notin DOMAIN None
    BY DEF None
  <2>. QED  BY <2>1, <2>2
<1>. QED  BY <1>1, <1>2, <1>3, <1>4 DEF Paths

LEMMA CaptureType ==
  ASSUME TFiles
  PROVE  capture \in Snapshot /\ capture.tree \in Tree /\ capture.index = index
<1>1. \A p \in Scope : wt[p].c \in Content
  BY Small DEF TFiles, File
<1>2. head.tree \in Tree /\ head.id \in 0..MaxClock /\ head.branch \in {"main", "topic"}
  BY DEF TFiles
<1>3. [p \in Paths |-> IF p \in Scope THEN wt[p].c ELSE head.tree[p]] \in Tree
  BY <1>1, <1>2 DEF Tree
<1>. QED  BY <1>2, <1>3 DEF capture, Snapshot, TFiles

LEMMA FreshType ==
  ASSUME NEW r \in Runs \cup {0}, NEW kind \in Kinds, NEW mode \in Modes
  PROVE  Fresh(r, kind, mode) \in State
BY DEF Fresh, State, NoShots, Shots, Keys, Terminal, Phases, Manuals, Verdicts

LEMMA OverType ==
  ASSUME NEW s \in State, NEW status \in Terminal
  PROVE  /\ Over(s, status) \in State /\ Over(s, status).status = status
         /\ Over(s, status).duplicate = s.duplicate /\ Over(s, status).run = s.run
         /\ Over(s, status).agents = {} /\ Over(s, status).pc = "drive" /\ Over(s, status).phase = "code"
         /\ Over(s, status).frozen = None /\ Over(s, status).graph = FALSE
         /\ Over(s, status).review_agent = FALSE /\ Over(s, status).iteration = 0
<1>1. s.run \in Runs \cup {0} /\ s.duplicate \in BOOLEAN
  BY DEF State
<1>. DEFINE f == Fresh(s.run, "single", "always")
            o == Over(s, status)
<1>2. f \in State
  BY <1>1, FreshType DEF Kinds, Modes
<1>3. /\ f.run = s.run /\ f.agents = {} /\ f.pc = "drive" /\ f.phase = "code" /\ f.frozen = None
      /\ f.graph = FALSE /\ f.review_agent = FALSE /\ f.iteration = 0
  BY DEF Fresh
<1>4. o = [f EXCEPT !.status = status, !.duplicate = s.duplicate]
  BY DEF Over
<1>5. status \in Terminal \cup {"running", "waiting"}
  OBVIOUS
<1>6. /\ o \in State /\ o.status = status /\ o.duplicate = s.duplicate /\ o.run = s.run
      /\ o.agents = {} /\ o.pc = "drive" /\ o.phase = "code" /\ o.frozen = None
      /\ o.graph = FALSE /\ o.review_agent = FALSE /\ o.iteration = 0
  <2>. HIDE DEF f, o
  <2>1. o \in State
    BY <1>1, <1>2, <1>4, <1>5 DEF State
  <2>2. /\ o.status = status /\ o.duplicate = s.duplicate /\ o.run = f.run /\ o.agents = f.agents
        /\ o.pc = f.pc /\ o.phase = f.phase
    BY <1>2, <1>4 DEF State
  <2>3. /\ o.frozen = f.frozen /\ o.graph = f.graph /\ o.review_agent = f.review_agent
        /\ o.iteration = f.iteration
    BY <1>2, <1>4 DEF State
  <2>. QED  BY <1>3, <2>1, <2>2, <2>3
<1>. QED  BY <1>6

LEMMA CheckpointType ==
  ASSUME TPoints, NEW r, Has(r)
  PROVE  /\ HasIn(points, r) /\ checkpoint(r) = PointIn(points, r)
         /\ checkpoint(r) \in Point /\ checkpoint(r).run = r
<1>1. HasIn(points, r) /\ checkpoint(r) = PointIn(points, r)
  BY DEF Has, HasIn, checkpoint, PointIn
<1>. QED  BY <1>1, PointIs DEF TPoints

LEMMA FinishRun ==
  ASSUME TFiles, TPoints, NEW r, Has(r), NEW status \in Terminal \cup {"running"},
         NEW snapshot \in Snapshot \cup {None}, finish_run(r, status, snapshot)
  PROVE  LET k == Finished(r, status, snapshot) IN
         /\ TPoints' /\ k \in Point /\ k.run = r /\ k.before = PointIn(points, r).before
         /\ k.after = IF snapshot = None THEN capture ELSE snapshot
         /\ \A q : HasIn(points', q) <=> HasIn(points, q)
         /\ \A q : HasIn(points, q) => PointIn(points', q) = IF q = r THEN k ELSE PointIn(points, q)
         /\ DOMAIN points' = DOMAIN points
         /\ \A i \in DOMAIN points : points'[i] = k \/ points'[i] = points[i]
         /\ k.reverted = PointIn(points, r).reverted
<1>. DEFINE k == Finished(r, status, snapshot)
<1>1. HasIn(points, r) /\ checkpoint(r) = PointIn(points, r)
  BY DEF Has, HasIn, checkpoint, PointIn
<1>2. PointIn(points, r) \in Point /\ PointIn(points, r).run = r
  BY <1>1, PointIs DEF TPoints
<1>3. (IF snapshot = None THEN capture ELSE snapshot) \in Snapshot
  BY CaptureType
<1>4. k = [PointIn(points, r) EXCEPT !.after = IF snapshot = None THEN capture ELSE snapshot,
                                     !.status = status]
  BY <1>1 DEF Finished
<1>5. /\ k \in Point /\ k.run = r /\ k.before = PointIn(points, r).before
      /\ k.after = (IF snapshot = None THEN capture ELSE snapshot)
      /\ k.reverted = PointIn(points, r).reverted
  <2>. HIDE DEF k
  <2>. QED  BY <1>2, <1>3, <1>4 DEF Point
<1>6. points' = Put(k)
  BY DEF finish_run
<1>. HIDE DEF k
<1>7. points' \in Seq(Point) /\ OneEach(points') /\ DOMAIN points' = DOMAIN points
  BY <1>5, <1>6, PutKeeps DEF TPoints
<1>8. /\ \A q : HasIn(points', q) <=> HasIn(points, q)
      /\ \A q : HasIn(points, q) => PointIn(points', q) = IF q = r THEN k ELSE PointIn(points, q)
      /\ \A i \in DOMAIN points : points'[i] = k \/ points'[i] = points[i]
  BY <1>5, <1>6, PutKeeps DEF TPoints
<1>9. TPoints'
  BY <1>7 DEF TPoints
<1>. QED  BY <1>5, <1>7, <1>8, <1>9 DEF k

LEMMA DiscardTypes ==
  ASSUME TPacks, NEW r, discard_files(r)
  PROVE  TPacks' /\ \A q \in Runs : packs'[q] = packs[q] \/ packs'[q] = None
BY DEF TPacks, Packs, discard_files

LEMMA FinishTypes ==
  ASSUME TInv, NEW s \in State, s.run = st.run, Live, NEW status \in Terminal, finish(s, status)
  PROVE  TPoints' /\ TPacks' /\ TSt' /\ ~Live' /\ st'.status = status /\ st' = Over(s, status)
<1>1. Has(st.run) /\ s.frozen \in Snapshot \cup {None}
  BY DEF TInv, TSt, State
<1>2. TPoints'
  BY <1>1, FinishRun DEF finish, TInv
<1>3. TPacks'
  BY DiscardTypes DEF finish, TInv
<1>4. st' \in State /\ st'.status = status
  BY OverType DEF finish
<1>5. ~Live'
  BY <1>4 DEF Live, Terminal
<1>. QED  BY <1>2, <1>3, <1>4, <1>5 DEF TSt, finish

(* The three ways in which a stage leaves its run. *)
Paused == \E s \in State, m \in Manuals : s.run = st.run /\ Executing /\ wait(s, m)
Closed == \E s \in State, status \in Terminal : s.run = st.run /\ s.frozen = st.frozen /\ Live /\ finish(s, status)
Stays  ==
  /\ st' \in State /\ st'.run = st.run /\ st'.frozen = st.frozen /\ st'.status = "running" /\ Executing
  /\ UNCHANGED <<points, packs>>
  /\ st'.pc = "shooting" =>
       st'.shots.stirred = clock \/ (st.pc = "shooting" /\ st'.shots.stirred = st.shots.stirred)

LEMMA ExecutingIsLive == Executing => Live
BY DEF Executing, Live

LEMMA WaitTypes ==
  ASSUME TInv, NEW s \in State, s.run = st.run, Executing, NEW manual \in Manuals, wait(s, manual)
  PROVE  /\ TPoints' /\ TPacks' /\ TSt'
         /\ st' = [s EXCEPT !.status = "waiting", !.pc = "drive", !.manual = manual, !.frozen = capture]
         /\ st' \in State /\ st'.run = st.run
<1>1. Live /\ st.run \in Runs /\ Has(st.run) /\ capture \in Snapshot
  BY ExecutingIsLive, CaptureType DEF TInv, TSt
<1>2. finish_run(st.run, "running", None)
  BY DEF wait
<1>3. None \in Snapshot \cup {None} /\ "running" \in Terminal \cup {"running"}
  OBVIOUS
<1>4. TPoints' /\ HasIn(points', st.run)
  <2>1. HasIn(points, st.run)
    BY <1>1 DEF Has, HasIn
  <2>. QED  BY <1>1, <1>2, <1>3, <2>1, FinishRun DEF TInv
<1>5. PointIn(points, st.run).before \in Snapshot /\ checkpoint(st.run) = PointIn(points, st.run)
  <2>1. HasIn(points, st.run) /\ checkpoint(st.run) = PointIn(points, st.run)
    BY <1>1 DEF Has, HasIn, checkpoint, PointIn
  <2>2. PointIn(points, st.run) \in Point
    BY <2>1, PointIs DEF TInv, TPoints
  <2>. QED  BY <2>1, <2>2 DEF Point
<1>6. TPacks'
  <2>1. CASE export_checkpoint(s.run)
    <3>. DEFINE pack == [before |-> [checkpoint(st.run).before EXCEPT !.tree = scoped_tree(checkpoint(st.run).before.tree)],
                         after  |-> [capture EXCEPT !.tree = scoped_tree(capture.tree), !.index = None],
                         paused |-> capture]
    <3>1. \A tree \in Tree : scoped_tree(tree) \in Tree
      BY Small DEF Tree, scoped_tree
    <3>2. \A c \in Snapshot : /\ [c EXCEPT !.tree = scoped_tree(c.tree)] \in Snapshot
                              /\ [c EXCEPT !.tree = scoped_tree(c.tree), !.index = None] \in Snapshot
      BY <3>1 DEF Snapshot, Index
    <3>3. pack \in [before : Snapshot, after : Snapshot, paused : Snapshot]
      BY <1>1, <1>5, <3>2
    <3>4. packs' = [packs EXCEPT ![st.run] = pack]
      BY <2>1 DEF export_checkpoint
    <3>. HIDE DEF pack
    <3>. QED  BY <1>1, <3>3, <3>4 DEF TInv, TPacks, Packs
  <2>2. CASE discard_files(s.run)
    BY <2>2, DiscardTypes DEF TInv
  <2>. QED  BY <2>1, <2>2 DEF wait
<1>7. /\ st' = [s EXCEPT !.status = "waiting", !.pc = "drive", !.manual = manual, !.frozen = capture]
      /\ st' \in State /\ st'.run = st.run
  <2>1. st' = [s EXCEPT !.status = "waiting", !.pc = "drive", !.manual = manual, !.frozen = capture]
    BY DEF wait
  <2>. QED  BY <1>1, <2>1 DEF State
<1>8. TSt'
  <2>1. Has(st.run)'
    BY <1>4, <1>7 DEF Has, HasIn
  <2>. QED  BY <1>1, <1>7, <2>1 DEF TSt
<1>. QED  BY <1>4, <1>6, <1>7, <1>8

LEMMA LeavesTypes ==
  ASSUME TInv, Paused \/ Closed \/ Stays
  PROVE  TPoints' /\ TPacks' /\ TSt' /\ (clock' \in Nat /\ clock <= clock' => Timely')
<1>0. clock \in Nat
  BY DEF TInv, TFiles
<1>1. CASE Paused
  <2>1. PICK s \in State, m \in Manuals : s.run = st.run /\ Executing /\ wait(s, m)
    BY <1>1 DEF Paused
  <2>2. st' = [s EXCEPT !.status = "waiting", !.pc = "drive", !.manual = m, !.frozen = capture]
    BY <2>1, WaitTypes
  <2>3. st'.pc = "drive"
    BY <2>2 DEF State
  <2>4. Timely'
    BY <2>3 DEF Timely
  <2>. QED  BY <2>1, <2>4, WaitTypes
<1>2. CASE Closed
  <2>1. PICK s \in State, status \in Terminal : s.run = st.run /\ Live /\ finish(s, status)
    BY <1>2 DEF Closed
  <2>2. st' = Over(s, status)
    BY <2>1 DEF finish
  <2>3. st'.pc = "drive"
    BY <2>2, OverType
  <2>4. Timely'
    BY <2>3 DEF Timely
  <2>. QED  BY <2>1, <2>4, FinishTypes
<1>3. CASE Stays
  <2>1. Live /\ st.run \in Runs /\ Has(st.run)
    BY <1>3, ExecutingIsLive DEF Stays, TInv, TSt
  <2>2. TPoints' /\ TPacks'
    BY <1>3 DEF Stays, TInv, TPoints, OneEach, TPacks
  <2>3. Has(st.run)'
    BY <1>3, <2>1 DEF Has, Stays
  <2>4. st.shots.stirred \in Nat
    BY DEF TInv, TSt, State, Shots
  <2>5. clock' \in Nat /\ clock <= clock' => Timely'
    BY <1>0, <1>3, <2>4 DEF Stays, TInv, Timely
  <2>. QED  BY <1>3, <2>1, <2>2, <2>3, <2>5 DEF Stays, TSt
<1>. QED  BY <1>1, <1>2, <1>3

LEMMA KeyType ==
  ASSUME NEW s \in State, NEW step \in {"code", "review", "summary"}
  PROVE  /\ KeyOf(s, step) \in Keys
         /\ KeyOf(s, step)[1] = step /\ KeyOf(s, step)[3] = s.iteration
         /\ KeyOf(s, step)[2] = IF step = "review" THEN s.attempt ELSE 0
BY DEF KeyOf, Keys, State

LEMMA BeganType ==
  ASSUME NEW s \in State, NEW step \in {"code", "review", "summary"}
  PROVE  /\ Began(s, step) \in State /\ Began(s, step).run = s.run
         /\ Began(s, step).frozen = s.frozen
BY KeyType DEF Began, State

LEMMA VerdictType ==
  ASSUME NEW s \in State, NEW verdict \in Verdicts
  PROVE  LET z == [s EXCEPT !.verdict = verdict] IN z \in State /\ z.run = s.run
BY DEF State

LEMMA UnableTypes ==
  ASSUME NEW s \in State, s.run = st.run, s.frozen = st.frozen, Executing, unable(s)
  PROVE  Paused \/ Closed
<1>1. CASE s.review_agent
  <2>. DEFINE z == [s EXCEPT !.review_agent = FALSE, !.verdict = "unable_to_review"]
  <2>1. wait(z, "review_unavailable")
    BY <1>1 DEF unable
  <2>2. z \in State /\ z.run = st.run
    BY DEF State, Verdicts
  <2>3. "review_unavailable" \in Manuals
    BY DEF Manuals
  <2>. HIDE DEF z
  <2>. QED  BY <2>1, <2>2, <2>3 DEF Paused
<1>2. CASE ~s.review_agent /\ KeyOf(s, "review") \in s.agents
  <2>. DEFINE z == [s EXCEPT !.duplicate = TRUE]
  <2>1. finish(z, "failed")
    BY <1>2 DEF unable
  <2>2. z \in State /\ z.run = st.run /\ z.frozen = st.frozen
    BY DEF State
  <2>. HIDE DEF z
  <2>. QED  BY <2>1, <2>2, ExecutingIsLive DEF Closed, Terminal
<1>3. CASE ~s.review_agent /\ KeyOf(s, "review") \notin s.agents
  <2>. DEFINE b == Began(s, "review")
              z == [b EXCEPT !.verdict = "unable_to_review"]
  <2>1. wait(z, "review_unavailable")
    BY <1>3 DEF unable
  <2>2. b \in State /\ b.run = st.run
    BY BeganType
  <2>. HIDE DEF b
  <2>3. z \in State /\ z.run = st.run
    BY <2>2, VerdictType DEF Verdicts
  <2>. HIDE DEF z
  <2>4. "review_unavailable" \in Manuals
    BY DEF Manuals
  <2>. QED  BY <2>1, <2>3, <2>4 DEF Paused
<1>. QED  BY <1>1, <1>2, <1>3

LEMMA PointsStay ==
  ASSUME TInv, Paused \/ Closed \/ Stays
  PROVE  \A q : HasIn(points, q) => HasIn(points', q)
<1>1. ASSUME NEW status \in Terminal \cup {"running"}, NEW snapshot \in Snapshot \cup {None}, Live,
             finish_run(st.run, status, snapshot)
      PROVE  \A q : HasIn(points, q) => HasIn(points', q)
  BY <1>1, FinishRun DEF TInv, TSt
<1>2. CASE Paused
  <2>1. Live /\ finish_run(st.run, "running", None)
    BY <1>2, ExecutingIsLive DEF Paused, wait
  <2>. QED  BY <1>1, <2>1
<1>3. CASE Closed
  <2>1. PICK s \in State, status \in Terminal : s.run = st.run /\ Live /\ finish(s, status)
    BY <1>3 DEF Closed
  <2>2. finish_run(st.run, status, s.frozen) /\ s.frozen \in Snapshot \cup {None}
    BY <2>1 DEF finish, State
  <2>. QED  BY <1>1, <2>1, <2>2
<1>4. CASE Stays
  BY <1>4 DEF Stays
<1>. QED  BY <1>2, <1>3, <1>4

(* The steps of a stage. *)
Stage == \/ Code \/ CodeAsks \/ Capture \/ Shoot \/ CaptureEnds \/ CaptureFails
         \/ Review \/ ReviewFails \/ (\E reply \in Replies : ReviewEnds(reply))
         \/ Summary \/ Fails \/ (\E status \in {"cancelled", "failed"} : Stop(status))

LEMMA StopLeaves ==
  ASSUME TInv, NEW status \in {"cancelled", "failed"}, Stop(status)
  PROVE  Closed
BY DEF Stop, Closed, Live, Terminal, TInv, TSt

LEMMA FailsLeaves == ASSUME TInv, Fails PROVE Closed
BY ExecutingIsLive DEF Fails, Closed, Terminal, TInv, TSt

LEMMA SummaryLeaves == ASSUME TInv, Summary PROVE Closed
<1>1. st \in State /\ Live /\ finish(Began(st, "summary"), "completed")
  BY ExecutingIsLive DEF Summary, At, TInv, TSt
<1>2. Began(st, "summary") \in State /\ Began(st, "summary").run = st.run /\ Began(st, "summary").frozen = st.frozen
  BY <1>1, BeganType
<1>. QED  BY <1>1, <1>2 DEF Closed, Terminal

LEMMA CodeLeaves == ASSUME TInv, Code PROVE Closed \/ Stays
<1>1. st \in State /\ Executing
  BY DEF Code, At, TInv, TSt
<1>2. CASE ~st.graph /\ KeyOf(st, "code") \in st.agents
  <2>1. finish([st EXCEPT !.duplicate = TRUE], "failed")
    BY <1>2 DEF Code
  <2>. DEFINE z == [st EXCEPT !.duplicate = TRUE]
  <2>2. z \in State /\ z.run = st.run /\ z.frozen = st.frozen
    BY <1>1 DEF State
  <2>3. finish(z, "failed") /\ "failed" \in Terminal /\ Live
    BY <1>1, <2>1, ExecutingIsLive DEF Terminal
  <2>. HIDE DEF z
  <2>. QED  BY <2>2, <2>3 DEF Closed
<1>3. CASE ~(~st.graph /\ KeyOf(st, "code") \in st.agents)
  <2>. DEFINE s == IF st.graph THEN st ELSE Began(st, "code")
  <2>1. s \in State /\ s.run = st.run /\ s.frozen = st.frozen /\ s.status = "running"
    <3>1. Began(st, "code").status = st.status
      BY <1>1 DEF Began, State
    <3>. QED  BY <1>1, <3>1, BeganType DEF Executing
  <2>2. st' = [s EXCEPT !.graph = TRUE, !.pc = "coding"] /\ UNCHANGED <<points, packs>>
    BY <1>3 DEF Code
  <2>. HIDE DEF s
  <2>3. st' \in State /\ st'.run = st.run /\ st'.frozen = st.frozen /\ st'.status = "running" /\ st'.pc = "coding"
    BY <2>1, <2>2 DEF State
  <2>. QED  BY <1>1, <2>2, <2>3 DEF Stays
<1>. QED  BY <1>2, <1>3

LEMMA CodedType ==
  ASSUME TInv
  PROVE  /\ Coded \in State /\ Coded.run = st.run /\ Coded.status = st.status /\ Coded.frozen = st.frozen
         /\ Coded.pc = "drive" /\ Coded.phase = (IF st.kind = "single" THEN "code" ELSE "capture")
         /\ Coded.duplicate = st.duplicate /\ Coded.agents = st.agents /\ Coded.graph = FALSE
         /\ Coded.iteration = st.iteration /\ Coded.attempt = st.attempt
         /\ Coded.review_agent = st.review_agent
<1>. DEFINE tree == capture.tree
            phase == IF st.kind = "single" THEN "code" ELSE "capture"
            s == Coded
<1>1. st \in State /\ tree \in Tree /\ phase \in Phases
  BY CaptureType DEF TInv, TSt, Phases
<1>2. s = [st EXCEPT !.graph = FALSE, !.code_tree = tree, !.pc = "drive", !.phase = phase]
  BY DEF Coded
<1>. HIDE DEF tree, phase, s
<1>3. s \in State
  BY <1>1, <1>2 DEF State
<1>4. s.run = st.run /\ s.status = st.status /\ s.frozen = st.frozen /\ s.pc = "drive" /\ s.phase = phase
  BY <1>1, <1>2 DEF State
<1>5. /\ s.duplicate = st.duplicate /\ s.agents = st.agents /\ s.graph = FALSE
      /\ s.iteration = st.iteration /\ s.attempt = st.attempt /\ s.review_agent = st.review_agent
  BY <1>1, <1>2 DEF State
<1>. QED  BY <1>3, <1>4, <1>5 DEF s, phase

LEMMA CodeAsksLeaves == ASSUME TInv, CodeAsks PROVE Paused
BY DEF CodeAsks, Paused, At, Manuals, TInv, TSt

LEMMA CaptureLeaves == ASSUME TInv, Capture PROVE Paused \/ Closed \/ Stays
<1>1. st \in State /\ Executing /\ clock \in Nat
  BY DEF Capture, At, TInv, TSt, TFiles
<1>2. CASE wait(st, "preview")
  BY <1>1, <1>2 DEF Paused, Manuals
<1>3. CASE unable(st)
  BY <1>1, <1>3, UnableTypes
<1>4. CASE wait(st, "capture_approval")
  BY <1>1, <1>4 DEF Paused, Manuals
<1>. DEFINE s == [st EXCEPT !.capture_approved = TRUE]
            shots == [NoShots EXCEPT !.stirred = clock]
<1>5. s \in State /\ s.run = st.run /\ s.frozen = st.frozen /\ s.status = "running"
  BY <1>1 DEF State, Executing
<1>6. shots \in Shots /\ shots.stirred = clock
  BY <1>1 DEF NoShots, Shots
<1>7. CASE unable(s)
  <2>. HIDE DEF s
  <2>. QED  BY <1>1, <1>5, <1>7, UnableTypes
<1>8. CASE st' = [s EXCEPT !.pc = "shooting", !.shots = shots] /\ UNCHANGED <<points, packs>>
  <2>. HIDE DEF s, shots
  <2>1. st' \in State /\ st'.run = st.run /\ st'.frozen = st.frozen /\ st'.status = "running" /\ st'.shots = shots
    BY <1>5, <1>6, <1>8 DEF State
  <2>. QED  BY <1>1, <1>6, <1>8, <2>1 DEF Stays
<1>9. \/ wait(st, "preview") \/ unable(st) \/ wait(st, "capture_approval") \/ unable(s)
      \/ (st' = [s EXCEPT !.pc = "shooting", !.shots = shots] /\ UNCHANGED <<points, packs>>)
  BY DEF Capture
<1>. QED  BY <1>2, <1>3, <1>4, <1>7, <1>8, <1>9

LEMMA ShootLeaves == ASSUME TInv, Shoot PROVE Stays
<1>1. st \in State /\ Executing /\ st.status = "running" /\ st.pc = "shooting" /\ capture.tree \in Tree
  BY CaptureType DEF Shoot, At, Executing, TInv, TSt
<1>. DEFINE shots == [st.shots EXCEPT !.tree = capture.tree, !.iteration = st.iteration]
<1>2. shots \in Shots /\ shots.stirred = st.shots.stirred
  BY <1>1 DEF State, Shots
<1>3. st' = [st EXCEPT !.shots = shots] /\ UNCHANGED <<points, packs>>
  BY <1>1 DEF Shoot, State, Shots
<1>. HIDE DEF shots
<1>4. st' \in State /\ st'.run = st.run /\ st'.frozen = st.frozen /\ st'.status = "running" /\ st'.pc = "shooting" /\ st'.shots = shots
  BY <1>1, <1>2, <1>3 DEF State
<1>. QED  BY <1>1, <1>2, <1>3, <1>4 DEF Stays

LEMMA CaptureEndsLeaves == ASSUME TInv, CaptureEnds PROVE Paused \/ Closed \/ Stays
<1>1. /\ st \in State /\ Executing /\ st.status = "running" /\ clock \in Nat
      /\ st.shots \in Shots /\ st.shots.stirred <= clock
  BY DEF CaptureEnds, At, Executing, TInv, TSt, TFiles, State, Timely
<1>2. CASE unable(st)
  BY <1>1, <1>2, UnableTypes
<1>. DEFINE shots == [st.shots EXCEPT !.stirred = clock - @]
<1>3. shots \in Shots
  BY <1>1 DEF Shots
<1>4. CASE st' = [st EXCEPT !.pc = "drive", !.phase = "review", !.shots.stirred = clock - @]
             /\ UNCHANGED <<points, packs>>
  <2>1. st' = [st EXCEPT !.pc = "drive", !.phase = "review", !.shots = shots]
    BY <1>1, <1>4 DEF State, Shots
  <2>. HIDE DEF shots
  <2>2. st' \in State /\ st'.run = st.run /\ st'.frozen = st.frozen /\ st'.status = "running" /\ st'.pc = "drive"
    BY <1>1, <1>3, <2>1 DEF State, Phases
  <2>. QED  BY <1>1, <1>4, <2>2 DEF Stays
<1>. QED  BY <1>2, <1>4 DEF CaptureEnds

LEMMA CaptureFailsLeaves == ASSUME TInv, CaptureFails PROVE Paused \/ Closed
BY UnableTypes DEF CaptureFails, At, TInv, TSt

LEMMA ReviewLeaves == ASSUME TInv, Review PROVE Paused \/ Closed \/ Stays
<1>1. st \in State /\ Executing /\ st.status = "running"
  BY DEF Review, At, TInv, TSt, Executing
<1>2. CASE unable(st)
  BY <1>1, <1>2, UnableTypes
<1>. DEFINE b == Began(st, "review")
<1>3. CASE st' = [b EXCEPT !.review_agent = TRUE, !.pc = "reviewing"] /\ UNCHANGED <<points, packs>>
  <2>1. b \in State /\ b.run = st.run /\ b.frozen = st.frozen /\ b.status = "running"
    BY <1>1, BeganType DEF Began, State
  <2>. HIDE DEF b
  <2>2. st' \in State /\ st'.run = st.run /\ st'.frozen = st.frozen /\ st'.status = "running" /\ st'.pc = "reviewing"
    BY <1>3, <2>1 DEF State
  <2>. QED  BY <1>1, <1>3, <2>2 DEF Stays
<1>. QED  BY <1>2, <1>3 DEF Review

LEMMA ReviewFailsLeaves == ASSUME TInv, ReviewFails PROVE Paused \/ Closed
BY UnableTypes DEF ReviewFails, At, TInv, TSt

LEMMA TurnTypes ==
  ASSUME NEW s \in State
  PROVE  /\ LET z == [s EXCEPT !.phase = "summary"] IN
            z \in State /\ z.run = s.run /\ z.frozen = s.frozen /\ z.status = s.status /\ z.pc = s.pc
         /\ LET z == [s EXCEPT !.phase = "code", !.iteration = s.iteration + 1] IN
            z \in State /\ z.run = s.run /\ z.frozen = s.frozen /\ z.status = s.status /\ z.pc = s.pc
<1>1. LET z == [s EXCEPT !.phase = "summary"] IN
      z \in State /\ z.run = s.run /\ z.frozen = s.frozen /\ z.status = s.status /\ z.pc = s.pc
  BY DEF State, Phases
<1>2. s.iteration + 1 \in Nat
  BY DEF State
<1>3. LET z == [s EXCEPT !.phase = "code", !.iteration = s.iteration + 1] IN
      z \in State /\ z.run = s.run /\ z.frozen = s.frozen /\ z.status = s.status /\ z.pc = s.pc
  BY <1>2 DEF State, Phases
<1>. QED  BY <1>1, <1>3

LEMMA ReviewEndsLeaves ==
  ASSUME TInv, NEW reply \in Replies, ReviewEnds(reply)
  PROVE  Paused \/ Stays
<1>1. st \in State /\ Executing /\ st.status = "running"
  BY DEF ReviewEnds, At, TInv, TSt, Executing
<1>. DEFINE s == Reviewed(reply)
<1>2. Verdict(reply) \in Verdicts
  BY DEF Verdict, Replies, Verdicts
<1>3. s = [st EXCEPT !.review_agent = FALSE, !.verdict = Verdict(reply), !.pc = "drive"]
  BY DEF Reviewed
<1>4. /\ s \in State /\ s.run = st.run /\ s.frozen = st.frozen /\ s.status = "running" /\ s.pc = "drive"
      /\ s.iteration \in Nat
  <2>. HIDE DEF s
  <2>. QED  BY <1>1, <1>2, <1>3 DEF State
<1>5. \/ wait(s, "review_unavailable") \/ wait(s, "review_limit")
      \/ /\ st' = (IF s.verdict = "passed" THEN [s EXCEPT !.phase = "summary"]
                   ELSE [s EXCEPT !.phase = "code", !.iteration = @ + 1])
         /\ UNCHANGED <<points, packs>>
  BY DEF ReviewEnds
<1>. HIDE DEF s
<1>6. CASE wait(s, "review_unavailable") \/ wait(s, "review_limit")
  BY <1>1, <1>4, <1>6 DEF Paused, Manuals
<1>7. CASE /\ st' = (IF s.verdict = "passed" THEN [s EXCEPT !.phase = "summary"]
                     ELSE [s EXCEPT !.phase = "code", !.iteration = @ + 1])
           /\ UNCHANGED <<points, packs>>
  <2>3. st' \in State /\ st'.run = st.run /\ st'.frozen = st.frozen /\ st'.status = "running" /\ st'.pc = "drive"
    BY <1>4, <1>7, TurnTypes
  <2>. QED  BY <1>1, <1>7, <2>3 DEF Stays
<1>. QED  BY <1>5, <1>6, <1>7

LEMMA StageLeaves ==
  ASSUME TInv, Stage
  PROVE  Paused \/ Closed \/ Stays
BY StopLeaves, FailsLeaves, SummaryLeaves, CodeLeaves, CodeAsksLeaves, CaptureLeaves, ShootLeaves,
   CaptureEndsLeaves, CaptureFailsLeaves, ReviewLeaves, ReviewFailsLeaves, ReviewEndsLeaves DEF Stage

(* The operations on files and index. *)
LEMMA EditTypes ==
  ASSUME TFiles, TRb, NEW p \in Paths, NEW r \in Runs \cup {0}, clock < MaxClock, edit(p, r)
  PROVE  wt' \in [Paths -> File] /\ clock' = clock + 1 /\ clock' \in Nat /\ TRb'
<1>1. clock \in Nat /\ clock + 1 \in 0..MaxClock /\ clock + 1 \in Nat
  BY Small DEF TFiles
<1>2. [n |-> clock + 1, by |-> r] \in Content
  BY <1>1 DEF Content
<1>3. \A c \in Content : [c |-> c, t |-> clock + 1] \in File
  BY <1>1 DEF File
<1>4. wt' \in [Paths -> File]
  BY <1>2, <1>3, Small DEF edit, TFiles
<1>5. TRb'
  <2>1. CASE rb = None
    BY <2>1 DEF edit, TRb
  <2>2. CASE rb # None
    <3>1. rb' = [rb EXCEPT !.edited = @ \cup {p}] /\ rb \in RbType
      BY <2>2 DEF edit, TRb
    <3>. QED  BY <3>1 DEF TRb, RbType
  <2>. QED  BY <2>1, <2>2
<1>. QED  BY <1>1, <1>4, <1>5 DEF edit

LEMMA StagedType ==
  ASSUME NEW i \in Index, NEW p \in Paths
  PROVE  Staged(i, p) \in File
BY Small DEF Staged, Index

LEMMA RefreshedType ==
  ASSUME NEW i \in Index, NEW files \in [Paths -> File]
  PROVE  Refreshed(i, files) \in Index
BY DEF Refreshed, Index

LEMMA StageTypes ==
  ASSUME TFiles, wt' \in [Paths -> File], NEW p \in Paths, stage(p)
  PROVE  index' \in Index
<1>1. \A q \in Paths : (IF q # p THEN Staged(index, q)
                        ELSE IF wt'[q].c = NoContent THEN Absent ELSE wt'[q]) \in File
  BY StagedType, Small DEF TFiles
<1>2. index' \in [Paths -> File]
  BY <1>1 DEF stage
<1>. QED  BY <1>2 DEF Index

LEMMA CommitTypes ==
  ASSUME TFiles, NEW branch \in {"main", "topic"}, clock < MaxClock, commit(branch)
  PROVE  /\ head' \in [id : 0..MaxClock, branch : {"main", "topic"}, tree : Tree]
         /\ clock' = clock + 1 /\ clock' \in Nat
<1>1. clock \in Nat /\ clock + 1 \in 0..MaxClock /\ clock + 1 \in Nat
  BY Small DEF TFiles
<1>2. index \in [Paths -> File]
  BY DEF TFiles, Index, commit
<1>3. [p \in Paths |-> index[p].c] \in Tree
  BY <1>2 DEF Tree, File
<1>. QED  BY <1>1, <1>3 DEF commit

LEMMA PathTypes ==
  ASSUME TFiles, rb \in RbType, NEW p \in Scope, restore_path(p)
  PROVE  /\ wt' \in [Paths -> File] /\ index' \in Index /\ clock' = clock + 1 /\ clock' \in Nat
         /\ rb' \in RbType /\ rb' = [rb EXCEPT !.todo = rb.todo \ {p}]
<1>1. clock \in Nat /\ clock + 1 \in Nat /\ rb.target.tree[p] \in Content /\ p \in Paths
  BY Small DEF TFiles, RbType, Snapshot, Tree
<1>. DEFINE file == [c |-> rb.target.tree[p], t |-> clock + 1]
<1>2. file \in File
  BY <1>1 DEF File
<1>3. wt' = [wt EXCEPT ![p] = file] /\ clock' = clock + 1 /\ rb' = [rb EXCEPT !.todo = rb.todo \ {p}]
  BY DEF restore_path
<1>4. index' = index \/ index' = [q \in Paths |-> IF q = p THEN file ELSE Staged(index, q)]
  BY DEF restore_path
<1>. HIDE DEF file
<1>5. wt' \in [Paths -> File]
  BY <1>2, <1>3 DEF TFiles
<1>6. index' \in Index
  <2>1. [q \in Paths |-> IF q = p THEN file ELSE Staged(index, q)] \in [Paths -> File]
    BY <1>2, StagedType DEF TFiles
  <2>. QED  BY <1>4, <2>1 DEF Index, TFiles
<1>7. rb' \in RbType
  BY <1>3 DEF RbType
<1>. QED  BY <1>1, <1>3, <1>5, <1>6, <1>7

LEMMA RevertedTypes ==
  ASSUME TPoints, NEW r, Has(r), points' = Put([checkpoint(r) EXCEPT !.reverted = TRUE])
  PROVE  LET k == [PointIn(points, r) EXCEPT !.reverted = TRUE] IN
         /\ TPoints' /\ k \in Point /\ k.run = r /\ k.before = PointIn(points, r).before
         /\ k.after = PointIn(points, r).after
         /\ \A q : HasIn(points', q) <=> HasIn(points, q)
         /\ \A q : HasIn(points, q) => PointIn(points', q) = IF q = r THEN k ELSE PointIn(points, q)
         /\ \A i \in DOMAIN points : points'[i] = k \/ points'[i] = points[i]
         /\ DOMAIN points' = DOMAIN points
         /\ points' = Put(k)
<1>. DEFINE k == [PointIn(points, r) EXCEPT !.reverted = TRUE]
<1>1. HasIn(points, r) /\ checkpoint(r) = PointIn(points, r)
  BY DEF Has, HasIn, checkpoint, PointIn
<1>2. PointIn(points, r) \in Point /\ PointIn(points, r).run = r
  BY <1>1, PointIs DEF TPoints
<1>3. k \in Point /\ k.run = r /\ k.before = PointIn(points, r).before /\ k.after = PointIn(points, r).after
  BY <1>2 DEF Point
<1>4. points' = Put(k)
  BY <1>1
<1>. HIDE DEF k
<1>5. points' \in Seq(Point) /\ OneEach(points') /\ DOMAIN points' = DOMAIN points
  BY <1>3, <1>4, PutKeeps DEF TPoints
<1>6. /\ \A q : HasIn(points', q) <=> HasIn(points, q)
      /\ \A q : HasIn(points, q) => PointIn(points', q) = IF q = r THEN k ELSE PointIn(points, q)
      /\ \A i \in DOMAIN points : points'[i] = k \/ points'[i] = points[i]
  <2>1. /\ \A q : HasIn(Put(k), q) <=> HasIn(points, q)
        /\ \A q : HasIn(points, q) => PointIn(Put(k), q) = IF q = k.run THEN k ELSE PointIn(points, q)
        /\ \A i \in DOMAIN points : Put(k)[i] = k \/ Put(k)[i] = points[i]
    BY <1>3, PutKeeps DEF TPoints
  <2>. QED  BY <1>3, <1>4, <2>1
<1>7. TPoints'
  BY <1>5 DEF TPoints
<1>. QED  BY <1>3, <1>4, <1>5, <1>6, <1>7 DEF k

(* The state of a run is left alone. *)
LEMMA SameRun ==
  ASSUME TInv, UNCHANGED <<st, packs, preview>>, clock' \in Nat, clock <= clock',
         \A q : HasIn(points', q) <=> HasIn(points, q)
  PROVE  TPacks' /\ TSt' /\ Timely' /\ preview' \in BOOLEAN
<1>1. TPacks' /\ preview' \in BOOLEAN
  BY DEF TInv, TPacks
<1>2. Has(st.run)' <=> Has(st.run)
  BY DEF Has, HasIn
<1>3. TSt'
  BY <1>2 DEF TInv, TSt, Live
<1>4. st.shots.stirred \in Nat /\ clock \in Nat
  BY DEF TInv, TSt, State, Shots, TFiles
<1>5. Timely'
  BY <1>4 DEF TInv, Timely
<1>. QED  BY <1>1, <1>3, <1>5

LEMMA InitTypes == Init => TInv
<1>. SUFFICES ASSUME Init PROVE TInv
  OBVIOUS
<1>1. MaxClock \in Nat /\ 1 \in 0..MaxClock /\ 0 \in 0..MaxClock
  BY ClockBounded
<1>. DEFINE file == [c |-> [n |-> 1, by |-> 0], t |-> 1]
<1>2. file \in File /\ file.c \in Content
  BY <1>1 DEF File, Content
<1>3. TFiles
  <2>1. PICK born \in BOOLEAN :
          /\ wt    = [p \in Paths |-> file]
          /\ index = IF born THEN [p \in Paths |-> file] ELSE None
          /\ head  = [id |-> IF born THEN 1 ELSE 0, branch |-> "main",
                      tree |-> [p \in Paths |-> IF born THEN file.c ELSE NoContent]]
    BY DEF Init
  <2>. HIDE DEF file
  <2>2. wt \in [Paths -> File] /\ index \in Index
    BY <1>2, <2>1 DEF Index
  <2>3. [p \in Paths |-> IF born THEN file.c ELSE NoContent] \in Tree
    BY <1>2, Small DEF Tree
  <2>4. head \in [id : 0..MaxClock, branch : {"main", "topic"}, tree : Tree]
    BY <1>1, <2>1, <2>3
  <2>. QED  BY <2>2, <2>4 DEF TFiles, Init
<1>4. TPoints
  BY DEF Init, TPoints, OneEach, None
<1>5. TPacks /\ TRb /\ RbHas /\ preview \in BOOLEAN
  BY DEF Init, TPacks, Packs, TRb, RbHas
<1>6. TSt /\ Timely
  <2>. DEFINE f == Fresh(0, "single", "always")
  <2>1. f \in State /\ f.pc = "drive"
    BY FreshType DEF Kinds, Modes, Fresh
  <2>2. st = [f EXCEPT !.status = "interrupted"]
    BY DEF Init
  <2>. HIDE DEF f
  <2>3. st \in State /\ st.status = "interrupted" /\ st.pc = "drive"
    BY <2>1, <2>2 DEF State, Terminal
  <2>. QED  BY <2>3 DEF TSt, Live, Timely
<1>. QED  BY <1>3, <1>4, <1>5, <1>6 DEF TInv

LEMMA StageTInv ==
  ASSUME TInv, Stage
  PROVE  TInv'
<1>1. UNCHANGED <<wt, head, clock, rb, preview>> /\ (index' = index \/ index' = Refreshed(index, wt))
  BY DEF Stage, Code, CodeAsks, Capture, Shoot, CaptureEnds, CaptureFails, Review, ReviewFails,
         ReviewEnds, Summary, Fails, Stop, World, Files, porcelain_status
<1>2. clock \in Nat /\ clock <= clock /\ index' \in Index
  BY <1>1, RefreshedType DEF TInv, TFiles
<1>3. TFiles'
  BY <1>1, <1>2 DEF TInv, TFiles
<1>4. TPoints' /\ TPacks' /\ TSt' /\ Timely'
  BY <1>1, <1>2, StageLeaves, LeavesTypes
<1>5. TRb' /\ preview' \in BOOLEAN
  BY <1>1 DEF TInv, TRb
<1>6. \A q : HasIn(points, q) => HasIn(points', q)
  BY StageLeaves, PointsStay
<1>7. RbHas'
  BY <1>1, <1>6 DEF TInv, RbHas, Has, HasIn
<1>. QED  BY <1>3, <1>4, <1>5, <1>7 DEF TInv

LEMMA StartTInv ==
  ASSUME TInv, NEW kind \in Kinds, NEW mode \in Modes, Start(kind, mode)
  PROVE  TInv' /\ st.run + 1 \in Runs /\ st' = Fresh(st.run + 1, kind, mode)
<1>. DEFINE r == st.run + 1
            k == [run |-> r, before |-> capture, after |-> None,
                  status |-> "running", reverted |-> FALSE, restored |-> FALSE]
<1>1. r \in Runs /\ st' = Fresh(r, kind, mode) /\ UNCHANGED <<wt, index, head, clock, rb, preview, packs>>
  BY DEF Start, World, Files
<1>2. k \in Point /\ k.run = r
  BY <1>1, CaptureType DEF Point, TInv, Terminal
<1>3. points' = Append(points, k) /\ ~Has(r) /\ rb = None
  BY DEF Start, begin_run
<1>4. st' \in State /\ st'.run = r /\ st'.pc = "drive"
  BY <1>1, FreshType DEF Fresh
<1>. HIDE DEF r, k
<1>5. TPoints' /\ HasIn(points', r)
  BY <1>2, <1>3, AppendKeeps DEF TInv, TPoints
<1>6. TSt' /\ Timely'
  BY <1>1, <1>4, <1>5 DEF TSt, Timely, Has, HasIn
<1>7. TFiles' /\ TPacks' /\ TRb' /\ RbHas' /\ preview' \in BOOLEAN
  BY <1>1, <1>3 DEF TInv, TFiles, TPacks, TRb, RbHas
<1>. QED  BY <1>1, <1>5, <1>6, <1>7 DEF TInv, r

LEMMA CodeEndsTInv ==
  ASSUME TInv, CodeEnds
  PROVE  TInv'
<1>1. /\ st \in State /\ Executing /\ Live /\ st.run \in Runs /\ Has(st.run) /\ clock \in Nat
      /\ capture.tree \in Tree /\ UNCHANGED <<wt, index, head, clock, rb, preview>>
  BY ExecutingIsLive, CaptureType DEF CodeEnds, At, TInv, TSt, TFiles, World, Files
<1>2. /\ Coded \in State /\ Coded.run = st.run /\ Coded.status = st.status /\ Coded.pc = "drive"
      /\ Coded.frozen = st.frozen
  BY CodedType
<1>3. TFiles' /\ TRb' /\ preview' \in BOOLEAN
  BY <1>1 DEF TInv, TFiles, TRb
<1>4. CASE st.kind = "single"
  <2>1. finish(Coded, "completed") /\ "completed" \in Terminal
    BY <1>4 DEF CodeEnds, Terminal
  <2>2. Closed
    BY <1>1, <1>2, <2>1 DEF Closed
  <2>3. TPoints' /\ TPacks' /\ TSt' /\ Timely'
    BY <1>1, <2>2, LeavesTypes
  <2>4. \A q : HasIn(points, q) => HasIn(points', q)
    BY <2>2, PointsStay
  <2>5. RbHas'
    BY <1>1, <2>4 DEF TInv, RbHas, Has, HasIn
  <2>. QED  BY <1>3, <2>3, <2>5 DEF TInv
<1>5. CASE st.kind # "single"
  <2>1. st' = Coded /\ finish_run(st.run, "running", None) /\ UNCHANGED packs
    BY <1>5 DEF CodeEnds
  <2>2. TPoints' /\ \A q : HasIn(points', q) <=> HasIn(points, q)
    <3>1. "running" \in Terminal \cup {"running"} /\ None \in Snapshot \cup {None}
      OBVIOUS
    <3>. QED  BY <1>1, <2>1, <3>1, FinishRun DEF TInv
  <2>3. TSt' /\ Timely'
    BY <1>1, <1>2, <2>1, <2>2 DEF TInv, TSt, Has, HasIn, Live, Timely
  <2>4. RbHas' /\ TPacks'
    BY <1>1, <2>1, <2>2 DEF TInv, RbHas, Has, HasIn, TPacks
  <2>. QED  BY <1>3, <2>2, <2>3, <2>4 DEF TInv
<1>. QED  BY <1>4, <1>5

LEMMA InsideType == ASSUME TInv PROVE Inside \in Runs \cup {0}
BY ExecutingIsLive DEF TInv, TSt, Inside

LEMMA EditTInv ==
  ASSUME TInv, NEW p \in Paths, NEW r \in Runs \cup {0}, clock < MaxClock, edit(p, r),
         index' \in Index, UNCHANGED <<head, points, packs, st, preview>>
  PROVE  TInv' /\ clock' = clock + 1
<1>1. wt' \in [Paths -> File] /\ clock' = clock + 1 /\ clock' \in Nat /\ TRb' /\ clock \in Nat
  BY EditTypes DEF TInv, TFiles
<1>2. TFiles' /\ TPoints'
  BY <1>1 DEF TInv, TFiles, TPoints, OneEach
<1>3. clock <= clock'
  BY <1>1
<1>4. TPacks' /\ TSt' /\ Timely' /\ preview' \in BOOLEAN
  BY <1>1, <1>3, SameRun
<1>5. RbHas'
  <2>1. CASE rb = None
    BY <2>1 DEF edit, RbHas
  <2>2. CASE rb # None
    <3>1. rb' = [rb EXCEPT !.edited = @ \cup {p}] /\ rb \in RbType /\ Has(rb.run)
      BY <2>2 DEF edit, TInv, TRb, RbHas
    <3>2. rb'.run = rb.run
      BY <3>1 DEF RbType
    <3>. QED  BY <3>1, <3>2 DEF RbHas, Has
  <2>. QED  BY <2>1, <2>2
<1>. QED  BY <1>1, <1>2, <1>4, <1>5 DEF TInv

LEMMA CodeWritesTInv ==
  ASSUME TInv, NEW p \in Scope, CodeWrites(p)
  PROVE  TInv' /\ clock' = clock + 1
<1>1. st.run \in Runs \cup {0} /\ index \in Index /\ p \in Paths
  BY Small DEF TInv, TSt, State, TFiles
<1>2. edit(p, st.run) /\ clock < MaxClock /\ UNCHANGED <<index, head, points, packs, st, preview>>
  BY DEF CodeWrites
<1>. QED  BY <1>1, <1>2, EditTInv

LEMMA UserEditsTInv ==
  ASSUME TInv, NEW p \in Scope, UserEdits(p)
  PROVE  TInv' /\ clock' = clock + 1
<1>1. Inside \in Runs \cup {0} /\ index \in Index /\ p \in Paths
  BY Small, InsideType DEF TInv, TFiles
<1>2. edit(p, Inside) /\ clock < MaxClock /\ UNCHANGED <<index, head, points, packs, st, preview>>
  BY DEF UserEdits
<1>. QED  BY <1>1, <1>2, EditTInv

LEMMA UserStagesTInv ==
  ASSUME TInv, NEW p \in Paths, UserStages(p)
  PROVE  TInv'
<1>1. stage(p) /\ UNCHANGED <<head, points, packs, st, preview>>
  BY DEF UserStages
<1>2. CASE p \in Scope
  <2>1. UNCHANGED <<wt, clock, rb>>
    BY <1>2 DEF UserStages
  <2>2. index' \in Index /\ clock \in Nat
    BY <1>1, <2>1, StageTypes DEF TInv, TFiles
  <2>3. TFiles' /\ TPoints' /\ TRb' /\ RbHas'
    BY <1>1, <2>1, <2>2 DEF TInv, TFiles, TPoints, OneEach, TRb, RbHas, Has
  <2>4. TPacks' /\ TSt' /\ Timely' /\ preview' \in BOOLEAN
    BY <1>1, <2>1, <2>2, SameRun
  <2>. QED  BY <2>3, <2>4 DEF TInv
<1>3. CASE p \notin Scope
  <2>1. clock < MaxClock /\ edit(p, Inside)
    BY <1>3 DEF UserStages
  <2>2. wt' \in [Paths -> File]
    BY <2>1, EditTypes, InsideType DEF TInv
  <2>3. index' \in Index
    BY <1>1, <2>2, StageTypes DEF TInv
  <2>. QED  BY <1>1, <2>1, <2>3, InsideType, EditTInv
<1>. QED  BY <1>2, <1>3

LEMMA UserCommitsTInv ==
  ASSUME TInv, NEW branch \in {"main", "topic"}, UserCommits(branch)
  PROVE  TInv' /\ clock' = clock + 1
<1>1. /\ head' \in [id : 0..MaxClock, branch : {"main", "topic"}, tree : Tree]
      /\ clock' = clock + 1 /\ clock' \in Nat /\ clock <= clock'
  BY CommitTypes DEF UserCommits, TInv, TFiles
<1>2. UNCHANGED <<wt, index, points, packs, rb, st, preview>>
  BY DEF UserCommits
<1>3. TFiles' /\ TPoints' /\ TRb' /\ RbHas'
  BY <1>1, <1>2 DEF TInv, TFiles, TPoints, OneEach, TRb, RbHas, Has
<1>4. TPacks' /\ TSt' /\ Timely' /\ preview' \in BOOLEAN
  BY <1>1, <1>2, SameRun
<1>. QED  BY <1>1, <1>3, <1>4 DEF TInv

LEMMA LookTInv ==
  ASSUME TInv, Look
  PROVE  TInv'
<1>1. UNCHANGED <<wt, head, points, packs, rb, clock, st, preview>> /\ index' = Refreshed(index, wt)
  BY DEF Look, porcelain_status
<1>2. index' \in Index /\ clock \in Nat
  BY <1>1, RefreshedType DEF TInv, TFiles
<1>3. TFiles' /\ TPoints' /\ TRb' /\ RbHas'
  BY <1>1, <1>2 DEF TInv, TFiles, TPoints, OneEach, TRb, RbHas, Has
<1>4. TPacks' /\ TSt' /\ Timely' /\ preview' \in BOOLEAN
  BY <1>1, <1>2, SameRun
<1>. QED  BY <1>3, <1>4 DEF TInv

LEMMA RollbackTInv ==
  ASSUME TInv, NEW r \in Runs, Rollback(r)
  PROVE  TInv'
<1>1. UNCHANGED <<wt, index, head, clock, points, packs, st, preview>> /\ rollback(r) /\ Has(r)
  BY DEF Rollback, Files, rollback, Revertable
<1>2. clock \in Nat /\ clock' = clock /\ clock <= clock'
  BY <1>1 DEF TInv, TFiles
<1>3. TFiles' /\ TPoints'
  BY <1>1 DEF TInv, TFiles, TPoints, OneEach
<1>4. TPacks' /\ TSt' /\ Timely' /\ preview' \in BOOLEAN
  BY <1>1, <1>2, SameRun
<1>5. checkpoint(r).before \in Snapshot
  BY <1>1, CheckpointType DEF TInv, Point
<1>6. rb' \in RbType /\ rb'.run = r
  BY <1>1, <1>5, CaptureType DEF rollback, RbType, Differ, TInv
<1>7. TRb' /\ RbHas'
  BY <1>1, <1>6 DEF TRb, RbHas, Has
<1>. QED  BY <1>3, <1>4, <1>7 DEF TInv

LEMMA RollbackPathTInv ==
  ASSUME TInv, NEW p \in Scope, RollbackPath(p)
  PROVE  TInv' /\ clock' = clock + 1
<1>1. UNCHANGED <<head, points, packs, st, preview>> /\ restore_path(p)
  BY DEF RollbackPath
<1>2. rb \in RbType /\ Has(rb.run)
  BY <1>1 DEF restore_path, TInv, TRb, RbHas
<1>3. /\ wt' \in [Paths -> File] /\ index' \in Index /\ clock' = clock + 1 /\ clock' \in Nat
      /\ rb' \in RbType /\ rb' = [rb EXCEPT !.todo = rb.todo \ {p}]
  BY <1>1, <1>2, PathTypes DEF TInv
<1>4. clock \in Nat /\ clock <= clock'
  BY <1>3 DEF TInv, TFiles
<1>5. TFiles' /\ TPoints'
  BY <1>1, <1>3 DEF TInv, TFiles, TPoints, OneEach
<1>6. TPacks' /\ TSt' /\ Timely' /\ preview' \in BOOLEAN
  BY <1>1, <1>3, <1>4, SameRun
<1>7. rb'.run = rb.run
  BY <1>2, <1>3 DEF RbType
<1>8. TRb' /\ RbHas'
  BY <1>1, <1>2, <1>3, <1>7 DEF TRb, RbHas, Has
<1>. QED  BY <1>3, <1>5, <1>6, <1>8 DEF TInv

LEMMA RollbackEndsTInv ==
  ASSUME TInv, RollbackEnds
  PROVE  TInv'
<1>1. UNCHANGED <<wt, head, packs, clock, st, preview>> /\ restore_index
  BY DEF RollbackEnds
<1>2. rb \in RbType /\ Has(rb.run) /\ rb' = None
  BY <1>1 DEF restore_index, TInv, TRb, RbHas
<1>3. index' \in Index /\ clock \in Nat
  <2>1. rb.target.index \in Index
    BY <1>2 DEF RbType, Snapshot
  <2>. QED  BY <1>1, <2>1, RefreshedType DEF restore_index, TInv, TFiles
<1>4. TPoints' /\ \A q : HasIn(points', q) <=> HasIn(points, q)
  <2>1. CASE rb.undo
    BY <1>1, <2>1 DEF restore_index, TInv, TPoints, OneEach
  <2>2. CASE ~rb.undo
    <3>1. points' = Put([checkpoint(rb.run) EXCEPT !.reverted = TRUE])
      BY <1>1, <2>2 DEF restore_index
    <3>. QED  BY <1>2, <3>1, RevertedTypes DEF TInv
  <2>. QED  BY <2>1, <2>2
<1>5. TFiles' /\ TRb' /\ RbHas'
  BY <1>1, <1>2, <1>3 DEF TInv, TFiles, TRb, RbHas
<1>6. TPacks' /\ TSt' /\ Timely' /\ preview' \in BOOLEAN
  BY <1>1, <1>3, <1>4, SameRun
<1>. QED  BY <1>4, <1>5, <1>6 DEF TInv

LEMMA RollbackFailsTInv ==
  ASSUME TInv, RollbackFails
  PROVE  TInv'
<1>1. UNCHANGED <<wt, index, head, clock, points, packs, st, preview>> /\ restore_fails
  BY DEF RollbackFails, Files
<1>2. clock \in Nat /\ clock <= clock
  BY DEF TInv, TFiles
<1>3. TFiles' /\ TPoints'
  BY <1>1 DEF TInv, TFiles, TPoints, OneEach
<1>4. TPacks' /\ TSt' /\ Timely' /\ preview' \in BOOLEAN
  BY <1>1, <1>2, SameRun
<1>5. rb \in RbType /\ Has(rb.run)
  BY <1>1 DEF restore_fails, TInv, TRb, RbHas
<1>8. TRb' /\ RbHas'
  <2>1. CASE rb.undo
    BY <1>1, <2>1 DEF restore_fails, TRb, RbHas
  <2>2. CASE ~rb.undo
    <3>1. Differ(rb.safety, capture) \in SUBSET Scope
      BY DEF Differ
    <3>2. rb' = [rb EXCEPT !.target = rb.safety, !.undo = TRUE, !.todo = Differ(rb.safety, capture)]
      BY <1>1, <2>2 DEF restore_fails
    <3>3. rb' \in RbType /\ rb'.run = rb.run
      BY <1>5, <3>1, <3>2 DEF RbType
    <3>. QED  BY <1>1, <1>5, <3>3 DEF TRb, RbHas, Has
  <2>. QED  BY <2>1, <2>2
<1>. QED  BY <1>3, <1>4, <1>8 DEF TInv

LEMMA RestartTInv ==
  ASSUME TInv, Restart
  PROVE  TInv'
<1>1. UNCHANGED <<wt, index, head, clock, preview>> /\ rb' = None
  BY DEF Restart, Files
<1>2. TFiles' /\ TRb' /\ RbHas' /\ preview' \in BOOLEAN
  BY <1>1 DEF TInv, TFiles, TRb, RbHas
<1>3. st \in State /\ capture \in Snapshot
  BY CaptureType DEF TInv, TSt
<1>. DEFINE back == st.status = "waiting" /\ Restorable(st.run)
<1>4. CASE back
  <2>1. st.run \in Runs /\ packs[st.run] # None /\ packs \in Packs
    BY <1>4 DEF Live, Restorable, TInv, TSt, TPacks
  <2>2. packs[st.run] \in [before : Snapshot, after : Snapshot, paused : Snapshot]
    BY <2>1 DEF Packs
  <2>. DEFINE k == [run |-> st.run, before |-> packs[st.run].before, after |-> packs[st.run].after,
                    status |-> "running", reverted |-> FALSE, restored |-> TRUE]
  <2>3. k \in Point /\ k.run = st.run
    BY <2>1, <2>2 DEF Point
  <2>4. points' = <<k>> /\ UNCHANGED packs /\ st' = [st EXCEPT !.capture_approved = FALSE, !.frozen = capture]
    BY <1>4 DEF Restart, restore_checkpoint
  <2>. HIDE DEF k
  <2>5. TPoints' /\ HasIn(points', st.run)
    BY <2>3, <2>4, OnePoint DEF TPoints
  <2>6. st' \in State /\ st'.run = st.run /\ st'.pc = st.pc /\ st'.shots = st.shots
    BY <1>3, <2>4 DEF State
  <2>7. TSt' /\ Timely'
    BY <1>1, <2>1, <2>5, <2>6 DEF TInv, TSt, Timely, Has, HasIn
  <2>8. TPacks'
    BY <2>4 DEF TInv, TPacks
  <2>. QED  BY <1>2, <2>5, <2>7, <2>8 DEF TInv
<1>5. CASE ~back
  <2>1. /\ points' = None /\ packs' = [r \in Runs |-> None]
        /\ st' = IF st.status \in Terminal THEN st ELSE Over(st, "interrupted")
    BY <1>5 DEF Restart
  <2>2. TPoints' /\ TPacks'
    BY <2>1 DEF TPoints, OneEach, None, TPacks, Packs
  <2>3. st' \in State /\ st'.status \in Terminal /\ (st'.pc = "shooting" => st' = st)
    <3>1. "interrupted" \in Terminal
      BY DEF Terminal
    <3>. QED  BY <1>3, <2>1, <3>1, OverType
  <2>4. TSt'
    BY <2>3 DEF TSt, Live, Terminal
  <2>5. Timely'
    BY <1>1, <2>3 DEF TInv, Timely
  <2>. QED  BY <1>2, <2>2, <2>4, <2>5 DEF TInv
<1>. QED  BY <1>4, <1>5

(* What an answer makes of a waiting run. *)
Follows(z, s) ==
  /\ z \in State /\ z.run = s.run /\ z.status = s.status /\ z.pc = s.pc
  /\ z.frozen = s.frozen /\ z.shots = s.shots

LEMMA AnswerTurns ==
  ASSUME NEW s \in State
  PROVE  /\ Follows([s EXCEPT !.capture_approved = TRUE], s)
         /\ Follows([s EXCEPT !.phase = "summary", !.accepted = TRUE], s)
         /\ Follows([s EXCEPT !.iteration = @ + 1, !.phase = "code", !.retries = @ + 1], s)
         /\ Follows([s EXCEPT !.attempt = @ + 1, !.phase = "capture", !.retries = @ + 1], s)
<1>1. s.iteration + 1 \in Nat /\ s.retries + 1 \in Nat /\ s.attempt + 1 \in Nat
  BY DEF State
<1>2. Follows([s EXCEPT !.capture_approved = TRUE], s)
  BY <1>1 DEF Follows, State, Phases
<1>3. Follows([s EXCEPT !.phase = "summary", !.accepted = TRUE], s)
  BY <1>1 DEF Follows, State, Phases
<1>4. Follows([s EXCEPT !.iteration = @ + 1, !.phase = "code", !.retries = @ + 1], s)
  BY <1>1 DEF Follows, State, Phases
<1>5. Follows([s EXCEPT !.attempt = @ + 1, !.phase = "capture", !.retries = @ + 1], s)
  BY <1>1 DEF Follows, State, Phases
<1>. QED  BY <1>2, <1>3, <1>4, <1>5

LEMMA ResumedType ==
  ASSUME st \in State, NEW answer
  PROVE  /\ Resumed(answer) \in State
         /\ Resumed(answer) = [st EXCEPT !.status = "running", !.manual = "", !.frozen = None]
         /\ Resumed(answer).run = st.run /\ Resumed(answer).status = "running"
         /\ Resumed(answer).pc = st.pc /\ Resumed(answer).frozen = None /\ Resumed(answer).shots = st.shots
<1>1. Resumed(answer) = [st EXCEPT !.status = "running", !.manual = "", !.frozen = None]
  BY DEF Resumed
<1>. QED  BY <1>1 DEF State, Manuals

LEMMA AnsweredType ==
  ASSUME st \in State, NEW answer
  PROVE  /\ Answered(answer) \in State /\ Answered(answer).run = st.run
         /\ Answered(answer).status = "running" /\ Answered(answer).pc = st.pc
         /\ Answered(answer).frozen = None /\ Answered(answer).shots = st.shots
<1>1. \A s : s = Resumed(answer) =>
        \/ Answered(answer) = [s EXCEPT !.capture_approved = TRUE]
        \/ Answered(answer) = [s EXCEPT !.phase = "summary", !.accepted = TRUE]
        \/ Answered(answer) = [s EXCEPT !.iteration = @ + 1, !.phase = "code", !.retries = @ + 1]
        \/ Answered(answer) = [s EXCEPT !.attempt = @ + 1, !.phase = "capture", !.retries = @ + 1]
        \/ Answered(answer) = s
  BY DEF Answered
<1>. DEFINE s == Resumed(answer)
<1>2. /\ s \in State /\ s.run = st.run /\ s.status = "running" /\ s.pc = st.pc
      /\ s.frozen = None /\ s.shots = st.shots
  BY ResumedType
<1>3. \/ Answered(answer) = [s EXCEPT !.capture_approved = TRUE]
      \/ Answered(answer) = [s EXCEPT !.phase = "summary", !.accepted = TRUE]
      \/ Answered(answer) = [s EXCEPT !.iteration = @ + 1, !.phase = "code", !.retries = @ + 1]
      \/ Answered(answer) = [s EXCEPT !.attempt = @ + 1, !.phase = "capture", !.retries = @ + 1]
      \/ Answered(answer) = s
  BY <1>1
<1>. HIDE DEF s
<1>4. Follows(s, s)
  BY <1>2 DEF Follows
<1>5. Follows(Answered(answer), s)
  BY <1>2, <1>3, <1>4, AnswerTurns
<1>. QED  BY <1>2, <1>5 DEF Follows

(* A run goes on, or it ends with the snapshot frozen when it began to wait. *)
LEMMA ResumeLeaves ==
  ASSUME TInv, NEW answer \in Answers, resume(answer)
  PROVE  \/ \E status \in {"interrupted", "cancelled"} : finish(st, status) /\ Live
         \/ /\ same_state(capture, st.frozen) /\ ~Refused(answer)
            /\ st' = Answered(answer) /\ UNCHANGED points /\ discard_files(st.run)
BY DEF resume, Live

LEMMA ResumeTInv ==
  ASSUME TInv, NEW answer \in Answers, resume(answer)
  PROVE  TInv'
<1>1. st \in State /\ Live /\ st.run \in Runs /\ Has(st.run) /\ clock \in Nat /\ st.status = "waiting"
  BY DEF resume, TInv, TSt, Live, TFiles
<1>2. UNCHANGED <<wt, index, head, clock, rb>> /\ preview' \in BOOLEAN
  BY DEF resume, Files, TInv
<1>3. TFiles' /\ TRb'
  BY <1>2 DEF TInv, TFiles, TRb
<1>4. CASE \E status \in {"interrupted", "cancelled"} : finish(st, status) /\ Live
  <2>1. Closed
    BY <1>1, <1>4 DEF Closed, Terminal
  <2>2. TPoints' /\ TPacks' /\ TSt' /\ Timely'
    BY <1>1, <1>2, <2>1, LeavesTypes
  <2>3. \A q : HasIn(points, q) => HasIn(points', q)
    BY <2>1, PointsStay
  <2>4. RbHas'
    BY <1>2, <2>3 DEF TInv, RbHas, Has, HasIn
  <2>. QED  BY <1>2, <1>3, <2>2, <2>4 DEF TInv
<1>5. CASE st' = Answered(answer) /\ UNCHANGED points /\ discard_files(st.run)
  <2>1. st' \in State /\ st'.run = st.run /\ st'.pc = st.pc /\ st'.shots = st.shots
    BY <1>1, <1>5, AnsweredType
  <2>2. TPoints' /\ TPacks' /\ RbHas'
    BY <1>2, <1>5, DiscardTypes DEF TInv, TPoints, OneEach, RbHas, Has
  <2>3. TSt'
    BY <1>1, <1>5, <2>1 DEF TSt, Has
  <2>4. Timely'
    BY <1>2, <2>1 DEF TInv, Timely
  <2>. QED  BY <1>2, <1>3, <2>2, <2>3, <2>4 DEF TInv
<1>. QED  BY <1>4, <1>5, ResumeLeaves

LEMMA NextTypes == TInv /\ [Next]_vars => TInv'
<1>. SUFFICES ASSUME TInv, [Next]_vars PROVE TInv'
  OBVIOUS
<1>1. CASE Stage
  BY <1>1, StageTInv
<1>2. CASE \/ \E kind \in Kinds, mode \in Modes : Start(kind, mode)
           \/ CodeEnds \/ (\E p \in Scope : CodeWrites(p)) \/ (\E answer \in Answers : resume(answer))
  BY <1>2, StartTInv, CodeEndsTInv, CodeWritesTInv, ResumeTInv
<1>3. CASE \/ \E p \in Scope : UserEdits(p) \/ RollbackPath(p)
           \/ \E p \in Paths : UserStages(p)
           \/ \E branch \in {"main", "topic"} : UserCommits(branch)
           \/ Look
  BY <1>3, UserEditsTInv, RollbackPathTInv, UserStagesTInv, UserCommitsTInv, LookTInv
<1>4. CASE (\E r \in Runs : Rollback(r)) \/ RollbackEnds \/ RollbackFails \/ Restart
  BY <1>4, RollbackTInv, RollbackEndsTInv, RollbackFailsTInv, RestartTInv
<1>5. CASE UNCHANGED vars
  BY <1>5 DEF vars, git, TInv, TFiles, TPoints, OneEach, TPacks, TRb, RbHas, TSt, Live, Timely, Has
<1>. QED  BY <1>1, <1>2, <1>3, <1>4, <1>5 DEF Next, Stage

(* Every variable keeps its type, the numbers of contents and commits stay *)
(* within the clock's bound, and the packs, the checkpoints and the        *)
(* rollback in progress are always whole records: no operation of          *)
(* store/git.py leaves a half of one behind.                               *)
THEOREM StagesTypes == Spec => []TypeOK
<1>1. TInv => TypeOK
  BY DEF TInv, TypeOK, TFiles, TPoints, TPacks, Packs, TRb, RbType, TSt, State, Phases
<1>. QED  BY <1>1, InitTypes, NextTypes, PTL DEF Spec

-----------------------------------------------------------------------------
(* The keys of the agents.                                                 *)
KeysOK(s) ==
  /\ ~s.duplicate
  /\ \A k \in s.agents : /\ k[3] <= s.iteration
                         /\ k[1] = "review" /\ k[3] = s.iteration => k[2] <= s.attempt

LEMMA OverAgents ==
  ASSUME NEW s \in State, NEW status \in Terminal, ~s.duplicate
  PROVE  AgentsOK(Over(s, status))
<1>. DEFINE o == Over(s, status)
<1>1. /\ o.status = status /\ o.duplicate = s.duplicate /\ o.agents = {} /\ o.pc = "drive" /\ o.phase = "code"
      /\ o.graph = FALSE /\ o.review_agent = FALSE
  BY OverType
<1>. HIDE DEF o
<1>2. AgentsOK(o)
  BY <1>1 DEF AgentsOK, Terminal
<1>. QED  BY <1>2 DEF o

LEMMA FreshAgents ==
  ASSUME NEW r, NEW kind, NEW mode
  PROVE  AgentsOK(Fresh(r, kind, mode))
<1>. DEFINE o == Fresh(r, kind, mode)
<1>1. /\ o.status = "running" /\ ~o.duplicate /\ o.agents = {} /\ o.pc = "drive" /\ o.phase = "code"
      /\ o.graph = FALSE /\ o.review_agent = FALSE
  BY DEF Fresh
<1>. HIDE DEF o
<1>2. AgentsOK(o)
  BY <1>1 DEF AgentsOK
<1>. QED  BY <1>2 DEF o

(* The fields a wait sets, and those it leaves. *)
LEMMA WaitFields ==
  ASSUME TInv, NEW s \in State, NEW manual \in Manuals, wait(s, manual)
  PROVE  /\ st'.status = "waiting" /\ st'.pc = "drive" /\ st'.manual = manual /\ st'.phase = s.phase
         /\ st'.agents = s.agents /\ st'.iteration = s.iteration /\ st'.attempt = s.attempt
         /\ st'.graph = s.graph /\ st'.review_agent = s.review_agent /\ st'.duplicate = s.duplicate
         /\ st'.frozen = capture /\ st'.run = s.run
         /\ st'.shots = s.shots /\ st'.code_tree = s.code_tree /\ st'.verdict = s.verdict
         /\ st'.accepted = s.accepted
<1>1. st' = [s EXCEPT !.status = "waiting", !.pc = "drive", !.manual = manual, !.frozen = capture]
  BY DEF wait
<1>. QED  BY <1>1 DEF State

LEMMA BeganFields ==
  ASSUME NEW s \in State, NEW step \in {"code", "review", "summary"}
  PROVE  LET b == Began(s, step) IN
         /\ b \in State /\ b.agents = s.agents \cup {KeyOf(s, step)}
         /\ b.status = s.status /\ b.pc = s.pc /\ b.manual = s.manual /\ b.phase = s.phase
         /\ b.iteration = s.iteration /\ b.attempt = s.attempt /\ b.run = s.run
         /\ b.graph = s.graph /\ b.review_agent = s.review_agent /\ b.duplicate = s.duplicate
         /\ b.shots = s.shots /\ b.code_tree = s.code_tree /\ b.verdict = s.verdict
         /\ b.accepted = s.accepted
<1>1. Began(s, step) = [s EXCEPT !.agents = s.agents \cup {KeyOf(s, step)}]
  BY DEF Began
<1>. QED  BY <1>1, BeganType DEF State

LEMMA VerdictFields ==
  ASSUME NEW s \in State, NEW verdict \in Verdicts
  PROVE  LET z == [s EXCEPT !.verdict = verdict] IN
         /\ z \in State /\ z.phase = s.phase /\ z.agents = s.agents /\ z.iteration = s.iteration
         /\ z.attempt = s.attempt /\ z.review_agent = s.review_agent /\ z.duplicate = s.duplicate
         /\ z.shots = s.shots /\ z.code_tree = s.code_tree
         /\ z.accepted = s.accepted
BY DEF State

LEMMA SameKey ==
  ASSUME NEW s, NEW z, NEW step, z.iteration = s.iteration, z.attempt = s.attempt
  PROVE  KeyOf(z, step) = KeyOf(s, step)
BY DEF KeyOf

LEMMA UnableAgents ==
  ASSUME TInv, NEW s \in State, KeysOK(s), s.phase \in {"capture", "review"},
         s.review_agent \/ KeyOf(s, "review") \notin s.agents, unable(s)
  PROVE  AgentsOK(st')
<1>0. "review_unavailable" \in Manuals
  BY DEF Manuals
<1>1. CASE s.review_agent
  <2>. DEFINE z == [s EXCEPT !.review_agent = FALSE, !.verdict = "unable_to_review"]
  <2>1. wait(z, "review_unavailable")
    BY <1>1 DEF unable
  <2>2. /\ z \in State /\ z.phase = s.phase /\ z.agents = s.agents /\ z.iteration = s.iteration
        /\ z.attempt = s.attempt /\ z.review_agent = FALSE /\ z.duplicate = s.duplicate
    BY DEF State, Verdicts
  <2>. HIDE DEF z
  <2>3. /\ st'.status = "waiting" /\ st'.pc = "drive" /\ st'.manual = "review_unavailable"
        /\ st'.phase = s.phase /\ st'.agents = s.agents /\ st'.iteration = s.iteration
        /\ st'.attempt = s.attempt /\ st'.review_agent = FALSE /\ st'.duplicate = s.duplicate
    BY <1>0, <2>1, <2>2, WaitFields
  <2>. QED  BY <2>3 DEF AgentsOK, KeysOK
<1>2. CASE ~s.review_agent
  <2>. DEFINE b == Began(s, "review")
              z == [b EXCEPT !.verdict = "unable_to_review"]
  <2>1. wait(z, "review_unavailable")
    BY <1>2 DEF unable
  <2>2. /\ b \in State /\ b.phase = s.phase /\ b.agents = s.agents \cup {KeyOf(s, "review")}
        /\ b.iteration = s.iteration
        /\ b.attempt = s.attempt /\ b.review_agent = s.review_agent /\ b.duplicate = s.duplicate
    BY BeganFields
  <2>. HIDE DEF b
  <2>3. /\ z \in State /\ z.phase = b.phase /\ z.agents = b.agents /\ z.iteration = b.iteration
        /\ z.attempt = b.attempt /\ z.review_agent = b.review_agent /\ z.duplicate = b.duplicate
    BY <2>2, VerdictFields DEF Verdicts
  <2>. HIDE DEF z
  <2>4. /\ st'.status = "waiting" /\ st'.pc = "drive" /\ st'.manual = "review_unavailable"
        /\ st'.phase = s.phase /\ st'.agents = s.agents \cup {KeyOf(s, "review")}
        /\ st'.iteration = s.iteration
        /\ st'.attempt = s.attempt /\ st'.review_agent = FALSE /\ st'.duplicate = s.duplicate
    BY <1>0, <1>2, <2>1, <2>2, <2>3, WaitFields DEF State
  <2>5. /\ KeyOf(s, "review")[3] = s.iteration /\ KeyOf(s, "review")[2] = s.attempt
        /\ s.iteration \in Nat /\ s.attempt \in Nat
    BY KeyType DEF State
  <2>6. KeysOK(st')
    BY <2>4, <2>5 DEF KeysOK
  <2>. QED  BY <2>4, <2>6 DEF AgentsOK, KeysOK
<1>. QED  BY <1>1, <1>2 DEF State

LEMMA ClosedAgents ==
  ASSUME TInv, AInv, NEW s \in State, NEW status \in Terminal, s.duplicate = st.duplicate, finish(s, status)
  PROVE  AInv'
<1>1. ~s.duplicate /\ st' = Over(s, status)
  BY DEF AInv, AgentsOK, finish
<1>. QED  BY <1>1, OverAgents DEF AInv

LEMMA AgentsKeys == ASSUME AInv PROVE KeysOK(st)
BY DEF AInv, AgentsOK, KeysOK

LEMMA CodeAgents ==
  ASSUME TInv, AInv, Code
  PROVE  AInv'
<1>1. st \in State /\ st.status = "running" /\ st.pc = "drive" /\ st.phase = "code"
  BY DEF Code, At, Executing, TInv, TSt
<1>2. ~st.graph => KeyOf(st, "code") \notin st.agents
  BY <1>1 DEF AInv, AgentsOK
<1>. DEFINE s == IF st.graph THEN st ELSE Began(st, "code")
<1>3. st' = [s EXCEPT !.graph = TRUE, !.pc = "coding"]
  BY <1>2 DEF Code
<1>4. /\ s \in State /\ s.status = st.status /\ s.phase = st.phase /\ s.iteration = st.iteration
      /\ s.attempt = st.attempt /\ s.review_agent = st.review_agent /\ s.duplicate = st.duplicate
      /\ s.agents = st.agents \/ s.agents = st.agents \cup {KeyOf(st, "code")}
  BY <1>1, BeganFields
<1>. HIDE DEF s
<1>5. /\ st'.status = "running" /\ st'.phase = "code" /\ st'.iteration = st.iteration
      /\ st'.attempt = st.attempt /\ st'.review_agent = st.review_agent /\ st'.duplicate = st.duplicate
      /\ st'.agents = s.agents /\ st'.graph = TRUE /\ st'.pc = "coding"
  BY <1>1, <1>3, <1>4 DEF State
<1>6. /\ KeyOf(st, "code")[3] = st.iteration /\ KeyOf(st, "code")[1] = "code"
      /\ st.iteration \in Nat
  BY <1>1, KeyType DEF State
<1>7. \A k \in st'.agents : k \in st.agents \/ (k[3] = st.iteration /\ k[1] = "code")
  BY <1>4, <1>5, <1>6
<1>8. \A k \in st'.agents : /\ k[3] <= st'.iteration
                            /\ k[1] = "review" /\ k[3] = st'.iteration => k[2] <= st'.attempt
                            /\ k[1] = "review" => k[3] < st'.iteration
  BY <1>1, <1>5, <1>6, <1>7 DEF AInv, AgentsOK
<1>. QED  BY <1>1, <1>5, <1>8 DEF AInv, AgentsOK

LEMMA CodeAsksAgents ==
  ASSUME TInv, AInv, CodeAsks
  PROVE  AInv'
<1>1. st \in State /\ st.pc = "coding" /\ st.phase = "code" /\ wait(st, "") /\ "" \in Manuals
  BY DEF CodeAsks, At, TInv, TSt, Manuals
<1>2. /\ st'.status = "waiting" /\ st'.pc = "drive" /\ st'.manual = "" /\ st'.phase = st.phase
      /\ st'.agents = st.agents /\ st'.iteration = st.iteration /\ st'.attempt = st.attempt
      /\ st'.graph = st.graph /\ st'.review_agent = st.review_agent /\ st'.duplicate = st.duplicate
  BY <1>1, WaitFields
<1>3. KeyOf(st, "code")' = KeyOf(st, "code")
  BY <1>2 DEF KeyOf
<1>. QED  BY <1>1, <1>2, <1>3 DEF AInv, AgentsOK

LEMMA CodeEndsAgents ==
  ASSUME TInv, AInv, CodeEnds
  PROVE  AInv'
<1>1. st \in State /\ st.pc = "coding" /\ st.phase = "code" /\ st.status = "running" /\ st.iteration \in Nat
  BY DEF CodeEnds, At, Executing, TInv, TSt, State
<1>2. capture.tree \in Tree
  BY CaptureType DEF TInv
<1>3. /\ Coded \in State /\ Coded.duplicate = st.duplicate /\ Coded.agents = st.agents /\ Coded.graph = FALSE
      /\ Coded.phase = (IF st.kind = "single" THEN "code" ELSE "capture") /\ Coded.pc = "drive"
      /\ Coded.iteration = st.iteration /\ Coded.attempt = st.attempt /\ Coded.status = st.status
      /\ Coded.review_agent = st.review_agent
  BY CodedType
<1>4. CASE st.kind = "single"
  <2>1. finish(Coded, "completed") /\ "completed" \in Terminal
    BY <1>4 DEF CodeEnds, Terminal
  <2>. QED  BY <1>3, <2>1, ClosedAgents
<1>5. CASE st.kind # "single"
  <2>1. st' = Coded
    BY <1>5 DEF CodeEnds
  <2>2. KeyOf(Coded, "review")[3] = st.iteration /\ KeyOf(Coded, "review")[1] = "review"
    BY <1>3, KeyType
  <2>3. KeyOf(Coded, "review") \notin st.agents
    BY <1>1, <2>2 DEF AInv, AgentsOK
  <2>4. AgentsOK(Coded)
    BY <1>1, <1>3, <1>5, <2>3 DEF AInv, AgentsOK
  <2>. QED  BY <2>1, <2>4 DEF AInv
<1>. QED  BY <1>4, <1>5

LEMMA CaptureAgents ==
  ASSUME TInv, AInv, Capture
  PROVE  AInv'
<1>1. /\ st \in State /\ st.pc = "drive" /\ st.phase = "capture" /\ st.status = "running"
      /\ KeyOf(st, "review") \notin st.agents
  BY DEF Capture, At, Executing, TInv, TSt, AInv, AgentsOK
<1>2. KeysOK(st) /\ st.review_agent = FALSE
  BY <1>1, AgentsKeys DEF AInv, AgentsOK, State
<1>. DEFINE s == [st EXCEPT !.capture_approved = TRUE]
            shots == [NoShots EXCEPT !.stirred = clock]
<1>3. /\ s \in State /\ s.phase = st.phase /\ s.agents = st.agents /\ s.iteration = st.iteration
      /\ s.attempt = st.attempt /\ s.review_agent = st.review_agent /\ s.duplicate = st.duplicate
      /\ s.status = st.status /\ s.graph = st.graph
  BY <1>1 DEF State
<1>4. \/ wait(st, "preview") \/ unable(st) \/ wait(st, "capture_approval") \/ unable(s)
      \/ st' = [s EXCEPT !.pc = "shooting", !.shots = shots]
  BY DEF Capture
<1>. HIDE DEF s, shots
<1>5. CASE unable(st)
  BY <1>1, <1>2, <1>5, UnableAgents DEF AInv
<1>6. CASE unable(s)
  <2>1. KeyOf(s, "review") = KeyOf(st, "review") /\ KeysOK(s)
    BY <1>2, <1>3, SameKey DEF KeysOK
  <2>. QED  BY <1>1, <1>3, <1>6, <2>1, UnableAgents DEF AInv
<1>7. ASSUME NEW manual \in {"preview", "capture_approval"}, wait(st, manual) PROVE AInv'
  <2>1. manual \in Manuals /\ manual # ""
    BY DEF Manuals
  <2>2. /\ st'.status = "waiting" /\ st'.pc = "drive" /\ st'.manual = manual /\ st'.phase = st.phase
        /\ st'.agents = st.agents /\ st'.iteration = st.iteration /\ st'.attempt = st.attempt
        /\ st'.graph = st.graph /\ st'.review_agent = st.review_agent /\ st'.duplicate = st.duplicate
    BY <1>1, <1>7, <2>1, WaitFields
  <2>3. KeyOf(st, "review")' = KeyOf(st, "review")
    BY <2>2 DEF KeyOf
  <2>. QED  BY <1>1, <1>2, <2>1, <2>2, <2>3 DEF AInv, AgentsOK
<1>8. CASE st' = [s EXCEPT !.pc = "shooting", !.shots = shots]
  <2>1. /\ st'.phase = st.phase /\ st'.agents = st.agents /\ st'.iteration = st.iteration
        /\ st'.attempt = st.attempt /\ st'.review_agent = st.review_agent /\ st'.duplicate = st.duplicate
        /\ st'.status = st.status /\ st'.graph = st.graph /\ st'.pc = "shooting"
    BY <1>3, <1>8 DEF State
  <2>2. KeyOf(st, "review")' = KeyOf(st, "review")
    BY <2>1 DEF KeyOf
  <2>. QED  BY <1>1, <1>2, <2>1, <2>2 DEF AInv, AgentsOK
<1>. QED  BY <1>4, <1>5, <1>6, <1>7, <1>8

LEMMA ShootAgents ==
  ASSUME TInv, AInv, Shoot
  PROVE  AInv'
<1>1. /\ st'.phase = st.phase /\ st'.agents = st.agents /\ st'.iteration = st.iteration
      /\ st'.attempt = st.attempt /\ st'.review_agent = st.review_agent /\ st'.duplicate = st.duplicate
      /\ st'.status = st.status /\ st'.graph = st.graph /\ st'.pc = st.pc /\ st'.manual = st.manual
  BY DEF Shoot, TInv, TSt, State
<1>2. KeyOf(st, "review")' = KeyOf(st, "review") /\ KeyOf(st, "code")' = KeyOf(st, "code")
  BY <1>1 DEF KeyOf
<1>. QED  BY <1>1, <1>2 DEF AInv, AgentsOK

LEMMA CaptureOverAgents ==
  ASSUME TInv, AInv, CaptureEnds \/ CaptureFails
  PROVE  AInv'
<1>1. /\ st \in State /\ st.pc = "shooting" /\ st.phase = "capture" /\ st.status = "running"
      /\ KeyOf(st, "review") \notin st.agents
  BY DEF CaptureEnds, CaptureFails, At, Executing, TInv, TSt, AInv, AgentsOK
<1>2. KeysOK(st) /\ st.review_agent = FALSE
  BY <1>1, AgentsKeys DEF AInv, AgentsOK, State
<1>3. CASE unable(st)
  BY <1>1, <1>2, <1>3, UnableAgents DEF AInv
<1>4. CASE st' = [st EXCEPT !.pc = "drive", !.phase = "review", !.shots.stirred = clock - @]
  <2>1. /\ st'.phase = "review" /\ st'.agents = st.agents /\ st'.iteration = st.iteration
        /\ st'.attempt = st.attempt /\ st'.review_agent = st.review_agent /\ st'.duplicate = st.duplicate
        /\ st'.status = st.status /\ st'.graph = st.graph /\ st'.pc = "drive"
    BY <1>1, <1>4 DEF State
  <2>2. KeyOf(st, "review")' = KeyOf(st, "review")
    BY <2>1 DEF KeyOf
  <2>. QED  BY <1>1, <1>2, <2>1, <2>2 DEF AInv, AgentsOK
<1>. QED  BY <1>3, <1>4 DEF CaptureEnds, CaptureFails

LEMMA ReviewAgents ==
  ASSUME TInv, AInv, Review
  PROVE  AInv'
<1>1. /\ st \in State /\ st.pc = "drive" /\ st.phase = "review" /\ st.status = "running"
      /\ KeyOf(st, "review") \notin st.agents
  BY DEF Review, At, Executing, TInv, TSt, AInv, AgentsOK
<1>2. KeysOK(st)
  BY AgentsKeys
<1>3. CASE unable(st)
  BY <1>1, <1>2, <1>3, UnableAgents DEF AInv
<1>. DEFINE b == Began(st, "review")
<1>4. CASE st' = [b EXCEPT !.review_agent = TRUE, !.pc = "reviewing"]
  <2>1. /\ b \in State /\ b.agents = st.agents \cup {KeyOf(st, "review")} /\ b.status = st.status
        /\ b.phase = st.phase /\ b.iteration = st.iteration /\ b.attempt = st.attempt
        /\ b.duplicate = st.duplicate
    BY <1>1, BeganFields
  <2>. HIDE DEF b
  <2>2. /\ st'.phase = st.phase /\ st'.agents = b.agents /\ st'.iteration = st.iteration
        /\ st'.attempt = st.attempt /\ st'.review_agent = TRUE /\ st'.duplicate = st.duplicate
        /\ st'.status = st.status /\ st'.pc = "reviewing"
    BY <1>4, <2>1 DEF State
  <2>3. /\ KeyOf(st, "review")[3] = st.iteration /\ KeyOf(st, "review")[2] = st.attempt
        /\ st.iteration \in Nat /\ st.attempt \in Nat
    BY <1>1, KeyType DEF State
  <2>4. KeysOK(st')
    BY <1>2, <2>1, <2>2, <2>3 DEF KeysOK
  <2>. QED  BY <1>1, <2>2, <2>4 DEF AInv, AgentsOK, KeysOK
<1>. QED  BY <1>1, <1>3, <1>4 DEF Review

LEMMA ReviewFailsAgents ==
  ASSUME TInv, AInv, ReviewFails
  PROVE  AInv'
<1>1. st \in State /\ st.phase = "review" /\ st.review_agent /\ unable(st)
  BY DEF ReviewFails, At, TInv, TSt, AInv, AgentsOK
<1>. QED  BY <1>1, AgentsKeys, UnableAgents DEF AInv

LEMMA TurnFields ==
  ASSUME NEW s \in State
  PROVE  /\ LET z == [s EXCEPT !.phase = "summary"] IN
            /\ z.phase = "summary" /\ z.agents = s.agents /\ z.iteration = s.iteration /\ z.attempt = s.attempt
            /\ z.review_agent = s.review_agent /\ z.duplicate = s.duplicate /\ z.status = s.status
            /\ z.pc = s.pc /\ z.graph = s.graph /\ z.verdict = s.verdict /\ z.accepted = s.accepted
            /\ z.shots = s.shots /\ z.code_tree = s.code_tree
         /\ LET z == [s EXCEPT !.phase = "code", !.iteration = @ + 1] IN
            /\ z.phase = "code" /\ z.agents = s.agents /\ z.iteration = s.iteration + 1
            /\ z.review_agent = s.review_agent /\ z.duplicate = s.duplicate /\ z.status = s.status
            /\ z.pc = s.pc
<1>1. LET z == [s EXCEPT !.phase = "summary"] IN
      /\ z.phase = "summary" /\ z.agents = s.agents /\ z.iteration = s.iteration /\ z.attempt = s.attempt
      /\ z.review_agent = s.review_agent /\ z.duplicate = s.duplicate /\ z.status = s.status
      /\ z.pc = s.pc /\ z.graph = s.graph /\ z.verdict = s.verdict /\ z.accepted = s.accepted
      /\ z.shots = s.shots /\ z.code_tree = s.code_tree
  BY DEF State
<1>2. LET z == [s EXCEPT !.phase = "code", !.iteration = @ + 1] IN
      /\ z.phase = "code" /\ z.agents = s.agents /\ z.iteration = s.iteration + 1
      /\ z.review_agent = s.review_agent /\ z.duplicate = s.duplicate /\ z.status = s.status
      /\ z.pc = s.pc
  BY DEF State
<1>. QED  BY <1>1, <1>2

(* With the next iteration every key is new. *)
LEMMA NextIteration ==
  ASSUME NEW s \in State, KeysOK(s), NEW z, z.agents = s.agents, z.iteration = s.iteration + 1,
         z.duplicate = s.duplicate, z.phase = "code", z.review_agent = FALSE, z.pc = "drive",
         z.status = "running"
  PROVE  AgentsOK(z)
<1>1. s.iteration \in Nat /\ \A k \in s.agents : k[3] \in Nat
  BY DEF State, Keys
<1>2. \A k \in z.agents : k[3] < z.iteration
  BY <1>1 DEF KeysOK
<1>3. KeyOf(z, "code")[3] = z.iteration
  BY DEF KeyOf
<1>4. KeyOf(z, "code") \notin z.agents
  BY <1>1, <1>2, <1>3
<1>5. \A k \in z.agents : k[3] <= z.iteration /\ k[3] # z.iteration
  BY <1>1, <1>2
<1>. QED  BY <1>2, <1>4, <1>5 DEF AgentsOK, KeysOK

LEMMA ReviewEndsAgents ==
  ASSUME TInv, AInv, NEW reply \in Replies, ReviewEnds(reply)
  PROVE  AInv'
<1>1. st \in State /\ st.pc = "reviewing" /\ st.phase = "review" /\ st.status = "running" /\ KeysOK(st)
  BY AgentsKeys DEF ReviewEnds, At, Executing, TInv, TSt
<1>. DEFINE s == Reviewed(reply)
<1>2. Verdict(reply) \in Verdicts
  BY DEF Verdict, Replies, Verdicts
<1>3. /\ s \in State /\ s.review_agent = FALSE /\ s.pc = "drive" /\ s.phase = "review"
      /\ s.status = "running" /\ s.agents = st.agents /\ s.iteration = st.iteration
      /\ s.attempt = st.attempt /\ s.duplicate = st.duplicate /\ s.verdict = Verdict(reply)
  BY <1>1, <1>2 DEF Reviewed, State
<1>4. KeysOK(s)
  BY <1>1, <1>3 DEF KeysOK
<1>5. \/ wait(s, "review_unavailable") \/ wait(s, "review_limit")
      \/ st' = IF s.verdict = "passed" THEN [s EXCEPT !.phase = "summary"]
               ELSE [s EXCEPT !.phase = "code", !.iteration = @ + 1]
  BY DEF ReviewEnds
<1>. HIDE DEF s
<1>6. ASSUME NEW manual \in {"review_unavailable", "review_limit"}, wait(s, manual) PROVE AInv'
  <2>1. manual \in Manuals
    BY DEF Manuals
  <2>2. /\ st'.status = "waiting" /\ st'.pc = "drive" /\ st'.manual = manual /\ st'.phase = s.phase
        /\ st'.agents = s.agents /\ st'.iteration = s.iteration /\ st'.attempt = s.attempt
        /\ st'.review_agent = s.review_agent /\ st'.duplicate = s.duplicate
    BY <1>3, <1>6, <2>1, WaitFields
  <2>. QED  BY <1>3, <1>4, <1>6, <2>2 DEF AInv, AgentsOK, KeysOK
<1>7. CASE st' = [s EXCEPT !.phase = "summary"]
  <2>1. /\ st'.phase = "summary" /\ st'.agents = s.agents /\ st'.iteration = s.iteration
        /\ st'.attempt = s.attempt
        /\ st'.review_agent = s.review_agent /\ st'.duplicate = s.duplicate /\ st'.status = s.status
        /\ st'.pc = s.pc
    BY <1>3, <1>7, TurnFields
  <2>. QED  BY <1>3, <1>4, <2>1 DEF AInv, AgentsOK, KeysOK
<1>8. CASE st' = [s EXCEPT !.phase = "code", !.iteration = @ + 1]
  <2>1. /\ st'.phase = "code" /\ st'.agents = s.agents /\ st'.iteration = s.iteration + 1
        /\ st'.review_agent = s.review_agent /\ st'.duplicate = s.duplicate /\ st'.status = s.status
        /\ st'.pc = s.pc
    BY <1>3, <1>8, TurnFields
  <2>. QED  BY <1>3, <1>4, <2>1, NextIteration DEF AInv
<1>. QED  BY <1>5, <1>6, <1>7, <1>8

LEMMA OverAgentsSteps ==
  ASSUME TInv, AInv, Summary \/ Fails \/ \E status \in {"cancelled", "failed"} : Stop(status)
  PROVE  AInv'
<1>1. st \in State
  BY DEF TInv, TSt
<1>2. CASE Summary
  <2>1. Began(st, "summary") \in State /\ Began(st, "summary").duplicate = st.duplicate
    BY <1>1, BeganFields
  <2>2. finish(Began(st, "summary"), "completed") /\ "completed" \in Terminal
    BY <1>2 DEF Summary, Terminal
  <2>. QED  BY <2>1, <2>2, ClosedAgents
<1>3. CASE Fails \/ \E status \in {"cancelled", "failed"} : Stop(status)
  <2>1. \E status \in Terminal : finish(st, status)
    BY <1>3 DEF Fails, Stop, Terminal
  <2>. QED  BY <1>1, <2>1, ClosedAgents
<1>. QED  BY <1>2, <1>3

LEMMA RestartAgents ==
  ASSUME TInv, AInv, Restart
  PROVE  AInv'
<1>1. st \in State
  BY DEF TInv, TSt
<1>2. CASE st' = [st EXCEPT !.capture_approved = FALSE, !.frozen = capture]
  <2>1. /\ st'.phase = st.phase /\ st'.agents = st.agents /\ st'.iteration = st.iteration
        /\ st'.attempt = st.attempt /\ st'.review_agent = st.review_agent /\ st'.duplicate = st.duplicate
        /\ st'.status = st.status /\ st'.graph = st.graph /\ st'.pc = st.pc /\ st'.manual = st.manual
    BY <1>1, <1>2 DEF State
  <2>2. KeyOf(st, "review")' = KeyOf(st, "review") /\ KeyOf(st, "code")' = KeyOf(st, "code")
    BY <2>1 DEF KeyOf
  <2>. QED  BY <2>1, <2>2 DEF AInv, AgentsOK
<1>3. CASE st' = st
  BY <1>3 DEF AInv
<1>4. CASE st' = Over(st, "interrupted")
  BY <1>1, <1>4, OverAgents DEF AInv, AgentsOK, Terminal
<1>. QED  BY <1>2, <1>3, <1>4 DEF Restart

(* What each answer changes. *)
LEMMA AnswerFields ==
  ASSUME NEW s \in State
  PROVE  /\ LET z == [s EXCEPT !.capture_approved = TRUE] IN
            /\ z.phase = s.phase /\ z.agents = s.agents /\ z.iteration = s.iteration /\ z.attempt = s.attempt
            /\ z.review_agent = s.review_agent /\ z.duplicate = s.duplicate /\ z.status = s.status
            /\ z.pc = s.pc /\ z.graph = s.graph /\ z.verdict = s.verdict /\ z.accepted = s.accepted
            /\ z.shots = s.shots /\ z.code_tree = s.code_tree
         /\ LET z == [s EXCEPT !.phase = "summary", !.accepted = TRUE] IN
            /\ z.phase = "summary" /\ z.agents = s.agents /\ z.iteration = s.iteration /\ z.attempt = s.attempt
            /\ z.review_agent = s.review_agent /\ z.duplicate = s.duplicate /\ z.status = s.status
            /\ z.pc = s.pc /\ z.accepted = TRUE
         /\ LET z == [s EXCEPT !.iteration = @ + 1, !.phase = "code", !.retries = @ + 1] IN
            /\ z.phase = "code" /\ z.agents = s.agents /\ z.iteration = s.iteration + 1
            /\ z.review_agent = s.review_agent /\ z.duplicate = s.duplicate /\ z.status = s.status
            /\ z.pc = s.pc
         /\ LET z == [s EXCEPT !.attempt = @ + 1, !.phase = "capture", !.retries = @ + 1] IN
            /\ z.phase = "capture" /\ z.agents = s.agents /\ z.iteration = s.iteration
            /\ z.attempt = s.attempt + 1
            /\ z.review_agent = s.review_agent /\ z.duplicate = s.duplicate /\ z.status = s.status
            /\ z.pc = s.pc
<1>1. LET z == [s EXCEPT !.capture_approved = TRUE] IN
      /\ z.phase = s.phase /\ z.agents = s.agents /\ z.iteration = s.iteration /\ z.attempt = s.attempt
      /\ z.review_agent = s.review_agent /\ z.duplicate = s.duplicate /\ z.status = s.status
      /\ z.pc = s.pc /\ z.graph = s.graph /\ z.verdict = s.verdict /\ z.accepted = s.accepted
      /\ z.shots = s.shots /\ z.code_tree = s.code_tree
  BY DEF State
<1>2. LET z == [s EXCEPT !.phase = "summary", !.accepted = TRUE] IN
      /\ z.phase = "summary" /\ z.agents = s.agents /\ z.iteration = s.iteration /\ z.attempt = s.attempt
      /\ z.review_agent = s.review_agent /\ z.duplicate = s.duplicate /\ z.status = s.status
      /\ z.pc = s.pc /\ z.accepted = TRUE
  BY DEF State
<1>3. LET z == [s EXCEPT !.iteration = @ + 1, !.phase = "code", !.retries = @ + 1] IN
      /\ z.phase = "code" /\ z.agents = s.agents /\ z.iteration = s.iteration + 1
      /\ z.review_agent = s.review_agent /\ z.duplicate = s.duplicate /\ z.status = s.status
      /\ z.pc = s.pc
  BY DEF State
<1>4. LET z == [s EXCEPT !.attempt = @ + 1, !.phase = "capture", !.retries = @ + 1] IN
      /\ z.phase = "capture" /\ z.agents = s.agents /\ z.iteration = s.iteration
      /\ z.attempt = s.attempt + 1
      /\ z.review_agent = s.review_agent /\ z.duplicate = s.duplicate /\ z.status = s.status
      /\ z.pc = s.pc
  BY DEF State
<1>. QED  BY <1>1, <1>2, <1>3, <1>4

LEMMA AnswerCases ==
  ASSUME TInv, NEW answer \in Answers, resume(answer), ~Refused(answer), st' = Answered(answer)
  PROVE  LET s == Resumed(answer) IN
         \/ st.manual = "capture_approval" /\ st' = [s EXCEPT !.capture_approved = TRUE]
         \/ /\ st.manual \in {"review_unavailable", "review_limit"}
            /\ \/ st' = [s EXCEPT !.phase = "summary", !.accepted = TRUE]
               \/ st' = [s EXCEPT !.iteration = @ + 1, !.phase = "code", !.retries = @ + 1]
               \/ st' = [s EXCEPT !.attempt = @ + 1, !.phase = "capture", !.retries = @ + 1]
         \/ st.manual \in {"", "preview"} /\ st' = s
<1>. DEFINE s == Resumed(answer)
<1>1. answer \in AnswersTo(st.manual) /\ st.manual \in Manuals
  BY DEF resume, TInv, TSt, State
<1>2. CASE st.manual = "capture_approval"
  <2>1. answer \in {"approve", "reject"}
    BY <1>1, <1>2 DEF AnswersTo
  <2>2. st' = [s EXCEPT !.capture_approved = TRUE]
    <3>. HIDE DEF s
    <3>. QED  BY <1>2, <2>1 DEF Answered, s
  <2>. QED  BY <1>2, <2>2
<1>3. CASE st.manual \in {"", "preview"}
  <2>1. answer \in {"approve", "reject"}
    BY <1>1, <1>3 DEF AnswersTo
  <2>2. st' = s
    BY <1>3, <2>1 DEF Answered
  <2>. QED  BY <1>3, <2>2
<1>4. CASE st.manual \in {"review_unavailable", "review_limit"}
  <2>1. answer \in {"accept", "retry"}
    BY <1>1, <1>4 DEF AnswersTo, Refused
  <2>. HIDE DEF s
  <2>2. \/ st' = [s EXCEPT !.phase = "summary", !.accepted = TRUE]
        \/ st' = [s EXCEPT !.iteration = @ + 1, !.phase = "code", !.retries = @ + 1]
        \/ st' = [s EXCEPT !.attempt = @ + 1, !.phase = "capture", !.retries = @ + 1]
    BY <1>4, <2>1 DEF Answered, s
  <2>. QED  BY <1>4, <2>2 DEF s
<1>. QED  BY <1>1, <1>2, <1>3, <1>4 DEF Manuals

LEMMA ResumedFields ==
  ASSUME st \in State, NEW answer
  PROVE  LET s == Resumed(answer) IN
         /\ s \in State /\ s.status = "running" /\ s.pc = st.pc /\ s.phase = st.phase
         /\ s.agents = st.agents /\ s.iteration = st.iteration /\ s.attempt = st.attempt
         /\ s.graph = st.graph /\ s.review_agent = st.review_agent /\ s.duplicate = st.duplicate
         /\ s.shots = st.shots /\ s.code_tree = st.code_tree /\ s.verdict = st.verdict
         /\ s.accepted = st.accepted
<1>1. Resumed(answer) = [st EXCEPT !.status = "running", !.manual = "", !.frozen = None]
  BY DEF Resumed
<1>. QED  BY <1>1, ResumedType DEF State

LEMMA ResumeAgents ==
  ASSUME TInv, AInv, NEW answer \in Answers, resume(answer)
  PROVE  AInv'
<1>1. st \in State /\ st.status = "waiting"
  BY DEF resume, TInv, TSt
<1>2. CASE \E status \in {"interrupted", "cancelled"} : finish(st, status)
  BY <1>1, <1>2, ClosedAgents DEF Terminal
<1>3. CASE ~Refused(answer) /\ st' = Answered(answer)
  <2>. DEFINE s == Resumed(answer)
  <2>1. /\ s \in State /\ s.status = "running" /\ s.pc = "drive" /\ s.phase = st.phase
        /\ s.agents = st.agents /\ s.iteration = st.iteration /\ s.attempt = st.attempt
        /\ s.graph = st.graph /\ s.review_agent = FALSE /\ s.duplicate = st.duplicate
    <3>1. st.pc = "drive" /\ st.review_agent = FALSE
      BY <1>1 DEF AInv, AgentsOK, State
    <3>. QED  BY <1>1, <3>1, ResumedFields
  <2>2. KeysOK(s) /\ KeyOf(s, "review") = KeyOf(st, "review") /\ KeyOf(s, "code") = KeyOf(st, "code")
    BY <2>1, AgentsKeys, SameKey DEF KeysOK
  <2>3. \/ st.manual = "capture_approval" /\ st' = [s EXCEPT !.capture_approved = TRUE]
        \/ /\ st.manual \in {"review_unavailable", "review_limit"}
           /\ \/ st' = [s EXCEPT !.phase = "summary", !.accepted = TRUE]
              \/ st' = [s EXCEPT !.iteration = @ + 1, !.phase = "code", !.retries = @ + 1]
              \/ st' = [s EXCEPT !.attempt = @ + 1, !.phase = "capture", !.retries = @ + 1]
        \/ st.manual \in {"", "preview"} /\ st' = s
    BY <1>3, AnswerCases
  <2>. HIDE DEF s
  <2>4. CASE st.manual = "capture_approval" /\ st' = [s EXCEPT !.capture_approved = TRUE]
    <3>1. /\ st'.phase = s.phase /\ st'.agents = s.agents /\ st'.iteration = s.iteration
          /\ st'.attempt = s.attempt /\ st'.review_agent = s.review_agent
          /\ st'.duplicate = s.duplicate /\ st'.status = s.status /\ st'.pc = s.pc
      BY <2>1, <2>4, AnswerFields
    <3>2. KeyOf(st', "review") = KeyOf(s, "review")
      BY <3>1, SameKey
    <3>3. st.phase = "capture" /\ KeyOf(st, "review") \notin st.agents
      BY <1>1, <2>4 DEF AInv, AgentsOK
    <3>. QED  BY <2>1, <2>2, <3>1, <3>2, <3>3 DEF AInv, AgentsOK, KeysOK
  <2>5. CASE st' = [s EXCEPT !.phase = "summary", !.accepted = TRUE]
    <3>1. /\ st'.phase = "summary" /\ st'.agents = s.agents /\ st'.iteration = s.iteration
          /\ st'.attempt = s.attempt /\ st'.review_agent = s.review_agent
          /\ st'.duplicate = s.duplicate /\ st'.status = s.status /\ st'.pc = s.pc
      BY <2>1, <2>5, AnswerFields
    <3>. QED  BY <2>1, <2>2, <3>1 DEF AInv, AgentsOK, KeysOK
  <2>6. CASE st' = [s EXCEPT !.iteration = @ + 1, !.phase = "code", !.retries = @ + 1]
    <3>1. /\ st'.phase = "code" /\ st'.agents = s.agents /\ st'.iteration = s.iteration + 1
          /\ st'.review_agent = s.review_agent
          /\ st'.duplicate = s.duplicate /\ st'.status = s.status /\ st'.pc = s.pc
      BY <2>1, <2>6, AnswerFields
    <3>. QED  BY <2>1, <2>2, <3>1, NextIteration DEF AInv
  <2>7. CASE st' = [s EXCEPT !.attempt = @ + 1, !.phase = "capture", !.retries = @ + 1]
    <3>1. /\ st'.phase = "capture" /\ st'.agents = s.agents /\ st'.iteration = s.iteration
          /\ st'.attempt = s.attempt + 1 /\ st'.review_agent = s.review_agent
          /\ st'.duplicate = s.duplicate /\ st'.status = s.status /\ st'.pc = s.pc
      BY <2>1, <2>7, AnswerFields
    <3>2. s.attempt \in Nat /\ \A k \in s.agents : k[2] \in Nat
      BY <2>1 DEF State, Keys
    <3>3. \A k \in s.agents : k[1] = "review" /\ k[3] = s.iteration => k[2] <= s.attempt /\ k[2] # s.attempt + 1
      BY <2>2, <3>2 DEF KeysOK
    <3>4. KeyOf(st', "review") = <<"review", s.attempt + 1, s.iteration>>
      BY <3>1 DEF KeyOf
    <3>5. KeyOf(st', "review") \notin st'.agents
      BY <3>1, <3>3, <3>4
    <3>6. KeysOK(st')
      BY <2>2, <3>1, <3>2, <3>3 DEF KeysOK
    <3>. QED  BY <2>1, <3>1, <3>5, <3>6 DEF AInv, AgentsOK, KeysOK
  <2>8. CASE st.manual \in {"", "preview"} /\ st' = s
    <3>1. \/ st.phase = "code" /\ st.graph
          \/ st.phase = "capture" /\ KeyOf(st, "review") \notin st.agents
      BY <1>1, <2>8 DEF AInv, AgentsOK
    <3>2. st.phase = "code" => \A k \in st.agents : k[1] = "review" => k[3] < st.iteration
      BY DEF AInv, AgentsOK
    <3>3. AgentsOK(s)
      BY <2>1, <2>2, <3>1, <3>2 DEF AgentsOK, KeysOK
    <3>. QED  BY <2>8, <3>3 DEF AInv
  <2>. QED  BY <2>3, <2>4, <2>5, <2>6, <2>7, <2>8
<1>. QED  BY <1>2, <1>3, ResumeLeaves

LEMMA NextAgents == TInv /\ AInv /\ [Next]_vars => AInv'
<1>. SUFFICES ASSUME TInv, AInv, [Next]_vars PROVE AInv'
  OBVIOUS
<1>1. CASE Code \/ CodeAsks \/ CodeEnds \/ \E p \in Scope : CodeWrites(p)
  BY <1>1, CodeAgents, CodeAsksAgents, CodeEndsAgents DEF CodeWrites, AInv
<1>2. CASE Capture \/ Shoot \/ CaptureEnds \/ CaptureFails
  BY <1>2, CaptureAgents, ShootAgents, CaptureOverAgents
<1>3. CASE Review \/ ReviewFails \/ \E reply \in Replies : ReviewEnds(reply)
  BY <1>3, ReviewAgents, ReviewFailsAgents, ReviewEndsAgents
<1>4. CASE Summary \/ Fails \/ \E status \in {"cancelled", "failed"} : Stop(status)
  BY <1>4, OverAgentsSteps
<1>5. CASE \E answer \in Answers : resume(answer)
  BY <1>5, ResumeAgents
<1>6. CASE \E kind \in Kinds, mode \in Modes : Start(kind, mode)
  <2>1. \E kind, mode, r : st' = Fresh(r, kind, mode)
    BY <1>6, StartTInv
  <2>. QED  BY <2>1, FreshAgents DEF AInv
<1>7. CASE Restart
  BY <1>7, RestartAgents
<1>8. ASSUME UNCHANGED st PROVE AInv'
  BY <1>8 DEF AInv
<1>9. CASE \/ \E p \in Scope : UserEdits(p) \/ RollbackPath(p)
           \/ \E p \in Paths : UserStages(p)
           \/ \E branch \in {"main", "topic"} : UserCommits(branch)
           \/ Look \/ (\E r \in Runs : Rollback(r)) \/ RollbackEnds \/ RollbackFails
  <2>1. UNCHANGED st
    BY <1>9 DEF UserEdits, RollbackPath, UserStages, UserCommits, Look, Rollback, RollbackEnds, RollbackFails
  <2>. QED  BY <1>8, <2>1
<1>10. CASE UNCHANGED vars
  BY <1>8, <1>10 DEF vars
<1>. QED  BY <1>1, <1>2, <1>3, <1>4, <1>5, <1>6, <1>7, <1>9, <1>10 DEF Next

LEMMA InitAgents == Init => AInv
<1>. SUFFICES ASSUME Init PROVE AInv
  OBVIOUS
<1>. DEFINE f == Fresh(0, "single", "always")
<1>1. /\ f \in State /\ f.agents = {} /\ ~f.duplicate /\ f.pc = "drive" /\ f.phase = "code" /\ f.graph = FALSE
      /\ f.review_agent = FALSE
  BY FreshType DEF Kinds, Modes, Fresh
<1>2. st = [f EXCEPT !.status = "interrupted"]
  BY DEF Init
<1>. HIDE DEF f
<1>3. /\ st.agents = {} /\ st.duplicate = f.duplicate /\ st.pc = "drive" /\ st.phase = "code" /\ st.graph = FALSE
      /\ st.review_agent = FALSE /\ st.status = "interrupted"
  BY <1>1, <1>2 DEF State
<1>. QED  BY <1>1, <1>3 DEF AInv, AgentsOK

(* No stage of a run is entered twice under one key, for any number of     *)
(* revisions, retries and restarts: an agent run that broke off is used    *)
(* again, a retried review counts its attempt, and a revision counts its   *)
(* iteration, so the unique constraint of agent_runs never ends a run.     *)
THEOREM AgentRunsTheorem == Spec => []AgentRunsAreDistinct
<1>1. AInv => AgentRunsAreDistinct
  BY DEF AInv, AgentsOK, AgentRunsAreDistinct
<1>. QED  BY <1>1, InitTypes, NextTypes, InitAgents, NextAgents, PTL DEF Spec

-----------------------------------------------------------------------------
(* The pictures.                                                           *)
LEMMA CaptureSame ==
  ASSUME UNCHANGED <<wt, head>>
  PROVE  (capture.tree)' = capture.tree
BY DEF capture

LEMMA ShotsLater ==
  ASSUME NEW s \in State, NEW tree, NEW now \in Nat, ShotsOK(s, tree, now),
         NEW tree2, NEW now2 \in Nat, (tree2 = tree /\ now <= now2) \/ now + 1 <= now2
  PROVE  ShotsOK(s, tree2, now2)
<1>. DEFINE n == s.shots.stirred
<1>1. n \in Nat
  BY DEF State, Shots
<1>2. CASE s.pc # "shooting"
  BY <1>2 DEF ShotsOK
<1>3. CASE s.pc = "shooting"
  <2>1. n <= now2 /\ (n + 1 <= now => n + 1 <= now2) /\ (n + 2 <= now => n + 2 <= now2)
    BY <1>1, <1>3 DEF ShotsOK
  <2>2. now + 1 <= now2 => n + 1 <= now2 /\ (n + 1 <= now => n + 2 <= now2)
    BY <1>1, <1>3 DEF ShotsOK
  <2>. QED  BY <1>3, <2>1, <2>2 DEF ShotsOK
<1>. QED  BY <1>2, <1>3

(* A run that is not in one of the stages after the pictures. *)
LEMMA ShotsNotYet ==
  ASSUME NEW s, NEW tree, NEW now, s.phase \in {"code", "capture"}, s.pc # "shooting"
  PROVE  ShotsOK(s, tree, now)
BY DEF ShotsOK

LEMMA ShotsStay ==
  ASSUME NEW s, NEW z, NEW tree, NEW now, ShotsOK(s, tree, now), z.pc # "shooting", z.phase = s.phase,
         z.shots = s.shots, z.code_tree = s.code_tree, z.iteration = s.iteration,
         s.phase = "summary" => z.verdict = s.verdict /\ z.accepted = s.accepted
  PROVE  ShotsOK(z, tree, now)
BY DEF ShotsOK, Backed

LEMMA ClosedShots ==
  ASSUME NEW s \in State, NEW status \in Terminal, finish(s, status)
  PROVE  \A tree, now : ShotsOK(st', tree, now)
<1>1. st'.phase = "code" /\ st'.pc = "drive"
  <2>1. st' = Over(s, status)
    BY DEF finish
  <2>. QED  BY <2>1, OverType
<1>. QED  BY <1>1, ShotsNotYet

LEMMA WaitShots ==
  ASSUME TInv, NEW s \in State, NEW manual \in Manuals, wait(s, manual), NEW tree, NEW now, ShotsOK(s, tree, now)
  PROVE  ShotsOK(st', tree, now)
<1>1. /\ st'.pc = "drive" /\ st'.phase = s.phase /\ st'.shots = s.shots /\ st'.code_tree = s.code_tree
      /\ st'.iteration = s.iteration /\ st'.verdict = s.verdict /\ st'.accepted = s.accepted
  BY WaitFields
<1>. QED  BY <1>1, ShotsStay

LEMMA UnableShots ==
  ASSUME TInv, NEW s \in State, s.phase # "summary", unable(s), NEW tree, NEW now, ShotsOK(s, tree, now)
  PROVE  ShotsOK(st', tree, now)
<1>0. "review_unavailable" \in Manuals /\ "failed" \in Terminal /\ "unable_to_review" \in Verdicts
  BY DEF Manuals, Terminal, Verdicts
<1>1. CASE s.review_agent
  <2>. DEFINE z == [s EXCEPT !.review_agent = FALSE, !.verdict = "unable_to_review"]
  <2>1. wait(z, "review_unavailable")
    BY <1>1 DEF unable
  <2>2. /\ z \in State /\ z.phase = s.phase /\ z.shots = s.shots /\ z.code_tree = s.code_tree
        /\ z.iteration = s.iteration
    BY DEF State, Verdicts
  <2>. HIDE DEF z
  <2>3. /\ st'.pc = "drive" /\ st'.phase = s.phase /\ st'.shots = s.shots /\ st'.code_tree = s.code_tree
        /\ st'.iteration = s.iteration
    BY <1>0, <2>1, <2>2, WaitFields
  <2>. QED  BY <2>3, ShotsStay
<1>2. CASE ~s.review_agent /\ KeyOf(s, "review") \in s.agents
  <2>1. finish([s EXCEPT !.duplicate = TRUE], "failed") /\ [s EXCEPT !.duplicate = TRUE] \in State
    BY <1>2 DEF unable, State
  <2>. QED  BY <1>0, <2>1, ClosedShots
<1>3. CASE ~s.review_agent /\ KeyOf(s, "review") \notin s.agents
  <2>. DEFINE b == Began(s, "review")
              z == [b EXCEPT !.verdict = "unable_to_review"]
  <2>1. wait(z, "review_unavailable")
    BY <1>3 DEF unable
  <2>2. /\ b \in State /\ b.phase = s.phase /\ b.shots = s.shots /\ b.code_tree = s.code_tree
        /\ b.iteration = s.iteration
    BY BeganFields
  <2>. HIDE DEF b
  <2>3. /\ z \in State /\ z.phase = b.phase /\ z.shots = b.shots /\ z.code_tree = b.code_tree
        /\ z.iteration = b.iteration
    BY <1>0, <2>2, VerdictFields
  <2>. HIDE DEF z
  <2>4. /\ st'.pc = "drive" /\ st'.phase = s.phase /\ st'.shots = s.shots /\ st'.code_tree = s.code_tree
        /\ st'.iteration = s.iteration
    BY <1>0, <2>1, <2>2, <2>3, WaitFields
  <2>. QED  BY <2>4, ShotsStay
<1>. QED  BY <1>1, <1>2, <1>3

LEMMA CaptureShots ==
  ASSUME TInv, ReviewInv, Capture
  PROVE  ShotsOK(st', capture.tree, clock)
<1>1. /\ st \in State /\ st.pc = "drive" /\ st.phase = "capture" /\ clock \in Nat
      /\ ShotsOK(st, capture.tree, clock)
  BY DEF Capture, At, TInv, TSt, TFiles, ReviewInv
<1>. DEFINE s == [st EXCEPT !.capture_approved = TRUE]
            shots == [NoShots EXCEPT !.stirred = clock]
<1>2. /\ s \in State /\ s.phase = "capture" /\ s.pc = "drive" /\ s.code_tree = st.code_tree
  BY <1>1 DEF State
<1>3. \/ wait(st, "preview") \/ unable(st) \/ wait(st, "capture_approval") \/ unable(s)
      \/ st' = [s EXCEPT !.pc = "shooting", !.shots = shots] /\ capture.tree = st.code_tree
  BY DEF Capture
<1>4. shots.stirred = clock /\ shots.tree = None
  BY DEF NoShots
<1>. HIDE DEF s, shots
<1>5. ShotsOK(s, capture.tree, clock)
  BY <1>2, ShotsNotYet
<1>6. CASE unable(st) \/ unable(s)
  BY <1>1, <1>2, <1>5, <1>6, UnableShots
<1>7. CASE wait(st, "preview") \/ wait(st, "capture_approval")
  BY <1>1, <1>7, WaitShots DEF Manuals
<1>8. CASE st' = [s EXCEPT !.pc = "shooting", !.shots = shots] /\ capture.tree = st.code_tree
  <2>1. st'.pc = "shooting" /\ st'.shots = shots /\ st'.phase = "capture" /\ st'.code_tree = st.code_tree
    BY <1>2, <1>8 DEF State
  <2>. QED  BY <1>1, <1>4, <1>8, <2>1 DEF ShotsOK
<1>. QED  BY <1>3, <1>6, <1>7, <1>8

LEMMA ShootShots ==
  ASSUME TInv, AInv, ReviewInv, Shoot
  PROVE  ShotsOK(st', capture.tree, clock)
<1>1. /\ st \in State /\ st.pc = "shooting" /\ st.phase = "capture" /\ clock \in Nat /\ st.shots \in Shots
      /\ ShotsOK(st, capture.tree, clock) /\ st.shots.tree = None
  BY DEF Shoot, At, TInv, TSt, TFiles, ReviewInv, State
<1>. DEFINE shots == [st.shots EXCEPT !.tree = capture.tree, !.iteration = st.iteration]
<1>2. shots.tree = capture.tree /\ shots.iteration = st.iteration /\ shots.stirred = st.shots.stirred
  BY <1>1 DEF Shots
<1>3. st' = [st EXCEPT !.shots = shots]
  BY <1>1 DEF Shoot, State, Shots
<1>. HIDE DEF shots
<1>4. /\ st'.shots = shots /\ st'.pc = "shooting" /\ st'.phase = "capture" /\ st'.code_tree = st.code_tree
      /\ st'.iteration = st.iteration
  BY <1>1, <1>3 DEF State
<1>. QED  BY <1>1, <1>2, <1>4 DEF ShotsOK

LEMMA CaptureEndsShots ==
  ASSUME TInv, ReviewInv, CaptureEnds
  PROVE  ShotsOK(st', capture.tree, clock)
<1>1. /\ st \in State /\ st.pc = "shooting" /\ st.phase = "capture" /\ clock \in Nat /\ st.shots \in Shots
      /\ ShotsOK(st, capture.tree, clock) /\ st.shots.tree # None
  BY DEF CaptureEnds, At, TInv, TSt, TFiles, ReviewInv, State
<1>2. CASE capture.tree # st.code_tree
  BY <1>1, <1>2, UnableShots DEF CaptureEnds
<1>3. CASE capture.tree = st.code_tree
  <2>. DEFINE n == st.shots.stirred
              shots == [st.shots EXCEPT !.stirred = clock - n]
  <2>1. n \in Nat /\ shots.tree = st.shots.tree /\ shots.iteration = st.shots.iteration /\ shots.stirred = clock - n
    BY <1>1 DEF Shots
  <2>2. st' = [st EXCEPT !.pc = "drive", !.phase = "review", !.shots = shots]
    BY <1>1, <1>3 DEF CaptureEnds, State, Shots
  <2>. HIDE DEF shots
  <2>3. /\ st'.shots = shots /\ st'.pc = "drive" /\ st'.phase = "review" /\ st'.code_tree = st.code_tree
        /\ st'.iteration = st.iteration
    BY <1>1, <2>2 DEF State
  <2>4. st.shots.iteration = st.iteration /\ (st.shots.tree = st.code_tree \/ n + 2 <= clock)
    BY <1>1, <1>3 DEF ShotsOK
  <2>5. n + 2 <= clock => clock - n >= 2
    BY <1>1, <2>1
  <2>6. Backed(st')
    BY <2>1, <2>3, <2>4, <2>5 DEF Backed
  <2>. QED  BY <2>3, <2>6 DEF ShotsOK
<1>. QED  BY <1>2, <1>3

LEMMA ReviewShots ==
  ASSUME TInv, AInv, ReviewInv, Review \/ ReviewFails
  PROVE  ShotsOK(st', capture.tree, clock)
<1>1. st \in State /\ st.phase = "review" /\ ShotsOK(st, capture.tree, clock)
  BY DEF Review, ReviewFails, At, TInv, TSt, ReviewInv
<1>2. CASE unable(st)
  BY <1>1, <1>2, UnableShots
<1>. DEFINE b == Began(st, "review")
<1>3. CASE st' = [b EXCEPT !.review_agent = TRUE, !.pc = "reviewing"]
  <2>1. /\ b \in State /\ b.phase = "review" /\ b.shots = st.shots /\ b.code_tree = st.code_tree
        /\ b.iteration = st.iteration
    BY <1>1, BeganFields
  <2>. HIDE DEF b
  <2>2. /\ st'.pc = "reviewing" /\ st'.phase = "review" /\ st'.shots = st.shots /\ st'.code_tree = st.code_tree
        /\ st'.iteration = st.iteration
    BY <1>3, <2>1 DEF State
  <2>. QED  BY <1>1, <2>2, ShotsStay
<1>. QED  BY <1>2, <1>3 DEF Review, ReviewFails

LEMMA ReviewEndsShots ==
  ASSUME TInv, ReviewInv, NEW reply \in Replies, ReviewEnds(reply)
  PROVE  ShotsOK(st', capture.tree, clock)
<1>1. st \in State /\ st.phase = "review" /\ ShotsOK(st, capture.tree, clock)
  BY DEF ReviewEnds, At, TInv, TSt, ReviewInv
<1>. DEFINE s == Reviewed(reply)
<1>2. Verdict(reply) \in Verdicts
  BY DEF Verdict, Replies, Verdicts
<1>3. /\ s \in State /\ s.pc = "drive" /\ s.phase = "review" /\ s.shots = st.shots /\ s.code_tree = st.code_tree
      /\ s.iteration = st.iteration
  BY <1>1, <1>2 DEF Reviewed, State
<1>4. \/ wait(s, "review_unavailable") \/ wait(s, "review_limit")
      \/ s.verdict = "passed" /\ st' = [s EXCEPT !.phase = "summary"]
      \/ st' = [s EXCEPT !.phase = "code", !.iteration = @ + 1]
  BY DEF ReviewEnds
<1>. HIDE DEF s
<1>5. ShotsOK(s, capture.tree, clock) /\ Backed(s)
  <2>1. Backed(st)
    BY <1>1 DEF ShotsOK
  <2>. QED  BY <1>3, <2>1 DEF Backed, ShotsOK
<1>6. CASE wait(s, "review_unavailable") \/ wait(s, "review_limit")
  BY <1>3, <1>5, <1>6, WaitShots DEF Manuals
<1>7. CASE s.verdict = "passed" /\ st' = [s EXCEPT !.phase = "summary"]
  <2>1. /\ st'.pc = "drive" /\ st'.phase = "summary" /\ st'.shots = s.shots /\ st'.code_tree = s.code_tree
        /\ st'.iteration = s.iteration /\ st'.verdict = "passed"
    BY <1>3, <1>7, TurnFields
  <2>. QED  BY <1>5, <2>1 DEF ShotsOK, Backed
<1>8. CASE st' = [s EXCEPT !.phase = "code", !.iteration = @ + 1]
  <2>1. st'.pc = "drive" /\ st'.phase = "code"
    BY <1>3, <1>8, TurnFields
  <2>. QED  BY <2>1, ShotsNotYet
<1>. QED  BY <1>4, <1>6, <1>7, <1>8

LEMMA CodeShots ==
  ASSUME TInv, AInv, ReviewInv, Code \/ CodeAsks \/ CodeEnds
  PROVE  ShotsOK(st', capture.tree, clock)
<1>1. st \in State /\ st.phase = "code" /\ ShotsOK(st, capture.tree, clock) /\ capture.tree \in Tree
  BY CaptureType DEF Code, CodeAsks, CodeEnds, At, TInv, TSt, ReviewInv
<1>2. CASE Code
  <2>1. CASE ~st.graph /\ KeyOf(st, "code") \in st.agents
    <3>1. finish([st EXCEPT !.duplicate = TRUE], "failed") /\ [st EXCEPT !.duplicate = TRUE] \in State
      BY <1>1, <1>2, <2>1 DEF Code, State
    <3>. QED  BY <3>1, ClosedShots DEF Terminal
  <2>2. CASE ~(~st.graph /\ KeyOf(st, "code") \in st.agents)
    <3>. DEFINE s == IF st.graph THEN st ELSE Began(st, "code")
    <3>1. s \in State /\ s.phase = "code"
      BY <1>1, BeganFields
    <3>2. st' = [s EXCEPT !.graph = TRUE, !.pc = "coding"]
      BY <1>2, <2>2 DEF Code
    <3>. HIDE DEF s
    <3>3. st'.pc = "coding" /\ st'.phase = "code"
      BY <3>1, <3>2 DEF State
    <3>. QED  BY <3>3, ShotsNotYet
  <2>. QED  BY <2>1, <2>2
<1>3. CASE CodeAsks
  BY <1>1, <1>3, WaitShots DEF CodeAsks, Manuals
<1>4. CASE CodeEnds
  <2>1. /\ Coded \in State /\ Coded.pc = "drive" /\ Coded.phase \in {"code", "capture"}
    BY CodedType
  <2>2. finish(Coded, "completed") \/ st' = Coded
    BY <1>4 DEF CodeEnds
  <2>. QED  BY <2>1, <2>2, ClosedShots, ShotsNotYet DEF Terminal
<1>. QED  BY <1>2, <1>3, <1>4

LEMMA OverShots ==
  ASSUME TInv, Summary \/ Fails \/ \E status \in {"cancelled", "failed"} : Stop(status)
  PROVE  ShotsOK(st', capture.tree, clock)
<1>1. st \in State
  BY DEF TInv, TSt
<1>2. CASE Summary
  <2>1. Began(st, "summary") \in State
    BY <1>1, BeganFields
  <2>2. finish(Began(st, "summary"), "completed") /\ "completed" \in Terminal
    BY <1>2 DEF Summary, Terminal
  <2>. QED  BY <2>1, <2>2, ClosedShots
<1>3. CASE Fails \/ \E status \in {"cancelled", "failed"} : Stop(status)
  <2>1. \E status \in Terminal : finish(st, status)
    BY <1>3 DEF Fails, Stop, Terminal
  <2>. QED  BY <1>1, <2>1, ClosedShots
<1>. QED  BY <1>2, <1>3

LEMMA ResumeShots ==
  ASSUME TInv, AInv, NEW answer \in Answers, resume(answer)
  PROVE  ShotsOK(st', capture.tree, clock)
<1>1. st \in State /\ st.status = "waiting"
  BY DEF resume, TInv, TSt
<1>2. CASE \E status \in {"interrupted", "cancelled"} : finish(st, status)
  BY <1>1, <1>2, ClosedShots DEF Terminal
<1>3. CASE ~Refused(answer) /\ st' = Answered(answer)
  <2>. DEFINE s == Resumed(answer)
  <2>1. s \in State /\ s.pc = "drive" /\ s.phase = st.phase
    <3>1. st.pc = "drive"
      BY <1>1 DEF AInv, AgentsOK
    <3>. QED  BY <1>1, <3>1, ResumedFields
  <2>2. \/ st.manual = "capture_approval" /\ st' = [s EXCEPT !.capture_approved = TRUE]
        \/ /\ st.manual \in {"review_unavailable", "review_limit"}
           /\ \/ st' = [s EXCEPT !.phase = "summary", !.accepted = TRUE]
              \/ st' = [s EXCEPT !.iteration = @ + 1, !.phase = "code", !.retries = @ + 1]
              \/ st' = [s EXCEPT !.attempt = @ + 1, !.phase = "capture", !.retries = @ + 1]
        \/ st.manual \in {"", "preview"} /\ st' = s
    BY <1>3, AnswerCases
  <2>3. st.manual \in {"", "preview", "capture_approval"} => s.phase \in {"code", "capture"}
    BY <1>1, <2>1 DEF AInv, AgentsOK
  <2>. HIDE DEF s
  <2>4. CASE st.manual \in {"", "preview"} /\ st' = s
    <3>1. st'.phase \in {"code", "capture"} /\ st'.pc # "shooting"
      BY <2>1, <2>3, <2>4
    <3>. QED  BY <3>1, ShotsNotYet
  <2>5. CASE st.manual = "capture_approval" /\ st' = [s EXCEPT !.capture_approved = TRUE]
    <3>1. st'.phase = s.phase /\ st'.pc = s.pc
      BY <2>1, <2>5, AnswerFields
    <3>2. st'.phase \in {"code", "capture"} /\ st'.pc # "shooting"
      BY <2>1, <2>3, <2>5, <3>1
    <3>. QED  BY <3>2, ShotsNotYet
  <2>6. CASE st' = [s EXCEPT !.phase = "summary", !.accepted = TRUE]
    <3>1. st'.phase = "summary" /\ st'.pc = s.pc /\ st'.accepted = TRUE
      BY <2>1, <2>6, AnswerFields
    <3>. QED  BY <2>1, <3>1 DEF ShotsOK
  <2>7. CASE st' = [s EXCEPT !.iteration = @ + 1, !.phase = "code", !.retries = @ + 1]
    <3>1. st'.phase = "code" /\ st'.pc = s.pc
      BY <2>1, <2>7, AnswerFields
    <3>. QED  BY <2>1, <3>1, ShotsNotYet
  <2>8. CASE st' = [s EXCEPT !.attempt = @ + 1, !.phase = "capture", !.retries = @ + 1]
    <3>1. st'.phase = "capture" /\ st'.pc = s.pc
      BY <2>1, <2>8, AnswerFields
    <3>. QED  BY <2>1, <3>1, ShotsNotYet
  <2>. QED  BY <2>2, <2>4, <2>5, <2>6, <2>7, <2>8
<1>. QED  BY <1>2, <1>3, ResumeLeaves

LEMMA RestartShots ==
  ASSUME TInv, ReviewInv, Restart
  PROVE  ShotsOK(st', capture.tree, clock)
<1>1. st \in State /\ ShotsOK(st, capture.tree, clock)
  BY DEF TInv, TSt, ReviewInv
<1>2. CASE st' = [st EXCEPT !.capture_approved = FALSE, !.frozen = capture]
  <2>1. /\ st'.phase = st.phase /\ st'.iteration = st.iteration /\ st'.shots = st.shots
        /\ st'.pc = st.pc /\ st'.code_tree = st.code_tree /\ st'.verdict = st.verdict
        /\ st'.accepted = st.accepted
    BY <1>1, <1>2 DEF State
  <2>. QED  BY <1>1, <2>1 DEF ShotsOK, Backed
<1>3. CASE st' = st
  BY <1>1, <1>3
<1>4. CASE st' = Over(st, "interrupted")
  <2>1. st'.phase = "code" /\ st'.pc = "drive"
    BY <1>1, <1>4, OverType DEF Terminal
  <2>. QED  BY <2>1, ShotsNotYet
<1>. QED  BY <1>2, <1>3, <1>4 DEF Restart

LEMMA NextReview == TInv /\ AInv /\ ReviewInv /\ [Next]_vars => ReviewInv'
<1>. SUFFICES ASSUME TInv, AInv, ReviewInv, [Next]_vars PROVE ReviewInv'
  OBVIOUS
<1>0. clock \in Nat /\ st \in State /\ ShotsOK(st, capture.tree, clock)
  BY DEF TInv, TFiles, TSt, ReviewInv
<1>1. ASSUME UNCHANGED <<wt, head, clock>>, ShotsOK(st', capture.tree, clock) PROVE ReviewInv'
  BY <1>1, CaptureSame DEF ReviewInv
<1>2. ASSUME UNCHANGED st, clock' = clock + 1 PROVE ReviewInv'
  <2>1. ShotsOK(st, (capture.tree)', clock + 1)
    <3>1. clock + 1 \in Nat /\ clock + 1 <= clock + 1
      BY <1>0
    <3>. QED  BY <1>0, <3>1, ShotsLater
  <2>. QED  BY <1>2, <2>1 DEF ReviewInv
<1>3. ASSUME UNCHANGED <<st, wt, head, clock>> PROVE ReviewInv'
  BY <1>0, <1>1, <1>3
<1>4. CASE Stage \/ CodeEnds
  <2>1. UNCHANGED <<wt, head, clock>>
    BY <1>4 DEF Stage, Code, CodeAsks, CodeEnds, Capture, Shoot, CaptureEnds, CaptureFails, Review, ReviewFails,
         ReviewEnds, Summary, Fails, Stop, World, Files
  <2>3. ShotsOK(st', capture.tree, clock)
    <3>1. CASE CaptureFails
      BY <1>0, <3>1, UnableShots DEF CaptureFails, At
    <3>. QED  BY <1>4, <3>1, CodeShots, CaptureShots, ShootShots, CaptureEndsShots, ReviewShots, ReviewEndsShots,
                 OverShots DEF Stage
  <2>. QED  BY <1>1, <2>1, <2>3
<1>5. CASE \E answer \in Answers : resume(answer)
  <2>1. UNCHANGED <<wt, head, clock>>
    BY <1>5 DEF resume, Files
  <2>. QED  BY <1>1, <1>5, <2>1, ResumeShots
<1>6. CASE Restart
  <2>1. UNCHANGED <<wt, head, clock>>
    BY <1>6 DEF Restart, Files
  <2>. QED  BY <1>1, <1>6, <2>1, RestartShots
<1>7. CASE \E kind \in Kinds, mode \in Modes : Start(kind, mode)
  <2>1. UNCHANGED <<wt, head, clock>>
    BY <1>7 DEF Start, World, Files
  <2>2. PICK kind, mode, r : st' = Fresh(r, kind, mode)
    BY <1>7, StartTInv
  <2>3. st'.phase = "code" /\ st'.pc = "drive"
    <3>1. Fresh(r, kind, mode).phase = "code" /\ Fresh(r, kind, mode).pc = "drive"
      BY DEF Fresh
    <3>. QED  BY <2>2, <3>1
  <2>. QED  BY <1>1, <2>1, <2>3, ShotsNotYet
<1>8. CASE \E p \in Scope : CodeWrites(p) \/ UserEdits(p) \/ RollbackPath(p)
  <2>1. UNCHANGED st
    BY <1>8 DEF CodeWrites, UserEdits, RollbackPath
  <2>2. clock' = clock + 1
    BY <1>8, CodeWritesTInv, UserEditsTInv, RollbackPathTInv
  <2>. QED  BY <1>2, <2>1, <2>2
<1>9. CASE \E branch \in {"main", "topic"} : UserCommits(branch)
  <2>1. UNCHANGED st /\ clock' = clock + 1
    BY <1>9, UserCommitsTInv DEF UserCommits
  <2>. QED  BY <1>2, <2>1
<1>10. CASE \E p \in Paths : UserStages(p)
  <2>1. UNCHANGED <<st, head>> /\ (UNCHANGED <<wt, clock>> \/ clock' = clock + 1)
    BY <1>10 DEF UserStages, edit
  <2>. QED  BY <1>2, <1>3, <2>1
<1>11. CASE Look \/ (\E r \in Runs : Rollback(r)) \/ RollbackEnds \/ RollbackFails \/ UNCHANGED vars
  <2>1. UNCHANGED <<st, wt, head, clock>>
    BY <1>11 DEF Look, Rollback, RollbackEnds, RollbackFails, Files, vars, git
  <2>. QED  BY <1>3, <2>1
<1>. QED  BY <1>4, <1>5, <1>6, <1>7, <1>8, <1>9, <1>10, <1>11 DEF Next, Stage

LEMMA InitReview == Init => ReviewInv
<1>. SUFFICES ASSUME Init PROVE ReviewInv
  OBVIOUS
<1>. DEFINE f == Fresh(0, "single", "always")
<1>1. f \in State /\ f.pc = "drive" /\ f.phase = "code"
  BY FreshType DEF Kinds, Modes, Fresh
<1>2. st = [f EXCEPT !.status = "interrupted"]
  BY DEF Init
<1>. HIDE DEF f
<1>3. st.pc = "drive" /\ st.phase = "code"
  BY <1>1, <1>2 DEF State
<1>. QED  BY <1>3, ShotsNotYet DEF ReviewInv

(* Only two steps complete a run: the summary, and the end of a single run. *)
LEMMA FinishStatus ==
  ASSUME NEW s \in State, NEW status \in Terminal, finish(s, status)
  PROVE  st'.status = status
BY OverType DEF finish

LEMMA UnableStatus ==
  ASSUME TInv, NEW s \in State, unable(s)
  PROVE  st'.status # "completed"
<1>0. "review_unavailable" \in Manuals /\ "failed" \in Terminal /\ "unable_to_review" \in Verdicts
  BY DEF Manuals, Terminal, Verdicts
<1>1. CASE s.review_agent
  <2>. DEFINE z == [s EXCEPT !.review_agent = FALSE, !.verdict = "unable_to_review"]
  <2>1. wait(z, "review_unavailable") /\ z \in State
    BY <1>1 DEF unable, State, Verdicts
  <2>. HIDE DEF z
  <2>2. st'.status = "waiting"
    BY <1>0, <2>1, WaitFields
  <2>. QED  BY <2>2
<1>2. CASE ~s.review_agent /\ KeyOf(s, "review") \in s.agents
  <2>1. finish([s EXCEPT !.duplicate = TRUE], "failed") /\ [s EXCEPT !.duplicate = TRUE] \in State
    BY <1>2 DEF unable, State
  <2>2. st'.status = "failed"
    BY <1>0, <2>1, FinishStatus
  <2>. QED  BY <2>2
<1>3. CASE ~s.review_agent /\ KeyOf(s, "review") \notin s.agents
  <2>. DEFINE b == Began(s, "review")
              z == [b EXCEPT !.verdict = "unable_to_review"]
  <2>1. wait(z, "review_unavailable")
    BY <1>3 DEF unable
  <2>2. b \in State
    BY BeganFields
  <2>. HIDE DEF b
  <2>3. z \in State
    BY <1>0, <2>2, VerdictFields
  <2>. HIDE DEF z
  <2>4. st'.status = "waiting"
    BY <1>0, <2>1, <2>3, WaitFields
  <2>. QED  BY <2>4
<1>. QED  BY <1>1, <1>2, <1>3

LEMMA StaysStatus ==
  ASSUME TInv, Stays \/ \E s \in State, m \in Manuals : wait(s, m)
  PROVE  st'.status # "completed"
<1>1. CASE Stays
  BY <1>1 DEF Stays
<1>2. ASSUME NEW s \in State, NEW m \in Manuals, wait(s, m) PROVE st'.status # "completed"
  <2>1. st'.status = "waiting"
    BY <1>2, WaitFields
  <2>. QED  BY <2>1
<1>. QED  BY <1>1, <1>2

LEMMA WhoCompletes ==
  ASSUME TInv, AInv, [Next]_vars, st'.status = "completed", st' # st
  PROVE  At("drive", "summary") \/ st.kind = "single"
<1>0. st \in State /\ "failed" \in Terminal /\ "cancelled" \in Terminal /\ "interrupted" \in Terminal
  BY DEF TInv, TSt, Terminal
<1>1. CASE Summary
  BY <1>1 DEF Summary
<1>2. CASE CodeEnds /\ st.kind # "single"
  <2>1. Coded.status = st.status
    BY CodedType
  <2>2. st' = Coded /\ st.status = "running"
    BY <1>2 DEF CodeEnds, At, Executing
  <2>. QED  BY <2>1, <2>2
<1>3. CASE CodeAsks \/ Shoot \/ \E reply \in Replies : ReviewEnds(reply)
  <2>1. Stays \/ Paused
    BY <1>3, CodeAsksLeaves, ShootLeaves, ReviewEndsLeaves
  <2>. QED  BY <2>1, StaysStatus DEF Paused
<1>4. CASE Code
  <2>1. CASE ~st.graph /\ KeyOf(st, "code") \in st.agents
    <3>1. finish([st EXCEPT !.duplicate = TRUE], "failed") /\ [st EXCEPT !.duplicate = TRUE] \in State
      BY <1>0, <1>4, <2>1 DEF Code, State
    <3>2. st'.status = "failed"
      BY <1>0, <3>1, FinishStatus
    <3>. QED  BY <3>2
  <2>2. CASE ~(~st.graph /\ KeyOf(st, "code") \in st.agents)
    <3>. DEFINE s == IF st.graph THEN st ELSE Began(st, "code")
    <3>1. s \in State /\ s.status = "running"
      BY <1>0, <1>4, BeganFields DEF Code, At, Executing
    <3>2. st' = [s EXCEPT !.graph = TRUE, !.pc = "coding"]
      BY <1>4, <2>2 DEF Code
    <3>. HIDE DEF s
    <3>3. st'.status = "running"
      BY <3>1, <3>2 DEF State
    <3>. QED  BY <3>3
  <2>. QED  BY <2>1, <2>2
<1>5. CASE CaptureFails \/ ReviewFails
  BY <1>0, <1>5, UnableStatus DEF CaptureFails, ReviewFails
<1>6. CASE CaptureEnds \/ Review
  <2>1. CASE unable(st)
    BY <1>0, <2>1, UnableStatus
  <2>2. CASE st' = [st EXCEPT !.pc = "drive", !.phase = "review", !.shots.stirred = clock - @]
    <3>1. st'.status = st.status
      BY <1>0, <2>2 DEF State
    <3>. QED  BY <1>6, <3>1 DEF CaptureEnds, Review, At, Executing
  <2>. DEFINE b == Began(st, "review")
  <2>3. CASE st' = [b EXCEPT !.review_agent = TRUE, !.pc = "reviewing"]
    <3>1. b \in State /\ b.status = st.status
      BY <1>0, BeganFields
    <3>. HIDE DEF b
    <3>2. st'.status = st.status
      BY <2>3, <3>1 DEF State
    <3>. QED  BY <1>6, <3>2 DEF CaptureEnds, Review, At, Executing
  <2>. QED  BY <1>6, <2>1, <2>2, <2>3 DEF CaptureEnds, Review
<1>7. CASE Capture
  <2>. DEFINE s == [st EXCEPT !.capture_approved = TRUE]
              shots == [NoShots EXCEPT !.stirred = clock]
  <2>1. \/ wait(st, "preview") \/ unable(st) \/ wait(st, "capture_approval") \/ unable(s)
        \/ st' = [s EXCEPT !.pc = "shooting", !.shots = shots]
    BY <1>7 DEF Capture
  <2>2. s \in State /\ s.status = "running"
    BY <1>0, <1>7 DEF State, Capture, At, Executing
  <2>. HIDE DEF s, shots
  <2>3. CASE st' = [s EXCEPT !.pc = "shooting", !.shots = shots]
    <3>1. st'.status = "running"
      BY <2>2, <2>3 DEF State
    <3>. QED  BY <3>1
  <2>4. CASE wait(st, "preview") \/ wait(st, "capture_approval")
    BY <1>0, <2>4, StaysStatus DEF Manuals
  <2>. QED  BY <1>0, <2>1, <2>2, <2>3, <2>4, UnableStatus
<1>8. CASE Fails \/ \E status \in {"cancelled", "failed"} : Stop(status)
  <2>1. finish(st, "failed") \/ finish(st, "cancelled")
    BY <1>8 DEF Fails, Stop
  <2>2. st'.status \in {"failed", "cancelled"}
    BY <1>0, <2>1, FinishStatus
  <2>. QED  BY <2>2
<1>9. CASE \E answer \in Answers : resume(answer)
  <2>1. \/ finish(st, "interrupted") \/ finish(st, "cancelled")
        \/ \E answer : st' = Answered(answer)
    BY <1>9, ResumeLeaves
  <2>2. st'.status \in {"interrupted", "cancelled", "running"}
    BY <1>0, <2>1, FinishStatus, AnsweredType
  <2>. QED  BY <2>2
<1>10. CASE Restart
  <2>1. \/ st' = [st EXCEPT !.capture_approved = FALSE, !.frozen = capture] /\ st.status = "waiting"
        \/ st' = Over(st, "interrupted")
    BY <1>10 DEF Restart
  <2>2. st'.status \in {"waiting", "interrupted"}
    <3>1. CASE st' = [st EXCEPT !.capture_approved = FALSE, !.frozen = capture] /\ st.status = "waiting"
      BY <1>0, <3>1 DEF State
    <3>2. CASE st' = Over(st, "interrupted")
      BY <1>0, <3>2, OverType
    <3>. QED  BY <2>1, <3>1, <3>2
  <2>. QED  BY <2>2
<1>11. CASE \E kind \in Kinds, mode \in Modes : Start(kind, mode)
  <2>1. PICK kind, mode, r : st' = Fresh(r, kind, mode)
    BY <1>11, StartTInv
  <2>2. Fresh(r, kind, mode).status = "running"
    BY DEF Fresh
  <2>3. st'.status = "running"
    BY <2>1, <2>2
  <2>. QED  BY <2>3
<1>12. ASSUME UNCHANGED st PROVE FALSE
  BY <1>12
<1>13. CASE \/ \E p \in Scope : UserEdits(p) \/ RollbackPath(p) \/ CodeWrites(p)
            \/ \E p \in Paths : UserStages(p)
            \/ \E branch \in {"main", "topic"} : UserCommits(branch)
            \/ Look \/ (\E r \in Runs : Rollback(r)) \/ RollbackEnds \/ RollbackFails
  <2>1. UNCHANGED st
    BY <1>13 DEF UserEdits, RollbackPath, CodeWrites, UserStages, UserCommits, Look, Rollback, RollbackEnds, RollbackFails
  <2>. QED  BY <1>12, <2>1
<1>14. CASE UNCHANGED vars
  BY <1>12, <1>14 DEF vars
<1>. QED  BY <1>1, <1>2, <1>3, <1>4, <1>5, <1>6, <1>7, <1>8, <1>9, <1>10, <1>11, <1>13, <1>14 DEF Next

(* A reviewed run that completes was accepted by the user, or its last     *)
(* review passed, of pictures of this iteration, and they show the code    *)
(* of the iteration unless a file was changed and changed back while they  *)
(* were taken: for any number of revisions, edits, retries and restarts.   *)
THEOREM ReviewTheorem == Spec => ReviewBacksResult
<1>1. TInv /\ AInv /\ ReviewInv /\ [Next]_vars =>
        [st.kind = "frontend-review" /\ st'.status = "completed" /\ st' # st =>
           \/ st.accepted
           \/ /\ st.verdict = "passed"
              /\ st.shots.iteration = st.iteration
              /\ st.shots.tree = st.code_tree \/ st.shots.stirred >= 2]_vars
  <2>. SUFFICES ASSUME TInv, AInv, ReviewInv, [Next]_vars, st.kind = "frontend-review",
                       st'.status = "completed", st' # st
                PROVE  \/ st.accepted
                       \/ /\ st.verdict = "passed"
                          /\ st.shots.iteration = st.iteration
                          /\ st.shots.tree = st.code_tree \/ st.shots.stirred >= 2
    OBVIOUS
  <2>1. st.phase = "summary"
    BY WhoCompletes DEF At
  <2>. QED  BY <2>1 DEF ReviewInv, ShotsOK, Backed
<1>. QED  BY <1>1, InitTypes, NextTypes, InitAgents, NextAgents, InitReview, NextReview, PTL
          DEF Spec, ReviewBacksResult

-----------------------------------------------------------------------------
(* A snapshot of the worktree shows its files. *)
LEMMA CaptureFiles == \A p \in Scope : capture.tree[p] = wt[p].c /\ (capture.tree)'[p] = wt'[p].c
BY Small DEF capture

LEMMA WroteSame ==
  ASSUME NEW b, NEW a, NEW b2, NEW a2, NEW r, Wrote(b, a, r),
         \A p \in Scope : b2.tree[p] = b.tree[p] /\ a2.tree[p] = a.tree[p]
  PROVE  Wrote(b2, a2, r)
BY DEF Wrote

LEMMA CaptureWrote ==
  ASSUME NEW b, NEW r, Wrote(b, capture, r), UNCHANGED wt
  PROVE  Wrote(b, capture', r)
<1>1. capture'.tree = (capture.tree)'
  OBVIOUS
<1>. QED  BY <1>1, CaptureFiles DEF Wrote

(* What a rollback in progress rests on stays when its run keeps the        *)
(* snapshot it began with.                                                  *)
Moves == \A q : HasIn(points, q) => HasIn(points', q) /\ PointIn(points', q).before = PointIn(points, q).before

LEMMA RollbackStays ==
  ASSUME RollbackOK, Moves, UNCHANGED <<wt, rb>>, rb = None \/ ~Executing'
  PROVE  RollbackOK'
<1>1. rb # None => HasIn(points, rb.run)
  BY DEF RollbackOK, Has, HasIn
<1>2. rb # None => PointIn(points', rb.run).before = PointIn(points, rb.run).before /\ HasIn(points', rb.run)
  BY <1>1 DEF Moves
<1>. QED  BY <1>2 DEF RollbackOK, Has, HasIn

(* A run that ends or begins to wait: its checkpoint gets a snapshot. *)
LEMMA FinishFiles ==
  ASSUME TInv, PointsOK, Live, NEW status \in Terminal \cup {"running"}, NEW snapshot \in Snapshot \cup {None},
         finish_run(st.run, status, snapshot),
         NEW after, after = IF snapshot = None THEN capture ELSE snapshot,
         Wrote(PointIn(points, st.run).before, after, st.run)
  PROVE  PointsOK' /\ Moves /\ HasIn(points, st.run)
<1>. DEFINE k == Finished(st.run, status, snapshot)
<1>1. TFiles /\ TPoints /\ Has(st.run) /\ HasIn(points, st.run)
  BY DEF TInv, TSt, Has, HasIn
<1>2. /\ k.run = st.run /\ k.before = PointIn(points, st.run).before
      /\ k.after = IF snapshot = None THEN capture ELSE snapshot
      /\ \A q : HasIn(points', q) <=> HasIn(points, q)
      /\ \A q : HasIn(points, q) => PointIn(points', q) = IF q = st.run THEN k ELSE PointIn(points, q)
      /\ DOMAIN points' = DOMAIN points
      /\ \A i \in DOMAIN points : points'[i] = k \/ points'[i] = points[i]
  BY <1>1, FinishRun
<1>. HIDE DEF k
<1>3. PointOK(k)
  BY <1>2 DEF PointOK
<1>4. PointsOK'
  BY <1>2, <1>3 DEF PointsOK
<1>5. Moves
  BY <1>2 DEF Moves
<1>. QED  BY <1>1, <1>4, <1>5

LEMMA PausedFiles ==
  ASSUME TInv, FilesInv, Paused, UNCHANGED <<wt, rb>>
  PROVE  PointsOK' /\ LiveOK' /\ RollbackOK'
<1>1. PICK s \in State, m \in Manuals : s.run = st.run /\ Executing /\ wait(s, m)
  BY DEF Paused
<1>. DEFINE before == PointIn(points, st.run).before
<1>2. Live /\ Wrote(before, capture, st.run) /\ st.run \in Runs /\ Has(st.run) /\ packs \in Packs
  BY <1>1, ExecutingIsLive DEF FilesInv, LiveOK, TInv, TSt, TPacks
<1>3. PointsOK' /\ Moves /\ HasIn(points, st.run)
  <2>1. finish_run(st.run, "running", None) /\ None \in Snapshot \cup {None} /\ "running" \in Terminal \cup {"running"}
    BY <1>1 DEF wait
  <2>. QED  BY <1>2, <2>1, FinishFiles DEF FilesInv
<1>4. PointIn(points', st.run).before = before
  BY <1>3 DEF Moves
<1>5. /\ st'.run = st.run /\ st'.status = "waiting" /\ st'.frozen = capture /\ capture \in Snapshot
      /\ capture # None
  <2>1. st' = [s EXCEPT !.status = "waiting", !.pc = "drive", !.manual = m, !.frozen = capture]
    BY <1>1, WaitTypes
  <2>2. capture \in Snapshot
    BY CaptureType DEF TInv
  <2>3. capture # None
    BY <2>2, Small
  <2>4. st'.run = st.run /\ st'.status = "waiting" /\ st'.frozen = capture
    BY <1>1, <2>1 DEF State
  <2>. QED  BY <2>2, <2>3, <2>4
<1>6. packs'[st.run] # None =>
        LET pack == packs'[st.run] IN
        Wrote(pack.before, pack.after, st.run) /\ Wrote(pack.before, pack.paused, st.run)
  <2>1. CASE export_checkpoint(st.run)
    <3>. DEFINE b == [before EXCEPT !.tree = scoped_tree(before.tree)]
                a == [capture EXCEPT !.tree = scoped_tree(capture.tree), !.index = None]
                pack == [before |-> b, after |-> a, paused |-> capture]
    <3>1. packs' = [packs EXCEPT ![st.run] = pack]
      BY <1>2, <2>1, CheckpointType DEF export_checkpoint, TInv
    <3>2. before \in Snapshot
      BY <1>2, CheckpointType DEF TInv, Point
    <3>3. b.tree = scoped_tree(before.tree) /\ a.tree = scoped_tree(capture.tree)
      BY <1>5, <3>2 DEF Snapshot
    <3>4. \A p \in Scope : b.tree[p] = before.tree[p] /\ a.tree[p] = capture.tree[p]
      BY <3>3, Small DEF scoped_tree
    <3>5. pack.before = b /\ pack.after = a /\ pack.paused = capture
      OBVIOUS
    <3>. HIDE DEF b, a, pack, before
    <3>6. Wrote(b, a, st.run) /\ Wrote(b, capture, st.run)
      BY <1>2, <3>4, WroteSame
    <3>7. packs'[st.run] = pack
      BY <1>2, <3>1 DEF Packs
    <3>. QED  BY <3>5, <3>6, <3>7
  <2>2. CASE discard_files(st.run)
    <3>1. packs'[st.run] = None
      BY <1>2, <2>2 DEF discard_files, Packs
    <3>. QED  BY <3>1
  <2>. QED  BY <1>1, <2>1, <2>2 DEF wait
<1>7. LiveOK'
  <2>1. ~Executing'
    BY <1>5 DEF Executing
  <2>2. Wrote(PointIn(points', st'.run).before, st'.frozen, st'.run)
    BY <1>2, <1>4, <1>5
  <2>. QED  BY <1>5, <1>6, <2>1, <2>2 DEF LiveOK
<1>8. RollbackOK'
  <2>1. rb = None
    BY <1>1 DEF FilesInv, RollbackOK
  <2>. QED  BY <1>3, <2>1, RollbackStays DEF FilesInv
<1>. QED  BY <1>3, <1>7, <1>8

LEMMA ClosedFiles ==
  ASSUME TInv, FilesInv, Closed, UNCHANGED <<wt, rb>>
  PROVE  PointsOK' /\ LiveOK' /\ RollbackOK'
<1>1. PICK s \in State, status \in Terminal :
        s.run = st.run /\ s.frozen = st.frozen /\ Live /\ finish(s, status)
  BY DEF Closed
<1>. DEFINE after == IF st.frozen = None THEN capture ELSE st.frozen
<1>2. Wrote(PointIn(points, st.run).before, after, st.run)
  BY <1>1 DEF FilesInv, LiveOK, Live, Executing
<1>3. finish_run(st.run, status, st.frozen) /\ st.frozen \in Snapshot \cup {None}
  BY <1>1 DEF finish, State
<1>. HIDE DEF after
<1>4. after = IF st.frozen = None THEN capture ELSE st.frozen
  BY DEF after
<1>5. PointsOK' /\ Moves
  BY <1>1, <1>2, <1>3, <1>4, FinishFiles DEF FilesInv
<1>6. ~Live' /\ ~Executing' /\ st'.status # "waiting"
  <2>1. st'.status = status
    BY <1>1, FinishTypes
  <2>. QED  BY <2>1 DEF Live, Terminal, Executing
<1>7. LiveOK'
  BY <1>6 DEF LiveOK
<1>8. RollbackOK'
  BY <1>5, <1>6, RollbackStays DEF FilesInv
<1>. QED  BY <1>5, <1>7, <1>8

(* A run that executes on: its checkpoint may get a snapshot on the way. *)
LEMMA GoesFiles ==
  ASSUME TInv, FilesInv, Executing, UNCHANGED <<wt, rb>>, PointsOK', Moves, HasIn(points, st.run),
         st'.run = st.run, st'.status = "running", st'.frozen = st.frozen
  PROVE  PointsOK' /\ LiveOK' /\ RollbackOK'
<1>. DEFINE before == PointIn(points, st.run).before
<1>1. PointIn(points', st'.run).before = before
  BY DEF Moves
<1>2. Live /\ Wrote(before, capture, st.run) /\ (st.frozen # None => Wrote(before, st.frozen, st.run))
  BY ExecutingIsLive DEF FilesInv, LiveOK
<1>. HIDE DEF before
<1>3. Wrote(before, capture', st.run)
  BY <1>2, CaptureWrote
<1>4. LiveOK'
  BY <1>1, <1>2, <1>3 DEF LiveOK
<1>5. RollbackOK'
  <2>1. rb = None
    BY DEF FilesInv, RollbackOK
  <2>. QED  BY <2>1, RollbackStays DEF FilesInv
<1>. QED  BY <1>4, <1>5

LEMMA StaysFiles ==
  ASSUME TInv, FilesInv, Stays, UNCHANGED <<wt, rb>>
  PROVE  PointsOK' /\ LiveOK' /\ RollbackOK'
<1>1. Executing /\ HasIn(points, st.run) /\ st'.run = st.run /\ st'.status = "running" /\ st'.frozen = st.frozen
  BY ExecutingIsLive DEF Stays, TInv, TSt, Has, HasIn
<1>2. PointsOK' /\ Moves
  BY DEF Stays, PointsOK, FilesInv, Moves
<1>. QED  BY <1>1, <1>2, GoesFiles

LEMMA StageFiles ==
  ASSUME TInv, FilesInv, Stage
  PROVE  FilesInv'
<1>1. UNCHANGED <<wt, rb, faults>>
  BY DEF Stage, Code, CodeAsks, Capture, Shoot, CaptureEnds, CaptureFails, Review, ReviewFails,
         ReviewEnds, Summary, Fails, Stop, World, Files
<1>2. PointsOK' /\ LiveOK' /\ RollbackOK'
  BY <1>1, StageLeaves, PausedFiles, ClosedFiles, StaysFiles
<1>. QED  BY <1>1, <1>2 DEF FilesInv

LEMMA CodeEndsFiles ==
  ASSUME TInv, FilesInv, CodeEnds
  PROVE  FilesInv'
<1>1. /\ st \in State /\ Executing /\ Live /\ st.run \in Runs /\ Has(st.run)
      /\ capture.tree \in Tree /\ UNCHANGED <<wt, rb, faults>>
  BY ExecutingIsLive, CaptureType DEF CodeEnds, At, TInv, TSt, TFiles, World, Files
<1>2. /\ Coded \in State /\ Coded.run = st.run /\ Coded.status = st.status /\ Coded.frozen = st.frozen
  BY CodedType
<1>3. CASE st.kind = "single"
  <2>1. finish(Coded, "completed") /\ "completed" \in Terminal
    BY <1>3 DEF CodeEnds, Terminal
  <2>2. Closed
    BY <1>1, <1>2, <2>1 DEF Closed
  <2>. QED  BY <1>1, <2>2, ClosedFiles DEF FilesInv
<1>4. CASE st.kind # "single"
  <2>1. st' = Coded /\ finish_run(st.run, "running", None)
    BY <1>4 DEF CodeEnds
  <2>2. Wrote(PointIn(points, st.run).before, capture, st.run)
    BY <1>1 DEF FilesInv, LiveOK
  <2>3. None \in Snapshot \cup {None} /\ "running" \in Terminal \cup {"running"}
    OBVIOUS
  <2>4. PointsOK' /\ Moves /\ HasIn(points, st.run)
    BY <1>1, <2>1, <2>2, <2>3, FinishFiles DEF FilesInv
  <2>5. st'.status = "running" /\ st'.run = st.run /\ st'.frozen = st.frozen
    BY <1>1, <1>2, <2>1 DEF Executing
  <2>. QED  BY <1>1, <2>4, <2>5, GoesFiles DEF FilesInv
<1>. QED  BY <1>3, <1>4

LEMMA StartFiles ==
  ASSUME TInv, FilesInv, NEW kind \in Kinds, NEW mode \in Modes, Start(kind, mode)
  PROVE  FilesInv'
<1>. DEFINE r == st.run + 1
            k == [run |-> r, before |-> capture, after |-> None,
                  status |-> "running", reverted |-> FALSE, restored |-> FALSE]
<1>1. r \in Runs /\ st' = Fresh(r, kind, mode) /\ UNCHANGED <<wt, head, index, rb, faults>> /\ rb = None
  BY DEF Start, World, Files
<1>2. k \in Point /\ k.run = r /\ k.before = capture /\ k.after = None
  BY <1>1, CaptureType DEF Point, TInv, Terminal
<1>3. points' = Append(points, k) /\ ~Has(r)
  BY DEF Start, begin_run
<1>4. st'.run = r /\ st'.status = "running" /\ st'.frozen = None
  BY <1>1 DEF Fresh
<1>. HIDE DEF r, k
<1>5. /\ PointIn(points', r) = k
      /\ \A i \in DOMAIN points' : points'[i] = k \/ (i \in DOMAIN points /\ points'[i] = points[i])
  BY <1>2, <1>3, AppendKeeps DEF TInv, TPoints
<1>6. PointsOK'
  BY <1>2, <1>5 DEF PointsOK, PointOK, FilesInv
<1>7. capture' = capture
  BY <1>1 DEF capture
<1>8. LiveOK'
  <2>1. Wrote(capture, capture', r)
    BY <1>7 DEF Wrote
  <2>. QED  BY <1>2, <1>4, <1>5, <2>1 DEF LiveOK
<1>9. RollbackOK' /\ faults' \in Nat
  BY <1>1 DEF RollbackOK, FilesInv
<1>. QED  BY <1>6, <1>8, <1>9 DEF FilesInv

(* Staging, committing and looking change no file. *)
LEMMA SameFiles ==
  ASSUME TInv, FilesInv, UNCHANGED <<wt, points, packs, rb, st, faults>>
  PROVE  FilesInv'
<1>1. PointsOK'
  BY DEF FilesInv, PointsOK
<1>2. Executing => Wrote(PointIn(points, st.run).before, capture', st.run)
  BY CaptureWrote DEF FilesInv, LiveOK
<1>3. LiveOK'
  BY <1>2 DEF FilesInv, LiveOK, Live, Executing
<1>4. RollbackOK'
  BY DEF FilesInv, RollbackOK, Executing, Has
<1>. QED  BY <1>1, <1>3, <1>4 DEF FilesInv

(* An edit: by the run that executes, or by others while none does. *)
LEMMA EditFiles ==
  ASSUME TInv, FilesInv, NEW p \in Paths, NEW r, edit(p, r), Executing => r = st.run,
         UNCHANGED <<points, packs, st, faults>>
  PROVE  FilesInv'
<1>1. PointsOK'
  BY DEF FilesInv, PointsOK
<1>2. /\ wt \in [Paths -> File]
      /\ wt' = [wt EXCEPT ![p] = [c |-> [n |-> clock + 1, by |-> r], t |-> clock + 1]]
         \/ wt' = [wt EXCEPT ![p] = [c |-> NoContent, t |-> clock + 1]]
  BY DEF edit, TInv, TFiles
<1>3. /\ \A q \in Scope \ {p} : wt'[q] = wt[q]
      /\ wt'[p].c = NoContent \/ wt'[p].c.by = r
  <2>1. \A q \in Scope \ {p} : wt'[q] = wt[q]
    BY <1>2, Small
  <2>2. wt'[p].c = NoContent \/ wt'[p].c.by = r
    BY <1>2
  <2>. QED  BY <2>1, <2>2
<1>4. Executing => Wrote(PointIn(points, st.run).before, capture', st.run)
  <2>. DEFINE before == PointIn(points, st.run).before
  <2>. SUFFICES ASSUME Executing PROVE Wrote(before, capture', st.run)
    OBVIOUS
  <2>1. Wrote(before, capture, st.run)
    BY DEF FilesInv, LiveOK
  <2>. HIDE DEF before
  <2>2. capture'.tree = (capture.tree)'
    OBVIOUS
  <2>3. ASSUME NEW q \in Scope
        PROVE  \/ capture'.tree[q] = before.tree[q] \/ capture'.tree[q] = NoContent
               \/ capture'.tree[q].by = st.run
    <3>1. capture'.tree[q] = wt'[q].c /\ capture.tree[q] = wt[q].c
      BY <2>2, CaptureFiles
    <3>2. CASE q = p
      BY <1>3, <3>1, <3>2
    <3>3. CASE q # p
      BY <1>3, <2>1, <3>1, <3>3 DEF Wrote
    <3>. QED  BY <3>2, <3>3
  <2>. QED  BY <2>3 DEF Wrote
<1>5. LiveOK'
  BY <1>4 DEF FilesInv, LiveOK, Live, Executing
<1>6. RollbackOK'
  <2>1. CASE rb = None
    BY <2>1 DEF edit, RollbackOK
  <2>2. CASE rb # None
    <3>1. rb \in RbType /\ rb' = [rb EXCEPT !.edited = rb.edited \cup {p}]
      BY <2>2 DEF edit, TInv, TRb
    <3>2. /\ rb'.run = rb.run /\ rb'.target = rb.target /\ rb'.todo = rb.todo /\ rb'.safety = rb.safety
          /\ rb'.undo = rb.undo /\ rb'.edited = rb.edited \cup {p}
      BY <3>1 DEF RbType
    <3>3. \A q \in Scope \ rb'.edited : q \in Scope \ rb.edited /\ wt'[q] = wt[q]
      BY <1>3, <3>2
    <3>4. ~Executing' /\ Has(rb.run)' /\ PointIn(points', rb'.run).before = PointIn(points, rb.run).before
      BY <2>2, <3>2 DEF FilesInv, RollbackOK, Executing, Has
    <3>. QED  BY <2>2, <3>2, <3>3, <3>4 DEF FilesInv, RollbackOK
  <2>. QED  BY <2>1, <2>2
<1>. QED  BY <1>1, <1>5, <1>6 DEF FilesInv

LEMMA UserFiles ==
  ASSUME TInv, FilesInv,
         \/ \E p \in Scope : CodeWrites(p) \/ UserEdits(p)
         \/ \E p \in Paths : UserStages(p)
         \/ \E branch \in {"main", "topic"} : UserCommits(branch)
         \/ Look
  PROVE  FilesInv'
<1>1. ASSUME NEW p \in Scope, CodeWrites(p) PROVE FilesInv'
  <2>1. p \in Paths /\ edit(p, st.run) /\ UNCHANGED <<points, packs, st, faults>>
    BY <1>1, Small DEF CodeWrites
  <2>. QED  BY <2>1, EditFiles
<1>2. ASSUME NEW p \in Paths, edit(p, Inside), UNCHANGED <<points, packs, st, faults>> PROVE FilesInv'
  <2>1. Executing => Inside = st.run
    BY DEF Inside
  <2>. QED  BY <1>2, <2>1, EditFiles
<1>3. ASSUME NEW p \in Scope, UserEdits(p) PROVE FilesInv'
  BY <1>2, <1>3, Small DEF UserEdits
<1>4. ASSUME NEW p \in Paths, UserStages(p) PROVE FilesInv'
  <2>1. CASE p \in Scope
    <3>1. UNCHANGED <<wt, points, packs, rb, st, faults>>
      BY <1>4, <2>1 DEF UserStages
    <3>. QED  BY <3>1, SameFiles
  <2>2. CASE p \notin Scope
    BY <1>2, <1>4, <2>2 DEF UserStages
  <2>. QED  BY <2>1, <2>2
<1>5. CASE Look \/ \E branch \in {"main", "topic"} : UserCommits(branch)
  <2>1. UNCHANGED <<wt, points, packs, rb, st, faults>>
    BY <1>5 DEF Look, UserCommits
  <2>. QED  BY <2>1, SameFiles
<1>. QED  BY <1>1, <1>3, <1>4, <1>5

LEMMA ResumeFiles ==
  ASSUME TInv, FilesInv, NEW answer \in Answers, resume(answer)
  PROVE  FilesInv'
<1>1. st \in State /\ st.status = "waiting" /\ Live /\ UNCHANGED <<wt, head, index, rb, faults>> /\ rb = None
  BY DEF resume, TInv, TSt, Live, Files
<1>2. CASE \E status \in {"interrupted", "cancelled"} : finish(st, status) /\ Live
  <2>1. Closed
    BY <1>1, <1>2 DEF Closed, Terminal
  <2>. QED  BY <1>1, <2>1, ClosedFiles DEF FilesInv
<1>3. CASE same_state(capture, st.frozen) /\ st' = Answered(answer) /\ UNCHANGED points
  <2>1. st'.run = st.run /\ st'.status = "running" /\ st'.frozen = None
    BY <1>1, <1>3, AnsweredType
  <2>2. PointsOK'
    BY <1>3 DEF FilesInv, PointsOK
  <2>3. Wrote(PointIn(points, st.run).before, st.frozen, st.run)
    BY <1>1 DEF FilesInv, LiveOK
  <2>4. Wrote(PointIn(points, st.run).before, capture, st.run)
    BY <1>3, <2>3 DEF same_state, Wrote
  <2>5. Wrote(PointIn(points, st.run).before, capture', st.run)
    BY <1>1, <2>4, CaptureWrote
  <2>6. LiveOK'
    BY <1>3, <2>1, <2>5 DEF LiveOK
  <2>7. RollbackOK'
    BY <1>1 DEF RollbackOK
  <2>. QED  BY <1>1, <2>2, <2>6, <2>7 DEF FilesInv
<1>. QED  BY <1>2, <1>3, ResumeLeaves

(* A rollback that begins: the worktree is what the run left. *)
LEMMA RollbackFiles ==
  ASSUME TInv, FilesInv, NEW r \in Runs, Rollback(r)
  PROVE  FilesInv'
<1>. DEFINE k == checkpoint(r)
<1>1. UNCHANGED <<wt, head, index, points, packs, st, faults>> /\ ~Executing /\ rollback(r) /\ Has(r)
  BY DEF Rollback, Files, rollback, Revertable
<1>2. k = PointIn(points, r) /\ k.run = r /\ k.after # None /\ same_state(capture, k.after) /\ PointOK(k)
  <2>1. k = PointIn(points, r) /\ k.run = r /\ HasIn(points, r)
    BY <1>1, CheckpointType DEF TInv
  <2>2. PointOK(PointIn(points, r))
    BY <2>1, PointIs DEF FilesInv, PointsOK
  <2>. QED  BY <1>1, <2>1, <2>2 DEF rollback, Revertable
<1>. DEFINE before == k.before
<1>3. /\ rb'.run = r /\ rb'.target = before /\ rb'.todo = Differ(before, capture) /\ rb'.safety = capture
      /\ rb'.edited = {} /\ rb'.undo = FALSE
  BY <1>1 DEF rollback
<1>. HIDE DEF k
<1>4. \A p \in Scope : capture.tree[p] = before.tree[p] \/ capture.tree[p] = NoContent \/ capture.tree[p].by = r
  BY <1>2 DEF PointOK, Wrote, same_state
<1>5. \A p \in rb'.todo : capture.tree[p] = NoContent \/ capture.tree[p].by = r
  BY <1>3, <1>4 DEF Differ
<1>6. \A p \in Scope : wt'[p].c = IF p \notin rb'.todo THEN before.tree[p] ELSE capture.tree[p]
  BY <1>1, <1>3, CaptureFiles DEF Differ
<1>7. ~Executing' /\ Has(r)' /\ PointIn(points', r).before = before
  BY <1>1, <1>2 DEF Executing, Has
<1>8. RollbackOK'
  <2>. HIDE DEF before
  <2>. QED  BY <1>3, <1>5, <1>6, <1>7 DEF RollbackOK
<1>9. PointsOK' /\ LiveOK'
  BY <1>1, <1>7 DEF FilesInv, PointsOK, LiveOK, Live
<1>. QED  BY <1>1, <1>8, <1>9 DEF FilesInv

LEMMA RollbackPathFiles ==
  ASSUME TInv, FilesInv, NEW p \in Scope, RollbackPath(p)
  PROVE  FilesInv'
<1>1. UNCHANGED <<points, packs, st, faults>> /\ restore_path(p) /\ rb # None
  BY DEF RollbackPath, restore_path
<1>2. rb \in RbType /\ wt \in [Paths -> File] /\ p \in Paths
  BY <1>1, Small DEF TInv, TRb, TFiles
<1>3. /\ rb' = [rb EXCEPT !.todo = rb.todo \ {p}]
      /\ wt' = [wt EXCEPT ![p] = [c |-> rb.target.tree[p], t |-> clock + 1]]
  BY <1>1 DEF restore_path
<1>4. /\ rb'.run = rb.run /\ rb'.target = rb.target /\ rb'.todo = rb.todo \ {p} /\ rb'.safety = rb.safety
      /\ rb'.undo = rb.undo /\ rb'.edited = rb.edited
  BY <1>2, <1>3 DEF RbType
<1>5. wt'[p].c = rb.target.tree[p] /\ \A q \in Scope \ {p} : wt'[q] = wt[q]
  <2>. DEFINE file == [c |-> rb.target.tree[p], t |-> clock + 1]
  <2>1. wt' = [wt EXCEPT ![p] = file] /\ file.c = rb.target.tree[p]
    BY <1>3
  <2>. HIDE DEF file
  <2>. QED  BY <1>2, <2>1, Small
<1>6. ~Executing' /\ Has(rb.run)' /\ PointIn(points', rb'.run).before = PointIn(points, rb.run).before
  BY <1>1, <1>4 DEF FilesInv, RollbackOK, Executing, Has
<1>. DEFINE before == PointIn(points, rb.run).before
<1>7. RollbackOK'
  <2>1. /\ rb.target = IF rb.undo THEN rb.safety ELSE before
        /\ ~rb.undo => \A q \in rb.todo : rb.safety.tree[q] = NoContent \/ rb.safety.tree[q].by = rb.run
        /\ \A q \in Scope \ rb.edited :
             wt[q].c = IF q \notin rb.todo THEN rb.target.tree[q]
                       ELSE IF rb.undo THEN before.tree[q] ELSE rb.safety.tree[q]
    BY <1>1 DEF FilesInv, RollbackOK
  <2>. HIDE DEF before
  <2>2. \A q \in Scope \ rb'.edited :
          wt'[q].c = IF q \notin rb'.todo THEN rb'.target.tree[q]
                     ELSE IF rb'.undo THEN before.tree[q] ELSE rb'.safety.tree[q]
    <3>. SUFFICES ASSUME NEW q \in Scope \ rb.edited
                  PROVE  wt'[q].c = IF q \notin rb.todo \ {p} THEN rb.target.tree[q]
                                    ELSE IF rb.undo THEN before.tree[q] ELSE rb.safety.tree[q]
      BY <1>4
    <3>1. CASE q = p
      BY <1>5, <3>1
    <3>2. CASE q # p
      <4>1. wt'[q].c = wt[q].c /\ (q \in rb.todo \ {p} <=> q \in rb.todo)
        BY <1>5, <3>2
      <4>. QED  BY <2>1, <4>1
    <3>. QED  BY <3>1, <3>2
  <2>3. PointIn(points', rb'.run).before = before
    BY <1>6 DEF before
  <2>. QED  BY <1>4, <1>6, <2>1, <2>2, <2>3 DEF RollbackOK
<1>8. PointsOK' /\ LiveOK'
  BY <1>1, <1>6 DEF FilesInv, PointsOK, LiveOK, Live
<1>. QED  BY <1>1, <1>7, <1>8 DEF FilesInv

LEMMA RollbackFailsFiles ==
  ASSUME TInv, FilesInv, RollbackFails
  PROVE  FilesInv'
<1>1. UNCHANGED <<wt, head, index, points, packs, st>> /\ restore_fails /\ rb # None /\ faults' \in Nat
  BY DEF RollbackFails, Files, restore_fails, FilesInv
<1>2. ~Executing' /\ capture' = capture
  BY <1>1 DEF FilesInv, RollbackOK, Executing, capture
<1>3. PointsOK' /\ LiveOK'
  BY <1>1, <1>2 DEF FilesInv, PointsOK, LiveOK, Live
<1>4. CASE rb.undo
  <2>1. rb' = None
    BY <1>1, <1>4 DEF restore_fails
  <2>. QED  BY <1>1, <1>3, <2>1 DEF FilesInv, RollbackOK
<1>5. CASE ~rb.undo
  <2>. DEFINE todo == Differ(rb.safety, capture)
              before == PointIn(points, rb.run).before
  <2>1. rb \in RbType /\ rb' = [rb EXCEPT !.target = rb.safety, !.undo = TRUE, !.todo = todo]
    BY <1>1, <1>5 DEF TInv, TRb, restore_fails
  <2>2. /\ Has(rb.run) /\ rb.target = before
        /\ \A p \in Scope \ rb.edited : wt[p].c = IF p \notin rb.todo THEN before.tree[p] ELSE rb.safety.tree[p]
    BY <1>1, <1>5 DEF FilesInv, RollbackOK
  <2>3. \A p \in Scope : p \in todo <=> rb.safety.tree[p] # wt[p].c
    BY CaptureFiles DEF Differ
  <2>. HIDE DEF todo, before
  <2>4. /\ rb'.run = rb.run /\ rb'.target = rb.safety /\ rb'.todo = todo /\ rb'.safety = rb.safety
        /\ rb'.undo = TRUE /\ rb'.edited = rb.edited
    BY <2>1 DEF RbType
  <2>5. \A p \in Scope \ rb'.edited :
          wt'[p].c = IF p \notin rb'.todo THEN rb'.target.tree[p] ELSE before.tree[p]
    BY <1>1, <2>2, <2>3, <2>4
  <2>6. Has(rb.run)' /\ PointIn(points', rb'.run).before = before
    BY <1>1, <2>2, <2>4 DEF before, Has
  <2>7. RollbackOK'
    BY <1>2, <2>4, <2>5, <2>6 DEF RollbackOK
  <2>. QED  BY <1>1, <1>3, <2>7 DEF FilesInv
<1>. QED  BY <1>4, <1>5

LEMMA RollbackEndsFiles ==
  ASSUME TInv, FilesInv, RollbackEnds
  PROVE  FilesInv'
<1>1. UNCHANGED <<wt, packs, st, faults>> /\ restore_index /\ rb # None /\ rb' = None
  BY DEF RollbackEnds, restore_index
<1>2. ~Executing /\ ~Executing' /\ Has(rb.run)
  BY <1>1 DEF FilesInv, RollbackOK, Executing
<1>3. PointsOK' /\ Moves
  <2>1. CASE rb.undo
    BY <1>1, <2>1 DEF restore_index, FilesInv, PointsOK, Moves
  <2>2. CASE ~rb.undo
    <3>. DEFINE k == [PointIn(points, rb.run) EXCEPT !.reverted = TRUE]
    <3>1. points' = Put([checkpoint(rb.run) EXCEPT !.reverted = TRUE])
      BY <1>1, <2>2 DEF restore_index
    <3>2. /\ k.run = rb.run /\ k.before = PointIn(points, rb.run).before
          /\ k.after = PointIn(points, rb.run).after
          /\ \A q : HasIn(points', q) <=> HasIn(points, q)
          /\ \A q : HasIn(points, q) => PointIn(points', q) = IF q = rb.run THEN k ELSE PointIn(points, q)
          /\ \A i \in DOMAIN points : points'[i] = k \/ points'[i] = points[i]
          /\ DOMAIN points' = DOMAIN points
      BY <1>2, <3>1, RevertedTypes DEF TInv
    <3>. HIDE DEF k
    <3>3. HasIn(points, rb.run) /\ PointIn(points, rb.run).run = rb.run /\ PointOK(PointIn(points, rb.run))
      BY <1>2, PointIs DEF Has, HasIn, FilesInv, PointsOK
    <3>4. PointOK(k)
      BY <3>2, <3>3 DEF PointOK
    <3>5. PointsOK'
      BY <3>2, <3>4 DEF FilesInv, PointsOK
    <3>6. Moves
      BY <3>2 DEF Moves
    <3>. QED  BY <3>5, <3>6
  <2>. QED  BY <2>1, <2>2
<1>4. LiveOK'
  <2>1. Live => PointIn(points', st.run).before = PointIn(points, st.run).before
    BY <1>3 DEF TInv, TSt, Has, HasIn, Moves
  <2>. QED  BY <1>1, <1>2, <2>1 DEF FilesInv, LiveOK, Live
<1>. QED  BY <1>1, <1>3, <1>4 DEF FilesInv, RollbackOK

LEMMA RestartFiles ==
  ASSUME TInv, FilesInv, Restart
  PROVE  FilesInv'
<1>1. UNCHANGED <<wt, head, index>> /\ rb' = None /\ faults' \in Nat /\ st \in State /\ capture \in Snapshot
  BY CaptureType DEF Restart, Files, FilesInv, TInv, TSt
<1>2. RollbackOK' /\ capture' = capture
  BY <1>1 DEF RollbackOK, capture
<1>. DEFINE back == st.status = "waiting" /\ Restorable(st.run)
<1>3. CASE back
  <2>. DEFINE pack == packs[st.run]
              k == [run |-> st.run, before |-> pack.before, after |-> pack.after,
                    status |-> "running", reverted |-> FALSE, restored |-> TRUE]
  <2>1. st.run \in Runs /\ pack # None /\ packs \in Packs /\ same_state(pack.paused, capture)
    BY <1>3 DEF Live, Restorable, TInv, TSt, TPacks
  <2>2. pack \in [before : Snapshot, after : Snapshot, paused : Snapshot]
    BY <2>1 DEF Packs
  <2>3. k \in Point /\ k.run = st.run /\ k.before = pack.before /\ k.after = pack.after
    BY <2>1, <2>2 DEF Point
  <2>4. points' = <<k>> /\ UNCHANGED packs /\ st' = [st EXCEPT !.capture_approved = FALSE, !.frozen = capture]
    BY <1>3 DEF Restart, restore_checkpoint
  <2>5. Wrote(pack.before, pack.after, st.run) /\ Wrote(pack.before, pack.paused, st.run)
    BY <1>3, <2>1 DEF FilesInv, LiveOK
  <2>. HIDE DEF k, pack
  <2>6. PointIn(points', st.run) = k
    BY <2>3, <2>4, OnePoint
  <2>7. PointsOK'
    <3>1. \A i \in DOMAIN points' : points'[i] = k
      BY <2>4
    <3>. QED  BY <2>3, <2>5, <3>1 DEF PointsOK, PointOK
  <2>8. st'.run = st.run /\ st'.status = "waiting" /\ st'.frozen = capture /\ capture # None
    BY <1>1, <1>3, <2>4, Small DEF State
  <2>9. Wrote(pack.before, capture, st.run)
    BY <2>1, <2>5 DEF same_state, Wrote
  <2>10. LiveOK'
    BY <2>3, <2>4, <2>5, <2>6, <2>8, <2>9 DEF LiveOK, Executing, pack
  <2>. QED  BY <1>1, <1>2, <2>7, <2>10 DEF FilesInv
<1>4. CASE ~back
  <2>1. /\ points' = None
        /\ st' = IF st.status \in Terminal THEN st ELSE Over(st, "interrupted")
    BY <1>4 DEF Restart
  <2>2. PointsOK'
    BY <2>1 DEF PointsOK, None
  <2>3. st'.status \in Terminal
    <3>1. "interrupted" \in Terminal
      BY DEF Terminal
    <3>. QED  BY <1>1, <2>1, <3>1, OverType
  <2>4. LiveOK'
    BY <2>3 DEF LiveOK, Live, Executing, Terminal
  <2>. QED  BY <1>1, <1>2, <2>2, <2>4 DEF FilesInv
<1>. QED  BY <1>3, <1>4

LEMMA NextFiles == TInv /\ FilesInv /\ [Next]_vars => FilesInv'
<1>. SUFFICES ASSUME TInv, FilesInv, [Next]_vars PROVE FilesInv'
  OBVIOUS
<1>1. CASE Stage \/ CodeEnds
  BY <1>1, StageFiles, CodeEndsFiles
<1>2. CASE \/ \E kind \in Kinds, mode \in Modes : Start(kind, mode)
           \/ \E answer \in Answers : resume(answer)
  BY <1>2, StartFiles, ResumeFiles
<1>3. CASE \/ \E p \in Scope : CodeWrites(p) \/ UserEdits(p)
           \/ \E p \in Paths : UserStages(p)
           \/ \E branch \in {"main", "topic"} : UserCommits(branch)
           \/ Look
  BY <1>3, UserFiles
<1>4. CASE \/ \E r \in Runs : Rollback(r)
           \/ \E p \in Scope : RollbackPath(p)
           \/ RollbackEnds \/ RollbackFails \/ Restart
  BY <1>4, RollbackFiles, RollbackPathFiles, RollbackEndsFiles, RollbackFailsFiles, RestartFiles
<1>5. CASE UNCHANGED vars
  BY <1>5, SameFiles DEF vars, git
<1>. QED  BY <1>1, <1>2, <1>3, <1>4, <1>5 DEF Next, Stage

LEMMA InitFiles == Init => FilesInv
<1>. SUFFICES ASSUME Init PROVE FilesInv
  OBVIOUS
<1>1. points = None /\ rb = None /\ faults = 0 /\ st = [Fresh(0, "single", "always") EXCEPT !.status = "interrupted"]
  BY DEF Init
<1>2. PointsOK /\ RollbackOK /\ faults \in Nat
  BY <1>1 DEF PointsOK, RollbackOK, None
<1>3. st.status = "interrupted"
  <2>. DEFINE f == Fresh(0, "single", "always")
  <2>1. f \in State
    BY FreshType DEF Kinds, Modes
  <2>. HIDE DEF f
  <2>. QED  BY <1>1, <2>1 DEF State, f
<1>4. LiveOK
  BY <1>3 DEF LiveOK, Live, Executing
<1>. QED  BY <1>2, <1>4 DEF FilesInv

(* Which steps move a rollback on, and which end it. *)
LEMMA RbMoves ==
  ASSUME TInv, FilesInv, [Next]_vars, rb # None, rb' # rb
  PROVE  \/ rb' # None /\ rb'.todo = rb.todo
         \/ \E p \in Scope : RollbackPath(p)
         \/ RollbackEnds \/ RollbackFails \/ Restart
<1>1. rb \in RbType /\ ~Executing
  BY DEF TInv, TRb, FilesInv, RollbackOK
<1>2. ASSUME NEW p \in Paths, NEW r, edit(p, r) PROVE rb' # None /\ rb'.todo = rb.todo
  <2>1. rb' = [rb EXCEPT !.edited = rb.edited \cup {p}]
    BY <1>2 DEF edit
  <2>2. rb' \in RbType /\ rb'.todo = rb.todo
    BY <1>1, <1>2, <2>1 DEF RbType
  <2>3. rb' # None
    <3>1. "todo" \in DOMAIN rb' /\ "todo" \notin DOMAIN None
      BY <2>2 DEF RbType, None
    <3>. QED  BY <3>1
  <2>. QED  BY <2>2, <2>3
<1>3. ASSUME NEW p \in Scope, CodeWrites(p) \/ UserEdits(p) PROVE rb' # None /\ rb'.todo = rb.todo
  <2>1. p \in Paths /\ \E r : edit(p, r)
    BY <1>3, Small DEF CodeWrites, UserEdits
  <2>. QED  BY <1>2, <2>1
<1>4. ASSUME NEW p \in Paths, UserStages(p) PROVE rb' # None /\ rb'.todo = rb.todo
  <2>1. \E r : edit(p, r)
    BY <1>4 DEF UserStages
  <2>. QED  BY <1>2, <2>1
<1>5. CASE Stage \/ CodeEnds \/ Look \/ UNCHANGED vars
  BY <1>5 DEF Stage, Code, CodeAsks, CodeEnds, Capture, Shoot, CaptureEnds, CaptureFails, Review, ReviewFails,
         ReviewEnds, Summary, Fails, Stop, World, Files, Look, vars, git
<1>6. CASE \/ \E kind \in Kinds, mode \in Modes : Start(kind, mode)
           \/ \E answer \in Answers : resume(answer)
           \/ \E branch \in {"main", "topic"} : UserCommits(branch)
           \/ \E r \in Runs : Rollback(r)
  BY <1>6 DEF Start, resume, UserCommits, Rollback, rollback
<1>. QED  BY <1>3, <1>4, <1>5, <1>6 DEF Next, Stage

(* A rollback destroys nothing but what its own run wrote: whatever the     *)
(* user, a later run or another session wrote before the run began, while   *)
(* it waited or after it ended is still there, however many runs, restarts  *)
(* and failing steps there were.  (git.py:472)                              *)
THEOREM ForeignTheorem == Spec => NothingForeignLost
<1>1. TInv /\ FilesInv /\ [Next]_vars =>
        (rb # None /\ rb' # None =>
           \A p \in Paths :
             rb'.todo # rb.todo /\ wt'[p] # wt[p] =>
               /\ p \in Scope
               /\ \/ wt[p].c = NoContent
                  \/ wt[p].c.by = rb.run
                  \/ rb.undo /\ wt[p].c = checkpoint(rb.run).before.tree[p]
                  \/ p \in rb.edited)
  <2>. SUFFICES ASSUME TInv, FilesInv, [Next]_vars, rb # None, rb' # None,
                       NEW p \in Paths, rb'.todo # rb.todo, wt'[p] # wt[p]
                PROVE  /\ p \in Scope
                       /\ \/ wt[p].c = NoContent
                          \/ wt[p].c.by = rb.run
                          \/ rb.undo /\ wt[p].c = checkpoint(rb.run).before.tree[p]
                          \/ p \in rb.edited
    OBVIOUS
  <2>1. PICK q \in Scope : RollbackPath(q)
    <3>1. ~RollbackEnds /\ ~Restart /\ ~RollbackFails
      BY DEF RollbackEnds, restore_index, Restart, RollbackFails, Files
    <3>. QED  BY <3>1, RbMoves
  <2>2. p = q /\ q \in rb.todo
    <3>1. wt' = [wt EXCEPT ![q] = [c |-> rb.target.tree[q], t |-> clock + 1]] /\ q \in rb.todo
      BY <2>1 DEF RollbackPath, restore_path
    <3>2. wt \in [Paths -> File]
      BY DEF TInv, TFiles
    <3>. QED  BY <3>1, <3>2
  <2>3. /\ p \notin rb.edited =>
             wt[p].c = IF rb.undo THEN PointIn(points, rb.run).before.tree[p] ELSE rb.safety.tree[p]
        /\ ~rb.undo => rb.safety.tree[p] = NoContent \/ rb.safety.tree[p].by = rb.run
    BY <2>2 DEF FilesInv, RollbackOK
  <2>4. PointIn(points, rb.run) = checkpoint(rb.run)
    BY DEF PointIn, checkpoint
  <2>. QED  BY <2>2, <2>3, <2>4
<1>. QED  BY <1>1, InitTypes, NextTypes, InitFiles, NextFiles, PTL DEF Spec, NothingForeignLost

(* What a look at the index leaves staged. *)
LEMMA RefreshKeeps ==
  ASSUME NEW i \in Index, NEW files, NEW p \in Paths
  PROVE  Staged(Refreshed(i, files), p).c = Staged(i, p).c
<1>1. CASE i = None
  BY <1>1 DEF Refreshed
<1>2. CASE i # None
  <2>1. Refreshed(i, files) = [q \in Paths |-> IF i[q].c # NoContent /\ i[q].c = files[q].c THEN files[q] ELSE i[q]]
    BY <1>2 DEF Refreshed
  <2>2. Refreshed(i, files)[p].c = i[p].c
    BY <2>1
  <2>3. Refreshed(i, files) # None
    <3>1. p \in DOMAIN Refreshed(i, files) /\ DOMAIN None = {}
      BY <2>1 DEF None
    <3>. QED  BY <3>1
  <2>. QED  BY <1>2, <2>2, <2>3 DEF Staged
<1>. QED  BY <1>1, <1>2

(* Only the end of a rollback marks a checkpoint as reverted. *)
Marks == \E i \in DOMAIN points : i \in DOMAIN points' /\ points'[i].reverted /\ ~points[i].reverted

LEMMA FinishMarks ==
  ASSUME TInv, Live, NEW status \in Terminal \cup {"running"}, NEW snapshot \in Snapshot \cup {None},
         finish_run(st.run, status, snapshot)
  PROVE  ~Marks
<1>. DEFINE k == Finished(st.run, status, snapshot)
<1>1. TFiles /\ TPoints /\ Has(st.run) /\ HasIn(points, st.run)
  BY DEF TInv, TSt, Has, HasIn
<1>2. /\ points' = Put(k) /\ k.run = st.run /\ k.reverted = PointIn(points, st.run).reverted
  BY <1>1, FinishRun DEF finish_run
<1>. HIDE DEF k
<1>3. \A i \in DOMAIN points : points'[i] = points[i] \/ (points[i].run = st.run /\ points'[i] = k)
  BY <1>2 DEF Put
<1>4. \A i \in DOMAIN points : points[i].run = st.run => points[i] = PointIn(points, st.run)
  BY <1>1, PointAt DEF TPoints
<1>. QED  BY <1>2, <1>3, <1>4 DEF Marks

LEMMA LeavesMarks ==
  ASSUME TInv, Paused \/ Closed \/ Stays \/ (CodeEnds /\ st.kind # "single")
  PROVE  ~Marks
<1>1. CASE Paused
  <2>1. Live /\ finish_run(st.run, "running", None)
    BY <1>1, ExecutingIsLive DEF Paused, wait
  <2>. QED  BY <2>1, FinishMarks
<1>2. CASE Closed
  <2>1. PICK s \in State, status \in Terminal : s.run = st.run /\ Live /\ finish(s, status)
    BY <1>2 DEF Closed
  <2>2. finish_run(st.run, status, s.frozen) /\ s.frozen \in Snapshot \cup {None}
    BY <2>1 DEF finish, State
  <2>. QED  BY <2>1, <2>2, FinishMarks
<1>3. CASE Stays
  BY <1>3 DEF Stays, Marks
<1>4. CASE CodeEnds /\ st.kind # "single"
  <2>1. Live /\ finish_run(st.run, "running", None)
    BY <1>4, ExecutingIsLive DEF CodeEnds, At
  <2>. QED  BY <2>1, FinishMarks
<1>. QED  BY <1>1, <1>2, <1>3, <1>4

LEMMA WhoMarks ==
  ASSUME TInv, [Next]_vars, Marks
  PROVE  RollbackEnds /\ ~rb.undo
<1>1. CASE Stage
  BY <1>1, StageLeaves, LeavesMarks
<1>2. CASE CodeEnds
  <2>1. CASE st.kind = "single"
    <3>1. Live
      BY <1>2, ExecutingIsLive DEF CodeEnds, At
    <3>2. Coded \in State /\ Coded.run = st.run /\ Coded.frozen = st.frozen
      BY CodedType
    <3>3. finish(Coded, "completed") /\ "completed" \in Terminal
      BY <1>2, <2>1 DEF CodeEnds, Terminal
    <3>4. Closed
      BY <3>1, <3>2, <3>3 DEF Closed
    <3>. QED  BY <3>4, LeavesMarks
  <2>. QED  BY <1>2, <2>1, LeavesMarks
<1>3. CASE \E kind \in Kinds, mode \in Modes : Start(kind, mode)
  <2>. DEFINE k == [run |-> st.run + 1, before |-> capture, after |-> None,
                    status |-> "running", reverted |-> FALSE, restored |-> FALSE]
  <2>1. points' = Append(points, k) /\ points \in Seq(Point)
    BY <1>3 DEF Start, begin_run, TInv, TPoints
  <2>. HIDE DEF k
  <2>2. \A i \in DOMAIN points : points'[i] = points[i]
    BY <2>1
  <2>. QED  BY <2>2 DEF Marks
<1>4. CASE \E answer \in Answers : resume(answer)
  <2>1. PICK answer \in Answers : resume(answer)
    BY <1>4
  <2>2. CASE UNCHANGED points
    BY <2>2 DEF Marks
  <2>3. CASE \E status \in {"interrupted", "cancelled"} : finish(st, status) /\ Live
    <3>1. Closed
      BY <2>3 DEF Closed, Terminal, TInv, TSt
    <3>. QED  BY <3>1, LeavesMarks
  <2>. QED  BY <2>1, <2>2, <2>3, ResumeLeaves
<1>5. CASE \/ \E p \in Scope : CodeWrites(p) \/ UserEdits(p) \/ RollbackPath(p)
           \/ \E p \in Paths : UserStages(p)
           \/ \E branch \in {"main", "topic"} : UserCommits(branch)
           \/ Look \/ (\E r \in Runs : Rollback(r)) \/ RollbackFails \/ UNCHANGED vars
  <2>1. UNCHANGED points
    BY <1>5 DEF CodeWrites, UserEdits, RollbackPath, UserStages, UserCommits, Look, Rollback, RollbackFails, vars, git
  <2>. QED  BY <2>1 DEF Marks
<1>6. CASE Restart
  <2>1. \A i \in DOMAIN points' : points'[i].reverted = FALSE
    BY <1>6 DEF Restart, restore_checkpoint, None
  <2>. QED  BY <2>1 DEF Marks
<1>7. CASE RollbackEnds
  <2>1. rb.undo => UNCHANGED points
    BY <1>7 DEF RollbackEnds, restore_index
  <2>. QED  BY <1>7, <2>1 DEF Marks
<1>. QED  BY <1>1, <1>2, <1>3, <1>4, <1>5, <1>6, <1>7 DEF Next, Stage

LEMMA EndsExact ==
  ASSUME TInv, FilesInv, RollbackEnds
  PROVE  BackBefore /\ FailureUndone
<1>1. /\ rb # None /\ rb.todo = {} /\ rb' = None /\ UNCHANGED wt /\ rb \in RbType
      /\ index' = IF rb.undo THEN rb.target.index ELSE Refreshed(rb.target.index, wt)
      /\ ~rb.undo => points' = Put([checkpoint(rb.run) EXCEPT !.reverted = TRUE])
      /\ rb.undo => UNCHANGED points
  BY DEF RollbackEnds, restore_index, TInv, TRb
<1>. DEFINE before == PointIn(points, rb.run).before
<1>2. /\ Has(rb.run) /\ rb.target = IF rb.undo THEN rb.safety ELSE before
      /\ \A p \in Scope \ rb.edited : wt[p].c = rb.target.tree[p]
  BY <1>1 DEF FilesInv, RollbackOK
<1>3. rb.target.index \in Index
  BY <1>1 DEF RbType, Snapshot
<1>. HIDE DEF before
<1>4. FailureUndone
  BY <1>1, <1>2 DEF FailureUndone
<1>5. BackBefore
  <2>. SUFFICES ASSUME NEW i \in DOMAIN points, i \in DOMAIN points', points'[i].reverted, ~points[i].reverted
                PROVE  /\ \A p \in Scope : p \in rb.edited \/ wt'[p].c = points[i].before.tree[p]
                       /\ \A p \in Paths : Staged(index', p).c = Staged(points[i].before.index, p).c
    BY DEF BackBefore
  <2>1. ~rb.undo
    BY <1>1
  <2>2. points[i].run = rb.run
    <3>. DEFINE k == [PointIn(points, rb.run) EXCEPT !.reverted = TRUE]
    <3>1. points' = Put(k) /\ k.run = rb.run
      BY <1>1, <1>2, <2>1, RevertedTypes DEF TInv
    <3>. HIDE DEF k
    <3>. QED  BY <3>1 DEF Put
  <2>3. points[i].before = before
    BY <2>2, PointAt DEF TInv, TPoints, before
  <2>4. \A p \in Scope : p \in rb.edited \/ wt'[p].c = before.tree[p]
    BY <1>1, <1>2, <2>1
  <2>5. \A p \in Paths : Staged(index', p).c = Staged(before.index, p).c
    BY <1>1, <1>2, <1>3, <2>1, RefreshKeeps
  <2>. QED  BY <2>3, <2>4, <2>5
<1>. QED  BY <1>4, <1>5

(* A rollback that reports success has put every file and every staged     *)
(* entry back to what they were before the run, and a failing one whose    *)
(* undoing succeeds leaves what it found; edits made while it is under way *)
(* are the exception.  (git.py:472, 490)                                   *)
THEOREM RollbackTheorem == Spec => RollbackIsExact
<1>1. TInv /\ FilesInv /\ [Next]_vars => BackBefore /\ FailureUndone
  <2>. SUFFICES ASSUME TInv, FilesInv, [Next]_vars, ~RollbackEnds PROVE BackBefore /\ FailureUndone
    BY EndsExact
  <2>1. BackBefore
    <3>1. ~Marks
      BY WhoMarks
    <3>. QED  BY <3>1 DEF Marks, BackBefore
  <2>2. FailureUndone
    <3>. SUFFICES ASSUME rb # None, rb' = None, faults' = faults PROVE FALSE
      BY DEF FailureUndone
    <3>1. RollbackFails \/ Restart
      <4>1. ~\E p \in Scope : RollbackPath(p)
        <5>. SUFFICES ASSUME NEW p \in Scope, RollbackPath(p) PROVE FALSE
          OBVIOUS
        <5>1. rb \in RbType /\ rb' = [rb EXCEPT !.todo = rb.todo \ {p}]
          BY DEF RollbackPath, restore_path, TInv, TRb
        <5>2. "todo" \in DOMAIN rb'
          BY <5>1 DEF RbType
        <5>. QED  BY <5>2 DEF None
      <4>. QED  BY <4>1, RbMoves
    <3>2. faults' = faults + 1 /\ faults \in Nat
      BY <3>1 DEF RollbackFails, Restart, FilesInv
    <3>. QED  BY <3>2
  <2>. QED  BY <2>1, <2>2
<1>. QED  BY <1>1, InitTypes, NextTypes, InitFiles, NextFiles, PTL DEF Spec, RollbackIsExact
=============================================================================
