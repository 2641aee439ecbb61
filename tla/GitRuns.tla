------------------------------ MODULE GitRuns ------------------------------
(***************************************************************************)
(* store/git.py: the snapshots one session takes of its Git worktree       *)
(* around every run, the packs that carry them over a restart, and the     *)
(* rollback of the latest finished run.                                    *)
(*                                                                         *)
(* A file is its content and the time it was written.  Every edit makes a  *)
(* new content, known by its number and by the run that was executing when *)
(* it was made (0: none).  The index keeps, beside the content it has      *)
(* staged, the time of the file it compared: that is what `git status`     *)
(* brings up to date, and the hash of a snapshot covers it.                *)
(* The module has the state and the operations; Stages composes them.      *)
(***************************************************************************)
EXTENDS Naturals, Sequences, FiniteSets

CONSTANTS
  Scope,      \* the paths below the session's workspace
  Siblings,   \* paths of the repository beside it
  Runs        \* the runs of the session, numbered in the order they start

ASSUME PathsApart == Scope \cap Siblings = {}
ASSUME RunsAreNumbers == Runs \subseteq Nat \ {0}

Paths == Scope \cup Siblings
None  == <<>>              \* no snapshot, no index, no rollback in progress
NoContent == [n |-> 0, by |-> 0]
Absent    == [c |-> NoContent, t |-> 0]

VARIABLES
  wt,      \* the files
  index,   \* the staged files, or None while there is no index file
  head,    \* the commit checked out, with its tree and the branch
  points,  \* _checkpoints of the GitRepository, in the order of insertion
  packs,   \* the packs written for waiting runs
  rb,      \* the rollback in progress
  clock    \* the writes so far

git == <<wt, index, head, points, packs, rb, clock>>

(* capture: git add reads the scope from the worktree and everything else  *)
(* from HEAD; the index file is taken as it is.                            *)
capture == [tree |-> [p \in Paths |-> IF p \in Scope THEN wt[p].c ELSE head.tree[p]],
            head |-> head.id, branch |-> head.branch, index |-> index]

same_state(left, right) ==
  /\ left.tree = right.tree
  /\ left.head = right.head
  /\ left.branch = right.branch
  /\ left.index = right.index

scoped_tree(tree) == [p \in Paths |-> IF p \in Scope THEN tree[p] ELSE NoContent]

(* The checkpoints are a sequence in the order of insertion, one per run.  *)
Has(r)     == \E i \in DOMAIN points : points[i].run = r
checkpoint(r) == points[CHOOSE i \in DOMAIN points : points[i].run = r]
Put(k)     == [i \in DOMAIN points |-> IF points[i].run = k.run THEN k ELSE points[i]]

Revertible(k) == k.status \in {"completed", "failed"} /\ ~k.reverted
latest_revertible ==
  LET at == {i \in DOMAIN points : Revertible(points[i])} IN
  IF at = {} THEN None ELSE points[CHOOSE i \in at : \A j \in at : j <= i]

begin_run(r) ==
  /\ ~Has(r)
  /\ points' = Append(points, [run |-> r, before |-> capture, after |-> None,
                               status |-> "running", reverted |-> FALSE, restored |-> FALSE])

(* Mutant: the snapshot frozen when the run began to wait is not used.     *)
FinishedNow(r, status, snapshot) ==
  [checkpoint(r) EXCEPT !.after = capture, !.status = status]

(* The record finish_run leaves; snapshot is None unless the caller froze  *)
(* one when the run began to wait.                                         *)
Finished(r, status, snapshot) ==
  [checkpoint(r) EXCEPT !.after = IF snapshot = None THEN capture ELSE snapshot,
                         !.status = status]
finish_run(r, status, snapshot) ==
  points' = IF Has(r) THEN Put(Finished(r, status, snapshot)) ELSE points

(* export_checkpoint, of a run whose after snapshot finish_run has just    *)
(* taken: the baseline outside the scope is not packed, nor the index of   *)
(* the phase snapshot.                                                     *)
export_checkpoint(r) ==
  LET before == checkpoint(r).before IN
  packs' = [packs EXCEPT ![r] =
    [before |-> [before EXCEPT !.tree = scoped_tree(before.tree)],
     after  |-> [capture EXCEPT !.tree = scoped_tree(capture.tree), !.index = None],
     paused |-> capture]]
discard_files(r) == packs' = [packs EXCEPT ![r] = None]

(* restore_checkpoint refuses when the worktree is not the one that paused.*)
Restorable(r) == packs[r] # None /\ same_state(packs[r].paused, capture)
restore_checkpoint(r) ==
  points' = << [run |-> r, before |-> packs[r].before, after |-> packs[r].after,
                status |-> "running", reverted |-> FALSE, restored |-> TRUE] >>

-----------------------------------------------------------------------------
(* The index.                                                              *)
Staged(i, p) == IF i = None THEN Absent ELSE i[p]
SiblingsOf(snapshot) == [p \in Siblings |-> Staged(snapshot.index, p).c]

(* Only the objects of the scope travel in a pack: an index whose other    *)
(* entries have moved on cannot be put back after a restart.               *)
sibling_staging_changed(k) ==
  /\ k.restored /\ k.after # None
  /\ Siblings # {}
  /\ SiblingsOf(k.before) # SiblingsOf(k.after)

(* git status notes in the index the time of every file whose content it   *)
(* found unchanged, and writes the index when that changed something.      *)
Refreshed(i, files) ==
  IF i = None THEN i
  ELSE [p \in Paths |-> IF i[p].c # NoContent /\ i[p].c = files[p].c THEN files[p] ELSE i[p]]

porcelain_status == index' = Refreshed(index, wt)

(* What may be rolled back: the latest finished run, when the worktree is  *)
(* what it left.                                                           *)
Revertable(r, current) ==
  LET k == checkpoint(r) IN
  /\ Has(r)
  /\ latest_revertible = k
  /\ k.after # None
  /\ same_state(current, k.after)
  /\ ~sibling_staging_changed(k)

-----------------------------------------------------------------------------
(* What changes the repository beside the operations above: an edit made   *)
(* while run r executes, or by others when r is 0, staging and committing. *)
edit(p, r) ==
  /\ \/ wt' = [wt EXCEPT ![p] = [c |-> [n |-> clock + 1, by |-> r], t |-> clock + 1]]
     \/ /\ wt[p].c # NoContent
        /\ wt' = [wt EXCEPT ![p] = [c |-> NoContent, t |-> clock + 1]]
  /\ clock' = clock + 1
  /\ rb' = IF rb = None THEN rb ELSE [rb EXCEPT !.edited = @ \cup {p}]
stage(p) ==
  /\ Staged(index, p).c # wt'[p].c
  /\ index' = [q \in Paths |-> IF q # p THEN Staged(index, q)
                               ELSE IF wt'[q].c = NoContent THEN Absent ELSE wt'[q]]
commit(branch) ==
  /\ index # None
  /\ head' = [id |-> clock + 1, branch |-> branch, tree |-> [p \in Paths |-> index[p].c]]
  /\ clock' = clock + 1

-----------------------------------------------------------------------------
(* The rollback: the checks and the safety snapshot, one checkout or       *)
(* deletion per path, the index last.  When a step fails the same is done  *)
(* towards the safety snapshot, and what fails there is given up.          *)
(* Mutant: the diff is not limited to the workspace.                       *)
DifferAnywhere(target, current) == {p \in Paths : target.tree[p] # current.tree[p]}

Differ(target, current) == {p \in Scope : target.tree[p] # current.tree[p]}

rollback(r) ==
  LET before == checkpoint(r).before IN
  /\ rb = None /\ Revertable(r, capture)
  /\ rb' = [run |-> r, target |-> before, todo |-> Differ(before, capture),
            safety |-> capture, edited |-> {}, undo |-> FALSE]

(* checkout writes the file and its index entry; a path the target lacks   *)
(* is unlinked, its index entry left to the last step.                     *)
restore_path(p) ==
  LET c == rb.target.tree[p]
      file == [c |-> c, t |-> clock + 1] IN
  /\ rb # None /\ p \in rb.todo
  /\ wt' = [wt EXCEPT ![p] = file]
  /\ index' = IF c = NoContent THEN index
              ELSE [q \in Paths |-> IF q = p THEN file ELSE Staged(index, q)]
  /\ clock' = clock + 1
  /\ rb' = [rb EXCEPT !.todo = @ \ {p}]

(* Mutant: the index stays as the checkouts left it.                       *)
RestoreFilesOnly ==
  /\ rb # None /\ rb.todo = {}
  /\ index' = index
  /\ points' = IF rb.undo THEN points
               ELSE Put([checkpoint(rb.run) EXCEPT !.reverted = TRUE])
  /\ rb' = None

(* The last step replaces the index; a rollback then asks for the status   *)
(* of the workspace, which looks at the index it has just put back.        *)
restore_index ==
  /\ rb # None /\ rb.todo = {}
  /\ index' = IF rb.undo THEN rb.target.index ELSE Refreshed(rb.target.index, wt)
  /\ points' = IF rb.undo THEN points
               ELSE Put([checkpoint(rb.run) EXCEPT !.reverted = TRUE])
  /\ rb' = None

restore_fails ==
  /\ rb # None
  /\ rb' = IF rb.undo THEN None
           ELSE [rb EXCEPT !.target = rb.safety, !.undo = TRUE,
                           !.todo = Differ(rb.safety, capture)]
=============================================================================
