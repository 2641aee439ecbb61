------------------------- MODULE MCWorkflowSession -------------------------
(* Instances of WorkflowSession for TLC. *)
EXTENDS WorkflowSession, TLC

CONSTANTS s1, s2, s3, a, b

(* One session, or two that share a worktree beside one whose worktree is  *)
(* nested in it.                                                           *)
OneRoot    == [s \in Sessions |-> a]
TwoRoots   == [s \in Sessions |-> IF s = s3 THEN b ELSE a]
AllOverlap == Roots \X Roots
Symmetry   == Permutations(Runs) \cup Permutations(Inputs) \cup Permutations(Workers)
(* Two sessions in the same worktree are alike too. *)
SharedSymmetry == Symmetry \cup Permutations({s1, s2})

(* Bounds of the run with restarts: of crashes and database failures a     *)
(* behaviour has two in all, and time passes and the user edits while a    *)
(* run is paused or about to go on.                                        *)
TwoFailures == spent.crashes + spent.faults <= 2
PausedWorld == clock' # clock \/ (\E root \in Roots : User \in tree'[root] \ tree[root])
                 => \E r \in Runs : saved[r] # NoTree \/ state[r].frozen # NoTree
=============================================================================
