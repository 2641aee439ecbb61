------------------------------ MODULE RetryPlan ------------------------------
(***************************************************************************)
(* retry_plan.py: the plan a retry freezes out of the task rows of a run   *)
(* that has ended, for the whole run or for one of its tasks.  It is read  *)
(* off the states in which Delegation ends a run.                          *)
(***************************************************************************)
EXTENDS Delegation

Rows(r)      == {t \in Tasks : row[r][t] # "none"}
Done(r, t)   == row[r][t] = "completed"
Refs(r, t)   == IF plan[r].declared THEN Deps(r, t) ELSE {}
Whole        == 0           \* no task is selected

(* The first refusal of retry_scope.                                      *)
Inconsistent(r) == \E t \in Rows(r) : Done(r, t) /\ \E d \in Refs(r, t) : ~Done(r, d)

(* Mutant: what a missing step needs in its turn is not looked up.         *)
MissingDirectly(r, t) == {t} \cup {d \in Refs(r, t) : ~Done(r, d)}

(* The selected task with the steps it misses, and what those miss: the    *)
(* least set closed under it.                                              *)
Missing(r, t) ==
  LET Closed(S) == t \in S /\ \A u \in S : {d \in Refs(r, u) : ~Done(r, d)} \subseteq S
  IN {u \in Rows(r) : \A S \in SUBSET Rows(r) : Closed(S) => u \in S}

retry_scope(r, selected, force) ==
  IF selected = Whole THEN {t \in Rows(r) : force \/ ~Done(r, t)}
  ELSE Missing(r, selected)

(* node: the role the retry starts with, and below a task that is chosen   *)
(* the plan its agent had made; below a completed one all of it.           *)
Below(q, r)  == Len(q) < Len(r) /\ SubSeq(r, 1, Len(q)) = q
Forced(q, selected, r) ==
  \/ selected # Whole /\ Done(q, selected)
  \/ \E k \in Len(q) + 1 .. Len(r) : Done(SubSeq(r, 1, k - 1), r[k])

Chosen(q, selected) ==
  LET chosen[r \in Roles] ==
        IF r = q THEN retry_scope(r, selected, Forced(q, selected, r))
        ELSE IF Below(q, r) /\ CallOf(r) \in chosen[Caller(r)]
        THEN retry_scope(r, Whole, Forced(q, selected, r))
        ELSE {}
  IN chosen

(* build_retry: a whole run only when it did not complete.                 *)
Ended == run \in Terminal
Retries ==
  {<<Root, Whole>> : x \in IF Ended /\ run # "completed" THEN {Root} ELSE {}}
    \cup {x \in Roles \X Tasks : Ended /\ x[2] \in Rows(x[1])}

(* Whatever way a run ends, its rows can be retried: no completed row      *)
(* stands before one it needed, in any role, and none is unfinished below  *)
(* a completed call, where no retry would find it.  A retry runs nothing   *)
(* before what it needs, repeats nothing that is done but what it was      *)
(* asked for, and a retry of the whole run leaves nothing out.             *)
(* (retry_plan.py:51, 57-66, 161)                                          *)
RetryIsSound ==
  /\ Ended => \A r \in Roles : ~Inconsistent(r)
  /\ \A x \in Retries :
       LET q == x[1]  selected == x[2]  chosen == Chosen(q, selected) IN
       \A r \in Roles :
         /\ \A t \in chosen[r], d \in Tasks :
              d \in Refs(r, t) => d \in chosen[r] \/ Done(r, d)
         /\ \A t \in chosen[r] :
              Done(r, t) => <<r, t>> = <<q, selected>> \/ (selected # Whole /\ Done(q, selected) /\ Below(q, r))
         /\ selected = Whole => \A t \in Rows(r) : Done(r, t) \/ t \in chosen[r]
=============================================================================
