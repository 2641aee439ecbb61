------------------------------ MODULE MCStages ------------------------------
(* Instances of Stages for TLC. *)
EXTENDS Stages

(* A first run that is reviewed, and single runs.  The mode "always" is     *)
(* "interactive" without the wait for the pictures' approval.              *)
OnlySingle  == [r \in Runs |-> {<<"single", "interactive">>}]
OneReviewed == [OnlySingle EXCEPT ![1] = {"frontend-review"} \X {"interactive", "never"}]
=============================================================================
