----------------------------- MODULE RunLifecycle -----------------------------
(***************************************************************************)
(* What a client may rely on about the runs of a session and their         *)
(* interactions, as the rows of the database show them: no threads, locks, *)
(* deadlines or restarts.  Whoever acts, a client, a thread, a timeout or  *)
(* the recovery after a crash, moves the rows by these steps only.         *)
(***************************************************************************)
CONSTANTS Sessions, Runs, Inputs, Keys, Nobody, NoKey

VARIABLES
  status,    \* Run.status
  owner,     \* Run.session_id
  keyOf,     \* Run.request_key
  open,      \* the pending interactions of each run
  settled,   \* interactions that are resolved or expired
  granted    \* approvals the user granted

vars == <<status, owner, keyOf, open, settled, granted>>

Live     == {"running", "waiting"}
Terminal == {"completed", "failed", "cancelled", "interrupted"}

Init ==
  /\ status = [r \in Runs |-> "none"]
  /\ owner = [r \in Runs |-> Nobody]
  /\ keyOf = [r \in Runs |-> NoKey]
  /\ open = [r \in Runs |-> {}]
  /\ settled = {}
  /\ granted = {}

(* One live run of a session, and one run of a request key.                *)
Start(r, s, k) ==
  /\ status[r] = "none"
  /\ \A q \in Runs : owner[q] = s => status[q] \notin Live /\ (keyOf[q] = k => k = NoKey)
  /\ status' = [status EXCEPT ![r] = "running"]
  /\ owner' = [owner EXCEPT ![r] = s]
  /\ keyOf' = [keyOf EXCEPT ![r] = k]
  /\ UNCHANGED <<open, settled, granted>>

Fresh(new) == new \cap settled = {} /\ \A q \in Runs : new \cap open[q] = {}

(* A run pauses with at least one open interaction.                        *)
Pause(r, new) ==
  /\ status[r] = "running"
  /\ Fresh(new) /\ open[r] \cup new # {}
  /\ status' = [status EXCEPT ![r] = "waiting"]
  /\ open' = [open EXCEPT ![r] = @ \cup new]
  /\ UNCHANGED <<owner, keyOf, settled, granted>>

(* An answer settles the interaction it is for and takes the run on.       *)
Answer(r, i, yes) ==
  /\ status[r] = "waiting" /\ i \in open[r]
  /\ status' = [status EXCEPT ![r] = "running"]
  /\ open' = [open EXCEPT ![r] = @ \ {i}]
  /\ settled' = settled \cup {i}
  /\ granted' = IF yes THEN granted \cup {i} ELSE granted
  /\ UNCHANGED <<owner, keyOf>>

(* A restart asks the same things under new names.                         *)
Reissue(r, new) ==
  /\ status[r] = "waiting"
  /\ Fresh(new) /\ new # {}
  /\ open' = [open EXCEPT ![r] = new]
  /\ settled' = settled \cup open[r]
  /\ UNCHANGED <<status, owner, keyOf, granted>>

(* Runs end for good, several at once after a crash, and what they asked   *)
(* is settled with them; nothing is granted.                               *)
End(ending) ==
  /\ \A r \in ending : status[r] \in Live /\ status'[r] \in Terminal
  /\ status' \in [Runs -> {"none"} \cup Live \cup Terminal]
  /\ \A r \in Runs \ ending : status'[r] = status[r]
  /\ open' = [r \in Runs |-> IF r \in ending THEN {} ELSE open[r]]
  /\ settled' = settled \cup UNION {open[r] : r \in ending}
  /\ UNCHANGED <<owner, keyOf, granted>>

Next ==
  \/ \E r \in Runs, s \in Sessions, k \in Keys \cup {NoKey} : Start(r, s, k)
  \/ \E r \in Runs, new \in SUBSET Inputs : Pause(r, new) \/ Reissue(r, new)
  \/ \E r \in Runs, i \in Inputs, yes \in BOOLEAN : Answer(r, i, yes)
  \/ \E ending \in SUBSET Runs : End(ending)

Spec == Init /\ [][Next]_vars
=============================================================================
