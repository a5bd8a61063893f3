--------------------------- MODULE RestartService ---------------------------
(***************************************************************************)
(* What the host agent's restart endpoint promises to the controller: an   *)
(* action is executed at most once, one at a time, and never again after a *)
(* failure; every request is answered, refused or cut off.                 *)
(* RestartGuard implements this with guard.json, ActionQueue relies on it. *)
(***************************************************************************)
EXTENDS Integers

CONSTANT Ids

Outcomes == {"none", "running", "succeeded", "failed"}
Answers == [id : Ids, code : {0, 200, 400, 500}, status : Outcomes]

VARIABLES
  outcome,   \* per action, what the agent knows of it
  reply      \* the last HTTP answer, and to a request for which action; code 0 once
             \* another is under way, and 400 for every refusal

vars == <<outcome, reply>>

Init ==
  /\ outcome = [id \in Ids |-> "none"]
  /\ reply \in [id : Ids, code : {0}, status : {"none"}]

Answer(id, code, status) == reply' = [id |-> id, code |-> code, status |-> status]

\* The handler is serial: while an action runs every other request waits.
Free == \A id \in Ids : outcome[id] # "running"
Stopped == \E id \in Ids : outcome[id] = "failed"

Accept(id) ==
  /\ Free /\ ~Stopped
  /\ outcome[id] = "none"
  /\ outcome' = [outcome EXCEPT ![id] = "running"]
  /\ Answer(id, 0, "none")

\* 200 when block progress was seen, 500 otherwise.
Finish(id, status) ==
  /\ outcome[id] = "running"
  /\ outcome' = [outcome EXCEPT ![id] = status]
  /\ Answer(id, IF status = "succeeded" THEN 200 ELSE 500, status)

\* The agent died while it executed the action.
Cut(id) ==
  /\ outcome[id] = "running"
  /\ outcome' = [outcome EXCEPT ![id] = "failed"]
  /\ UNCHANGED reply

\* A known action is answered from the record, a failed one with 200 as well.
Replay(id) ==
  /\ Free
  /\ outcome[id] \in {"succeeded", "failed"}
  /\ Answer(id, 200, outcome[id])
  /\ UNCHANGED outcome

\* An invalid request, the stop file, the limits, or an earlier failure.
Refuse(id) ==
  /\ Free
  /\ Answer(id, 400, "none")
  /\ UNCHANGED outcome

Next ==
  \E id \in Ids :
    \/ Accept(id) \/ Cut(id) \/ Replay(id) \/ Refuse(id)
    \/ \E status \in {"succeeded", "failed"} : Finish(id, status)

Spec == Init /\ [][Next]_vars
=============================================================================
