----------------------------- MODULE ActionQueue -----------------------------
(***************************************************************************)
(* The serial action queue of the controller: manual requests arrive       *)
(* through the action broker, automatic ones from the collect loop, and    *)
(* one processor at a time claims the oldest, has it executed and records  *)
(* the outcome in the database.  Restarts are executed by the host agent,  *)
(* which is taken at its word as RestartService (RestartGuard implements   *)
(* it); acknowledgements of pruned reward history run in the controller.   *)
(* The controller may die at every step, a statement or its reply may be   *)
(* lost, and all of them are once the processor's 14 minutes are over.     *)
(***************************************************************************)
EXTENDS Integers, Sequences

CONSTANTS
  Manual,       \* idempotency keys of manual restarts
  Gaps,         \* idempotency keys of manual acknowledgements
  Incidents,    \* incidents that may ask for an automatic restart
  QuickBoot,    \* TRUE: a dead controller may be back within 15 minutes
  MaxTroubles   \* bound on deaths, lost statements, ended contexts and changes of the switch

Restarts == Manual \cup Incidents
Actions == Restarts \cup Gaps

ASSUME QueueAssumption ==
  /\ Actions # {}
  /\ Manual \cap Incidents = {} /\ Restarts \cap Gaps = {}
  /\ MaxTroubles \in Nat
  /\ QuickBoot \in BOOLEAN

VARIABLES
  rows,         \* remediation_actions: the status per idempotency key
  arrived,      \* the keys in the order of created_at
  aged,         \* running rows that were claimed more than 15 minutes ago
  automation,   \* settings.automation_enabled
  observed,     \* automation_enabled as the running collect round read it
  up,           \* the controller is running
  pc, action, err, expired,   \* the processor and its locals
  outcome, reply,             \* the agent (RestartService)
  lingering,    \* requests the agent still holds of a controller that died
  stopped,      \* history: actions whose failure switched the automation off,
  unstopped,    \* and those whose write of the switch was lost
  left,         \* history: running actions only the next start will look at
  again,        \* history: actions that a start put back
  troubles

queueVars == <<rows, arrived, aged>>
switchVars == <<automation, observed>>
procVars == <<pc, action, err, expired>>
agentVars == <<outcome, reply, lingering>>
histVars == <<stopped, unstopped, left, again>>
vars == <<queueVars, switchVars, up, procVars, agentVars, histVars, troubles>>

Agent == INSTANCE RestartService WITH Ids <- Restarts

\* The value of a local that is not in use.
Nobody == CHOOSE a \in Actions : TRUE

Statuses == {"none", "pending", "running", "succeeded", "failed"}

Init ==
  /\ rows = [a \in Actions |-> "none"] /\ arrived = <<>> /\ aged = {}
  /\ automation \in BOOLEAN /\ observed = FALSE
  /\ up = TRUE
  /\ pc = "idle" /\ action = Nobody /\ err = FALSE /\ expired = FALSE
  /\ Agent!Init /\ lingering = {}
  /\ stopped = {} /\ unstopped = {} /\ left = {} /\ again = {}
  /\ troubles = 0

\* A death, a lost statement or reply, an ended context, a change of the switch.
Trouble == troubles < MaxTroubles /\ troubles' = troubles + 1

----------------------------------------------------------------------------
(* Requests.                                                               *)

\* INSERT ... ON CONFLICT (idempotency_key) DO NOTHING.
Insert(a) ==
  /\ rows[a] = "none"
  /\ rows' = [rows EXCEPT ![a] = "pending"]
  /\ arrived' = Append(arrived, a)
  /\ UNCHANGED aged

\* A request with a key that is known is answered with the row it has.
Submit(a) ==
  /\ up /\ a \in Manual \cup Gaps
  /\ Insert(a)
  /\ UNCHANGED <<switchVars, up, procVars, agentVars, histVars, troubles>>

\* One collect round reads the switch; the diagnosis that follows takes long.
Collect ==
  /\ up
  /\ observed' = automation
  /\ UNCHANGED <<queueVars, automation, up, procVars, agentVars, histVars, troubles>>

\* maybeEnqueueAuto, under the other conditions of "safe".
EnqueueAuto(i) ==
  /\ up /\ observed
  /\ Insert(i)
  /\ UNCHANGED <<switchVars, up, procVars, agentVars, histVars, troubles>>

\* updateSettings of the auth broker, with a step-up.
Toggle ==
  /\ Trouble
  /\ automation' = ~automation
  /\ UNCHANGED <<queueVars, observed, up, procVars, agentVars, histVars>>

----------------------------------------------------------------------------
(* processPendingAction.                                                   *)

Pending == {i \in 1..Len(arrived) : rows[arrived[i]] = "pending"}
Oldest(a) == \E i \in Pending : arrived[i] = a /\ \A j \in Pending : i <= j

Claim(a) ==
  /\ up /\ pc = "idle"
  /\ Oldest(a)
  /\ action' = a
  /\ rows' = [rows EXCEPT ![a] = "running"]
  /\ pc' = IF a \in Gaps THEN "acknowledge" ELSE "call"
  /\ err' = FALSE /\ expired' = FALSE
  /\ UNCHANGED <<arrived, aged, switchVars, up, agentVars, histVars, troubles>>

\* The claim is committed and its reply is lost: nobody works on the row.
ClaimLost(a) ==
  /\ up /\ pc = "idle"
  /\ Oldest(a)
  /\ Trouble
  /\ rows' = [rows EXCEPT ![a] = "running"]
  /\ left' = left \cup {a}
  /\ UNCHANGED <<arrived, aged, switchVars, up, procVars, agentVars, stopped, unstopped, again>>

Executed ==
  /\ pc' = "finish"
  /\ \/ err' \in BOOLEAN /\ expired' = FALSE /\ UNCHANGED troubles
     \/ Trouble /\ err' = TRUE /\ expired' = TRUE

\* acknowledgePrunedRewardGap, modelled in RewardHistory.
Acknowledge ==
  /\ pc = "acknowledge"
  /\ Executed
  /\ UNCHANGED <<queueVars, switchVars, up, action, agentVars, histVars>>

Processed(a) == pc # "idle" /\ action = a

\* The agent works on the processor's request, or on one whose caller is gone:
\* it starts it, ends it, or drops it unread.
AgentWorks ==
  /\ \/ pc = "call" /\ Agent!Accept(action) /\ UNCHANGED lingering
     \/ \E a \in lingering :
          /\ Agent!Accept(a) \/ UNCHANGED <<outcome, reply>>
          /\ lingering' = lingering \ {a}
     \/ \E a \in Restarts :
          /\ ~(pc = "call" /\ action = a)
          /\ Agent!Cut(a) \/ \E status \in {"succeeded", "failed"} : Agent!Finish(a, status)
          /\ UNCHANGED lingering
  /\ UNCHANGED <<queueVars, switchVars, up, procVars, histVars, troubles>>

\* Mutant of Answered: the status code of the agent is not looked at.
AnsweredUnchecked(code) ==
  /\ err' = FALSE
  /\ pc' = "verify"
  /\ UNCHANGED <<action, expired>>

\* Client.Restart looks at the status code only.
Answered(code) ==
  /\ err' = (code # 200)
  /\ pc' = IF code = 200 THEN "verify" ELSE "finish"
  /\ UNCHANGED <<action, expired>>

CallAnswered ==
  /\ pc = "call"
  /\ \/ Agent!Replay(action) \/ Agent!Refuse(action)
     \/ \E status \in {"succeeded", "failed"} : Agent!Finish(action, status)
  /\ Answered(reply'.code)
  /\ UNCHANGED <<queueVars, lingering, switchVars, up, histVars, troubles>>

\* The agent died, or could not be reached.
CallLost ==
  /\ pc = "call"
  /\ Agent!Cut(action) \/ (outcome[action] # "running" /\ UNCHANGED <<outcome, reply>>)
  /\ err' = TRUE /\ pc' = "finish"
  /\ UNCHANGED <<queueVars, lingering, switchVars, up, action, expired, histVars, troubles>>

\* The request waited for the agent's lock until the 14 minutes were over.
CallExpires ==
  /\ pc = "call" /\ Trouble
  /\ err' = TRUE /\ expired' = TRUE /\ pc' = "finish"
  /\ lingering' = IF outcome[action] = "none" THEN lingering \cup {action} ELSE lingering
  /\ UNCHANGED <<queueVars, switchVars, up, action, outcome, reply, histVars>>

\* verifyRecovery: active and beyond the baseline, or one of the deadlines.
VerifyRecovery ==
  /\ pc = "verify"
  /\ Executed
  /\ UNCHANGED <<queueVars, switchVars, up, action, agentVars, histVars>>

\* Mutant of Stops: only a failed automatic restart stops the automation.
StopsForAutomatic == err /\ action \in Incidents

Stops == err /\ action \in Restarts

Switched ==
  /\ automation' = FALSE
  /\ stopped' = stopped \cup {action}
  /\ UNCHANGED <<unstopped, troubles>>

SwitchLost ==
  /\ Trouble
  /\ unstopped' = unstopped \cup {action}
  /\ UNCHANGED <<automation, stopped>>

\* A failed restart switches the automation off, with the context of the action;
\* the error of that write is ignored.
Disable ==
  /\ pc = "finish" /\ pc' = "record"
  /\ IF Stops /\ ~expired
     THEN Switched \/ SwitchLost
     ELSE UNCHANGED <<automation, stopped, unstopped, troubles>>
  /\ UNCHANGED <<queueVars, observed, up, action, err, expired, agentVars, left, again>>

\* Mutant of Outcome: an action is closed with the status jobs are closed with.
OutcomeOfJob == IF err THEN "failed" ELSE "completed"

Outcome == IF err THEN "failed" ELSE "succeeded"

\* The locals of a processor that ends or dies are gone, with the answer it had.
Leave ==
  /\ err' = FALSE /\ expired' = FALSE /\ action' = Nobody
  /\ Agent!Answer(reply.id, 0, "none")

Record ==
  /\ pc = "record" /\ pc' = "idle"
  /\ \/ /\ ~expired /\ rows' = [rows EXCEPT ![action] = Outcome]
        /\ UNCHANGED <<left, troubles>>
     \/ /\ \/ expired /\ UNCHANGED troubles
           \/ ~expired /\ Trouble
        /\ left' = left \cup {action} /\ UNCHANGED rows
  /\ aged' = aged \ {action} /\ Leave
  /\ UNCHANGED <<arrived, switchVars, up, outcome, lingering, stopped, unstopped, again>>

Process ==
  \/ \E a \in Actions : Claim(a) \/ ClaimLost(a)
  \/ Acknowledge \/ CallAnswered \/ CallLost \/ CallExpires
  \/ VerifyRecovery \/ Disable \/ Record

----------------------------------------------------------------------------
(* The controller's life.                                                  *)

Crash ==
  /\ up /\ Trouble
  /\ up' = FALSE /\ pc' = "idle" /\ observed' = FALSE /\ Leave
  /\ lingering' \in {lingering} \cup
       IF pc = "call" /\ outcome[action] = "none" THEN {lingering \cup {action}} ELSE {}
  /\ UNCHANGED <<queueVars, automation, outcome, histVars>>

\* Fifteen minutes have passed since the claim: the processor gives up after
\* fourteen and the agent after twelve.
Age(a) ==
  /\ rows[a] = "running" /\ ~Processed(a)
  /\ a \in Restarts => outcome[a] # "running" /\ a \notin lingering
  /\ aged' = aged \cup {a}
  /\ UNCHANGED <<rows, arrived, switchVars, up, procVars, agentVars, histVars, troubles>>

Stranded == {a \in Actions : rows[a] = "running"}

\* Mutant of Requeued: rows are put back however young they are.
RequeuedYoung == Stranded

\* Mutant of Requeued: nothing is put back.
RequeuedNever == {}

\* Only main() puts running rows back, and only the old ones.
Requeued == Stranded \cap aged

Requeue ==
  /\ rows' = [a \in Actions |-> IF a \in Requeued THEN "pending" ELSE rows[a]]
  /\ aged' = {} /\ left' = Stranded \ aged /\ again' = again \cup Requeued
  /\ UNCHANGED troubles

\* The error of that statement is ignored: the controller runs, and the rows wait for
\* its next start.
RequeueLost ==
  /\ Trouble
  /\ left' = Stranded
  /\ UNCHANGED <<rows, aged, again>>

Boot ==
  /\ ~up
  /\ QuickBoot \/ Stranded \subseteq aged
  /\ up' = TRUE
  /\ Requeue \/ RequeueLost
  /\ UNCHANGED <<arrived, switchVars, procVars, agentVars, stopped, unstopped>>

Next ==
  \/ \E a \in Actions : Submit(a)
  \/ Collect
  \/ \E i \in Incidents : EnqueueAuto(i)
  \/ Toggle
  \/ Process \/ AgentWorks
  \/ Crash \/ \E a \in Actions : Age(a)
  \/ Boot

Spec == Init /\ [][Next]_vars

\* The loop starts the processor every 15 seconds, every step of it has a
\* deadline, the container is restarted, and time passes.
Fairness ==
  /\ WF_vars(Process) /\ WF_vars(AgentWorks) /\ WF_vars(Boot)
  /\ WF_vars(\E a \in Actions : Age(a))

FairSpec == Spec /\ Fairness

----------------------------------------------------------------------------
(* Properties.                                                             *)

TypeOK ==
  /\ rows \in [Actions -> Statuses] /\ arrived \in Seq(Actions)
  /\ aged \subseteq Actions
  /\ automation \in BOOLEAN /\ observed \in BOOLEAN /\ up \in BOOLEAN
  /\ pc \in {"idle", "call", "acknowledge", "verify", "finish", "record"}
  /\ action \in Actions /\ err \in BOOLEAN /\ expired \in BOOLEAN
  /\ outcome \in [Restarts -> Agent!Outcomes] /\ reply \in Agent!Answers
  /\ lingering \subseteq Restarts
  /\ {stopped, unstopped, left, again} \subseteq SUBSET Actions
  /\ troubles \in Nat

\* While the agent restarts the node for an action, the queue says it runs:
\* no boot puts it back, and no second action starts meanwhile.
RunningIsKnown == \A a \in Restarts : outcome[a] = "running" => rows[a] = "running"

\* No restart is closed as failed before its failure has switched the automation
\* off, whatever died, came late or was lost in between, the write of the switch
\* itself excepted: a crash between the two writes never leaves the row alone.
FailedRowStops == \A a \in Restarts : rows[a] = "failed" => a \in stopped \cup unstopped

\* As above, for restarts that failed at the agent: what the README promises.
FailureStopsAutomation ==
  \A a \in Restarts :
    rows[a] = "failed" \/ (rows[a] = "succeeded" /\ outcome[a] = "failed") => a \in stopped

\* A restart is recorded as succeeded when it succeeded at the agent.  A row misleads only
\* after a start has put the action back, and then the agent has tried the restart, and it
\* failed: whatever else dies, is late or is lost, one attempt is recorded as the agent
\* answered it, and only a replayed answer loses the failure.
OnlyReplaysMislead ==
  \A a \in Restarts : rows[a] = "succeeded" =>
    outcome[a] = "succeeded" \/ (outcome[a] = "failed" /\ a \in again)

\* Every queued action is eventually closed, unless its processor ran out of time,
\* a statement was lost (the one that puts it back included) or the controller was back
\* too soon: then it waits for a start more than fifteen minutes after its claim.
ActionsEnd ==
  \A a \in Actions :
    rows[a] = "pending" ~> rows[a] \in {"succeeded", "failed"} \/ a \in left
=============================================================================
