-------------------------- MODULE ActionQueueProofs --------------------------
(***************************************************************************)
(* For any number of actions, crashes, quick reboots and lost writes: the  *)
(* queue knows of every restart that is under way, and records success     *)
(* only for restarts the agent tried.                                      *)
(***************************************************************************)
EXTENDS ActionQueue, TLAPS

\* What the processor may rely on about the action it holds.
ProcessorOK ==
  /\ ~up => pc = "idle"
  /\ pc # "idle" => rows[action] = "running"
  /\ pc \in {"call", "verify"} => action \in Restarts /\ ~expired
  /\ pc = "acknowledge" => action \in Gaps /\ ~expired
  /\ pc = "verify" => ~err
  /\ pc # "idle" /\ ~expired => action \notin lingering

\* The agent is done with an action the processor is about to close.
AnsweredOK ==
  pc \in {"verify", "finish", "record"} /\ action \in Restarts /\ ~expired =>
    /\ outcome[action] # "running"
    /\ ~err => outcome[action] \in {"succeeded", "failed"}

\* A request of a dead controller, and a row that may be put back.
LeftoversOK ==
  /\ \A a \in lingering : rows[a] = "running"
  /\ \A a \in aged :
       /\ rows[a] = "running" /\ a \notin lingering
       /\ a \in Restarts => outcome[a] # "running"
       /\ pc # "idle" => action # a

\* What is recorded as succeeded was tried, also when the row was put back in between.
SucceededWasTried ==
  \A a \in Restarts : rows[a] = "succeeded" => outcome[a] \in {"succeeded", "failed"}

QueueInv ==
  TypeOK /\ ProcessorOK /\ AnsweredOK /\ LeftoversOK /\ RunningIsKnown /\ SucceededWasTried

LEMMA NobodyIs == Nobody \in Actions
BY QueueAssumption DEF Nobody

LEMMA QueueInit == Init => QueueInv
<1> SUFFICES ASSUME Init PROVE QueueInv
  OBVIOUS
<1> USE QueueAssumption DEF Init, Agent!Init
<1>1. TypeOK
  <2>1. arrived \in Seq(Actions) /\ reply \in Agent!Answers
    BY DEF Agent!Outcomes, Agent!Answers
  <2>2. up \in BOOLEAN /\ observed \in BOOLEAN /\ err \in BOOLEAN /\ expired \in BOOLEAN
    BY Zenon
  <2> QED BY <2>1, <2>2, NobodyIs DEF TypeOK, Statuses, Agent!Outcomes
<1>2. ProcessorOK /\ AnsweredOK /\ LeftoversOK /\ RunningIsKnown /\ SucceededWasTried
  BY DEF ProcessorOK, AnsweredOK, LeftoversOK, RunningIsKnown, SucceededWasTried, Actions
<1> QED BY <1>1, <1>2 DEF QueueInv

\* The answer of a processor that has left.
LEMMA LeaveAnswer ==
  ASSUME reply \in Agent!Answers, Leave
  PROVE  reply' \in Agent!Answers
BY DEF Leave, Agent!Answer, Agent!Answers, Agent!Outcomes

\* What the agent may do with one action, seen from the queue.
LEMMA AgentAccepts ==
  ASSUME TypeOK, NEW a \in Restarts, Agent!Accept(a)
  PROVE  /\ outcome' \in [Restarts -> Agent!Outcomes]
         /\ reply' \in Agent!Answers /\ reply'.status = "none"
         /\ outcome[a] = "none" /\ outcome'[a] = "running"
         /\ \A b \in Restarts \ {a} : outcome'[b] = outcome[b]
BY DEF TypeOK, Agent!Accept, Agent!Answer, Agent!Answers, Agent!Outcomes

LEMMA AgentEnds ==
  ASSUME TypeOK, NEW a \in Restarts,
         Agent!Cut(a) \/ \E status \in {"succeeded", "failed"} : Agent!Finish(a, status)
  PROVE  /\ outcome' \in [Restarts -> Agent!Outcomes]
         /\ reply' \in Agent!Answers
         /\ outcome[a] = "running" /\ outcome'[a] \in {"succeeded", "failed"}
         /\ \A b \in Restarts \ {a} : outcome'[b] = outcome[b]
<1>1. CASE Agent!Cut(a)
  BY <1>1 DEF TypeOK, Agent!Cut, Agent!Outcomes
<1>2. ASSUME NEW status \in {"succeeded", "failed"}, Agent!Finish(a, status)
      PROVE  /\ outcome[a] = "running" /\ outcome' = [outcome EXCEPT ![a] = status]
             /\ reply' \in Agent!Answers
  BY <1>2 DEF TypeOK, Agent!Finish, Agent!Answer, Agent!Outcomes, Agent!Answers
<1> QED BY <1>1, <1>2 DEF TypeOK, Agent!Outcomes

LEMMA AgentAnswers ==
  ASSUME TypeOK, NEW a \in Restarts,
         \/ Agent!Replay(a) \/ Agent!Refuse(a)
         \/ \E status \in {"succeeded", "failed"} : Agent!Finish(a, status)
  PROVE  /\ outcome' \in [Restarts -> Agent!Outcomes]
         /\ reply' \in Agent!Answers
         /\ outcome'[a] # "running"
         /\ reply'.code = 200 => outcome'[a] \in {"succeeded", "failed"}
         /\ \A b \in Restarts \ {a} : outcome'[b] = outcome[b]
<1>1. CASE Agent!Replay(a)
  BY <1>1 DEF TypeOK, Agent!Replay, Agent!Answer, Agent!Outcomes, Agent!Answers
<1>2. CASE Agent!Refuse(a)
  BY <1>2 DEF TypeOK, Agent!Refuse, Agent!Free, Agent!Answer, Agent!Outcomes, Agent!Answers
<1>3. ASSUME NEW status \in {"succeeded", "failed"}, Agent!Finish(a, status)
      PROVE  outcome'[a] = status /\ reply' \in Agent!Answers
             /\ reply'.code = (IF status = "succeeded" THEN 200 ELSE 500)
  BY <1>3 DEF TypeOK, Agent!Finish, Agent!Answer, Agent!Outcomes, Agent!Answers
<1> QED BY <1>1, <1>2, <1>3, AgentEnds

LEMMA TypeStep == ASSUME TypeOK, ProcessorOK, [Next]_vars PROVE TypeOK'
<1> USE QueueAssumption DEF queueVars, switchVars, procVars, agentVars, histVars, Trouble
<1>1. ASSUME NEW a \in Actions, Submit(a) PROVE TypeOK'
  BY <1>1 DEF Submit, Insert, TypeOK, Statuses
<1>2. CASE Collect
  BY <1>2 DEF Collect, TypeOK
<1>3. ASSUME NEW i \in Incidents, EnqueueAuto(i) PROVE TypeOK'
  BY <1>3 DEF EnqueueAuto, Insert, TypeOK, Statuses, Actions, Restarts
<1>4. CASE Toggle
  <2>1. automation' \in BOOLEAN
    BY <1>4 DEF Toggle
  <2> QED BY <1>4, <2>1 DEF Toggle, TypeOK
<1>5. ASSUME NEW a \in Actions, Claim(a) PROVE TypeOK'
  BY <1>5 DEF Claim, TypeOK, Statuses
<1>5a. ASSUME NEW a \in Actions, ClaimLost(a) PROVE TypeOK'
  BY <1>5a DEF ClaimLost, TypeOK, Statuses
<1>6. CASE Acknowledge \/ VerifyRecovery
  <2>1. err' \in BOOLEAN /\ expired' \in BOOLEAN
    BY <1>6, Zenon DEF Acknowledge, VerifyRecovery, Executed
  <2> QED BY <1>6, <2>1 DEF Acknowledge, VerifyRecovery, Executed, TypeOK
<1>7. CASE CallAnswered
  <2>1. action \in Restarts
    BY <1>7 DEF CallAnswered, ProcessorOK
  <2>2. outcome' \in [Restarts -> Agent!Outcomes] /\ reply' \in Agent!Answers
    BY <1>7, <2>1, AgentAnswers DEF CallAnswered
  <2>3. err' \in BOOLEAN
    BY <1>7 DEF CallAnswered, Answered
  <2> QED BY <1>7, <2>2, <2>3 DEF CallAnswered, Answered, TypeOK
<1>8. CASE CallLost \/ CallExpires
  <2>1. action \in Restarts
    BY <1>8 DEF CallLost, CallExpires, ProcessorOK
  <2>2. outcome' \in [Restarts -> Agent!Outcomes] /\ reply' \in Agent!Answers
    BY <1>8, <2>1, AgentEnds DEF CallLost, CallExpires, TypeOK
  <2>3. err' \in BOOLEAN /\ expired' \in BOOLEAN
    BY <1>8, Zenon DEF CallLost, CallExpires, TypeOK
  <2> QED BY <1>8, <2>1, <2>2, <2>3 DEF CallLost, CallExpires, TypeOK
<1>9. CASE Disable
  <2>1. automation' \in BOOLEAN
    BY <1>9, Zenon DEF Disable, Switched, SwitchLost, TypeOK
  <2>2. stopped' \subseteq Actions /\ unstopped' \subseteq Actions /\ troubles' \in Nat
    BY <1>9 DEF Disable, Switched, SwitchLost, TypeOK
  <2> QED BY <1>9, <2>1, <2>2 DEF Disable, TypeOK
<1>10. CASE Record
  <2>1. err' \in BOOLEAN /\ expired' \in BOOLEAN
    BY <1>10, Zenon DEF Record, Leave
  <2>2. rows' = rows \/ rows' = [rows EXCEPT ![action] = Outcome]
    BY <1>10 DEF Record
  <2>3. Outcome \in Statuses
    BY DEF Outcome, Statuses
  <2>4. reply' \in Agent!Answers
    BY <1>10, LeaveAnswer DEF Record, TypeOK
  <2> HIDE DEF Outcome
  <2> QED BY <1>10, <2>1, <2>2, <2>3, <2>4, NobodyIs DEF Record, Leave, TypeOK
<1>11. CASE AgentWorks
  <2>1. pc = "call" => action \in Restarts
    BY DEF ProcessorOK
  <2>2. lingering \subseteq Restarts
    BY DEF TypeOK
  <2>3. /\ outcome' \in [Restarts -> Agent!Outcomes] /\ reply' \in Agent!Answers
        /\ lingering' \subseteq Restarts
    BY <1>11, <2>1, <2>2, AgentAccepts, AgentEnds DEF AgentWorks, TypeOK
  <2> QED BY <1>11, <2>3 DEF AgentWorks, TypeOK
<1>12. CASE Crash
  <2>1. troubles' \in Nat /\ action' \in Actions
    BY <1>12, NobodyIs DEF Crash, Leave, TypeOK
  <2>2. lingering' \subseteq Restarts
    BY <1>12 DEF Crash, TypeOK, ProcessorOK
  <2>3. up' \in BOOLEAN /\ observed' \in BOOLEAN /\ err' \in BOOLEAN /\ expired' \in BOOLEAN
    BY <1>12, Zenon DEF Crash, Leave
  <2>4. reply' \in Agent!Answers
    BY <1>12, LeaveAnswer DEF Crash, TypeOK
  <2> QED BY <1>12, <2>1, <2>2, <2>3, <2>4 DEF Crash, TypeOK
<1>13. ASSUME NEW a \in Actions, Age(a) PROVE TypeOK'
  BY <1>13 DEF Age, TypeOK
<1>14. CASE Boot
  <2>1. /\ rows' = [a \in Actions |-> IF a \in Requeued THEN "pending" ELSE rows[a]] \/ rows' = rows
        /\ aged' \subseteq Actions /\ left' \subseteq Actions /\ again' \subseteq Actions
        /\ troubles' \in Nat
    BY <1>14 DEF Boot, Requeue, RequeueLost, Trouble, Stranded, Requeued, TypeOK
  <2>2. rows' \in [Actions -> Statuses]
    BY <2>1 DEF TypeOK, Statuses
  <2>3. up' \in BOOLEAN
    BY <1>14, Zenon DEF Boot
  <2> QED BY <1>14, <2>1, <2>2, <2>3 DEF Boot, TypeOK
<1>15. CASE UNCHANGED vars
  BY <1>15 DEF TypeOK, vars
<1> QED
  BY <1>1, <1>2, <1>3, <1>4, <1>5, <1>5a, <1>6, <1>7, <1>8, <1>9, <1>10, <1>11, <1>12, <1>13,
     <1>14, <1>15 DEF Next, Process

----------------------------------------------------------------------------
(* One step of each actor keeps the invariant.                             *)

Kept == ProcessorOK /\ AnsweredOK /\ LeftoversOK /\ RunningIsKnown /\ SucceededWasTried

LEMMA RequestKeeps ==
  ASSUME QueueInv, NEW a \in Actions, Submit(a) \/ (a \in Incidents /\ EnqueueAuto(a))
  PROVE  Kept'
<1>1. /\ rows[a] = "none" /\ rows' = [rows EXCEPT ![a] = "pending"]
      /\ UNCHANGED <<aged, up, pc, action, err, expired, outcome, lingering>>
  BY DEF Submit, EnqueueAuto, Insert, procVars, agentVars
<1> QED
  BY <1>1 DEF QueueInv, TypeOK, Kept, ProcessorOK, AnsweredOK, LeftoversOK, RunningIsKnown,
    SucceededWasTried, Actions

LEMMA SwitchKeeps ==
  ASSUME QueueInv, Collect \/ Toggle \/ Disable \/ UNCHANGED vars
  PROVE  Kept'
BY DEF Collect, Toggle, Disable, vars, queueVars, procVars, agentVars, QueueInv, Kept, ProcessorOK,
  AnsweredOK, LeftoversOK, RunningIsKnown, SucceededWasTried

LEMMA ClaimKeeps == ASSUME QueueInv, NEW a \in Actions, Claim(a) PROVE Kept'
<1>1. rows[a] = "pending"
  BY DEF Claim, Oldest, Pending
<1>2. rows' = [rows EXCEPT ![a] = "running"] /\ UNCHANGED <<aged, outcome, lingering, up>> /\ up
      /\ action' = a /\ ~expired' /\ pc' = (IF a \in Gaps THEN "acknowledge" ELSE "call")
  BY DEF Claim, agentVars
<1>3. a \notin lingering /\ a \notin aged /\ (a \in Restarts => outcome[a] # "running")
  BY <1>1 DEF QueueInv, LeftoversOK, RunningIsKnown
<1> QED
  BY <1>1, <1>2, <1>3 DEF QueueInv, TypeOK, Kept, ProcessorOK, AnsweredOK, LeftoversOK,
    RunningIsKnown, SucceededWasTried, Actions

LEMMA ClaimLostKeeps == ASSUME QueueInv, NEW a \in Actions, ClaimLost(a) PROVE Kept'
<1>1. rows[a] = "pending"
  BY DEF ClaimLost, Oldest, Pending
<1>2. /\ rows' = [rows EXCEPT ![a] = "running"] /\ UNCHANGED <<aged, outcome, lingering, up>>
      /\ pc = "idle" /\ pc' = "idle"
  BY DEF ClaimLost, agentVars, procVars
<1>3. a \notin lingering /\ a \notin aged /\ (a \in Restarts => outcome[a] # "running")
  BY <1>1 DEF QueueInv, LeftoversOK, RunningIsKnown
<1> QED
  BY <1>1, <1>2, <1>3 DEF QueueInv, TypeOK, Kept, ProcessorOK, AnsweredOK, LeftoversOK,
    RunningIsKnown, SucceededWasTried, Actions

LEMMA AcknowledgeKeeps == ASSUME QueueInv, Acknowledge PROVE Kept'
BY QueueAssumption DEF Acknowledge, Executed, queueVars, agentVars, QueueInv, TypeOK, Kept, ProcessorOK,
  AnsweredOK, LeftoversOK, RunningIsKnown, SucceededWasTried

LEMMA AnswerKeeps == ASSUME QueueInv, CallAnswered PROVE Kept'
<1>1. action \in Restarts /\ ~expired /\ rows[action] = "running" /\ pc = "call"
  BY DEF CallAnswered, QueueInv, ProcessorOK
<1>2. /\ outcome'[action] # "running"
      /\ reply'.code = 200 => outcome'[action] \in {"succeeded", "failed"}
      /\ \A b \in Restarts \ {action} : outcome'[b] = outcome[b]
  BY <1>1, AgentAnswers DEF CallAnswered, QueueInv
<1>3. /\ UNCHANGED <<rows, aged, lingering, up, action, expired>>
      /\ err' <=> reply'.code # 200
      /\ pc' = IF reply'.code = 200 THEN "verify" ELSE "finish"
  BY DEF CallAnswered, Answered, queueVars
<1>4. ProcessorOK' /\ AnsweredOK'
  BY <1>1, <1>2, <1>3 DEF QueueInv, ProcessorOK, AnsweredOK
<1>5. LeftoversOK' /\ RunningIsKnown' /\ SucceededWasTried'
  BY <1>1, <1>2, <1>3 DEF QueueInv, LeftoversOK, RunningIsKnown, SucceededWasTried
<1> QED BY <1>4, <1>5 DEF Kept

LEMMA LostKeeps == ASSUME QueueInv, CallLost \/ CallExpires PROVE Kept'
<1>1. action \in Restarts /\ ~expired /\ rows[action] = "running" /\ pc = "call" /\ pc' = "finish"
      /\ UNCHANGED <<rows, aged, up, action>> /\ err'
  BY DEF CallLost, CallExpires, QueueInv, ProcessorOK, queueVars
<1>2. \A b \in Restarts \ {action} : outcome'[b] = outcome[b]
  BY <1>1, AgentEnds DEF CallLost, CallExpires, QueueInv
<1>3. \/ outcome'[action] # "running" /\ ~expired' /\ lingering' = lingering
      \/ outcome' = outcome /\ expired' /\ lingering' \subseteq lingering \cup {action}
  BY <1>1, AgentEnds DEF CallLost, CallExpires, QueueInv, TypeOK
<1>4. action \notin aged
  BY <1>1 DEF QueueInv, LeftoversOK
<1> QED
  BY <1>1, <1>2, <1>3, <1>4 DEF QueueInv, Kept, ProcessorOK, AnsweredOK, LeftoversOK,
    RunningIsKnown, SucceededWasTried

LEMMA VerifyKeeps == ASSUME QueueInv, VerifyRecovery PROVE Kept'
BY DEF VerifyRecovery, Executed, queueVars, agentVars, QueueInv, Kept, ProcessorOK, AnsweredOK, LeftoversOK,
  RunningIsKnown, SucceededWasTried

LEMMA RecordKeeps == ASSUME QueueInv, Record PROVE Kept'
<1>1. /\ pc = "record" /\ pc' = "idle" /\ aged' = aged \ {action}
      /\ UNCHANGED <<up, outcome, lingering>>
      /\ rows' = rows \/ (~expired /\ rows' = [rows EXCEPT ![action] = Outcome])
  BY DEF Record, agentVars
<1>2. CASE rows' = rows
  BY <1>1, <1>2 DEF QueueInv, TypeOK, Kept, ProcessorOK, AnsweredOK, LeftoversOK,
    RunningIsKnown, SucceededWasTried
<1>3. CASE ~expired /\ rows' = [rows EXCEPT ![action] = Outcome]
  <2>1. action \notin lingering /\ (action \in Restarts => outcome[action] # "running")
        /\ (action \in Restarts /\ Outcome = "succeeded" => outcome[action] \in {"succeeded", "failed"})
    BY <1>1, <1>3 DEF QueueInv, ProcessorOK, AnsweredOK, Outcome
  <2>2. Outcome \in {"succeeded", "failed"}
    BY DEF Outcome
  <2> HIDE DEF Outcome
  <2> QED
    BY <1>1, <1>3, <2>1, <2>2 DEF QueueInv, TypeOK, Kept, ProcessorOK, AnsweredOK, LeftoversOK,
      RunningIsKnown, SucceededWasTried, Actions
<1> QED BY <1>1, <1>2, <1>3

LEMMA AgentKeeps == ASSUME QueueInv, AgentWorks PROVE Kept'
<1>1. UNCHANGED <<rows, aged, up, pc, action, err, expired>> /\ lingering \subseteq Restarts
  BY DEF AgentWorks, queueVars, procVars, QueueInv, TypeOK
<1>2. CASE pc = "call" /\ Agent!Accept(action) /\ UNCHANGED lingering
  <2>1. action \in Restarts /\ rows[action] = "running" /\ action \notin aged
    BY <1>2 DEF QueueInv, ProcessorOK, LeftoversOK
  <2> QED
    BY <1>1, <1>2, <2>1, AgentAccepts DEF QueueInv, Kept, ProcessorOK, AnsweredOK, LeftoversOK,
      RunningIsKnown, SucceededWasTried
<1>3. ASSUME NEW a \in lingering, Agent!Accept(a) \/ UNCHANGED <<outcome, reply>>,
             lingering' = lingering \ {a}
      PROVE  Kept'
  <2>1. a \in Restarts /\ rows[a] = "running" /\ a \notin aged
        /\ (pc # "idle" /\ ~expired => action # a)
    BY <1>1 DEF QueueInv, ProcessorOK, LeftoversOK
  <2>2. CASE Agent!Accept(a)
    BY <1>1, <1>3, <2>1, <2>2, AgentAccepts DEF QueueInv, Kept, ProcessorOK, AnsweredOK,
      LeftoversOK, RunningIsKnown, SucceededWasTried
  <2>3. CASE UNCHANGED <<outcome, reply>>
    BY <1>1, <1>3, <2>3 DEF QueueInv, Kept, ProcessorOK, AnsweredOK, LeftoversOK,
      RunningIsKnown, SucceededWasTried
  <2> QED BY <1>3, <2>2, <2>3
<1>4. ASSUME NEW a \in Restarts, UNCHANGED lingering,
             Agent!Cut(a) \/ \E status \in {"succeeded", "failed"} : Agent!Finish(a, status)
      PROVE  Kept'
  <2>1. /\ outcome[a] = "running" /\ outcome'[a] \in {"succeeded", "failed"}
        /\ \A b \in Restarts \ {a} : outcome'[b] = outcome[b]
    BY <1>4, AgentEnds DEF QueueInv
  <2> QED
    BY <1>1, <1>4, <2>1 DEF QueueInv, Kept, ProcessorOK, AnsweredOK, LeftoversOK, RunningIsKnown,
      SucceededWasTried
<1> QED BY <1>2, <1>3, <1>4 DEF AgentWorks

LEMMA CrashKeeps == ASSUME QueueInv, Crash PROVE Kept'
<1>1. /\ pc' = "idle" /\ UNCHANGED <<rows, aged, outcome>>
      /\ lingering' = lingering \/ (pc = "call" /\ lingering' = lingering \cup {action})
  BY DEF Crash, queueVars
<1>2. pc = "call" => rows[action] = "running" /\ action \notin aged
  BY DEF QueueInv, ProcessorOK, LeftoversOK
<1> QED
  BY <1>1, <1>2 DEF QueueInv, Kept, ProcessorOK, AnsweredOK, LeftoversOK, RunningIsKnown,
    SucceededWasTried

LEMMA AgeKeeps == ASSUME QueueInv, NEW a \in Actions, Age(a) PROVE Kept'
<1>1. a \notin lingering
  BY DEF Age, QueueInv, TypeOK
<1> QED
  BY <1>1 DEF Age, Processed, procVars, agentVars, QueueInv, Kept, ProcessorOK, AnsweredOK,
    LeftoversOK, RunningIsKnown, SucceededWasTried

LEMMA BootKeeps == ASSUME QueueInv, Boot PROVE Kept'
<1>1. /\ pc = "idle" /\ pc' = "idle" /\ UNCHANGED <<outcome, lingering>>
      /\ \/ aged' = {} /\ rows' = [a \in Actions |-> IF a \in Requeued THEN "pending" ELSE rows[a]]
         \/ UNCHANGED <<rows, aged>>
  BY DEF Boot, Requeue, RequeueLost, procVars, agentVars, QueueInv, ProcessorOK
<1>2. /\ Requeued \subseteq aged
      /\ \A a \in Requeued : rows[a] = "running"
  BY DEF Requeued, Stranded
<1>3. Restarts \subseteq Actions /\ lingering \subseteq Restarts
  BY DEF Actions, QueueInv, TypeOK
<1>4. CASE aged' = {} /\ rows' = [a \in Actions |-> IF a \in Requeued THEN "pending" ELSE rows[a]]
  BY <1>1, <1>2, <1>3, <1>4 DEF QueueInv, Kept, ProcessorOK, AnsweredOK, LeftoversOK, RunningIsKnown,
    SucceededWasTried
<1>5. CASE UNCHANGED <<rows, aged>>
  BY <1>1, <1>5 DEF QueueInv, Kept, ProcessorOK, AnsweredOK, LeftoversOK, RunningIsKnown,
    SucceededWasTried
<1> QED BY <1>1, <1>4, <1>5

LEMMA QueueStep == ASSUME QueueInv, [Next]_vars PROVE QueueInv'
<1>1. TypeOK'
  BY TypeStep DEF QueueInv
<1> SUFFICES Kept'
  BY <1>1 DEF QueueInv, Kept
<1>2. ASSUME NEW a \in Actions, Submit(a) \/ Claim(a) \/ ClaimLost(a) \/ Age(a) PROVE Kept'
  BY <1>2, RequestKeeps, ClaimKeeps, ClaimLostKeeps, AgeKeeps
<1>3. ASSUME NEW i \in Incidents, EnqueueAuto(i) PROVE Kept'
  <2>1. i \in Actions
    BY DEF Actions, Restarts
  <2> QED BY <1>3, <2>1, RequestKeeps
<1>4. CASE Collect \/ Toggle \/ Disable \/ UNCHANGED vars
  BY <1>4, SwitchKeeps
<1>5. CASE Acknowledge \/ CallAnswered \/ CallLost \/ CallExpires \/ VerifyRecovery \/ Record
  BY <1>5, AcknowledgeKeeps, AnswerKeeps, LostKeeps, VerifyKeeps, RecordKeeps
<1>6. CASE AgentWorks \/ Crash \/ Boot
  BY <1>6, AgentKeeps, CrashKeeps, BootKeeps
<1> QED
  BY <1>2, <1>3, <1>4, <1>5, <1>6 DEF Next, Process

\* The invariant the theorems below rest on.
THEOREM QueueInvariant == Spec => []QueueInv
BY QueueInit, QueueStep, PTL DEF Spec

\* Every variable of the queue, its processor and the agent keeps its type.
THEOREM TypeCorrect == Spec => []TypeOK
BY QueueInvariant, PTL DEF QueueInv

\* For any number of actions and deaths of the controller: while the agent
\* restarts the node for an action its row says so, whatever main() puts back.
THEOREM Known == Spec => []RunningIsKnown
BY QueueInvariant, PTL DEF QueueInv

----------------------------------------------------------------------------
(* The failure of a restart and the automation switch.                     *)

\* Between the two writes of the failure path the switch is already off.
SwitchInv ==
  /\ FailedRowStops
  /\ pc = "record" /\ err /\ ~expired /\ action \in Restarts => action \in stopped \cup unstopped

LEMMA SwitchStep == ASSUME TypeOK, SwitchInv, [Next]_vars PROVE SwitchInv'
<1> USE DEF SwitchInv, FailedRowStops
<1>1. ASSUME NEW a \in Actions, Submit(a) \/ (a \in Incidents /\ EnqueueAuto(a))
      PROVE  SwitchInv'
  BY <1>1 DEF histVars, Submit, EnqueueAuto, Insert, procVars, TypeOK, Actions
<1>2. ASSUME NEW a \in Actions, Claim(a) \/ ClaimLost(a) PROVE SwitchInv'
  BY <1>2 DEF Claim, ClaimLost, Oldest, Pending, procVars, histVars, TypeOK, Actions
<1>3. ASSUME Collect \/ Toggle \/ Acknowledge \/ CallAnswered \/ CallLost \/ CallExpires
             \/ VerifyRecovery \/ AgentWorks \/ Crash \/ UNCHANGED vars
      PROVE  SwitchInv'
  <2>1. rows' = rows /\ stopped' = stopped /\ unstopped' = unstopped
    BY <1>3 DEF Collect, Toggle, Acknowledge, CallAnswered, CallLost, CallExpires, VerifyRecovery,
      AgentWorks, Crash, queueVars, histVars, vars
  <2>2. pc' # "record" \/ UNCHANGED <<pc, action, err, expired>>
    BY <1>3 DEF Collect, Toggle, Acknowledge, Executed, CallAnswered, Answered, CallLost, CallExpires,
      VerifyRecovery, AgentWorks, Crash, procVars, vars
  <2> QED BY <2>1, <2>2
<1>4. CASE Disable
  BY <1>4 DEF Disable, Stops, Switched, SwitchLost, queueVars
<1>5. CASE Record
  <2>1. /\ pc = "record" /\ pc' = "idle" /\ UNCHANGED <<stopped, unstopped>>
        /\ rows' = rows \/ (~expired /\ rows' = [rows EXCEPT ![action] = Outcome])
    BY <1>5 DEF Record
  <2>2. Outcome = "failed" => err
    BY DEF Outcome
  <2> HIDE DEF Outcome
  <2> QED BY <2>1, <2>2 DEF TypeOK, Actions
<1>6. ASSUME NEW a \in Actions, Age(a) PROVE SwitchInv'
  BY <1>6 DEF Age, procVars, histVars
<1>7. CASE Boot
  <2>1. /\ UNCHANGED <<stopped, unstopped, pc, action, err, expired>>
        /\ \/ rows' = [a \in Actions |-> IF a \in Requeued THEN "pending" ELSE rows[a]]
           \/ rows' = rows
    BY <1>7 DEF Boot, Requeue, RequeueLost, procVars
  <2> QED BY <2>1 DEF Actions
<1>8. \A i \in Incidents : i \in Actions
  BY DEF Actions, Restarts
<1> QED
  BY <1>1, <1>2, <1>3, <1>4, <1>5, <1>6, <1>7, <1>8 DEF Next, Process

\* Whatever dies or is lost, no row of a restart says "failed" before the
\* automation was switched off for it, unless that very write was lost.
THEOREM FailureStops == Spec => []FailedRowStops
<1>1. Init => SwitchInv
  BY DEF Init, SwitchInv, FailedRowStops, Actions
<1>2. TypeOK /\ SwitchInv /\ [Next]_vars => SwitchInv'
  BY SwitchStep
<1>3. SwitchInv => FailedRowStops
  BY DEF SwitchInv
<1> QED BY <1>1, <1>2, <1>3, TypeCorrect, PTL DEF Spec

----------------------------------------------------------------------------
(* An action that no start put back is asked of the agent once.            *)

\* What the queue says of such an action is what the agent answered.
OnceOK(a) ==
  /\ rows[a] \in {"none", "pending"} => outcome[a] = "none"
  /\ rows[a] = "succeeded" => outcome[a] = "succeeded"
  /\ pc = "call" /\ action = a => outcome[a] \in {"none", "running"}
  /\ pc = "verify" /\ action = a => outcome[a] = "succeeded"
  /\ pc \in {"finish", "record"} /\ action = a /\ ~err => outcome[a] = "succeeded"

OnceInv == \A a \in Restarts \ again : OnceOK(a)

LEMMA OnceAgent ==
  ASSUME QueueInv, OnceInv, AgentWorks, NEW a \in Restarts \ again
  PROVE  OnceOK(a)'
<1>1. UNCHANGED <<rows, pc, action, err>>
  BY DEF AgentWorks, queueVars, procVars
<1>2. OnceOK(a) /\ (outcome[a] = "running" => rows[a] = "running") /\ lingering \subseteq Restarts
  BY DEF OnceInv, QueueInv, RunningIsKnown, TypeOK
<1>3. CASE pc = "call" /\ Agent!Accept(action)
  <2>1. action \in Restarts /\ rows[action] = "running"
    BY <1>3 DEF QueueInv, ProcessorOK
  <2>2. /\ outcome[action] = "none" /\ outcome'[action] = "running"
        /\ \A b \in Restarts \ {action} : outcome'[b] = outcome[b]
    BY <1>3, <2>1, AgentAccepts DEF QueueInv
  <2> QED BY <1>1, <1>2, <1>3, <2>1, <2>2 DEF OnceOK
<1>4. ASSUME NEW b \in lingering, Agent!Accept(b) PROVE OnceOK(a)'
  <2>1. b \in Restarts /\ rows[b] = "running"
    BY <1>2 DEF QueueInv, LeftoversOK
  <2>2. /\ outcome[b] = "none" /\ outcome'[b] = "running"
        /\ \A c \in Restarts \ {b} : outcome'[c] = outcome[c]
    BY <1>4, <2>1, AgentAccepts DEF QueueInv
  <2> QED BY <1>1, <1>2, <2>1, <2>2 DEF OnceOK
<1>5. ASSUME NEW b \in Restarts, ~(pc = "call" /\ action = b),
             Agent!Cut(b) \/ \E status \in {"succeeded", "failed"} : Agent!Finish(b, status)
      PROVE  OnceOK(a)'
  <2>1. outcome[b] = "running" /\ \A c \in Restarts \ {b} : outcome'[c] = outcome[c]
    BY <1>5, AgentEnds DEF QueueInv
  <2>2. rows[b] = "running"
    BY <2>1 DEF QueueInv, RunningIsKnown
  <2> QED BY <1>1, <1>2, <1>5, <2>1, <2>2 DEF OnceOK
<1>6. CASE outcome' = outcome
  BY <1>1, <1>2, <1>6 DEF OnceOK
<1> QED BY <1>3, <1>4, <1>5, <1>6 DEF AgentWorks

\* The agent's answer to the only request for an action: 200 when the restart succeeded.
LEMMA OnceAnswered ==
  ASSUME QueueInv, OnceInv, CallAnswered, NEW a \in Restarts \ again
  PROVE  OnceOK(a)'
<1>1. /\ pc = "call" /\ action \in Restarts /\ rows[action] = "running"
      /\ UNCHANGED <<rows, action>>
      /\ err' <=> reply'.code # 200
      /\ pc' = IF reply'.code = 200 THEN "verify" ELSE "finish"
  BY DEF CallAnswered, Answered, queueVars, QueueInv, ProcessorOK
<1>2. OnceOK(a) /\ outcome \in [Restarts -> Agent!Outcomes]
  BY DEF OnceInv, QueueInv, TypeOK
<1>3. CASE action # a
  <2>1. outcome'[a] = outcome[a]
    BY <1>1, <1>3, AgentAnswers DEF CallAnswered, QueueInv
  <2> QED BY <1>1, <1>2, <1>3, <2>1 DEF OnceOK
<1>4. CASE action = a
  <2>1. outcome[a] \in {"none", "running"}
    BY <1>1, <1>2, <1>4 DEF OnceOK
  <2>2. reply'.code = 200 => outcome'[a] = "succeeded"
    <3>1. CASE Agent!Replay(a)
      BY <2>1, <3>1 DEF Agent!Replay
    <3>2. CASE Agent!Refuse(a)
      BY <1>2, <3>2 DEF Agent!Refuse, Agent!Answer, Agent!Answers
    <3>3. ASSUME NEW status \in {"succeeded", "failed"}, Agent!Finish(a, status)
          PROVE  reply'.code = 200 => outcome'[a] = "succeeded"
      BY <1>2, <3>3 DEF Agent!Finish, Agent!Answer, Agent!Answers
    <3> QED BY <1>4, <3>1, <3>2, <3>3 DEF CallAnswered
  <2> QED BY <1>1, <1>4, <2>2 DEF OnceOK
<1> QED BY <1>3, <1>4

LEMMA OnceRecord ==
  ASSUME QueueInv, OnceInv, Record, NEW a \in Restarts \ again
  PROVE  OnceOK(a)'
<1>1. /\ pc = "record" /\ pc' = "idle" /\ outcome' = outcome /\ rows[action] = "running"
      /\ rows' = rows \/ rows' = [rows EXCEPT ![action] = Outcome]
  BY DEF Record, agentVars, QueueInv, ProcessorOK
<1>2. OnceOK(a) /\ a \in Actions /\ rows \in [Actions -> Statuses]
  BY DEF OnceInv, QueueInv, TypeOK, Actions
<1>3. Outcome \in {"succeeded", "failed"} /\ (Outcome = "succeeded" => ~err)
  BY DEF Outcome
<1> HIDE DEF Outcome
<1> QED BY <1>1, <1>2, <1>3 DEF OnceOK

LEMMA OnceStep == ASSUME QueueInv, OnceInv, [Next]_vars PROVE OnceInv'
<1> SUFFICES ASSUME NEW a \in Restarts \ again' PROVE OnceOK(a)'
  BY DEF OnceInv
<1>0. /\ again \subseteq again' /\ a \in Restarts \ again
      /\ rows \in [Actions -> Statuses] /\ Restarts \subseteq Actions
  <2>1. again \subseteq again'
    BY DEF Next, vars, histVars, Submit, Collect, EnqueueAuto, Toggle, Process, Claim, ClaimLost,
      Acknowledge, CallAnswered, CallLost, CallExpires, VerifyRecovery, Disable, Record, AgentWorks,
      Crash, Age, Boot, Requeue, RequeueLost
  <2> QED BY <2>1 DEF QueueInv, TypeOK, Actions
<1>1. OnceOK(a)
  BY <1>0 DEF OnceInv
<1>2. ASSUME NEW b \in Actions, Submit(b) \/ (b \in Incidents /\ EnqueueAuto(b)) PROVE OnceOK(a)'
  <2>1. /\ rows[b] = "none" /\ rows' = [rows EXCEPT ![b] = "pending"]
        /\ UNCHANGED <<pc, action, err, outcome>>
    BY <1>2 DEF Submit, EnqueueAuto, Insert, procVars, agentVars
  <2> QED BY <1>0, <1>1, <2>1 DEF OnceOK
<1>3. ASSUME NEW b \in Actions, Claim(b) PROVE OnceOK(a)'
  <2>1. /\ rows[b] = "pending" /\ rows' = [rows EXCEPT ![b] = "running"] /\ outcome' = outcome
        /\ action' = b /\ pc' \in {"acknowledge", "call"}
    BY <1>3 DEF Claim, Oldest, Pending, agentVars
  <2> QED BY <1>0, <1>1, <2>1 DEF OnceOK
<1>4. ASSUME NEW b \in Actions, ClaimLost(b) PROVE OnceOK(a)'
  <2>1. /\ rows' = [rows EXCEPT ![b] = "running"] /\ outcome' = outcome
        /\ UNCHANGED <<pc, action, err>>
    BY <1>4 DEF ClaimLost, procVars, agentVars
  <2> QED BY <1>0, <1>1, <2>1 DEF OnceOK
<1>5. CASE Collect \/ Toggle \/ Disable \/ UNCHANGED vars
  <2>1. UNCHANGED <<rows, outcome, action, err>>
    BY <1>5 DEF Collect, Toggle, Disable, vars, queueVars, procVars, agentVars
  <2>2. pc' = pc \/ (pc = "finish" /\ pc' = "record")
    BY <1>5 DEF Collect, Toggle, Disable, vars, procVars
  <2> QED BY <1>1, <2>1, <2>2 DEF OnceOK
<1>6. CASE Acknowledge \/ VerifyRecovery
  <2>1. /\ UNCHANGED <<rows, outcome, action>> /\ pc' = "finish"
        /\ pc = "verify" \/ action \in Gaps
    BY <1>6 DEF Acknowledge, VerifyRecovery, Executed, queueVars, agentVars, QueueInv, ProcessorOK
  <2> QED BY <1>1, <2>1, QueueAssumption DEF OnceOK
<1>7. CASE CallLost \/ CallExpires
  <2>1. /\ UNCHANGED <<rows, action>> /\ err' /\ pc = "call" /\ pc' = "finish"
        /\ action \in Restarts /\ rows[action] = "running"
    BY <1>7 DEF CallLost, CallExpires, queueVars, QueueInv, ProcessorOK
  <2>2. \A b \in Restarts \ {action} : outcome'[b] = outcome[b]
    BY <1>7, <2>1, AgentEnds DEF CallLost, CallExpires, QueueInv
  <2> QED BY <1>0, <1>1, <2>1, <2>2 DEF OnceOK
<1>8. CASE CallAnswered \/ Record \/ AgentWorks
  BY <1>0, <1>8, OnceAnswered, OnceRecord, OnceAgent
<1>9. CASE Crash
  <2>1. UNCHANGED <<rows, outcome>> /\ pc' = "idle"
    BY <1>9 DEF Crash, queueVars
  <2> QED BY <1>1, <2>1 DEF OnceOK
<1>10. ASSUME NEW b \in Actions, Age(b) PROVE OnceOK(a)'
  BY <1>1, <1>10 DEF Age, procVars, agentVars, OnceOK
<1>11. CASE Boot
  <2>1. /\ UNCHANGED <<pc, action, err, outcome>>
        /\ \/ a \notin Requeued
              /\ rows' = [b \in Actions |-> IF b \in Requeued THEN "pending" ELSE rows[b]]
           \/ rows' = rows
    BY <1>11 DEF Boot, Requeue, RequeueLost, procVars, agentVars
  <2> HIDE DEF Requeued
  <2>2. rows'[a] = rows[a]
    BY <1>0, <2>1
  <2> QED BY <1>1, <2>1, <2>2 DEF OnceOK
<1>12. \A i \in Incidents : i \in Actions
  BY DEF Actions, Restarts
<1> QED
  BY <1>2, <1>3, <1>4, <1>5, <1>6, <1>7, <1>8, <1>9, <1>10, <1>11, <1>12 DEF Next, Process

\* What is recorded as succeeded has succeeded at the agent, or has failed there before a
\* start put it back, for any number of actions, deaths, lost statements and expired contexts:
\* with FailureStops, what the README promises of failures holds of all other rows.
THEOREM ReplaysMislead == Spec => []OnlyReplaysMislead
<1>1. Init => OnceInv
  BY DEF Init, Agent!Init, OnceInv, OnceOK, Actions
<1>2. QueueInv /\ OnceInv /\ [Next]_vars => OnceInv'
  BY OnceStep
<1>3. QueueInv /\ OnceInv => OnlyReplaysMislead
  BY DEF QueueInv, SucceededWasTried, OnceInv, OnceOK, OnlyReplaysMislead
<1> QED BY <1>1, <1>2, <1>3, QueueInvariant, PTL DEF Spec
=============================================================================
