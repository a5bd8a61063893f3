---------------------------- MODULE RequestsProofs ----------------------------
(***************************************************************************)
(* For any number of requests, keys and jobs, any window, ttl and capacity *)
(* that fit together, and any order of deliveries, failures and clock      *)
(* steps: no signed request is let through twice while its nonce can be    *)
(* remembered, an answer names the row that was asked for, and no job is   *)
(* forgotten.                                                              *)
(***************************************************************************)
EXTENDS Requests, FiniteSetTheorems, TLAPS

USE DEF clockVars, brokerVars, verifierVars, handoverVars, jobVars

----------------------------------------------------------------------------
(* Types.                                                                  *)

LEMMA RequestsInit == Init => TypeOK
<1> SUFFICES ASSUME Init PROVE TypeOK
  OBVIOUS
<1> USE HandoverAssumption DEF Init, HandoverInit, JobsInit
<1>1. IsFiniteSet(nonces) /\ Cardinality(nonces) <= MaxNonce
  BY FS_EmptySet
<1>2. HandoverTypeOK
  BY <1>1 DEF HandoverTypeOK
<1>3. JobsTypeOK
  BY DEF JobsTypeOK, JobStatuses
<1> QED BY <1>2, <1>3 DEF TypeOK

\* The memory of nonces stays within its capacity.
LEMMA Bounded ==
  ASSUME HandoverTypeOK, NEW m \in Messages, NEW gone \in SUBSET Unexpired, Evicted(gone)
  PROVE  LET new == (Unexpired \ gone) \cup {[nonce |-> m, at |-> now]}
         IN IsFiniteSet(new) /\ Cardinality(new) <= MaxNonce
<1> USE HandoverAssumption
<1>1. IsFiniteSet(Unexpired) /\ Cardinality(Unexpired) \in Nat /\ Cardinality(Unexpired) <= MaxNonce
  <2>1. Unexpired \in SUBSET nonces
    BY DEF Unexpired
  <2>2. IsFiniteSet(nonces) /\ Cardinality(nonces) \in Nat /\ Cardinality(nonces) <= MaxNonce
    BY FS_CardinalityType DEF HandoverTypeOK
  <2>3. IsFiniteSet(Unexpired) /\ Cardinality(Unexpired) <= Cardinality(nonces)
    BY <2>1, <2>2, FS_Subset
  <2>4. Cardinality(Unexpired) \in Nat
    BY <2>3, FS_CardinalityType
  <2> QED BY <2>2, <2>3, <2>4
<1>2. /\ IsFiniteSet(Unexpired \ gone) /\ Cardinality(Unexpired \ gone) \in Nat
      /\ Cardinality(Unexpired \ gone) < MaxNonce
  <2>1. CASE Cardinality(Unexpired) < MaxNonce
    <3>1. Unexpired \ gone = Unexpired
      BY <2>1 DEF Evicted
    <3> QED BY <1>1, <2>1, <3>1
  <2>2. CASE ~(Cardinality(Unexpired) < MaxNonce)
    <3>1. PICK oldest \in Unexpired : gone = {oldest}
      BY <2>2 DEF Evicted
    <3>2. /\ IsFiniteSet(Unexpired \ {oldest})
          /\ Cardinality(Unexpired \ {oldest}) = Cardinality(Unexpired) - 1
      BY <1>1, <3>1, FS_RemoveElement
    <3>3. Cardinality(Unexpired \ {oldest}) \in Nat
      BY <3>2, FS_CardinalityType
    <3> QED BY <1>1, <3>1, <3>2, <3>3
  <2> QED BY <2>1, <2>2
<1> DEFINE rest == Unexpired \ gone
           entry == [nonce |-> m, at |-> now]
<1>3. /\ IsFiniteSet(rest \cup {entry})
      /\ Cardinality(rest \cup {entry}) = IF entry \in rest THEN Cardinality(rest)
                                          ELSE Cardinality(rest) + 1
  BY <1>2, FS_AddElement
<1> HIDE DEF rest, entry
<1>4. Cardinality(rest \cup {entry}) <= MaxNonce
  BY <1>2, <1>3 DEF rest
<1> QED BY <1>3, <1>4 DEF rest, entry

LEMMA ForgetsOld == ASSUME HandoverTypeOK PROVE IsFiniteSet(Unexpired) /\ Cardinality(Unexpired) <= MaxNonce
<1>1. Unexpired \in SUBSET nonces
  BY DEF Unexpired
<1>2. IsFiniteSet(Unexpired) /\ Cardinality(Unexpired) <= Cardinality(nonces)
  BY <1>1, FS_Subset DEF HandoverTypeOK
<1>3. Cardinality(Unexpired) \in Nat /\ Cardinality(nonces) \in Nat
  BY <1>2, FS_CardinalityType DEF HandoverTypeOK
<1> QED BY <1>2, <1>3, HandoverAssumption DEF HandoverTypeOK

LEMMA AcceptTypes == ASSUME HandoverTypeOK, NEW m \in Messages, Accept(m) PROVE HandoverTypeOK'
<1>1. PICK gone \in SUBSET Unexpired :
        /\ Evicted(gone)
        /\ nonces' = (Unexpired \ gone) \cup {[nonce |-> m, at |-> now]}
        /\ forgotten' = forgotten \cup Known(gone)
  BY DEF Accept
<1>2. IsFiniteSet(nonces') /\ Cardinality(nonces') <= MaxNonce
  BY <1>1, Bounded
<1>3. nonces' \subseteq [nonce : Messages, at : Nat] /\ forgotten' \subseteq Messages
  BY <1>1 DEF HandoverTypeOK, Unexpired, Known
<1>4. accepted' \in [Messages -> Nat] /\ handling' \in [Messages -> Nat]
  BY DEF Accept, HandoverTypeOK
<1> QED BY <1>2, <1>3, <1>4 DEF Accept, HandoverTypeOK

LEMMA AnswerTypes ==
  ASSUME HandoverTypeOK, NEW m \in Messages, NEW answer \in Answers, Answered(m, answer)
  PROVE  told' \in [Messages -> Answers \cup {None, Waiting}]
BY DEF Answered, HandoverTypeOK

LEMMA InsertTypes ==
  ASSUME HandoverTypeOK, NEW m \in Messages, Insert(m) \/ InsertFails(m),
         handling[m] > 0 => sent[m] \in Requests
  PROVE  HandoverTypeOK'
<1> DEFINE request == sent[m]
           new == [id |-> m, ask |-> request.ask]
<1>1. handling' \in [Messages -> Nat] /\ request \in Requests
  BY DEF Insert, InsertFails, HandoverTypeOK
<1>2. request.key \in Keys /\ new \in Rows
  BY <1>1 DEF Requests, Rows
<1>3. row' = row \/ row' = [row EXCEPT ![request.key] = new]
  BY DEF Insert, InsertFails
<1>4. row' \in [Keys -> Rows \cup {None}]
  BY <1>2, <1>3 DEF HandoverTypeOK
<1>5. \E answer \in Answers : Answered(m, answer)
  <2>1. CASE InsertFails(m)
    BY <2>1 DEF InsertFails, Answers
  <2>2. CASE Insert(m) /\ row[request.key] = None
    BY <2>2 DEF Insert, Answers
  <2>3. CASE Insert(m) /\ row[request.key] # None
    <3>1. row[request.key].id \in Messages
      BY <1>2, <2>3 DEF HandoverTypeOK, Rows
    <3> QED BY <2>3, <3>1 DEF Insert, Answers
  <2> QED BY <2>1, <2>2, <2>3
<1>6. told' \in [Messages -> Answers \cup {None, Waiting}]
  BY <1>5, AnswerTypes
<1> QED BY <1>1, <1>4, <1>6 DEF Insert, InsertFails, HandoverTypeOK

\* Only a request that was signed is ever handled, let through or answered.
HandledWasSent ==
  \A m \in Messages : handling[m] > 0 \/ accepted[m] > 0 \/ told[m] # None => sent[m] \in Requests

LEMMA HandoverTypes ==
  ASSUME HandoverTypeOK, HandledWasSent, HandoverStep
  PROVE  HandoverTypeOK'
<1> USE HandoverAssumption
<1>1. CASE Tick \/ StepBack
  BY <1>1 DEF Tick, StepBack, HandoverTypeOK
<1>2. ASSUME NEW m \in Messages, NEW key \in Keys, NEW ask \in Asks, Send(m, key, ask)
      PROVE  HandoverTypeOK'
  <2>1. [key |-> key, ask |-> ask, at |-> wall] \in Requests
    BY DEF Requests, wall, HandoverTypeOK
  <2> QED BY <1>2, <2>1 DEF Send, HandoverTypeOK
<1>3. ASSUME NEW m \in Messages, GiveUp(m) PROVE HandoverTypeOK'
  BY <1>3 DEF GiveUp, Answers, HandoverTypeOK
<1>4. ASSUME NEW m \in Messages, Accept(m) PROVE HandoverTypeOK'
  BY <1>4, AcceptTypes
<1>5. ASSUME NEW m \in Messages, Deny(m) PROVE HandoverTypeOK'
  <2>1. told' \in [Messages -> Answers \cup {None, Waiting}]
    <3>1. Error(401) \in Answers
      BY DEF Answers
    <3> QED BY <1>5, <3>1, AnswerTypes DEF Deny
  <2>2. nonces' = nonces \/ nonces' = Unexpired
    BY <1>5 DEF Deny
  <2>3. /\ nonces' \subseteq [nonce : Messages, at : Nat]
        /\ IsFiniteSet(nonces') /\ Cardinality(nonces') <= MaxNonce
    BY <2>2, ForgetsOld DEF HandoverTypeOK, Unexpired
  <2> QED BY <1>5, <2>1, <2>3 DEF Deny, HandoverTypeOK
<1>6. ASSUME NEW m \in Messages, Insert(m) \/ InsertFails(m) PROVE HandoverTypeOK'
  BY <1>6, InsertTypes DEF HandledWasSent
<1> QED BY <1>1, <1>2, <1>3, <1>4, <1>5, <1>6 DEF HandoverStep

LEMMA RestartTypes == ASSUME HandoverTypeOK, HandoverRestart PROVE HandoverTypeOK'
<1>1. IsFiniteSet(nonces') /\ Cardinality(nonces') <= MaxNonce
  BY FS_EmptySet, HandoverAssumption DEF HandoverRestart
<1>2. forgotten' \subseteq Messages
  BY DEF HandoverRestart, Known, HandoverTypeOK
<1> QED BY <1>1, <1>2 DEF HandoverRestart, HandoverTypeOK

LEMMA JobTypes ==
  ASSUME JobsTypeOK,
         \/ \E j \in Jobs : Enqueue(j) \/ AgeJob(j)
         \/ \E j \in Jobs, well \in BOOLEAN : ClaimJob(j, well) \/ EndJob(well)
         \/ JobsRestart
  PROVE  JobsTypeOK'
<1>1. ASSUME NEW j \in Jobs, Enqueue(j) \/ AgeJob(j) PROVE JobsTypeOK'
  BY <1>1 DEF Enqueue, AgeJob, JobsTypeOK, JobStatuses
<1>2. ASSUME NEW j \in Jobs, NEW well \in BOOLEAN, ClaimJob(j, well) PROVE JobsTypeOK'
  BY <1>2 DEF ClaimJob, JobsTypeOK, JobStatuses
<1>3. ASSUME NEW well \in BOOLEAN, EndJob(well) PROVE JobsTypeOK'
  BY <1>3 DEF EndJob, Closed, JobsTypeOK, JobStatuses
<1>4. CASE JobsRestart
  BY <1>4 DEF JobsRestart, RunningJobs, JobsTypeOK, JobStatuses
<1> QED BY <1>1, <1>2, <1>3, <1>4

----------------------------------------------------------------------------
(* The nonces.                                                             *)

\* A nonce is remembered with a time its request is not younger than, and one
\* that has expired belongs to a request no clock step brings back.
ReplayInv ==
  /\ HandledWasSent
  /\ \A m \in Messages : sent[m] # None => sent[m].at <= now
  /\ \A e \in nonces : sent[e.nonce] # None /\ sent[e.nonce].at <= e.at
  /\ \A m \in Messages : accepted[m] > 0 /\ m \notin forgotten =>
       accepted[m] = 1 /\ (m \in Known(nonces) \/ sent[m].at + Skew + MaxStep < now)

LEMMA QuietReplay ==
  ASSUME HandoverTypeOK, ReplayInv,
         UNCHANGED <<sent, accepted>>, now' \in Nat, now' >= now,
         \/ UNCHANGED <<nonces, forgotten>>
         \/ nonces' = {} /\ forgotten' = forgotten \cup Known(nonces),
         \A m \in Messages : handling'[m] > 0 => handling[m] > 0,
         \A m \in Messages : told'[m] # None => told[m] # None
  PROVE  ReplayInv'
<1>1. HandledWasSent'
  BY DEF ReplayInv, HandledWasSent
<1>2. \A m \in Messages : sent[m] # None => sent[m].at \in Int
  BY DEF HandoverTypeOK, Requests
<1>3. \A m \in Messages : accepted[m] > 0 => sent[m] # None
  BY DEF ReplayInv, HandledWasSent, Requests, None
<1> QED
  BY <1>1, <1>2, <1>3, HandoverAssumption DEF ReplayInv, Known, HandoverTypeOK

LEMMA OtherReplay ==
  ASSUME HandoverTypeOK, ReplayInv,
         \/ Tick \/ StepBack \/ HandoverRestart \/ UNCHANGED handoverVars
         \/ \E m \in Messages : GiveUp(m) \/ Insert(m) \/ InsertFails(m)
  PROVE  ReplayInv'
<1>1. CASE Tick \/ StepBack \/ UNCHANGED handoverVars
  <2>1. UNCHANGED <<sent, told, accepted, nonces, forgotten, handling>>
    BY <1>1 DEF Tick, StepBack
  <2>2. now' \in Nat /\ now' >= now
    BY <1>1 DEF Tick, StepBack, HandoverTypeOK
  <2> QED BY <2>1, <2>2, QuietReplay
<1>2. CASE HandoverRestart
  <2>1. UNCHANGED <<sent, told, accepted, now>> /\ now \in Nat
        /\ nonces' = {} /\ forgotten' = forgotten \cup Known(nonces)
        /\ \A m \in Messages : handling'[m] = 0
    BY <1>2 DEF HandoverRestart, HandoverTypeOK
  <2> QED BY <2>1, QuietReplay
<1>3. ASSUME NEW m \in Messages, GiveUp(m) \/ Insert(m) \/ InsertFails(m) PROVE ReplayInv'
  <2>1. UNCHANGED <<sent, accepted, now, nonces, forgotten>> /\ now \in Nat
    BY <1>3 DEF GiveUp, Insert, InsertFails, HandoverTypeOK
  <2>2. \A n \in Messages : handling'[n] > 0 => handling[n] > 0
    <3>1. handling' = handling \/ (handling[m] > 0 /\ handling' = [handling EXCEPT ![m] = @ - 1])
      BY <1>3 DEF GiveUp, Insert, InsertFails
    <3> QED BY <3>1 DEF HandoverTypeOK
  <2>3. \A n \in Messages : told'[n] # None => told[n] # None
    <3>1. told' = told \/ \E answer : told[m] = Waiting /\ told' = [told EXCEPT ![m] = answer]
      BY <1>3 DEF GiveUp, Insert, InsertFails, Answered
    <3>2. Waiting # None
      BY DEF Waiting, None
    <3> QED BY <3>1, <3>2 DEF HandoverTypeOK
  <2> QED BY <2>1, <2>2, <2>3, QuietReplay
<1> QED BY <1>1, <1>2, <1>3

LEMMA SendReplay ==
  ASSUME HandoverTypeOK, ReplayInv, NEW m \in Messages, NEW key \in Keys, NEW ask \in Asks,
         Send(m, key, ask)
  PROVE  ReplayInv'
<1>1. /\ sent[m] = None /\ sent' = [sent EXCEPT ![m] = [key |-> key, ask |-> ask, at |-> wall]]
      /\ UNCHANGED <<now, nonces, accepted, forgotten, handling>>
  BY DEF Send
<1>2. wall \in Int /\ wall <= now /\ [key |-> key, ask |-> ask, at |-> wall] \in Requests
  BY HandoverAssumption DEF wall, HandoverTypeOK, Requests
<1>3. None \notin Requests
  BY DEF None, Requests
<1>4. accepted[m] = 0 /\ handling[m] = 0
  BY <1>1, <1>3 DEF ReplayInv, HandledWasSent, HandoverTypeOK
<1>5. \A e \in nonces : e.nonce # m /\ e.nonce \in Messages
  BY <1>1 DEF ReplayInv, HandoverTypeOK
<1>6. \A n \in Messages \ {m} : sent'[n] = sent[n] /\ told'[n] = told[n]
  BY <1>1 DEF Send, HandoverTypeOK
<1>7. sent'[m] \in Requests /\ sent'[m].at = wall
  BY <1>1, <1>2 DEF HandoverTypeOK
<1>8. HandledWasSent'
  BY <1>1, <1>6, <1>7 DEF ReplayInv, HandledWasSent
<1> QED
  BY <1>1, <1>2, <1>3, <1>4, <1>5, <1>6, <1>7, <1>8 DEF ReplayInv, Known, HandoverTypeOK

\* The heart of it: an entry that expires is older than the window and all clock
\* steps together.
LEMMA ExpiredIsOut ==
  ASSUME HandoverTypeOK, ReplayInv, NEW e \in nonces \ Unexpired
  PROVE  sent[e.nonce].at + Skew + MaxStep < now
<1>1. e \in [nonce : Messages, at : Nat] /\ e.at < now - TTL
  BY HandoverAssumption DEF Unexpired, HandoverTypeOK
<1>2. sent[e.nonce] \in Requests /\ sent[e.nonce].at <= e.at
  BY <1>1 DEF ReplayInv, HandoverTypeOK
<1>3. sent[e.nonce].at \in Int
  BY <1>2 DEF Requests
<1> QED BY <1>1, <1>2, <1>3, HandoverAssumption DEF HandoverTypeOK

LEMMA AcceptReplay ==
  ASSUME HandoverTypeOK, ReplayInv, NEW m \in Messages, Accept(m)
  PROVE  ReplayInv'
<1> USE HandoverAssumption
<1>1. PICK gone \in SUBSET Unexpired :
        /\ nonces' = (Unexpired \ gone) \cup {[nonce |-> m, at |-> now]}
        /\ forgotten' = forgotten \cup Known(gone)
  BY DEF Accept
<1>2. /\ sent[m] # None /\ m \notin Known(Unexpired) /\ UNCHANGED <<sent, now, back>>
      /\ wall <= sent[m].at + Skew
      /\ accepted' = [accepted EXCEPT ![m] = @ + 1] /\ handling' = [handling EXCEPT ![m] = @ + 1]
  <2>1. sent[m].at \in Int /\ wall \in Int
    BY DEF Accept, HandoverTypeOK, Requests, wall
  <2> QED BY <2>1 DEF Accept, InWindow
<1>3. sent[m] \in Requests /\ sent[m].at \in Int /\ sent[m].at <= now
  BY <1>2 DEF HandoverTypeOK, Requests, ReplayInv
<1>4. HandledWasSent'
  <2>1. told' = told
    BY DEF Accept
  <2> QED BY <1>2, <1>3, <2>1 DEF ReplayInv, HandledWasSent, HandoverTypeOK
<1>5. accepted[m] = 0 \/ m \in forgotten
  <2> SUFFICES ASSUME accepted[m] > 0, m \notin forgotten PROVE FALSE
    BY DEF HandoverTypeOK
  <2>1. m \in Known(nonces) \/ sent[m].at + Skew + MaxStep < now
    BY DEF ReplayInv
  <2>2. sent[m].at + Skew + MaxStep < now
    BY <1>2, <2>1, ExpiredIsOut DEF Known
  <2> QED BY <1>2, <1>3, <2>2 DEF wall, HandoverTypeOK
<1>6. \A e \in nonces' : sent[e.nonce] # None /\ sent[e.nonce].at <= e.at
  <2> SUFFICES ASSUME NEW e \in nonces' PROVE sent[e.nonce] # None /\ sent[e.nonce].at <= e.at
    OBVIOUS
  <2>1. e \in nonces \/ e = [nonce |-> m, at |-> now]
    BY <1>1 DEF Unexpired
  <2>2. CASE e \in nonces
    BY <2>2 DEF ReplayInv
  <2>3. CASE e = [nonce |-> m, at |-> now]
    BY <1>2, <1>3, <2>3
  <2> QED BY <2>1, <2>2, <2>3
<1>7. m \in Known(nonces')
  <2> DEFINE entry == [nonce |-> m, at |-> now]
  <2>1. entry \in nonces' /\ entry.nonce = m
    BY <1>1
  <2> HIDE DEF entry
  <2> QED BY <2>1 DEF Known
<1>8. ASSUME NEW n \in Messages \ {m}, accepted[n] > 0, n \notin forgotten'
      PROVE  accepted[n] = 1 /\ (n \in Known(nonces') \/ sent[n].at + Skew + MaxStep < now)
  <2>1. n \notin forgotten /\ n \notin Known(gone)
    BY <1>1, <1>8
  <2>2. CASE n \in Known(nonces)
    <3>1. PICK e \in nonces : e.nonce = n
      BY <2>2 DEF Known
    <3>2. CASE e \in Unexpired
      BY <1>1, <1>8, <2>1, <3>1, <3>2 DEF Known, ReplayInv
    <3>3. CASE e \notin Unexpired
      BY <1>8, <2>1, <3>1, <3>3, ExpiredIsOut DEF ReplayInv
    <3> QED BY <3>2, <3>3
  <2> QED BY <1>8, <2>1, <2>2 DEF ReplayInv
<1>9. \A n \in Messages : accepted'[n] > 0 /\ n \notin forgotten' =>
        accepted'[n] = 1 /\ (n \in Known(nonces') \/ sent[n].at + Skew + MaxStep < now)
  <2>1. m \notin forgotten' => accepted'[m] = 1
    BY <1>1, <1>2, <1>5 DEF HandoverTypeOK
  <2>2. \A n \in Messages \ {m} : accepted'[n] = accepted[n]
    BY <1>2 DEF HandoverTypeOK
  <2> QED BY <1>7, <1>8, <2>1, <2>2
<1>10. Known(nonces)' = Known(nonces')
  BY DEF Known
<1> QED BY <1>2, <1>4, <1>6, <1>9, <1>10 DEF ReplayInv

LEMMA DenyReplay ==
  ASSUME HandoverTypeOK, ReplayInv, NEW m \in Messages, Deny(m)
  PROVE  ReplayInv'
<1>1. /\ nonces' = nonces \/ nonces' = Unexpired
      /\ UNCHANGED <<sent, now, accepted, forgotten, handling>>
  BY DEF Deny
<1>2. nonces' \subseteq nonces
  BY <1>1 DEF Unexpired
<1>3. \A n \in Messages : n \in Known(nonces) =>
        n \in Known(nonces') \/ sent[n].at + Skew + MaxStep < now
  BY <1>1, ExpiredIsOut DEF Known
<1>4. HandledWasSent'
  <2>1. \A n \in Messages : told'[n] # None => told[n] # None
    <3>1. told' = told \/ (told[m] = Waiting /\ told' = [told EXCEPT ![m] = Error(401)])
      BY DEF Deny, Answered
    <3>2. Waiting # None
      BY DEF Waiting, None
    <3> QED BY <3>1, <3>2 DEF HandoverTypeOK
  <2> QED BY <1>1, <2>1 DEF ReplayInv, HandledWasSent
<1>5. Known(nonces)' = Known(nonces')
  BY DEF Known
<1> QED BY <1>1, <1>2, <1>3, <1>4, <1>5 DEF ReplayInv

LEMMA HandoverReplay ==
  ASSUME HandoverTypeOK, ReplayInv, HandoverStep \/ HandoverRestart \/ UNCHANGED handoverVars
  PROVE  ReplayInv'
BY OtherReplay, SendReplay, AcceptReplay, DenyReplay DEF HandoverStep

----------------------------------------------------------------------------
(* The composition.                                                        *)

RequestsInv == TypeOK /\ ReplayInv

LEMMA Steps ==
  ASSUME [Next]_vars
  PROVE  /\ HandoverStep \/ HandoverRestart \/ UNCHANGED handoverVars
         /\ \/ \E j \in Jobs : Enqueue(j) \/ AgeJob(j)
            \/ \E j \in Jobs, well \in BOOLEAN : ClaimJob(j, well) \/ EndJob(well)
            \/ JobsRestart \/ UNCHANGED jobVars
BY DEF Next, AskForJob, Process, Restart, vars

LEMMA RequestsStep == ASSUME RequestsInv, [Next]_vars PROVE RequestsInv'
<1>1. HandoverTypeOK'
  <2>1. CASE HandoverStep
    BY <2>1, HandoverTypes DEF RequestsInv, TypeOK, ReplayInv
  <2>2. CASE HandoverRestart
    BY <2>2, RestartTypes DEF RequestsInv, TypeOK
  <2>3. CASE UNCHANGED handoverVars
    BY <2>3 DEF RequestsInv, TypeOK, HandoverTypeOK
  <2> QED BY <2>1, <2>2, <2>3, Steps
<1>2. JobsTypeOK'
  <2>1. CASE UNCHANGED jobVars
    BY <2>1 DEF RequestsInv, TypeOK, JobsTypeOK
  <2> QED BY <2>1, Steps, JobTypes DEF RequestsInv, TypeOK
<1>3. ReplayInv'
  BY Steps, HandoverReplay DEF RequestsInv, TypeOK
<1> QED BY <1>1, <1>2, <1>3 DEF RequestsInv, TypeOK

\* The invariant the theorems rest on.
THEOREM RequestsInvariant == Spec => []RequestsInv
<1>1. Init => RequestsInv
  <2> SUFFICES ASSUME Init PROVE RequestsInv
    OBVIOUS
  <2>1. ReplayInv
    BY DEF Init, HandoverInit, ReplayInv, HandledWasSent
  <2> QED BY <2>1, RequestsInit DEF RequestsInv
<1> QED BY <1>1, RequestsStep, PTL DEF Spec

\* Every variable keeps its type, and the verifier never holds more nonces than
\* its capacity.
THEOREM TypeCorrect == Spec => []TypeOK
BY RequestsInvariant, PTL DEF RequestsInv

\* For every window, ttl and capacity of the verifier: a signed request passes
\* once, unless its nonce was evicted or lost with the controller.
THEOREM Once == Spec => []NoReplay
<1>1. RequestsInv => NoReplay
  BY DEF RequestsInv, TypeOK, HandoverTypeOK, ReplayInv, NoReplay
<1> QED BY <1>1, RequestsInvariant, PTL

----------------------------------------------------------------------------
(* The answers and the jobs.                                               *)

\* A row that is there stays as it is.
LEMMA RowsStay ==
  ASSUME HandoverTypeOK, HandledWasSent, NEW m \in Messages, Insert(m) \/ InsertFails(m)
  PROVE  /\ \A k \in Keys : row[k] # None => row'[k] = row[k]
         /\ \A n \in Messages : n # m => told'[n] = told[n]
<1>1. sent[m] \in Requests
  BY DEF Insert, InsertFails, HandledWasSent
<1> QED
  BY <1>1 DEF Insert, InsertFails, Answered, HandoverTypeOK, Requests

LEMMA InsertAsks ==
  ASSUME HandoverTypeOK, HandledWasSent, QueuedAsAsked,
         NEW m \in Messages, Insert(m) \/ InsertFails(m),
         NEW id \in Messages, told'[m] = Queued(id), told[m] # Queued(id)
  PROVE  row'[sent[m].key] = [id |-> id, ask |-> sent[m].ask]
<1>1. sent[m] \in Requests /\ sent[m].key \in Keys
  BY DEF Insert, InsertFails, HandledWasSent, Requests
<1>2. CASE InsertFails(m)
  BY <1>2 DEF InsertFails, Answered, Queued, Error, HandoverTypeOK
<1>3. CASE Insert(m) /\ row[sent[m].key] = None
  <2>1. Queued(id) = Queued(m)
    BY <1>3 DEF Insert, Answered, HandoverTypeOK
  <2> QED BY <1>1, <1>3, <2>1 DEF Insert, Queued, HandoverTypeOK
<1>4. CASE Insert(m) /\ row[sent[m].key] # None
  <2> DEFINE found == row[sent[m].key]
  <2>1. found \in Rows
    BY <1>1, <1>4 DEF HandoverTypeOK
  <2>2. Queued(id) = IF Same(found, sent[m]) THEN Queued(found.id) ELSE Error(409)
    BY <1>4 DEF Insert, Answered, HandoverTypeOK
  <2>3. found.id = id /\ found.ask = sent[m].ask
    BY <2>2 DEF Same, Queued, Error
  <2> QED BY <1>4, <2>1, <2>3 DEF Insert, Rows
<1> QED BY <1>2, <1>3, <1>4

LEMMA AskedStep == ASSUME RequestsInv, QueuedAsAsked, [Next]_vars PROVE QueuedAsAsked'
<1> USE DEF RequestsInv, TypeOK
<1>1. CASE Tick \/ StepBack \/ HandoverRestart \/ UNCHANGED handoverVars
  BY <1>1 DEF Tick, StepBack, HandoverRestart, QueuedAsAsked
<1>2. ASSUME NEW m \in Messages, Accept(m) PROVE QueuedAsAsked'
  BY <1>2 DEF Accept, QueuedAsAsked
<1>3. ASSUME NEW m \in Messages, GiveUp(m) \/ Deny(m) PROVE QueuedAsAsked'
  <2>1. UNCHANGED <<sent, row>>
        /\ \A n \in Messages : told'[n] = told[n] \/ \E code \in {401, 503} : told'[n] = Error(code)
    BY <1>3 DEF GiveUp, Deny, Answered, HandoverTypeOK
  <2> QED BY <2>1 DEF QueuedAsAsked, Queued, Error
<1>4. ASSUME NEW m \in Messages, NEW key \in Keys, NEW ask \in Asks, Send(m, key, ask)
      PROVE  QueuedAsAsked'
  <2>1. told'[m] = Waiting /\ row' = row
        /\ \A n \in Messages \ {m} : told'[n] = told[n] /\ sent'[n] = sent[n]
    BY <1>4 DEF Send, HandoverTypeOK
  <2>2. \A id \in Messages : Waiting # Queued(id)
    BY DEF Waiting, Queued
  <2> QED BY <2>1, <2>2 DEF QueuedAsAsked
<1>5. ASSUME NEW m \in Messages, Insert(m) \/ InsertFails(m) PROVE QueuedAsAsked'
  <2> SUFFICES ASSUME NEW n \in Messages, NEW id \in Messages, told'[n] = Queued(id)
               PROVE  row'[sent'[n].key] = [id |-> id, ask |-> sent'[n].ask]
    BY DEF QueuedAsAsked, Queued
  <2>1. sent' = sent
    BY <1>5 DEF Insert, InsertFails
  <2>2. CASE told[n] = Queued(id)
    <3>1. row[sent[n].key] = [id |-> id, ask |-> sent[n].ask]
      BY <2>2 DEF QueuedAsAsked
    <3>2. sent[n] \in Requests
      BY <2>2 DEF ReplayInv, HandledWasSent, Queued, None
    <3>3. sent[n].key \in Keys /\ row[sent[n].key] # None
      BY <3>1, <3>2 DEF Requests, None
    <3> QED BY <1>5, <2>1, <3>1, <3>3, RowsStay DEF ReplayInv
  <2>3. CASE told[n] # Queued(id)
    <3>1. n = m
      BY <1>5, <2>3, RowsStay DEF ReplayInv
    <3> QED BY <1>5, <2>1, <2>3, <3>1, InsertAsks DEF ReplayInv
  <2> QED BY <2>2, <2>3
<1> QED BY <1>1, <1>2, <1>3, <1>4, <1>5, Steps DEF HandoverStep

\* An action id the operator was given is that of the row that asks what he
\* asked, whatever was retried, lost or repeated.
THEOREM AskedFor == Spec => []QueuedAsAsked
<1>1. Init => QueuedAsAsked
  <2>1. \A id \in Messages : None # Queued(id)
    BY DEF None, Queued
  <2> QED BY <2>1 DEF Init, HandoverInit, QueuedAsAsked
<1> QED BY <1>1, AskedStep, RequestsInvariant, PTL DEF Spec

LEMMA JobsStep == ASSUME JobsTypeOK, NoJobForgotten, [Next]_vars PROVE NoJobForgotten'
<1> USE DEF NoJobForgotten
<1>1. ASSUME NEW j \in Jobs, Enqueue(j) \/ AgeJob(j) PROVE NoJobForgotten'
  BY <1>1 DEF Enqueue, AgeJob, JobsTypeOK
<1>2. ASSUME NEW j \in Jobs, NEW well \in BOOLEAN, ClaimJob(j, well) PROVE NoJobForgotten'
  BY <1>2, JobsAssumption DEF ClaimJob, JobsTypeOK
<1>3. ASSUME NEW well \in BOOLEAN, EndJob(well) PROVE NoJobForgotten'
  BY <1>3 DEF EndJob, Closed, JobsTypeOK
<1>4. CASE JobsRestart
  BY <1>4 DEF JobsRestart, RequeuedJobs, RunningJobs
<1>5. CASE UNCHANGED jobVars
  BY <1>5
<1> QED BY <1>1, <1>2, <1>3, <1>4, <1>5, Steps

\* For any number of jobs and restarts: a job that runs without a processor is
\* one whose statement was lost or that was too young for the last start.
THEOREM NotForgotten == Spec => []NoJobForgotten
<1>1. Init => NoJobForgotten
  BY DEF Init, JobsInit, NoJobForgotten
<1> QED BY <1>1, JobsStep, TypeCorrect, PTL DEF Spec, TypeOK
=============================================================================
