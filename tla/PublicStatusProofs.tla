-------------------------- MODULE PublicStatusProofs --------------------------
(***************************************************************************)
(* Proofs about PublicStatus, and with it about Detection and Rules: for   *)
(* any endpoints, thresholds and hold times, and any length of rounds,     *)
(* saves and requests, timed signals last, a stall is local, and nothing   *)
(* old is told to the public.                                              *)
(***************************************************************************)
EXTENDS PublicStatus, FiniteSetTheorems, TLAPS

Evaluators ==
  [finalized : Nat, progress : Nat \cup {Never}, stall : [Endpoints -> Nat],
   since : [Timed -> Nat \cup {Never}]]

----------------------------------------------------------------------------
(* The inductive invariant.                                                *)

\* No endpoint is ahead of the chain; one that answered has its height then.
Heights ==
  \A i \in Endpoints : external[i] <= chain /\ (externalOK[i] => external[i] = askedChain)

\* The evaluator's progress is the last that was read, and a stall is measured from
\* the height the chain had before it.
Progress ==
  evaluator.progress # Never =>
    /\ evaluator.progress = movedAt
    /\ heard => \A i \in Endpoints : evaluator.stall[i] = movedChain

\* A timer starts after the last round that read its condition as absent.
Timers ==
  \A c \in Timed :
    clearAt[c] <= now /\ (evaluator.since[c] # Never => clearAt[c] <= evaluator.since[c])

\* What a round has read of the endpoints is what is remembered of them.
Pending == reading # NoReading => reading \in States /\ reading.external = external

\* A state is stamped at most Gathering after its round began, and an answer expires
\* soon after the stamp.
Stamps ==
  /\ taken # Nothing =>
       /\ taken.read \in Nat /\ taken.read <= now
       /\ IF taken.updated = Never THEN now - taken.read <= Gathering
          ELSE taken.updated <= now /\ taken.updated - taken.read <= Gathering
  /\ overview.known =>
       overview.read \in Nat /\ overview.updated \in Nat /\ overview.updated - overview.read <= Gathering
  /\ cache.read # Never => cache.expires - cache.read <= Gathering + Freshness + TTL

DetectionInv == DetectionTypeOK /\ Pending /\ Heights /\ Progress /\ StallIsLocal /\ Timers

IInv == TypeOK /\ DetectionInv /\ Stamps

----------------------------------------------------------------------------
(* The rule evaluator.                                                     *)

LEMMA FreshType == Fresh \in Evaluators /\ Fresh.progress = Never /\ \A c \in Timed : Fresh.since[c] = Never
  BY DEF Fresh, Evaluators, Never

\* What a round makes of the evaluator and of its timers.
LEMMA EvaluatedType ==
  ASSUME NEW e \in Evaluators, NEW t \in Nat, NEW s \in States, NEW seen \in SUBSET Timed
  PROVE  /\ Evaluated(e, t, s, seen) \in Evaluators
         /\ Evaluated(e, t, s, seen).since = [c \in Timed |-> Since(e, t, seen, c)]
         /\ Moved(e, s) =>
              Evaluated(e, t, s, seen).progress = t /\ Evaluated(e, t, s, seen).stall = s.external
         /\ ~Moved(e, s) =>
              /\ Evaluated(e, t, s, seen).progress = e.progress
              /\ Evaluated(e, t, s, seen).stall = e.stall
<1> DEFINE timers == [c \in Timed |-> Since(e, t, seen, c)]
<1>1. timers \in [Timed -> Nat \cup {Never}]
  BY DEF Since, Evaluators
<1>2. CASE Moved(e, s)
  <2>1. Evaluated(e, t, s, seen) =
          [finalized |-> s.local, progress |-> t, stall |-> s.external, since |-> timers]
    BY <1>2 DEF Evaluated
  <2> HIDE DEF timers
  <2>2. Evaluated(e, t, s, seen) \in Evaluators /\ Evaluated(e, t, s, seen).since = timers
        /\ Evaluated(e, t, s, seen).progress = t /\ Evaluated(e, t, s, seen).stall = s.external
    BY <1>1, <2>1 DEF Evaluators, States
  <2> QED BY <1>2, <2>2 DEF timers
<1>3. CASE ~Moved(e, s)
  <2>1. Evaluated(e, t, s, seen) = [e EXCEPT !.since = timers]
    BY <1>3 DEF Evaluated
  <2> HIDE DEF timers
  <2>2. Evaluated(e, t, s, seen) \in Evaluators /\ Evaluated(e, t, s, seen).since = timers
        /\ Evaluated(e, t, s, seen).progress = e.progress /\ Evaluated(e, t, s, seen).stall = e.stall
    BY <1>1, <2>1 DEF Evaluators
  <2> QED BY <1>3, <2>2 DEF timers
<1> QED BY <1>2, <1>3

LEMMA SignalsType ==
  ASSUME NEW e, NEW t, NEW s
  PROVE  /\ Signals(e, t, s) \subseteq Fingerprints
         /\ "block-stalled" \in Signals(e, t, s) => Stalled(e, t, s)
         /\ \A c \in Signals(e, t, s) \cap Timed : e.since[c] # Never /\ t - e.since[c] >= Hold[c]
  BY DEF Signals, Fingerprints, Timed

LEMMA SeenType == \A s : Seen(s) \subseteq Timed
  BY DEF Seen

----------------------------------------------------------------------------
(* One round.                                                              *)

LEMMA ExternalKept ==
  ASSUME DetectionInv, UpdateExternal
  PROVE  /\ external' \in [Endpoints -> Nat] /\ externalOK' \in [Endpoints -> BOOLEAN]
         /\ lastExternal' \in Nat \cup {Never} /\ askedChain' \in Nat
         /\ \A i \in Endpoints : external'[i] <= chain /\ (externalOK'[i] => external'[i] = askedChain')
<1>1. /\ external \in [Endpoints -> Nat] /\ externalOK \in [Endpoints -> BOOLEAN]
      /\ lastExternal \in Nat \cup {Never} /\ askedChain \in Nat /\ chain \in Nat /\ now \in Nat
  BY DEF DetectionInv, DetectionTypeOK
<1>2. CASE UNCHANGED <<external, externalOK, lastExternal, askedChain>>
  BY <1>1, <1>2 DEF DetectionInv, Heights
<1>3. CASE /\ lastExternal' = now /\ askedChain' = chain
           /\ externalOK' \in [Endpoints -> BOOLEAN]
           /\ external' = [i \in Endpoints |-> IF externalOK'[i] THEN chain ELSE external[i]]
  BY <1>1, <1>3 DEF DetectionInv, Heights
<1> QED BY <1>2, <1>3 DEF UpdateExternal

LEMMA ReadingType ==
  ASSUME DetectionInv, external' \in [Endpoints -> Nat], NEW s \in Readings
  PROVE  s \in States /\ s.external = external'
<1>1. PICK agentOK \in BOOLEAN, metricsOK \in BOOLEAN, peers \in Peers, memory \in Memory, disk \in Disks :
        s = [agentOK |-> agentOK, metricsOK |-> metricsOK,
             service |-> IF agentOK THEN service ELSE "unavailable",
             local |-> IF metricsOK THEN local ELSE 0,
             external |-> external',
             peers |-> IF metricsOK THEN peers ELSE 0,
             memory |-> IF agentOK THEN memory ELSE "normal",
             disk |-> IF agentOK THEN disk ELSE "ok"]
  BY DEF Readings
<1>2. service \in {"active", "inactive"} /\ local \in Nat
  BY DEF DetectionInv, DetectionTypeOK
<1>3. peers \in Nat /\ memory \in {"high", "normal"} /\ disk \in {"disk-critical", "disk-warning", "ok"}
  BY DetectionAssumption
<1> QED BY <1>1, <1>2, <1>3 DEF States

LEMMA FailuresType ==
  Failures \in Nat
<1>1. IsFiniteSet({i \in Endpoints : lastExternal' # lastExternal /\ ~externalOK'[i]})
  BY RulesAssumption, FS_Subset
<1>2. IsFiniteSet({r \in {"agentOK", "metricsOK"} : ~reading'[r]})
  <2>1. IsFiniteSet({"agentOK", "metricsOK"})
    <3>1. IsFiniteSet({"agentOK"}) /\ {"agentOK", "metricsOK"} = {"agentOK"} \cup {"metricsOK"}
      BY FS_Singleton
    <3> QED BY <3>1, FS_AddElement
  <2> QED BY <2>1, FS_Subset
<1> QED BY <1>1, <1>2, FS_CardinalityType DEF Failures

\* What a round reads changes what is remembered of the endpoints, and nothing of what
\* was made of earlier rounds.
LEMMA CollectKeeps ==
  ASSUME DetectionInv, Collect
  PROVE  DetectionInv' /\ raised' = raised
<1>1. UpdateExternal /\ reading' \in Readings /\ collected' = TRUE /\ faults' = faults + Failures
  BY DEF Collect
<1>2. UNCHANGED <<now, service, local, chain, evaluator, raised, clearAt, movedAt, movedChain, heard>>
  BY DEF Collect, nodeVars
<1>3. /\ external' \in [Endpoints -> Nat] /\ externalOK' \in [Endpoints -> BOOLEAN]
      /\ lastExternal' \in Nat \cup {Never} /\ askedChain' \in Nat
      /\ \A i \in Endpoints : external'[i] <= chain /\ (externalOK'[i] => external'[i] = askedChain')
  BY <1>1, ExternalKept
<1>4. reading' \in States /\ reading'.external = external'
  BY <1>1, <1>3, ReadingType
<1>5. faults' \in Nat
  BY <1>1, FailuresType DEF DetectionInv, DetectionTypeOK
<1>6. DetectionTypeOK'
  BY <1>1, <1>2, <1>3, <1>4, <1>5 DEF DetectionInv, DetectionTypeOK
<1>7. Pending' /\ Heights'
  BY <1>2, <1>3, <1>4 DEF Pending, Heights
<1>8. Progress' /\ StallIsLocal' /\ Timers'
  BY <1>2 DEF DetectionInv, Progress, StallIsLocal, Timers
<1> QED BY <1>2, <1>6, <1>7, <1>8 DEF DetectionInv

\* An evaluation keeps what is known of heights, progress and timers, and its new timed
\* signals have lasted.
LEMMA JudgeKeeps ==
  ASSUME DetectionInv, Judge
  PROVE  /\ DetectionInv'
         /\ \A c \in raised' \cap Timed : now - clearAt'[c] >= Hold[c]
<1> DEFINE s == reading
<1>1. /\ now \in Nat /\ chain \in Nat /\ evaluator \in Evaluators /\ clearAt \in [Timed -> Nat]
      /\ movedAt \in Nat /\ movedChain \in Nat /\ heard \in BOOLEAN /\ askedChain \in Nat
      /\ external \in [Endpoints -> Nat] /\ externalOK \in [Endpoints -> BOOLEAN]
  BY DEF DetectionInv, DetectionTypeOK, Evaluators
<1>2. \A i \in Endpoints : external[i] <= chain /\ (externalOK[i] => external[i] = askedChain)
  BY DEF DetectionInv, Heights
<1>3. s \in States /\ s.external = external
  BY DEF DetectionInv, Pending, Judge
<1> HIDE DEF s
<1>4. PICK seen \in {Seen(s)} :
        /\ evaluator' = Evaluated(evaluator, now, s, seen)
        /\ raised' = Signals(evaluator', now, s)
        /\ clearAt' = [c \in Timed |-> IF c \in seen THEN clearAt[c] ELSE now]
        /\ IF Moved(evaluator, s)
           THEN /\ movedAt' = now /\ movedChain' = askedChain
                /\ heard' = \A i \in Endpoints : externalOK[i]
           ELSE UNCHANGED <<movedAt, movedChain, heard>>
  BY DEF Judge, Evaluate, s
<1>5. seen \in SUBSET Timed
  BY <1>4, SeenType
<1>6. /\ evaluator' \in Evaluators
      /\ evaluator'.since = [c \in Timed |-> Since(evaluator, now, seen, c)]
      /\ Moved(evaluator, s) => evaluator'.progress = now /\ evaluator'.stall = external
      /\ ~Moved(evaluator, s) =>
           evaluator'.progress = evaluator.progress /\ evaluator'.stall = evaluator.stall
  BY <1>1, <1>3, <1>4, <1>5, EvaluatedType
<1>7. /\ UNCHANGED <<now, faults, service, local, chain, collected, external, externalOK, lastExternal,
                     askedChain>>
      /\ reading' = NoReading
  BY DEF Judge, nodeVars
<1>8. movedAt' \in Nat /\ movedChain' \in Nat /\ heard' \in BOOLEAN /\ clearAt' \in [Timed -> Nat]
  BY <1>1, <1>4
<1>9. raised' \subseteq Fingerprints
  BY <1>4, SignalsType
<1>10. DetectionTypeOK'
  BY <1>6, <1>7, <1>8, <1>9 DEF DetectionInv, DetectionTypeOK, Evaluators
<1>11. Pending' /\ Heights'
  BY <1>2, <1>7 DEF Pending, Heights
<1>12. Progress'
  <2>1. CASE Moved(evaluator, s)
    BY <1>2, <1>4, <1>6, <2>1 DEF Progress
  <2>2. CASE ~Moved(evaluator, s)
    BY <1>4, <1>6, <2>2 DEF DetectionInv, Progress
  <2> QED BY <2>1, <2>2
<1>13. StallIsLocal'
  <2> SUFFICES ASSUME "block-stalled" \in raised', heard'
               PROVE  now - movedAt' >= StallAfter /\ chain - movedChain' >= Ahead
    BY <1>7 DEF StallIsLocal
  <2>1. Stalled(evaluator', now, s)
    BY <1>4, SignalsType
  <2>2. evaluator'.progress = movedAt' /\ \A i \in Endpoints : evaluator'.stall[i] = movedChain'
    BY <1>12, <2>1 DEF Stalled, Progress
  <2>3. PICK i \in Endpoints : TRUE
    BY RulesAssumption
  <2>4. external[i] - movedChain' >= Ahead /\ external[i] <= chain /\ external[i] \in Nat
    BY <1>1, <1>2, <1>3, <2>1, <2>2 DEF Stalled
  <2> QED BY <1>1, <1>8, <2>1, <2>2, <2>4, RulesAssumption DEF Stalled
<1>14. \A c \in Timed : clearAt'[c] <= now /\ (evaluator'.since[c] # Never => clearAt'[c] <= evaluator'.since[c])
  BY <1>1, <1>4, <1>6 DEF DetectionInv, Timers, Since, Evaluators, Never
<1>15. ASSUME NEW c \in raised' \cap Timed
       PROVE  now - clearAt'[c] >= Hold[c]
  <2>1. evaluator'.since[c] # Never /\ now - evaluator'.since[c] >= Hold[c]
    BY <1>4, <1>15, SignalsType
  <2>2. clearAt'[c] <= evaluator'.since[c]
    BY <1>14, <2>1
  <2>3. clearAt'[c] \in Nat /\ evaluator'.since[c] \in Nat /\ Hold[c] \in Nat
    BY <1>6, <1>8, <2>1, RulesAssumption DEF Evaluators
  <2> QED BY <1>1, <2>1, <2>2, <2>3
<1> QED BY <1>7, <1>10, <1>11, <1>12, <1>13, <1>14, <1>15 DEF DetectionInv, Timers

----------------------------------------------------------------------------
(* Every step.                                                             *)

LEMMA InitIInv == Init => IInv
<1> SUFFICES ASSUME Init PROVE IInv
  OBVIOUS
<1>1. DetectionTypeOK
  <2>1. /\ now = 0 /\ faults = 0 /\ service = "active" /\ local = 1 /\ chain = 1
        /\ external = [i \in Endpoints |-> 0] /\ externalOK = [i \in Endpoints |-> FALSE]
        /\ lastExternal = Never /\ collected = FALSE /\ raised = {}
        /\ clearAt = [c \in Timed |-> 0]
        /\ movedAt = 0 /\ movedChain = 0 /\ heard = FALSE /\ askedChain = 0
    BY DEF Init, DetectionInit
  <2>2. evaluator \in Evaluators /\ reading \in States \cup {NoReading}
    BY FreshType, Zenon DEF Init, DetectionInit
  <2>3. external \in [Endpoints -> Nat] /\ externalOK \in [Endpoints -> BOOLEAN] /\ clearAt \in [Timed -> Nat]
    BY <2>1
  <2>4. /\ {now, faults} \subseteq Nat /\ service \in {"active", "inactive"} /\ local \in Nat /\ chain \in Nat
        /\ lastExternal \in Nat \cup {Never} /\ raised \subseteq Fingerprints
        /\ movedAt \in Nat /\ movedChain \in Nat /\ askedChain \in Nat
    BY <2>1
  <2>5. collected \in BOOLEAN /\ heard \in BOOLEAN
    BY <2>1, Zenon
  <2> QED BY <2>2, <2>3, <2>4, <2>5 DEF DetectionTypeOK, Evaluators
<1>2. Pending /\ Heights /\ Timers
  BY FreshType DEF Init, DetectionInit, Pending, Heights, Timers
<1>3. Progress /\ StallIsLocal
  BY FreshType DEF Init, DetectionInit, Progress, StallIsLocal
<1>4. Nothing \in Overviews /\ Empty \in [read : Nat \cup {Never}, expires : Nat \cup {Never}]
  BY DEF Nothing, Overviews, Empty
<1>5. TypeOK
  BY <1>1, <1>4 DEF Init, TypeOK
<1>6. Stamps
  BY DEF Init, DetectionInit, Stamps, Nothing, Empty, Never
<1> QED BY <1>1, <1>2, <1>3, <1>5, <1>6 DEF IInv, DetectionInv

\* A distance that is reached stays reached as the later end moves on.
LEMMA Farther ==
  ASSUME NEW a \in Int, NEW b \in Int, NEW from \in Int, NEW distance \in Int,
         a - from >= distance, b >= a
  PROVE  b - from >= distance
  OBVIOUS

LEMMA ClockIInv ==
  ASSUME IInv, Clock
  PROVE  IInv' /\ raised' = raised
<1>1. /\ now' = now + 1 /\ chain' \in {chain, chain + 1} /\ local' \in {local, chain'}
      /\ service' \in {"active", "inactive"} /\ collected' = FALSE
      /\ (Gathers => now - taken.read < Gathering)
      /\ UNCHANGED <<faults, reading, memVars, histVars, taken, overview, cache>>
  BY DEF Clock, Tick, statusVars
<1>2. now \in Nat /\ chain \in Nat /\ local \in Nat
  BY DEF IInv, DetectionInv, DetectionTypeOK
<1>3. UNCHANGED <<external, externalOK, lastExternal, evaluator, raised, clearAt, movedAt,
                  movedChain, heard, askedChain>>
  BY <1>1 DEF memVars, histVars
<1>4. now' > now /\ now' \in Nat /\ chain' >= chain /\ chain' \in Nat
  BY <1>1, <1>2
<1>5. DetectionTypeOK'
  BY <1>4, <1>1, <1>2, <1>3 DEF IInv, DetectionInv, DetectionTypeOK
<1>6. Pending' /\ Heights'
  <2>1. \A i \in Endpoints : external[i] <= chain => external[i] <= chain'
    BY <1>4, <1>2 DEF IInv, DetectionInv, DetectionTypeOK
  <2>2. Heights'
    BY <1>3, <2>1, Zenon DEF IInv, DetectionInv, Heights
  <2> QED BY <1>1, <1>3, <2>2 DEF IInv, DetectionInv, Pending
<1>7. Progress'
  BY <1>3 DEF IInv, DetectionInv, Progress
<1>8. StallIsLocal'
  <2>1. movedAt \in Nat /\ movedChain \in Nat /\ StallAfter \in Nat /\ Ahead \in Nat
    BY RulesAssumption DEF IInv, DetectionInv, DetectionTypeOK
  <2>2. /\ now - movedAt >= StallAfter => now' - movedAt >= StallAfter
        /\ chain - movedChain >= Ahead => chain' - movedChain >= Ahead
    <3>1. now \in Int /\ now' \in Int /\ now' >= now /\ chain \in Int /\ chain' \in Int /\ chain' >= chain
      BY <1>4, <1>2
    <3>2. movedAt \in Int /\ movedChain \in Int /\ StallAfter \in Int /\ Ahead \in Int
      BY <2>1
    <3> QED BY <3>1, <3>2, Farther
  <2>3. (now - movedAt >= StallAfter /\ chain - movedChain >= Ahead) \/ ~("block-stalled" \in raised /\ heard)
    BY Zenon DEF IInv, DetectionInv, StallIsLocal
  <2>4. raised' = raised /\ heard' = heard /\ movedAt' = movedAt /\ movedChain' = movedChain
    BY <1>3, Zenon
  <2> QED BY <2>2, <2>3, <2>4, Zenon DEF StallIsLocal
<1>9. Timers'
  BY <1>1, <1>2, <1>3 DEF IInv, DetectionInv, DetectionTypeOK, Timers
<1>10. Stamps'
  BY <1>1, <1>2, StatusAssumption DEF IInv, TypeOK, Overviews, Stamps, Gathers, Never
<1>11. TypeOK'
  BY <1>1, <1>5 DEF IInv, TypeOK
<1> QED BY <1>3, <1>5, <1>6, <1>7, <1>8, <1>9, <1>10, <1>11 DEF IInv, DetectionInv

LEMMA RoundIInv ==
  ASSUME IInv, Round
  PROVE  IInv' /\ raised' = raised
<1>1. /\ Collect /\ UNCHANGED <<overview, cache>>
      /\ taken' = [read |-> now, updated |-> Never, known |-> reading'.service # "unavailable"]
  BY DEF Round
<1>2. DetectionInv' /\ raised' = raised
  BY <1>1, CollectKeeps DEF IInv
<1>3. now' = now /\ now \in Nat
  BY <1>1 DEF Collect, IInv, TypeOK, DetectionTypeOK
<1>4. taken' \in Overviews /\ taken'.read = now /\ taken'.updated = Never
  BY <1>1, <1>3 DEF Overviews
<1>5. TypeOK'
  BY <1>1, <1>2, <1>4 DEF IInv, TypeOK, DetectionInv
<1>6. Stamps'
  BY <1>1, <1>3, <1>4, StatusAssumption DEF IInv, Stamps
<1> QED BY <1>2, <1>5, <1>6 DEF IInv

LEMMA StampIInv ==
  ASSUME IInv, Stamp
  PROVE  IInv' /\ raised' = raised
<1>1. /\ UNCHANGED <<detectionVars, overview, cache>> /\ taken # Nothing /\ taken.updated = Never
      /\ taken' = [taken EXCEPT !.updated = now]
  BY DEF Stamp, Gathers
<1>2. DetectionInv' /\ now' = now /\ now \in Nat /\ raised' = raised
  BY <1>1 DEF IInv, TypeOK, DetectionInv, DetectionTypeOK, Pending, Heights, Progress, StallIsLocal,
     Timers, detectionVars, nodeVars, memVars, histVars
<1>3. taken' \in Overviews /\ taken'.read = taken.read /\ taken'.updated = now
  BY <1>1, <1>2 DEF IInv, TypeOK, Overviews
<1>4. TypeOK'
  BY <1>1, <1>2, <1>3 DEF IInv, TypeOK, DetectionInv
<1>5. Stamps'
  BY <1>1, <1>2, <1>3 DEF IInv, Stamps, Never
<1> QED BY <1>2, <1>4, <1>5 DEF IInv

LEMMA RoundJudgesIInv ==
  ASSUME IInv, RoundJudges
  PROVE  IInv' /\ \A c \in raised' \cap Timed : now - clearAt'[c] >= Hold[c]
<1>1. Judge /\ UNCHANGED <<taken, overview, cache>>
  BY DEF RoundJudges, statusVars
<1>2. DetectionInv' /\ \A c \in raised' \cap Timed : now - clearAt'[c] >= Hold[c]
  BY <1>1, JudgeKeeps DEF IInv
<1>3. now' = now
  BY <1>1 DEF Judge
<1> QED BY <1>1, <1>2, <1>3 DEF IInv, TypeOK, DetectionInv, Stamps

\* Steps that leave the controller's memory alone.
LEMMA SaveIInv ==
  ASSUME IInv, Save
  PROVE  IInv' /\ raised' = raised
<1>1. /\ UNCHANGED <<detectionVars, cache>> /\ taken # Nothing /\ taken.updated # Never
      /\ overview' \in {overview, Saved} /\ taken' = Nothing
  BY DEF Save, Gathers
<1>2. DetectionInv' /\ now' = now /\ now \in Nat /\ raised' = raised
  BY <1>1 DEF IInv, TypeOK, DetectionInv, DetectionTypeOK, Pending, Heights, Progress, StallIsLocal,
     Timers, detectionVars, nodeVars, memVars, histVars
<1>3. Nothing \in Overviews /\ ~Nothing.known
  BY DEF Nothing, Overviews, Never
<1>4. /\ Saved \in Overviews
      /\ Saved.known =>
           Saved.read \in Nat /\ Saved.updated \in Nat /\ Saved.updated - Saved.read <= Gathering
  BY <1>1, <1>3 DEF Saved, IInv, TypeOK, Overviews, Stamps
<1>5. TypeOK'
  BY <1>1, <1>2, <1>3, <1>4 DEF IInv, TypeOK, DetectionInv
<1>6. Stamps'
  BY <1>1, <1>2, <1>4 DEF IInv, Stamps
<1> QED BY <1>2, <1>5, <1>6 DEF IInv

LEMMA RestartIInv ==
  ASSUME IInv, ControllerRestart
  PROVE  IInv' /\ raised' = {}
<1>1. /\ external' = [i \in Endpoints |-> 0] /\ externalOK' = [i \in Endpoints |-> FALSE]
      /\ lastExternal' = Never /\ evaluator' = Fresh /\ raised' = {}
      /\ clearAt' = [c \in Timed |-> now]
      /\ taken' = Nothing /\ reading' = NoReading /\ faults' = faults + 1
      /\ movedAt' = 0 /\ movedChain' = 0 /\ heard' = FALSE /\ askedChain' = 0
      /\ UNCHANGED <<now, service, local, chain, collected, overview, cache>>
  BY DEF ControllerRestart, Restart, nodeVars
<1>2. now \in Nat /\ chain \in Nat
  BY DEF IInv, DetectionInv, DetectionTypeOK
<1>3. DetectionTypeOK'
  <2>1. evaluator' \in Evaluators /\ reading' \in States \cup {NoReading}
    BY <1>1, FreshType, Zenon
  <2>2. /\ {now, faults} \subseteq Nat /\ service \in {"active", "inactive"} /\ local \in Nat
        /\ chain \in Nat /\ collected \in BOOLEAN
    BY DEF IInv, DetectionInv, DetectionTypeOK
  <2>3. /\ external' \in [Endpoints -> Nat] /\ externalOK' \in [Endpoints -> BOOLEAN]
        /\ clearAt' \in [Timed -> Nat]
    BY <1>1, <1>2
  <2>4. /\ {now', faults'} \subseteq Nat /\ service' \in {"active", "inactive"} /\ local' \in Nat /\ chain' \in Nat
        /\ lastExternal' \in Nat \cup {Never} /\ raised' \subseteq Fingerprints
        /\ movedAt' \in Nat /\ movedChain' \in Nat /\ askedChain' \in Nat
    BY <1>1, <2>2
  <2>5. collected' \in BOOLEAN /\ heard' \in BOOLEAN
    BY <1>1, <2>2, Zenon
  <2> QED BY <2>1, <2>3, <2>4, <2>5 DEF DetectionTypeOK, Evaluators
<1>4. Pending' /\ Heights' /\ Progress' /\ StallIsLocal' /\ Timers'
  BY <1>1, <1>2, FreshType DEF Pending, Heights, Progress, StallIsLocal, Timers
<1>5. Nothing \in Overviews
  BY DEF Nothing, Overviews, Never
<1>6. TypeOK'
  BY <1>1, <1>3, <1>5 DEF IInv, TypeOK
<1>7. Stamps'
  BY <1>1, <1>5 DEF IInv, Stamps
<1> QED BY <1>1, <1>3, <1>4, <1>6, <1>7 DEF IInv, DetectionInv

\* An answer that says more than "unknown" is judged by a stamp at most Freshness old.
LEMMA AnswerFresh ==
  ASSUME NEW o \in Overviews, NEW time \in Nat
  PROVE  /\ FromOverview(o, time) \in Nat \cup {Never}
         /\ FromOverview(o, time) # Never =>
              FromOverview(o, time) = o.read /\ o.known /\ time - o.updated <= Freshness
<1>1. o.updated \in Int /\ o.read \in Nat \cup {Never} /\ Freshness \in Int
  BY StatusAssumption DEF Overviews, Never
<1>2. CASE ~o.known \/ time < o.updated \/ time - o.updated > Freshness
  BY <1>2 DEF FromOverview
<1>3. CASE ~(~o.known \/ time < o.updated \/ time - o.updated > Freshness)
  BY <1>1, <1>3 DEF FromOverview
<1> QED BY <1>2, <1>3

LEMMA AskIInv ==
  ASSUME IInv, Ask
  PROVE  IInv'
<1>1. UNCHANGED <<detectionVars, taken, overview>>
  BY DEF Ask
<1>2. DetectionInv' /\ now' = now /\ now \in Nat
  BY <1>1 DEF IInv, TypeOK, DetectionInv, DetectionTypeOK, Pending, Heights, Progress,
     StallIsLocal, Timers, detectionVars, nodeVars, memVars, histVars
<1>3. PICK time \in Noted : Hit(time) \/ Load(time)
  BY DEF Ask
<1>4. time \in Nat
  BY DEF Noted
<1>5. CASE Hit(time)
  BY <1>1, <1>2, <1>5 DEF Hit, IInv, TypeOK, DetectionInv, Stamps
<1>6. CASE Load(time)
  <2>1. PICK o \in {Nothing, overview} :
          cache' = [read |-> FromOverview(o, time), expires |-> time + TTL]
    BY <1>6 DEF Load
  <2>2. o \in Overviews
    <3>1. Nothing \in Overviews
      BY DEF Nothing, Overviews
    <3> QED BY <2>1, <3>1 DEF IInv, TypeOK
  <2>3. o.known => o.read \in Nat /\ o.updated \in Nat /\ o.updated - o.read <= Gathering
    BY DEF IInv, Stamps, Nothing
  <2>4. /\ cache' \in [read : Nat \cup {Never}, expires : Nat \cup {Never}]
        /\ cache'.read = FromOverview(o, time) /\ cache'.expires = time + TTL
    BY <1>4, <2>1, <2>2, AnswerFresh, StatusAssumption
  <2>5. cache'.read # Never => cache'.expires - cache'.read <= Gathering + Freshness + TTL
    <3> SUFFICES ASSUME cache'.read # Never PROVE cache'.expires - cache'.read <= Gathering + Freshness + TTL
      OBVIOUS
    <3>1. cache'.read = o.read /\ o.known /\ time - o.updated <= Freshness
      BY <1>4, <2>2, <2>4, AnswerFresh
    <3>2. Gathering \in Nat /\ Freshness \in Nat /\ TTL \in Nat
      BY StatusAssumption
    <3> QED BY <1>4, <2>3, <2>4, <3>1, <3>2
  <2>6. TypeOK'
    BY <1>1, <1>2, <2>4 DEF IInv, TypeOK, DetectionInv
  <2>7. Stamps'
    BY <1>1, <1>2, <2>5 DEF IInv, Stamps
  <2> QED BY <1>2, <2>6, <2>7 DEF IInv
<1> QED BY <1>3, <1>5, <1>6

LEMMA ApiRestartIInv ==
  ASSUME IInv, ApiRestart
  PROVE  IInv' /\ raised' = raised
<1>1. /\ UNCHANGED <<now, faults, nodeVars, collected, reading, memVars, histVars, taken, overview>>
      /\ cache' = Empty
  BY DEF ApiRestart, detectionVars
<1>2. DetectionInv'
  BY <1>1 DEF IInv, TypeOK, DetectionInv, DetectionTypeOK, Pending, Heights, Progress, StallIsLocal,
     Timers, nodeVars, memVars, histVars
<1>3. Empty \in [read : Nat \cup {Never}, expires : Nat \cup {Never}]
  BY DEF Empty
<1>4. TypeOK'
  BY <1>1, <1>2, <1>3 DEF IInv, TypeOK, DetectionInv
<1>5. Stamps'
  BY <1>1 DEF IInv, Stamps, Empty
<1> QED BY <1>1, <1>2, <1>4, <1>5 DEF IInv, memVars

LEMMA NextIInv ==
  ASSUME IInv, [Next]_vars
  PROVE  /\ IInv'
         /\ [\A c \in raised' \cap Timed : c \in raised \/ now - clearAt'[c] >= Hold[c]]_detectionVars
<1>1. CASE Clock
  BY <1>1, ClockIInv
<1>2. CASE Round
  BY <1>2, RoundIInv
<1>3. CASE Stamp
  BY <1>3, StampIInv
<1>4. CASE RoundJudges
  BY <1>4, RoundJudgesIInv
<1>5. CASE Save
  BY <1>5, SaveIInv
<1>6. CASE ControllerRestart
  BY <1>6, RestartIInv
<1>8. CASE Ask
  BY <1>8, AskIInv DEF Ask
<1>9. CASE ApiRestart
  BY <1>9, ApiRestartIInv
<1>7. CASE UNCHANGED vars
  <2>1. UNCHANGED detectionVars /\ UNCHANGED statusVars
    BY <1>7 DEF vars
  <2>2. DetectionInv'
    BY <2>1 DEF IInv, DetectionInv, DetectionTypeOK, Pending, Heights, Progress, StallIsLocal, Timers,
       detectionVars, nodeVars, memVars, histVars
  <2>3. TypeOK' /\ Stamps'
    BY <2>1, <2>2 DEF IInv, DetectionInv, TypeOK, Stamps, statusVars, detectionVars
  <2> QED BY <2>1, <2>2, <2>3 DEF IInv
<1> QED BY <1>1, <1>2, <1>3, <1>4, <1>5, <1>6, <1>7, <1>8, <1>9 DEF Next

----------------------------------------------------------------------------
(* The invariant and what follows from it.                                 *)

\* The invariant holds in every reachable state of the controller and the api.
THEOREM Inductive == Spec => []IInv
<1>1. IInv /\ [Next]_vars => IInv'
  BY NextIInv
<1> QED BY <1>1, InitIInv, PTL DEF Spec

\* Every variable keeps its type in every reachable state.
THEOREM TypeCorrect == Spec => []TypeOK
<1>1. IInv => TypeOK
  BY DEF IInv
<1> QED BY <1>1, Inductive, PTL

\* Whatever endpoints, agent and metrics fail, and whenever the controller restarts, a
\* stall is raised only when the public chain went on meanwhile (evaluateRules,
\* updateExternal).
THEOREM StallsAreLocal == Spec => []StallIsLocal
<1>1. IInv => StallIsLocal
  BY DEF IInv, DetectionInv
<1> QED BY <1>1, Inductive, PTL

\* A timed signal is raised only after its condition has been read in every round for
\* as long as the rule asks, whatever the time between rounds and across restarts.
THEOREM SignalsHaveLasted == Spec => SignalsLast
<1>1. IInv /\ [Next]_vars =>
        [\A c \in raised' \cap Timed : c \in raised \/ now - clearAt'[c] >= Hold[c]]_detectionVars
  BY NextIInv
<1> QED BY <1>1, Inductive, PTL DEF Spec, SignalsLast

\* Nobody is told that the node is online or offline by what a round began to read
\* Gathering + Freshness + TTL ago or earlier: not by a slow round, whose stamp is younger
\* than what it stamps, nor a slow save, a slow request or a cached answer.
THEOREM PublicKnowsRecent == Spec => []PublicIsRecent
<1>1. IInv => PublicIsRecent
  <2> SUFFICES ASSUME IInv, NEW time \in Noted, time < cache.expires, cache.read # Never
               PROVE  time - cache.read < Gathering + Freshness + TTL
    BY DEF PublicIsRecent
  <2>1. /\ time \in Nat /\ cache.read \in Int /\ cache.expires \in Int
        /\ Gathering \in Int /\ Freshness \in Int /\ TTL \in Int
    BY StatusAssumption DEF Noted, IInv, TypeOK, Never
  <2>2. cache.expires - cache.read <= Gathering + Freshness + TTL
    BY DEF IInv, Stamps
  <2> QED BY <2>1, <2>2
<1> QED BY <1>1, Inductive, PTL
=============================================================================
