--------------------------- MODULE IncidentsProofs ---------------------------
(***************************************************************************)
(* For any number of incidents, rounds and deaths of the controller: no    *)
(* first sighting outlives its incident, so that nothing but a candidate   *)
(* is answered with a restart, and none before its recheck.                *)
(***************************************************************************)
EXTENDS Incidents, TLAPS

\* A first sighting belongs to the open incident of its fingerprint, and an
\* incident that is being announced has none yet.
SightingOK ==
  \A f \in Names : autoSeen[f] # Never =>
    /\ incidents[f].open /\ f \notin opened
    /\ incidents[f].openedAt <= autoSeen[f] /\ autoSeen[f] <= now
    /\ Action(f) \in sighted

RoundOK ==
  /\ opened # {} \/ todo # {} => pc = "signals"
  /\ \A f \in opened : incidents[f].open
  /\ \A f, g \in opened : f = g
  /\ \A f \in Names : incidents[f].openedAt <= now

\* Nothing but a candidate has ever been answered with a restart.
AutoIsForCandidates == \A q \in queued : q.name \in Candidates

IncidentsInv == TypeOK /\ SightingOK /\ RoundOK /\ AutoIsForCandidates

LEMMA NamesParts == Candidates \subseteq Names /\ Growing \subseteq Names /\ Never \notin Nat
BY DEF Names, Never

LEMMA IncidentsInit == Init => IncidentsInv
<1> SUFFICES ASSUME Init PROVE IncidentsInv
  OBVIOUS
<1>1. smtpHealthy \in BOOLEAN /\ allowed \in BOOLEAN
  BY Zenon DEF Init
<1>2. autoSeen \in [Names -> Nat \cup {Never}] /\ crashes \in Nat /\ now \in Nat
  BY DEF Init
<1>3. incidents \in [Names -> [id : Nat, open : BOOLEAN, openedAt : Nat, advice : Advices,
                              severity : {"none", "fixed", "warning", "critical"}]]
  BY DEF Init, NoIncident, Advices
<1>4. TypeOK
  BY <1>1, <1>2, <1>3 DEF Init, TypeOK
<1>5. SightingOK /\ RoundOK /\ AutoIsForCandidates
  BY DEF Init, SightingOK, RoundOK, AutoIsForCandidates, NoIncident
<1> QED BY <1>4, <1>5 DEF IncidentsInv

LEMMA InsertInserts ==
  ASSUME TypeOK, NEW f \in Names, Insert(f)
  PROVE  /\ incidents' \in [Names -> [id : Nat, open : BOOLEAN, openedAt : Nat, advice : Advices,
                                      severity : {"none", "fixed", "warning", "critical"}]]
         /\ ~incidents[f].open /\ incidents'[f].open /\ incidents'[f].openedAt = now
         /\ \A g \in Names \ {f} : incidents'[g] = incidents[g]
BY DEF TypeOK, Insert, Severity, Advices

LEMMA QuietKeeps ==
  ASSUME IncidentsInv, Tick \/ Collect \/ TestSMTP \/ UNCHANGED vars
  PROVE  IncidentsInv'
<1>1. UNCHANGED <<autoSeen, opened, incidents, queued, sighted, crashes>>
  BY DEF Tick, Collect, TestSMTP, vars, memVars, roundVars
<1>2. now' \in Nat /\ now' >= now
  BY DEF Tick, Collect, TestSMTP, vars, IncidentsInv, TypeOK
<1>3. smtpHealthy' \in BOOLEAN /\ allowed' \in BOOLEAN
  BY DEF Tick, Collect, TestSMTP, vars, memVars, roundVars, IncidentsInv, TypeOK
<1>4. /\ pc' \in {"idle", "signals"}
      /\ raised' \subseteq Names /\ grave' \subseteq raised' /\ todo' \subseteq raised'
      /\ opened' \subseteq raised'
      /\ opened' # {} \/ todo' # {} => pc' = "signals"
  BY DEF Tick, Collect, TestSMTP, vars, memVars, roundVars, IncidentsInv, TypeOK, RoundOK
<1>5. TypeOK'
  BY <1>1, <1>2, <1>3, <1>4 DEF IncidentsInv, TypeOK
<1>6. SightingOK' /\ RoundOK' /\ AutoIsForCandidates'
  BY <1>1, <1>2, <1>4 DEF IncidentsInv, TypeOK, SightingOK, RoundOK, AutoIsForCandidates, Action, Never
<1> QED BY <1>5, <1>6 DEF IncidentsInv

LEMMA OpenKeeps ==
  ASSUME IncidentsInv, NEW f \in Names, OpenFails(f) \/ OpenCreates(f)
  PROVE  IncidentsInv'
<1>1. CASE UNCHANGED incidents
  BY <1>1, InsertInserts DEF OpenFails, OpenCreates, Takes, memVars, IncidentsInv, TypeOK,
    SightingOK, RoundOK, AutoIsForCandidates, Action, Insert
<1>2. CASE Insert(f)
  <2>1. /\ incidents' \in [Names -> [id : Nat, open : BOOLEAN, openedAt : Nat, advice : Advices,
                                     severity : {"none", "fixed", "warning", "critical"}]]
        /\ ~incidents[f].open /\ incidents'[f].open /\ incidents'[f].openedAt = now
        /\ \A g \in Names \ {f} : incidents'[g] = incidents[g]
    BY <1>2, InsertInserts DEF IncidentsInv
  <2>2. /\ UNCHANGED <<now, autoSeen, smtpHealthy, pc, raised, grave, allowed, queued, sighted, crashes>>
        /\ todo' \subseteq todo /\ opened = {} /\ (opened' = {} \/ opened' = {f}) /\ f \in todo
    BY DEF OpenFails, OpenCreates, Takes, memVars
  <2>3. autoSeen[f] = Never
    BY <2>1 DEF IncidentsInv, SightingOK
  <2>4. TypeOK'
    BY <2>1, <2>2 DEF IncidentsInv, TypeOK
  <2>5. SightingOK' /\ RoundOK' /\ AutoIsForCandidates'
    BY <2>1, <2>2, <2>3 DEF IncidentsInv, TypeOK, SightingOK, RoundOK, AutoIsForCandidates, Action
  <2> QED BY <2>4, <2>5 DEF IncidentsInv
<1> QED BY <1>1, <1>2 DEF OpenFails, OpenCreates

LEMMA EscalateKeeps == ASSUME IncidentsInv, NEW f \in Names, Escalate(f) PROVE IncidentsInv'
<1>1. /\ UNCHANGED <<now, autoSeen, pc, raised, grave, allowed, opened, queued, sighted, crashes>>
      /\ todo' \subseteq todo
      /\ smtpHealthy' \in BOOLEAN
  BY DEF Escalate, Takes, IncidentsInv, TypeOK
<1>2. /\ incidents' \in [Names -> [id : Nat, open : BOOLEAN, openedAt : Nat, advice : Advices,
                                   severity : {"none", "fixed", "warning", "critical"}]]
      /\ \A g \in Names : /\ incidents'[g].open = incidents[g].open
                          /\ incidents'[g].id = incidents[g].id
                          /\ incidents'[g].openedAt = incidents[g].openedAt
  BY DEF Escalate, Advices, IncidentsInv, TypeOK
<1>3. TypeOK'
  BY <1>1, <1>2 DEF IncidentsInv, TypeOK
<1>4. \A g \in Names : Action(g)' = Action(g)
  BY <1>2 DEF Action
<1>5. SightingOK' /\ RoundOK' /\ AutoIsForCandidates'
  BY <1>1, <1>2, <1>4 DEF IncidentsInv, TypeOK, SightingOK, RoundOK, AutoIsForCandidates
<1> QED BY <1>3, <1>5 DEF IncidentsInv

LEMMA AnnounceKeeps == ASSUME IncidentsInv, NEW f \in Names, Announce(f) PROVE IncidentsInv'
<1>1. /\ UNCHANGED <<now, pc, raised, grave, todo, allowed, crashes>>
      /\ f \in opened /\ opened' = {} /\ smtpHealthy' \in BOOLEAN
      /\ sighted' = sighted \cup {Action(f)}
  BY DEF Announce
<1>2. /\ incidents' \in [Names -> [id : Nat, open : BOOLEAN, openedAt : Nat, advice : Advices,
                                   severity : {"none", "fixed", "warning", "critical"}]]
      /\ \A g \in Names : /\ incidents'[g].open = incidents[g].open
                          /\ incidents'[g].id = incidents[g].id
                          /\ incidents'[g].openedAt = incidents[g].openedAt
  BY DEF Announce, IncidentsInv, TypeOK
<1>3. autoSeen[f] = Never /\ incidents[f].open
  BY <1>1 DEF IncidentsInv, SightingOK, RoundOK
<1>4. autoSeen' = [autoSeen EXCEPT ![f] = now] /\ queued' = queued
  BY <1>3 DEF Announce, MaybeEnqueueAuto
<1>5. TypeOK'
  BY <1>1, <1>2, <1>4 DEF IncidentsInv, TypeOK, Action
<1>6. SightingOK' /\ RoundOK' /\ AutoIsForCandidates'
  BY <1>1, <1>2, <1>3, <1>4 DEF IncidentsInv, TypeOK, SightingOK, RoundOK, AutoIsForCandidates, Action
<1> QED BY <1>5, <1>6 DEF IncidentsInv

LEMMA RecurKeeps == ASSUME IncidentsInv, NEW f \in Names, Recur(f) PROVE IncidentsInv'
<1>1. /\ UNCHANGED <<now, smtpHealthy, pc, raised, grave, opened, allowed, incidents, crashes>>
      /\ todo' \subseteq todo /\ opened = {} /\ incidents[f].open
      /\ sighted' = sighted \cup {Action(f)}
  BY DEF Recur, Takes
<1>2. /\ autoSeen' = autoSeen \/ (autoSeen' = [autoSeen EXCEPT ![f] = now] /\ f \in Candidates)
      /\ queued' = queued \/ (queued' = queued \cup {Action(f)} /\ f \in Candidates)
  BY DEF Recur, MaybeEnqueueAuto
<1>3. TypeOK'
  BY <1>1, <1>2 DEF IncidentsInv, TypeOK, Action
<1>4. SightingOK' /\ RoundOK' /\ AutoIsForCandidates'
  BY <1>1, <1>2 DEF IncidentsInv, TypeOK, SightingOK, RoundOK, AutoIsForCandidates, Action
<1> QED BY <1>3, <1>4 DEF IncidentsInv

LEMMA ResolveKeeps == ASSUME IncidentsInv, ResolveGone PROVE IncidentsInv'
<1>1. PICK gone \in SUBSET Gone, done \in SUBSET Gone :
        /\ done \subseteq gone
        /\ incidents' = [f \in Names |-> IF f \in done THEN Closed(f) ELSE incidents[f]]
        /\ autoSeen' = Forget(gone)
  BY DEF ResolveGone
<1>2. /\ UNCHANGED <<now, smtpHealthy, todo, opened, queued, sighted, crashes>>
      /\ todo = {} /\ opened = {} /\ pc' = "idle" /\ raised' = {} /\ grave' = {} /\ allowed' = FALSE
  BY DEF ResolveGone
<1>3. TypeOK'
  BY <1>1, <1>2 DEF IncidentsInv, TypeOK, Forget, Closed, NoIncident, Advices
<1>4. \A f \in Names : autoSeen'[f] # Never => autoSeen'[f] = autoSeen[f] /\ incidents'[f] = incidents[f]
  BY <1>1 DEF Forget
<1>5. \A f \in Names : incidents'[f].openedAt <= now
  BY <1>1 DEF IncidentsInv, TypeOK, RoundOK, Closed, NoIncident
<1>6. SightingOK' /\ RoundOK' /\ AutoIsForCandidates'
  BY <1>2, <1>4, <1>5 DEF IncidentsInv, SightingOK, RoundOK, AutoIsForCandidates, Action
<1> QED BY <1>3, <1>6 DEF IncidentsInv

LEMMA RestartKeeps == ASSUME IncidentsInv, Restart PROVE IncidentsInv'
<1>1. smtpHealthy' \in BOOLEAN /\ allowed' \in BOOLEAN
  BY Zenon DEF Restart
<1>2. autoSeen' \in [Names -> Nat \cup {Never}] /\ crashes' \in Nat
  BY DEF Restart, IncidentsInv, TypeOK
<1>3. TypeOK'
  BY <1>1, <1>2 DEF Restart, IncidentsInv, TypeOK
<1>4. SightingOK' /\ RoundOK' /\ AutoIsForCandidates'
  BY DEF Restart, IncidentsInv, SightingOK, RoundOK, AutoIsForCandidates
<1> QED BY <1>3, <1>4 DEF IncidentsInv

LEMMA IncidentsStep == ASSUME IncidentsInv, [Next]_vars PROVE IncidentsInv'
BY QuietKeeps, OpenKeeps, EscalateKeeps, AnnounceKeeps, RecurKeeps, ResolveKeeps, RestartKeeps
  DEF Next, Handle

\* The invariant the theorems below rest on.
THEOREM IncidentsInvariant == Spec => []IncidentsInv
BY IncidentsInit, IncidentsStep, PTL DEF Spec

\* Every variable of the incident handling keeps its type.
THEOREM TypeCorrect == Spec => []TypeOK
BY IncidentsInvariant, PTL DEF IncidentsInv

\* What one step may add to the queue.
LEMMA QueueStep ==
  ASSUME IncidentsInv, [Next]_vars
  PROVE  \A q \in queued' \ queued :
           LET i == incidents[q.name]
           IN  /\ q.name \in Candidates
               /\ i.open /\ i.id = q.id /\ now - i.openedAt >= Recheck /\ q \in sighted
<1>1. ASSUME NEW f \in Names, Recur(f), queued' # queued
      PROVE  /\ queued' = queued \cup {Action(f)} /\ incidents[f].open
             /\ autoSeen[f] # Never /\ now - autoSeen[f] >= Recheck
  BY <1>1 DEF Recur, MaybeEnqueueAuto, Safe
<1>2. ASSUME NEW f \in Names, Announce(f) PROVE queued' = queued
  BY <1>2 DEF Announce, MaybeEnqueueAuto, IncidentsInv, SightingOK
<1>3. (\E f \in Names : Recur(f)) \/ queued' = queued
  BY <1>2 DEF Next, Handle, Tick, Collect, OpenFails, OpenCreates, Escalate, ResolveGone, TestSMTP,
    Restart, vars
<1>4. ASSUME NEW f \in Names, Recur(f), queued' # queued
      PROVE  /\ queued' = queued \cup {Action(f)}
             /\ incidents[f].open /\ now - incidents[f].openedAt >= Recheck /\ Action(f) \in sighted
  BY <1>1, <1>4, IncidentsAssumption DEF IncidentsInv, SightingOK, TypeOK
<1>5. \A f \in Names : Action(f).name = f /\ Action(f).id = incidents[f].id
  BY DEF Action
<1>6. \A q \in queued' : q.name \in Candidates
  BY IncidentsStep DEF IncidentsInv, AutoIsForCandidates
<1> HIDE DEF Action
<1> QED BY <1>3, <1>4, <1>5, <1>6

\* A restart is queued for a candidate's open incident that is older than the recheck
\* time and that an earlier round of the running controller has handled.
THEOREM Rechecked == Spec => AutoIsRechecked
BY IncidentsInvariant, QueueStep, PTL DEF Spec, AutoIsRechecked
=============================================================================
