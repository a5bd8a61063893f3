------------------------------ MODULE Incidents ------------------------------
(***************************************************************************)
(* The second half of a collect round: the signals of the round become     *)
(* incidents in the database, new and graver ones are mailed and           *)
(* diagnosed, candidates that last are answered with an automatic restart, *)
(* incidents without a signal are resolved.  The first sighting of a       *)
(* candidate and the state of the mail path are kept in memory only.       *)
(* Every database statement may fail or lose its reply, and the controller *)
(* may die between any two steps.  What a round raises is any set of       *)
(* signals (Detection says which ones).                                    *)
(***************************************************************************)
EXTENDS Integers

CONSTANTS
  Candidates,   \* fingerprints an automatic restart may answer
  Others,       \* fingerprints with a fixed severity
  Growing,      \* fingerprints whose signal may become critical (reward-silence)
  Recheck,      \* time between the first sighting and the automatic restart (60s)
  MaxTime, MaxCrashes, MaxIncidents   \* bounds; MaxIncidents per fingerprint

Names == Candidates \cup Others \cup Growing

ASSUME IncidentsAssumption ==
  /\ Candidates \cap (Others \cup Growing) = {} /\ Others \cap Growing = {} /\ Names # {}
  /\ {Recheck, MaxTime, MaxCrashes, MaxIncidents} \subseteq Nat
  /\ Recheck > 0

VARIABLES
  now,
  autoSeen, smtpHealthy,        \* memory: first sightings, the last mail was sent
  pc, raised, grave, todo, opened, allowed,   \* the round and its locals
  incidents,                    \* the incidents table, its latest row per fingerprint
  queued,                       \* automatic rows of remediation_actions
  sighted,                      \* history: incidents this life of the controller has handled
  crashes

memVars == <<autoSeen, smtpHealthy>>
roundVars == <<pc, raised, grave, todo, opened, allowed>>
vars == <<now, memVars, roundVars, incidents, queued, sighted, crashes>>

Never == -1
Advices == {"none", "restart", "other"}
NoIncident == [id |-> 0, open |-> FALSE, severity |-> "none", advice |-> "none", openedAt |-> 0]

Init ==
  /\ now = 0
  /\ autoSeen = [f \in Names |-> Never] /\ smtpHealthy = FALSE
  /\ pc = "idle" /\ raised = {} /\ grave = {} /\ todo = {} /\ opened = {}
  /\ allowed = FALSE
  /\ incidents = [f \in Names |-> NoIncident]
  /\ queued = {}
  /\ sighted = {}
  /\ crashes = 0

----------------------------------------------------------------------------
(* A round begins.                                                         *)

\* Rounds are seconds apart; mails and diagnoses take long.
Tick ==
  /\ now < MaxTime /\ (pc = "idle" \/ opened # {})
  /\ now' = now + 1
  /\ UNCHANGED <<memVars, roundVars, incidents, queued, sighted, crashes>>

\* collect up to handleSignals; "allowed" stands for the part of "safe" that the
\* round has read: the switch, the stop file, the endpoints, the agent, the disk.
Collect ==
  /\ pc = "idle"
  /\ raised' \in SUBSET Names /\ grave' \in SUBSET (raised' \cap Growing)
  /\ allowed' \in BOOLEAN
  /\ todo' = raised' /\ pc' = "signals"
  /\ UNCHANGED <<now, memVars, opened, incidents, queued, sighted, crashes>>

----------------------------------------------------------------------------
(* handleSignals.                                                          *)

\* The condition "safe".
Safe(f, advice) ==
  /\ allowed /\ now - autoSeen[f] >= Recheck
  /\ advice = "restart" /\ smtpHealthy'

\* Mutant of Action: the key of the row is made of an incident without its id.
ActionWithoutId(f) == [name |-> f, id |-> Never]

Action(f) == [name |-> f, id |-> incidents[f].id]

\* maybeEnqueueAuto: the first sighting is noted; the INSERT may fail, and does
\* nothing for an incident that has its action.
MaybeEnqueueAuto(f, advice) ==
  IF autoSeen[f] = Never
  THEN autoSeen' = [autoSeen EXCEPT ![f] = now] /\ UNCHANGED queued
  ELSE /\ UNCHANGED autoSeen
       /\ \/ UNCHANGED queued
          \/ Safe(f, advice) /\ queued' = queued \cup {Action(f)}

Severity(f) == IF f \notin Growing THEN "fixed" ELSE IF f \in grave THEN "critical" ELSE "warning"

\* OpenIncident: a row is inserted unless the fingerprint has an open one.
Insert(f) ==
  /\ ~incidents[f].open /\ incidents[f].id < MaxIncidents
  /\ incidents' = [incidents EXCEPT ![f] =
       [id |-> @.id + 1, open |-> TRUE, severity |-> Severity(f), advice |-> "none",
        openedAt |-> now]]

Takes(f) ==
  /\ opened = {} /\ f \in todo
  /\ todo' = todo \ {f}
  /\ UNCHANGED <<now, pc, raised, grave, allowed, crashes>>

\* The statement failed, or its result was lost: the signal is passed over.
OpenFails(f) ==
  /\ Takes(f)
  /\ Insert(f) \/ UNCHANGED incidents
  /\ UNCHANGED <<memVars, opened, queued, sighted>>

OpenCreates(f) ==
  /\ Takes(f)
  /\ Insert(f)
  /\ opened' = {f}
  /\ UNCHANGED <<memVars, queued, sighted>>

\* The mail, the diagnosis (which may fail, and may not be stored), the note of
\* the first sighting and maybeEnqueueAuto, which is called for every signal.
Announce(f) ==
  /\ f \in opened /\ opened' = {}
  /\ smtpHealthy' \in BOOLEAN
  /\ \E advice \in Advices :
       /\ incidents' \in {incidents, [incidents EXCEPT ![f].advice = advice]}
       /\ IF f \in Candidates
          THEN autoSeen' = [autoSeen EXCEPT ![f] = now] /\ UNCHANGED queued
          ELSE MaybeEnqueueAuto(f, advice)
  /\ sighted' = sighted \cup {Action(f)}
  /\ UNCHANGED <<now, pc, raised, grave, todo, allowed, crashes>>

\* severityRank of the signal against that of the incident.
Escalates(f) == Severity(f) = "critical" /\ incidents[f].severity = "warning"

\* A graver signal than its incident: UPDATE, mail and a new diagnosis.
Escalate(f) ==
  /\ Takes(f)
  /\ incidents[f].open /\ Escalates(f)
  /\ \/ UNCHANGED <<incidents, smtpHealthy>>
     \/ /\ smtpHealthy' \in BOOLEAN
        /\ \E advice \in {incidents[f].advice, "restart", "other"} :
             incidents' = [incidents EXCEPT ![f].severity = "critical", ![f].advice = advice]
  /\ UNCHANGED <<autoSeen, opened, queued, sighted>>

\* A known incident: a candidate is rechecked with the diagnosis the incident has.
Recur(f) ==
  /\ Takes(f)
  /\ incidents[f].open /\ ~Escalates(f)
  /\ sighted' = sighted \cup {Action(f)}
  /\ UNCHANGED <<smtpHealthy, opened, incidents>>
  /\ IF f \in Candidates
     THEN \E advice \in {incidents[f].advice, "none"} : MaybeEnqueueAuto(f, advice)
     ELSE UNCHANGED <<autoSeen, queued>>

\* Mutant of Forget: an incident that is resolved keeps its first sighting.
ForgetNothing(gone) == autoSeen

Forget(gone) == [f \in Names |-> IF f \in gone THEN Never ELSE autoSeen[f]]

\* Nothing but its number is ever read of a resolved incident.
Closed(f) == [NoIncident EXCEPT !.id = incidents[f].id]

Gone == {f \in Names : incidents[f].open /\ f \notin raised}

\* Incidents without a signal are resolved, as far as the database lets (a
\* silence of rewards only while the chain is seen to go on); the first sighting
\* is dropped also when the UPDATE failed.
ResolveGone ==
  /\ pc = "signals" /\ todo = {} /\ opened = {}
  /\ \E gone \in SUBSET Gone, done \in SUBSET Gone :
       /\ done \subseteq gone
       /\ incidents' = [f \in Names |-> IF f \in done THEN Closed(f) ELSE incidents[f]]
       /\ autoSeen' = Forget(gone)
  /\ pc' = "idle" /\ raised' = {} /\ grave' = {} /\ allowed' = FALSE
  /\ UNCHANGED <<now, smtpHealthy, todo, opened, queued, sighted, crashes>>

----------------------------------------------------------------------------

\* The job "test_smtp" of the operator, run between rounds.
TestSMTP ==
  /\ pc = "idle"
  /\ smtpHealthy' \in BOOLEAN
  /\ UNCHANGED <<now, autoSeen, roundVars, incidents, queued, sighted, crashes>>

\* The controller dies and starts again with an empty memory.
Restart ==
  /\ crashes < MaxCrashes /\ crashes' = crashes + 1
  /\ autoSeen' = [f \in Names |-> Never] /\ smtpHealthy' = FALSE
  /\ pc' = "idle" /\ raised' = {} /\ grave' = {} /\ todo' = {} /\ opened' = {}
  /\ allowed' = FALSE
  /\ sighted' = {}
  /\ UNCHANGED <<now, incidents, queued>>

Handle(f) == OpenFails(f) \/ OpenCreates(f) \/ Announce(f) \/ Escalate(f) \/ Recur(f)

Next ==
  \/ Tick \/ Collect
  \/ \E f \in Names : Handle(f)
  \/ ResolveGone
  \/ TestSMTP \/ Restart

Spec == Init /\ [][Next]_vars

----------------------------------------------------------------------------
(* Properties.                                                             *)

TypeOK ==
  /\ now \in Nat
  /\ autoSeen \in [Names -> Nat \cup {Never}] /\ smtpHealthy \in BOOLEAN
  /\ pc \in {"idle", "signals"}
  /\ raised \subseteq Names /\ grave \subseteq raised /\ todo \subseteq raised
  /\ opened \subseteq raised /\ allowed \in BOOLEAN
  /\ incidents \in [Names -> [id : Nat, open : BOOLEAN, openedAt : Nat, advice : Advices,
                              severity : {"none", "fixed", "warning", "critical"}]]
  /\ queued \subseteq [name : Names, id : Nat]
  /\ sighted \subseteq [name : Names, id : Nat]
  /\ crashes \in Nat

\* A restart is queued for the open incident of a candidate only (maybeEnqueueAuto
\* is called for every new signal, and only the missing first sighting holds it
\* back), when that incident is older than the recheck time and an earlier round of
\* the running controller has handled it already; no first sighting outlives its
\* incident.
AutoIsRechecked ==
  [][\A q \in queued' \ queued :
       LET i == incidents[q.name]
       IN  /\ q.name \in Candidates
           /\ i.open /\ i.id = q.id /\ now - i.openedAt >= Recheck /\ q \in sighted]_vars
=============================================================================
