-------------------------------- MODULE Rules --------------------------------
(***************************************************************************)
(* The rule evaluator of the controller.  It is a record of timers that    *)
(* every collect round updates from what the round has read, and a set of  *)
(* signals computed from the record.                                       *)
(***************************************************************************)
EXTENDS Integers, FiniteSetsExt

CONSTANTS
  Endpoints,    \* the external endpoints (two)
  Hold,         \* how long each timed condition must last, in ticks
  StallAfter,   \* how long the finalized block must stand still
  Ahead,        \* by how much both external heights must advance meanwhile (20)
  LagWarning,   \* blocks behind the external height (30)
  LagCritical   \* (120)

Timed == {"service-inactive", "sync-lag-critical", "sync-lag-warning", "peers-zero", "peers-low",
          "memory-high"}
Fingerprints == Timed \cup {"block-stalled", "disk-critical", "disk-warning"}

ASSUME RulesAssumption ==
  /\ IsFiniteSet(Endpoints) /\ Endpoints # {}
  /\ Hold \in [Timed -> Nat]
  /\ {StallAfter, Ahead, LagWarning, LagCritical} \subseteq Nat

Never == -1

\* What a round reads: a height or a number of peers that could not be read is 0.
Lag(s) ==
  LET height == Max({s.external[i] : i \in Endpoints})
  IN  IF s.local > 0 /\ height > 0 THEN Max({0, height - s.local}) ELSE 0

\* The conditions with a timer that hold in what was read.
Seen(s) ==
  {c \in Timed :
     \/ c = "service-inactive" /\ s.service # "active"
     \/ c = "sync-lag-critical" /\ Lag(s) > LagCritical
     \/ c = "sync-lag-warning" /\ Lag(s) > LagWarning
     \/ c = "peers-zero" /\ s.peers = 0 /\ s.service = "active"
     \/ c = "peers-low" /\ s.peers > 0 /\ s.peers < 3
     \/ c = "memory-high" /\ s.memory = "high"}

Fresh ==
  [finalized |-> 0, progress |-> Never, stall |-> [i \in Endpoints |-> 0],
   since |-> [c \in Timed |-> Never]]

Moved(e, s) == s.local > 0 /\ (s.local # e.finalized \/ e.progress = Never)

\* Mutant of Since: a condition that is gone keeps its timer.
SinceEver(e, now, seen, c) == IF c \in seen /\ e.since[c] = Never THEN now ELSE e.since[c]

Since(e, now, seen, c) ==
  IF c \notin seen THEN Never ELSE IF e.since[c] = Never THEN now ELSE e.since[c]

\* Mutant of Evaluated: the external heights are noted with the first height only.
EvaluatedFromFirst(e, now, s, seen) ==
  LET timers == [c \in Timed |-> Since(e, now, seen, c)]
  IN  IF Moved(e, s)
      THEN [finalized |-> s.local, progress |-> now, since |-> timers,
            stall |-> IF e.progress = Never THEN s.external ELSE e.stall]
      ELSE [e EXCEPT !.since = timers]

\* The evaluator after a round that has read s, in which the conditions "seen" hold.
Evaluated(e, now, s, seen) ==
  LET timers == [c \in Timed |-> Since(e, now, seen, c)]
  IN  IF Moved(e, s)
      THEN [finalized |-> s.local, progress |-> now, stall |-> s.external, since |-> timers]
      ELSE [e EXCEPT !.since = timers]

Stalled(e, now, s) ==
  /\ e.progress # Never /\ now - e.progress >= StallAfter
  /\ \A i \in Endpoints : s.external[i] - e.stall[i] >= Ahead

\* The signals of the evaluator e, which has been updated from s.
Signals(e, now, s) ==
  {c \in Timed : e.since[c] # Never /\ now - e.since[c] >= Hold[c]}
  \cup {f \in {"block-stalled"} : Stalled(e, now, s)}
  \cup {f \in {"disk-critical", "disk-warning"} : f = s.disk}
=============================================================================
