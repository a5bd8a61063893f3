------------------------------ MODULE Detection ------------------------------
(***************************************************************************)
(* The first half of a collect round: the heights of the external          *)
(* endpoints, the state the agent and the metrics report, and the signals  *)
(* the rule evaluator (Rules) makes of them over time.  Every read may     *)
(* fail, rounds may be any time apart, time passes between what a round    *)
(* reads and its evaluation, and a controller that dies starts with empty  *)
(* timers.  PublicStatus composes these steps with what becomes of the     *)
(* state that was read.                                                    *)
(***************************************************************************)
EXTENDS Rules, FiniteSets

CONSTANTS
  ExternalEvery,                   \* how often the endpoints are asked (one minute)
  Peers, Memory, Disks,            \* what the host may report
  MaxTime, MaxHeight, MaxFaults    \* bounds; a fault: a read that fails, or a restart

ASSUME DetectionAssumption ==
  /\ {ExternalEvery, MaxTime, MaxHeight, MaxFaults} \subseteq Nat
  /\ Peers \subseteq Nat
  /\ Memory \subseteq {"high", "normal"} /\ Disks \subseteq {"disk-critical", "disk-warning", "ok"}

VARIABLES
  now, faults,
  service, local, chain,               \* the node, and the height of the public chain
  external, externalOK, lastExternal,  \* what the endpoints answered last, and when
  reading,                             \* what the round under way has read, or NoReading
  evaluator,
  collected, raised,                   \* a round began in this tick; the signals of the last
  clearAt,                             \* history: last round that read a condition as absent
  movedAt, movedChain, heard,          \* history: the last progress of the node that was read,
  askedChain                           \* and the chain when the endpoints were asked before it

nodeVars == <<service, local, chain>>
memVars == <<external, externalOK, lastExternal, evaluator, raised>>
histVars == <<clearAt, movedAt, movedChain, heard, askedChain>>
detectionVars == <<now, faults, nodeVars, collected, reading, memVars, histVars>>

NoReading == [none |-> TRUE]

DetectionInit ==
  /\ now = 0 /\ faults = 0
  /\ service = "active" /\ local = 1 /\ chain = 1
  /\ external = [i \in Endpoints |-> 0] /\ externalOK = [i \in Endpoints |-> FALSE]
  /\ lastExternal = Never /\ evaluator = Fresh
  /\ collected = FALSE /\ reading = NoReading /\ raised = {}
  /\ clearAt = [c \in Timed |-> 0]
  /\ movedAt = 0 /\ movedChain = 0 /\ heard = FALSE /\ askedChain = 0

----------------------------------------------------------------------------
(* The environment.                                                        *)

\* Time passes, within a round or until the next; meanwhile the chain may grow and the
\* node catch up, stop or start.
Tick ==
  /\ now < MaxTime /\ now' = now + 1
  /\ chain' \in {chain, chain + 1} /\ chain' <= MaxHeight
  /\ local' \in IF service = "active" THEN {local, chain'} ELSE {local}
  /\ service' \in {"active", "inactive"}
  /\ collected' = FALSE
  /\ UNCHANGED <<faults, reading, memVars, histVars>>

----------------------------------------------------------------------------
(* One collect round.                                                      *)

\* Mutant of UpdateExternal: the height of a failed endpoint is overwritten.
UpdateExternalUnchecked ==
  /\ lastExternal' = now /\ askedChain' = chain
  /\ externalOK' \in [Endpoints -> BOOLEAN]
  /\ external' = [i \in Endpoints |-> IF externalOK'[i] THEN chain ELSE Never]

\* updateExternal: at most once a minute, and a failed endpoint keeps its height.
UpdateExternal ==
  IF lastExternal # Never /\ now - lastExternal < ExternalEvery
  THEN UNCHANGED <<external, externalOK, lastExternal, askedChain>>
  ELSE /\ lastExternal' = now /\ askedChain' = chain
       /\ externalOK' \in [Endpoints -> BOOLEAN]
       /\ external' = [i \in Endpoints |-> IF externalOK'[i] THEN chain ELSE external[i]]

\* What the answers of the agent and the metrics (or their absence) amount to.
Readings ==
  {[agentOK |-> agentOK, metricsOK |-> metricsOK,
    service |-> IF agentOK THEN service ELSE "unavailable",
    local |-> IF metricsOK THEN local ELSE 0,
    external |-> external',
    peers |-> IF metricsOK THEN peers ELSE 0,
    memory |-> IF agentOK THEN memory ELSE "normal",
    disk |-> IF agentOK THEN disk ELSE "ok"] :
      agentOK, metricsOK \in BOOLEAN, peers \in Peers, memory \in Memory, disk \in Disks}

\* The reads of a round that failed.
Failures ==
  Cardinality({i \in Endpoints : lastExternal' # lastExternal /\ ~externalOK'[i]})
  + Cardinality({r \in {"agentOK", "metricsOK"} : ~reading'[r]})

\* A round asks the endpoints, when they are due, the agent and the metrics.
Collect ==
  /\ ~collected /\ collected' = TRUE
  /\ UpdateExternal
  /\ reading' \in Readings
  /\ faults' = faults + Failures /\ faults' <= MaxFaults
  /\ UNCHANGED <<now, nodeVars, evaluator, raised, clearAt, movedAt, movedChain, heard>>

\* What a round makes of its reading s.
Evaluate(s) ==
  \E seen \in {Seen(s)} :
    /\ evaluator' = Evaluated(evaluator, now, s, seen)
    /\ raised' = Signals(evaluator', now, s)
    /\ clearAt' = [c \in Timed |-> IF c \in seen THEN clearAt[c] ELSE now]
    /\ IF Moved(evaluator, s)
       THEN /\ movedAt' = now /\ movedChain' = askedChain
            /\ heard' = \A i \in Endpoints : externalOK[i]
       ELSE UNCHANGED <<movedAt, movedChain, heard>>

\* The evaluator takes the time when it is called, after the reward scan.
Judge ==
  /\ reading # NoReading /\ reading' = NoReading
  /\ Evaluate(reading)
  /\ UNCHANGED <<now, faults, nodeVars, collected, external, externalOK, lastExternal, askedChain>>

\* The controller dies and starts again with an empty memory (and the history of the
\* node's progress begins anew, with the first round that reads it).
Restart ==
  /\ faults < MaxFaults /\ faults' = faults + 1
  /\ external' = [i \in Endpoints |-> 0] /\ externalOK' = [i \in Endpoints |-> FALSE]
  /\ lastExternal' = Never /\ evaluator' = Fresh
  /\ reading' = NoReading /\ raised' = {}
  /\ clearAt' = [c \in Timed |-> now]
  /\ movedAt' = 0 /\ movedChain' = 0 /\ heard' = FALSE /\ askedChain' = 0
  /\ UNCHANGED <<now, nodeVars, collected>>

----------------------------------------------------------------------------
(* Properties.                                                             *)

\* What a round may read.
States ==
  [agentOK : BOOLEAN, metricsOK : BOOLEAN, service : {"active", "inactive", "unavailable"},
   local : Nat, external : [Endpoints -> Nat], peers : Nat,
   memory : {"high", "normal"}, disk : {"disk-critical", "disk-warning", "ok"}]

DetectionTypeOK ==
  /\ {now, faults} \subseteq Nat /\ service \in {"active", "inactive"} /\ local \in Nat /\ chain \in Nat
  /\ external \in [Endpoints -> Nat] /\ externalOK \in [Endpoints -> BOOLEAN]
  /\ lastExternal \in Nat \cup {Never}
  /\ evaluator \in [finalized : Nat, progress : Nat \cup {Never}, stall : [Endpoints -> Nat],
                    since : [Timed -> Nat \cup {Never}]]
  /\ collected \in BOOLEAN /\ reading \in States \cup {NoReading} /\ raised \subseteq Fingerprints
  /\ clearAt \in [Timed -> Nat]
  /\ movedAt \in Nat /\ movedChain \in Nat /\ heard \in BOOLEAN /\ askedChain \in Nat

\* No timed signal is raised before its condition was read, in every round since
\* the controller started, for as long as the rule asks.
SignalsLast == [][\A c \in raised' \cap Timed : c \in raised \/ now - clearAt'[c] >= Hold[c]]_detectionVars

\* A stall is raised only when the public chain went on meanwhile, provided both
\* endpoints were heard when the node was last read to move.
StallIsLocal ==
  "block-stalled" \in raised /\ heard => now - movedAt >= StallAfter /\ chain - movedChain >= Ahead
=============================================================================
