--------------------------- MODULE RewardEvidence ---------------------------
(***************************************************************************)
(* What the reward monitor concludes from its sources: the snapshots of    *)
(* the local node and of the external endpoints, the retry times of the    *)
(* endpoints, the confirmation of an anomalous block, the overview kept in *)
(* the database between rounds, and the signal of the round.  The blocks   *)
(* and the cursor of the history are the matter of RewardHistory; here a   *)
(* scan has an outcome.                                                    *)
(***************************************************************************)
EXTENDS Integers, Sequences, SequencesExt, FiniteSets

CONSTANTS
  Externals,                     \* the configured public endpoints
  Minute,                        \* lifetime of a snapshot and first retry time
  RetryMax,                      \* longest retry time of an endpoint (15 minutes)
  ScanEvery, ScanRetries,        \* time between scans; possible times after a failed one
  ScanMax,                       \* longest time to the next scan (5 minutes)
  WarnAfter,                     \* age of the last reward that raises reward-silence
  Page,                          \* how many recent rows are looked at (5)
  MaxTime, MaxFails, MaxRestarts, MaxFlips   \* bounds

ASSUME EvidenceAssumption ==
  /\ {Minute, RetryMax, ScanEvery, ScanMax, WarnAfter, Page} \subseteq Nat \ {0}
  /\ {MaxTime, MaxFails, MaxRestarts, MaxFlips} \subseteq Nat
  /\ ScanEvery <= ScanMax /\ ScanRetries \subseteq 1 .. ScanMax

Never == -1
\* What a source says of the active set; "unknown" is an unsupported runtime.
Views == {"in", "out", "unknown"}
Verdicts == {"settled", "matched"}   \* of a reward row: "matched" is short on two sources' word
Alarms == {"none", "reward-monitor-degraded", "reward-active-set-missing",
           "reward-credit-mismatch", "reward-silence"}

VARIABLES
  now,
  active, authored, flips,       \* the chain: membership, last block of the collator
  overview, rows,                \* reward_monitor_state and the newest reward_events
  snap, at, ok, fails, retry,    \* rewardExternalState, -OK, -Fails, -Retry
  scanNext,                      \* rewardScanNext
  raised,                        \* the signal of the last round
  heardAt,                       \* history: when each endpoint last answered
  forgotten,                     \* history: the overview of the last round that tried was lost
  restarts

chainVars == <<active, authored, flips>>
memVars == <<snap, at, ok, fails, retry, scanNext>>
evidenceVars == <<now, chainVars, overview, rows, memVars, raised, heardAt, forgotten, restarts>>

\* The overview before there is a row.  since is the time of the last reward, or of
\* the first round; begun is when the cursor was set and the history begins.
First == [active |-> FALSE, schema |-> FALSE, confirmations |-> 0, gap |-> FALSE,
          begun |-> Never, since |-> Never]

EvidenceInit ==
  /\ now = 0 /\ active \in BOOLEAN /\ authored = 0 /\ flips = 0
  /\ overview = First /\ rows = <<>>
  /\ snap = [i \in Externals |-> "unknown"] /\ at = [i \in Externals |-> Never]
  /\ ok = [i \in Externals |-> FALSE] /\ fails = [i \in Externals |-> 0]
  /\ retry = [i \in Externals |-> Never] /\ scanNext = Never
  /\ raised = "none"
  /\ heardAt = [i \in Externals |-> Never] /\ forgotten = FALSE
  /\ restarts = 0

AtLeast(a, b) == IF a > b THEN a ELSE b
AtMost(a, b) == IF a < b THEN a ELSE b

----------------------------------------------------------------------------
(* The environment.                                                        *)

Tick ==
  /\ now < MaxTime /\ now' = now + 1
  /\ raised' = "none"
  /\ UNCHANGED <<chainVars, overview, rows, memVars, heardAt, forgotten, restarts>>

\* The collator finalizes a block and is paid for it, fully or not.
Author ==
  /\ active /\ authored # now /\ authored' = now
  /\ UNCHANGED <<now, active, flips, overview, rows, memVars, raised, heardAt, forgotten, restarts>>

\* A session ends and the collator leaves or joins the active set.
Rotate ==
  /\ flips < MaxFlips /\ flips' = flips + 1
  /\ active' = ~active
  /\ UNCHANGED <<now, authored, overview, rows, memVars, raised, heardAt, forgotten, restarts>>

----------------------------------------------------------------------------
(* The external endpoints.                                                 *)

\* rewardRetryBackoff: 1, 2, 4, 8 and then 15 minutes.
Backoff(n) == AtMost(Minute * 2 ^ AtMost(AtLeast(n, 1) - 1, 4), RetryMax)

Ready(r, i, t) == r[i] = Never \/ t >= r[i]

\* The endpoints collectRewards asks for a snapshot in this round.
Asked == {i \in Externals : Ready(retry, i, now) /\ ~(ok[i] /\ now - at[i] < Minute)}

\* Mutant of Recorded: a failure leaves the last answer standing.
RecordedKindly(m, asked, good, t) ==
  [ok |-> [i \in Externals |-> m.ok[i] \/ i \in good],
   fails |-> [i \in Externals |-> IF i \in good THEN 0 ELSE m.fails[i]],
   retry |-> [i \in Externals |-> IF i \in asked THEN t + Minute ELSE m.retry[i]]]

\* recordRewardExternalSuccess and -Failure, as functions of the three arrays.
Recorded(m, asked, good, t) ==
  LET failed == [i \in Externals |-> AtMost(m.fails[i] + 1, MaxFails)]
  IN [ok |-> [i \in Externals |-> IF i \in asked THEN i \in good ELSE m.ok[i]],
      fails |-> [i \in Externals |-> IF i \notin asked THEN m.fails[i]
                                     ELSE IF i \in good THEN 0 ELSE failed[i]],
      retry |-> [i \in Externals |-> IF i \notin asked THEN m.retry[i]
                                     ELSE t + IF i \in good THEN Minute ELSE Backoff(failed[i])]]

----------------------------------------------------------------------------

(* One round of collectRewards.  It takes a tick: snapshots and the answers *)
(* about an anomaly arrive after the time the round goes by.                *)

Truth == IF active THEN "in" ELSE "out"

\* The overview a round starts from, and what the local snapshot makes of it.
Observed(local) ==
  LET x == IF overview.since = Never THEN [First EXCEPT !.since = now] ELSE overview
  IN IF local = "down" THEN [x EXCEPT !.gap = TRUE]
     ELSE [x EXCEPT !.schema = local # "unknown", !.active = active]

\* The quorum: the local node, and every usable endpoint that says the same.
Quorum(x, local, m, s) ==
  Cardinality({i \in Externals : m.ok[i] /\ s[i] = IF x.active THEN "in" ELSE "out"})
    + IF local = Truth THEN 1 ELSE 0

\* InactiveConfirmations, of which only "two or more" matters.
Confirmed(x, quorum) ==
  [x EXCEPT !.confirmations = IF quorum >= 2 /\ ~x.active THEN AtMost(@ + 1, 2) ELSE 0]

Unscanned(x) == authored > x.since /\ authored > x.begun

\* What the history part may come to: "begin" sets the cursor, "idle" has nothing
\* beyond it and "rewound" a head behind it, "early" is a scan not due, "partly" one
\* that does not reach the head, "done" one that does.  A node restored from a copy may
\* be right at the cursor that a failed scan has left behind, and "idle" forgets the gap.
Outcomes(x, local) ==
  IF local = "down" THEN {"none"}
  ELSE IF x.begun = Never THEN {"begin"}
  ELSE {"rewound"} \cup (IF Unscanned(x) THEN {} ELSE {"idle"})
       \cup IF scanNext # Never /\ now < scanNext THEN {"early"} ELSE {"failed", "partly", "done"}

\* Whether the scan comes across the collator's last block.
Found(x, scan) ==
  IF ~Unscanned(x) THEN {FALSE}
  ELSE IF scan = "done" THEN {TRUE}
  ELSE IF scan \in {"partly", "failed"} THEN BOOLEAN
  ELSE {FALSE}

\* Mutant of GapAfter: a scan that is not due leaves nothing to complain of.
GapAfterCalm(x, scan) == \/ scan \in {"failed", "partly", "rewound"}
                         \/ scan = "none" /\ x.gap

\* Gap is kept while nothing was tried.
GapAfter(x, scan) == \/ scan \in {"failed", "partly", "rewound"}
                     \/ scan \in {"none", "early"} /\ x.gap

Advanced(x, scan, found) ==
  [x EXCEPT !.gap = GapAfter(x, scan),
            !.begun = IF scan = "begin" THEN now ELSE @,
            !.since = IF found /\ scan # "failed" THEN authored ELSE @]

\* Mutant of Latest: all rows are read.
LatestOfAll(row) == <<row>> \o rows

\* RewardPage: the newest rows, of which there is one more.
Latest(row) == SubSeq(<<row>> \o rows, 1, AtMost(Len(rows) + 1, Page))

\* rewardSignals.  calm says that the service and the chain are found in order and
\* that both endpoints have seen the chain advance lately.
Signal(x, quorum, page, calm) ==
  IF ~x.schema \/ x.gap \/ quorum < 2 THEN "reward-monitor-degraded"
  ELSE IF ~x.active /\ x.confirmations >= 2 THEN "reward-active-set-missing"
  ELSE IF Contains(page, "matched") THEN "reward-credit-mismatch"
  ELSE IF calm /\ x.active /\ now - x.since >= WarnAfter THEN "reward-silence"
  ELSE "none"

\* scanLocalRewardHistory's confirmRewardAnomaly for a short block: the endpoints
\* that are ready are asked, and agree or differ or fail.  m is the memory before.
Consulted(m, short) == IF short THEN {i \in Externals : Ready(m.retry, i, now + 1)} ELSE {}

\* The rest of the round, from the scan on (one that gets anywhere stores the overview
\* itself): x, m and the quorum are the overview, the memory of the endpoints and
\* the quorum so far, and good the endpoints heard.
Scan(x, m, good, quorum, scan, found, short) ==
  \E consulted \in {Consulted(m, short)}, y \in {Advanced(x, scan, found)} :
  \E reply \in [consulted -> {"agrees", "differs", "down"}] :
  \E better \in {{i \in consulted : reply[i] # "down"}} :
  \E later \in {Recorded(m, consulted, better, now + 1)} :
    LET agreed == {i \in consulted : reply[i] = "agrees"}
        row == IF agreed # {} THEN "matched" ELSE "settled"
        page == IF found /\ scan # "failed" THEN Latest(row) ELSE rows
    IN /\ ok' = later.ok /\ fails' = later.fails /\ retry' = later.retry
       /\ rows' = page
       /\ heardAt' = [i \in Externals |-> IF i \in good \cup better THEN now + 1 ELSE heardAt[i]]
       /\ raised' \in {Signal(y, quorum, page, calm) : calm \in BOOLEAN}
       /\ \E saved \in IF scan \in {"partly", "done"} THEN {TRUE} ELSE BOOLEAN :
         /\ overview' = IF saved THEN y ELSE overview
         /\ forgotten' = IF scan \in {"none", "rewound", "idle", "early"} THEN forgotten ELSE ~saved
       /\ IF scan = "failed" THEN \E d \in ScanRetries : scanNext' = now + d
          ELSE scanNext' = IF scan \in {"partly", "done"} THEN now + ScanEvery ELSE scanNext

\* The local node and the endpoints asked answer alike or not at all: the runtime, which
\* the monitor may not support, is the chain's.
Round ==
  /\ now < MaxTime /\ now' = now + 1
  /\ \E view \in {Truth, "unknown"} : \E local \in {view, "down"}, good \in SUBSET Asked :
     \E m \in {Recorded([ok |-> ok, fails |-> fails, retry |-> retry], Asked, good, now)},
        s \in {[i \in Externals |-> IF i \in good THEN view ELSE snap[i]]} :
     \E quorum \in {Quorum(Observed(local), local, m, s)} :
     \E x \in {Confirmed(Observed(local), quorum)} :
       /\ snap' = s
       /\ at' = [i \in Externals |-> IF i \in good THEN now + 1 ELSE at[i]]
       /\ \E scan \in Outcomes(x, local) : \E found \in Found(x, scan), short \in BOOLEAN :
            /\ short => found
            /\ Scan(x, m, good, quorum, scan, found, short)
  /\ UNCHANGED <<chainVars, restarts>>

\* The overview cannot be loaded: the round ends there.
RoundUnloaded ==
  /\ now < MaxTime /\ now' = now + 1
  /\ raised' = "reward-monitor-degraded"
  /\ UNCHANGED <<chainVars, overview, rows, memVars, heardAt, forgotten, restarts>>

\* The controller dies between rounds and starts again with an empty memory.
Restart ==
  /\ restarts < MaxRestarts /\ restarts' = restarts + 1
  /\ snap' = [i \in Externals |-> "unknown"] /\ at' = [i \in Externals |-> Never]
  /\ ok' = [i \in Externals |-> FALSE] /\ fails' = [i \in Externals |-> 0]
  /\ retry' = [i \in Externals |-> Never] /\ scanNext' = Never /\ raised' = "none"
  /\ forgotten' = FALSE
  /\ UNCHANGED <<now, chainVars, overview, rows, heardAt>>

EvidenceNext == Tick \/ Author \/ Rotate \/ Round \/ RoundUnloaded \/ Restart

EvidenceSpec == EvidenceInit /\ [][EvidenceNext]_evidenceVars

----------------------------------------------------------------------------
(* Properties.                                                             *)

EvidenceTypeOK ==
  /\ now \in Nat /\ active \in BOOLEAN /\ authored \in Nat /\ flips \in Nat
  /\ overview \in [active : BOOLEAN, schema : BOOLEAN, confirmations : 0 .. 2, gap : BOOLEAN,
                   begun : Nat \cup {Never}, since : Nat \cup {Never}]
  /\ rows \in Seq(Verdicts) /\ Len(rows) <= Page
  /\ snap \in [Externals -> Views] /\ at \in [Externals -> Nat \cup {Never}]
  /\ ok \in [Externals -> BOOLEAN] /\ fails \in [Externals -> 0 .. MaxFails]
  /\ retry \in [Externals -> Nat \cup {Never}] /\ scanNext \in Nat \cup {Never}
  /\ raised \in Alarms
  /\ heardAt \in [Externals -> Nat \cup {Never}] /\ forgotten \in BOOLEAN
  /\ restarts \in Nat

\* The collator is reported missing from the active set only when an endpoint that
\* said so was heard within the last minute: an endpoint that failed since, or that an
\* earlier controller asked, no longer counts.
MissingIsConfirmed ==
  raised = "reward-active-set-missing" =>
    \E i \in Externals : snap[i] = "out" /\ heardAt[i] # Never /\ now - heardAt[i] <= Minute

\* Silence is reported only of a collator without a block for the time of the warning,
\* leaving out blocks older than the history and those of the time in which the next
\* scan may not be due, ScanMax: neither failed scans, however many, nor an unreachable
\* node are taken for missing rewards.  The exception is a controller that could not save
\* the overview of the last scan it tried, with the gap that scan left.
NoFalseSilence ==
  raised = "reward-silence" =>
    \/ forgotten
    \/ authored <= overview.begun
    \/ now - 1 - authored >= WarnAfter
    \/ now - 1 - authored <= ScanMax
==============================================================================
