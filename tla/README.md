# Verification of Shiden Guardian

Shiden Guardian watches one collator node of the Shiden network, keeps a
durable history of its block rewards, opens incidents, and may restart the node
automatically within strict limits. This directory models the parts of it that
decide something over time (TLA+), checks them on small instances (TLC) and
proves the central promises for every value of the parameters (TLAPS).

Paths below are those of the repository. `PROJECT.json` lists the components,
the runs, a mutant for every checked property, the lines each definition models,
the findings, the hazards and the theorems.

## 1. Inventory

| Component | State it keeps | Operations | Talks to |
|---|---|---|---|
| Controller: reward history (`cmd/controller/main.go` collectRewards, scanLocalRewardHistory, acknowledgePrunedRewardGap; `internal/store/store.go`) | `reward_monitor_state` (cursor and overview), `reward_events`, gap rows of `audit_events`; in memory the retry time of the scan | scan a chunk, commit it with the cursor, save the overview, approve a pruned gap (web or command line) | node RPC through the agent, PostgreSQL |
| Controller: reward evidence (same files) | last snapshot, failures and retry time per external endpoint; confirmations in the overview | snapshots, quorum, confirmation of anomalies, status, signals | public RPC endpoints, PostgreSQL |
| Controller: detection (`collect`, `updateExternal`; `internal/rules/rules.go`) | heights of two endpoints, the evaluator's timers | one round every 15 s | agent, endpoints |
| Controller: incidents and automatic remediation (handleSignals, maybeEnqueueAuto) | `incidents`, `diagnoses`, `autoSeen` and `smtpHealthy` in memory | open, escalate, resolve, mail, diagnose, queue a restart | PostgreSQL, SMTP, Gemini |
| Controller: action queue (manualAction, processPendingAction, main) | `remediation_actions`, `settings.automation_enabled` | insert, claim, execute, verify, record, requeue at start | agent, action broker, PostgreSQL |
| Host agent: guarded restart (`cmd/agent/main.go`) | `guard.json`, the mutex of the handler | refuse, replay, record, restart, verify, record | systemd, node metrics |
| Host agent: observation | none | snapshots, metrics, logs, reward scans | node RPC, journald |
| Job queue (`cmd/api`, processJobs) | `jobs` | insert, claim, run, close, requeue at start | PostgreSQL |
| Auth broker (`cmd/authbroker/main.go`, `internal/auth`) | `users`, `sessions`, `recovery_codes`, audit rows | bootstrap, login, step-up, settings | PostgreSQL, controller |
| Action broker protocol (`internal/actionbroker`, manualAction) | nonces of the last two minutes | sign, verify once, insert under an idempotency key | auth broker to controller |
| Login limiter (`internal/authlimit`) | a table of token buckets with an LRU order | admit or refuse | none |
| Public status (`cmd/api/public_status.go`) | a cached answer | serve, refresh | PostgreSQL |
| Read API, web interface | none | authenticated reads | PostgreSQL |
| Migration (`cmd/dbmigrate`) | schema, roles and their passwords | one locked transaction; the change of the administrator's password | PostgreSQL |
| Release scripts (`scripts/activate-*.sh`, `migrate-release-config.sh`, `copy-runtime-config.sh`) | the current symlink, the secrets of each release, image tags, containers | configure a release, activate it in full or the controller alone, roll back | docker, dbmigrate |

How they interact: the browser talks to the API and the auth broker; the auth
broker signs requests to the controller's action endpoint, which inserts a row
into `remediation_actions`. The collect loop of the controller runs every 15
seconds: it reads the agent, the node's metrics and the endpoints, advances the
reward history, evaluates the rules, turns signals into incidents and, for two
kinds of incident, inserts an automatic restart. A processor (one at a time)
claims the oldest pending row and asks the host agent to restart the node; the
agent applies its own limits from `guard.json` and verifies the recovery. All
processes of the stack share PostgreSQL; the agent's file is its only memory.

What is hard here: statements of several processes interleave on the same rows
(a round holds an overview for seconds and writes it back whole); a commit may
succeed and its reply be lost; the controller and the agent may die between any
two steps and find half-done work; database errors are often ignored (`_ =`);
facts are kept partly in memory and partly in the database and outlive each
other; retry times, timers and caches make old answers count later; limits are
compared with exact instants; the wall clock may be set back under signatures and
nonces; an activation changes passwords that two releases share, and may be lost
between any two of its commands.

What makes each component correct, in a sentence:

- *Reward history*: no authored block is skipped without an event or an
  approved gap, and the monitor never gets stuck silently.
- *Reward evidence*: alarms rest on answers that are current, and missing data
  is never taken for a missing reward.
- *Detection*: a signal is raised only when its condition has really lasted.
- *Incidents*: only the two candidate signals are answered with a restart, and
  only after a recheck of the same incident by the same controller.
- *Action queue*: an action runs once at a time, ends, is not reported better
  than it went, and a failure stops the automation.
- *Host agent*: one restart per action, a cooldown, a daily limit, and none after
  a restart whose recovery was not seen, whatever dies in between.
- *Jobs*: each is run and closed. *Accounts*: one administrator, a recovery code
  works once. *Broker*: a signed request is accepted once, and its answer names the
  row that asks what it asks. *Limiter*: no more admissions than the buckets hold,
  bounded memory. *Public status*: nothing older than its promise. *Release*: the
  database's passwords stay on the disk of a release that can be found, a rollback
  serves again, and activating the controller alone leaves the rest alone.

## 2. Modules

| Module | Models | State and actions |
|---|---|---|
| `RewardLedger` | abstract: what readers rely on | origin, frontier, cursor, events, gaps; `Extend`, `Excuse`, `Revisit` |
| `RewardHistory` | collectRewards, scanLocalRewardHistory, ApplyRewardScan, SaveRewardOverview, acknowledgePrunedRewardGap, AcknowledgePrunedRewardGap | one action per RPC and per SQL statement, per controller and per approver; implements `RewardLedger` |
| `RewardEvidence` | the rest of collectRewards: snapshots, retry times, quorum, anomalies, signals | `Round` is a whole round in which a scan has an outcome; a restart forgets the endpoints |
| `Rules` | `Evaluate` of the rule evaluator | pure operators: `Evaluated` is the evaluator's next state, `Signals` its answer |
| `Detection` | collect up to the signals, updateExternal | `Collect` makes the readings of a round (each may fail); `Judge` applies `Rules` to them, possibly later |
| `PublicStatus` | the rest of the way of a reading: SaveOverview at the end of the round, LoadOverview, publicStatusFromOverview and the cache of the api | EXTENDS `Detection`; the overview of a round under way, the saved one, and the cache; `Round` begins to read, `Stamp` takes the time once everything is read, `RoundJudges`, `Save`; `Ask`, the deaths of either process |
| `Incidents` | handleSignals, OpenIncident, diagnosis, autoSeen, maybeEnqueueAuto, the mail test | a round is a set of signals, handled one statement at a time in any order |
| `ActionQueue` | manualAction's and maybeEnqueueAuto's INSERT, processPendingAction, verifyRecovery, the requeue in main, the switch | rows by idempotency key; one processor; uses the agent as `RestartService`. Every statement may fail or be lost with or without effect, the requeue at the start included, and all of them are when the 14 minutes are over |
| `Handover` | Client.Submit, Verifier.Verify and remember, manualAction, and the auth broker's restart and acknowledgeRewardGap around them | the signed requests and what the operator was told of each, the nonces, the handlers under way, the rows by idempotency key, a monotonic and a wall clock |
| `Jobs` | the api's enqueueTest and diagnose, processJobs, the requeue of jobs in main, which may fail | `jobs`, the order of their creation, the job being executed |
| `Requests` | both, in one controller: its death takes nonces, handlers and job, its start puts jobs back | `Restart`, `Process`, `AskForJob` and the steps of `Handover` |
| `Release` | activate-release.sh, activate-controller-release.sh, migrate-release-config.sh, copy-runtime-config.sh, the passwords of dbmigrate | secrets, link, image tags, containers and their secrets, the open row of the queue; one action per command that changes something, plus `Fail`, `Cleanup`, `RestoreImage`, `Back`, `Relink` (the traps, whose commands may fail in turn) and `Kill` |
| `RestartService` | abstract: the agent as the queue sees it | per action none, running, succeeded or failed; `Accept`, `Finish`, `Cut`, `Replay`, `Refuse` |
| `RestartGuard` | the restart handler of the agent with loadGuard, saveGuard, finalizedBlock, waitBlockProgress, waitActive | `guard.json` (`disk`), the versions of it that are not yet synced, the handler's locals, a clock; one action per file write, wrapper run and verification. A read that fails gives an empty guard (`AdmitUnread`), a write may fail (`Save`), the host may lose the last versions or tear the file (`HostLoss`); implements `RestartService` until then |
| `AuthLimit` | the limiter: NewWithClock, refill, the tables with their LRU order, Allow, Fail, Success, cleanup | pure operators from a limiter to its answer and the limiter it leaves; a table is the sequence of its entries in LRU order, and `Remaining(table, K)` is what is left of it when only the places in `K` stay |
| `Accounts` | the auth broker: bootstrapStart, bootstrapConfirm, login, requireAuth, logout, step-up, maintenance, with the limiter in front | the tables `users` and `sessions`, the limiter, and per request its place and its locals; one action per database statement or transaction, and per hash |
| `*Proofs` | | theorems and their lemmas, one module per component; `RewardProofs` is of the whole reward monitor: `RewardHistory`, `RewardLedger` as its INSTANCE `Ledger`, and `RewardEvidence`, whose Init, Next, Spec and TypeOK have names of their own so that one module can extend both; `PublicStatusProofs` holds those about `Detection`, and `AccountsProofs` those about `AuthLimit` |
| `MC*` | | the small instances: constants, symmetry |

Composition: `ActionQueue` INSTANCEs `RestartService`, `RestartGuard` is shown to
implement it, so what is proved of the queue holds with the real handler behind
it. `Detection` and `Incidents` split a collect round at the call of
handleSignals: `Incidents` accepts any set of signals and any verdict "allowed",
`Detection` says which ones a round can produce. `RewardEvidence` and
`RewardHistory` split collectRewards at the scan: the first knows of a scan only
its outcome, the second only its blocks. `Incidents` ends with a queued row and
`ActionQueue` begins with one. `Accounts` EXTENDS `AuthLimit` and keeps a limiter
in `lim`; what a proven action does next is in `Handover`, which ends with the row
`ActionQueue` begins with. `PublicStatus` EXTENDS `Detection` and shares its
rounds; `Requests` EXTENDS `Handover` and `Jobs` and shares the controller between
them. `Release` keeps of the queue the one row it asks about and of the services
whether they can log in; its one-shot container that rebases the cursor is a `Clis`
of `RewardHistory`.

## 3. Runs

All bounds are constants named in the modules and set in the `.cfg`.

| Run | Question | Bounds, and why they suffice |
|---|---|---|
| `reward_history` | Is any authored block passed over in silence? Does the history implement the ledger? | one controller, a web and a command-line approval, chunks of 1 to 2 blocks, a crash, a node restore, lost commit replies: two writers and a stale overview are enough for each race, since every statement concerns one row |
| `reward_history_procedure` | With the documented procedure: is the cursor monotone, is the approved gap kept, does the monitor catch up or ask? | the command runs only while the controller is down, no lost replies; outages end (`Settle`) |
| `restart_guard` | The limits of the agent and honest answers, with a `guard.json` that cannot be read or written or is lost with the host, and unread metrics; does the handler implement `RestartService` until then? | three actions and three restarts (limit 2 plus the refused one), cooldown 1, day 3, clock to 3: a third restart after two recorded ones is possible only across a day boundary, which fits. One fault: it hits any read, the write of the attempt, the repair or the outcome, or the versions of the current tick; that several faults break no more is proved |
| `action_queue` | Rows, switch and agent; does every action end? | a manual restart, an automatic one and an acknowledgement; two troubles (deaths, lost statements or replies, a failed requeue, ended contexts, changes of the switch), boots early and late, fair: two are enough for a trouble that hits the repair of another |
| `action_queue_replay` | *violated*: does a failed restart always stop the automation? | one death |
| `public_status` | Do signals last as long as the rule asks; is a stall local; is anything old told to the public? | rounds and requests at four instants, heights to 2, deaths of the controller and the api at any step, as many as there are; two failed reads or deaths in the detection; holds of 2 ticks so that a timer can start, run and be interrupted; a round reads for up to a tick before its stamp, a state counts for one and is cached for one, so that each can be over |
| `incidents` | Who is answered with a restart, and after what? | a candidate and a signal that escalates, two incidents of each, a restart of the controller; two incidents are needed for a first sighting to outlive its own |
| `reward_evidence` | Do alarms rest on current answers; is silence real? | an endpoint, a minute of 2 ticks, five ticks, a session change and a restart, a wait for the next scan of up to 2 ticks and a warning after 4: long enough for a snapshot to expire, an endpoint to fail twice, and a scan to fail and wait again before the warning time. The memories of the endpoints do not touch each other, and the local node needs one of them for a quorum |
| `accounts` | Recovery codes, administrators, secrets and admissions under concurrent requests | four requests of any kind (two logins that race for a code opened by a third, or a bootstrap of two requests and two others), two names, one address, a code, buckets of 1 and 2 tokens that refill within the run, room for one account, a restart of the broker: the table of accounts evicts, both tables expire entries. That one address does not pay for another, and the eviction of addresses (the same operator on the other table), are left to `AttemptsBounded` and `TypeCorrect` |
| `requests` | Is a signed request let through once; does the answer name the right row; is a job forgotten? | two requests that want the same key, for the same or for another thing, each presented twice at most; a memory of one nonce, so that it evicts; a wall clock that goes back a tick, a window of 1 and a lifetime of 2, the tightest the assumption allows, on four instants, the last of which is the first at which a nonce has expired; failures, lost statements, failed requeues and restarts at any step, as many as there are; a job |
| `release` | Where are the passwords; what does a rollback leave? | three releases, so that one that was given up may lie between two activations; both scripts any number of times, a failure, a signal or a loss of the script at every step, the commands of a rollback included. No bound is needed: the state space is finite |
| `release_refusal` | *violated*: does a refused activation leave the running action alone? | same |

Fairness appears in two runs. In `RewardHistory`, every RPC and statement
returns or hits its deadline (weak fairness of a round's steps), the loop ticks
every 15 s and scans back off at most five minutes (strong fairness of a scan
that keeps being possible), compose restarts a dead controller, and outages end;
without the last one no claim of progress is true. In `ActionQueue`, the
processor is started every 15 s and each of its steps has a deadline (14 minutes
for the whole), the agent's handler ends in 12, the container is restarted, time
passes. Both are the timeouts and tickers in the code. `ActionsEnd` excepts
the rows in `left`: a controller that is back within fifteen minutes of a claim, whose
last write was lost, or whose requeue failed at its start, leaves the row running
until a later start, which the model does not make come.

`CHECK_DEADLOCK FALSE` is set where a bounded clock or a bounded set of actions,
requests or releases lets the model stop; the program itself does not.

### What the violated runs show

Each disagrees with a sentence of the repository, quoted in `PROJECT.json`.

- `action_queue_replay`: a restart that fails at the agent while the controller is
  down is put back, answered from `guard.json` with HTTP 200 and recorded as
  succeeded; the automation stays on (the agent itself refuses further restarts).
  `OnlyReplaysMislead` says that this is the only way: with `FailedRowStops` the promise
  holds of every row that no start put back, unless the write of the switch was lost.
- `release_refusal`: activate-release.sh builds the images, which moves tags that all
  releases share, before it looks at the queue. When it then refuses because an
  action is running, its trap runs `docker compose up` in the old directory with the
  new images, which replaces the controller and cuts the action off. The other script
  tags the old image back first; this one does not.

Met while modelling and left as assumptions or hazards:

- every error of `guard.json` is ignored. loadGuard goes on with an empty guard when
  ReadFile or Unmarshal fails (main.go:548-551 of the agent), against which nothing
  speaks, and the next save replaces the file by it; saveGuard's error is dropped; the
  file is written and renamed without a sync (571-581), so that a host that goes down
  may come back with an earlier version or a torn one. An action may then be launched
  twice, without a cooldown, beyond the limit and after a failure. The four limits are
  therefore claimed of a restart whose guard could be read (`read`) after one whose
  attempt was written and is still in the file (`kept`), through all such faults
  before, between and after; that the handler implements `RestartService`, up to the
  first fault. `AnswersHonest` needs neither. json.Unmarshal checks the syntax before it
  stores anything, so a torn file is an empty guard and never half of one.
- the errors of both requeues at the start of the controller are ignored
  (controller main.go:137-138): the rows stay running until a start whose requeue
  succeeds. They count in `left` (`ActionsEnd`) and `lost` (`NoJobForgotten`).
- activate-controller-release.sh:81 goes on with the rollback when the saved image
  cannot be tagged back: the old release then runs the new image.
  `ControllerOnlyRestores` claims the image only when this command and `up` succeeded
  (`tagged`, `upOK`), and the rest always.
- a state is stamped (controller main.go:241) after the endpoints, the agent and the
  metrics have answered or timed out, so it may be older than its stamp by the time a
  round reads, at most its context of 45 s (main.go:227). The api judges by the stamp:
  `PublicIsRecent` has the three periods in its bound.
- a login whose commit reply is lost spends its recovery code on a session nobody
  holds; `CodesAccounted` counts that session as opened.
- a failed metrics read yields baseline 0, above which the first readable height
  counts as block progress (README.md:117 promises progress within ten minutes of a
  restart): `AnswersHonest` claims progress of the restarts whose baseline was read. The
  controller's own baseline has the same weakness.
- a good snapshot makes its endpoint "not ready" for a minute, also for the
  confirmation of anomalies, so a short block is usually stored with one source,
  never rescanned, and its mismatch never raised (README.md:89 says what the
  endpoints are for).
- the write of the switch may fail and its error is ignored: `FailedRowStops` has
  the proviso `unstopped`.
- a job is put back by the age of its creation, an action by that of its claim; the
  statement that closes a job shares the deadline of the round with the job.
  `NoJobForgotten` has the proviso `lost`.
- nonces are aged by the monotonic clock and time stamps are compared with the wall
  clock. `NoReplay` holds because a nonce lives two minutes and the window is thirty
  seconds: steps back of the clock of up to ninety seconds in all are covered
  (`HandoverAssumption`). At 1024 nonces the oldest makes room: the proviso
  `forgotten`.
- the web page makes a new idempotency key per submission, so that repeating a
  request whose answer was lost queues a second restart. The agent refuses it within
  the cooldown, and the refusal counts as a failed restart and stops the automation.
- the passwords are committed by dbmigrate before the script notes it: a failure in
  between rolls back to services that cannot log in. `RollbackServes` has the proviso
  that the database has the passwords of the release returned to; `CredentialsFollow`
  says that the new ones are still on the disk.
- a round that takes longer than a minute from its stamp to its save makes the public status "unknown".
- SaveRewardOverview's error is ignored, so the gap a failed scan finds may be
  forgotten while the scan waits, and silence raised of unscanned blocks.
  `NoFalseSilence` has the proviso `forgotten`: the overview of the last scan tried was
  lost. No other lost save matters. A gap that is saved is forgotten in one case only
  (main.go:428): when the node, restored from a
  copy, has its head exactly at the cursor. Blocks after that may be unscanned for the
  rest of the wait, five minutes at most, which is why `NoFalseSilence` leaves out
  blocks younger than `ScanMax` and not those younger than the time between scans.
- a stall baseline taken while an endpoint had not answered turns a stall of the
  whole chain into one of the node; `StallIsLocal` carries the proviso `heard`.
- an unreachable agent counts as an inactive service, so the first "inactive"
  after an outage of the agent may already be old enough for a restart.
- two bootstraps whose requests overlap can leave two active administrators, or
  one whose secret the operator never proved, because the UPDATE of the
  confirmation names the account and not the row it read; `OneAdministrator` and
  `ActiveIsProved` carry the proviso `~crossed`, so they say nothing of this race, only
  of lost replies, abandoned attempts and restarts. The bootstrap token is needed for
  either request.
- an error of that UPDATE leaves its result nil and the next line panics;
  net/http recovers, and the model takes it as a refusal.
- an approval writes off everything older than the window although only the first
  block was tested.

## 4. Proofs

| Theorem | Statement | Inductive invariant and why it is needed |
|---|---|---|
| `RewardProofs!LedgerAccounted` | the ledger accounts for every authored block | the cursor and frontier are ordered and blocks up to the frontier are accounted for |
| `RewardProofs!TypeCorrect`, `NothingLost`, `Refinement` | types; `NoSilentLoss`; `RefinesLedger` | `IInv` = types, `CollectOK` (the overview a round holds is never ahead of the highest cursor and its scan starts at its cursor), `AckOK` (the same of an approval), `OriginOK` (nothing is accounted before the first row). The refinement maps origin, frontier, cursor and gaps to `start`, `high`, `row.cursor` and `audit`; every step is an `Extend`, `Excuse`, `Revisit` or a stutter |
| `RewardProofs!GapIsKept`, `NeverRewinds` | `OverviewKeepsGap`; `CursorNeverRewinds` (without lost replies) | assume `Procedure`: one controller, and the command line only while it is stopped (without it TLC shows both false). `PInv`: no statement of another process comes between the load of a round and its save (`Apart`), so that the overview a round holds has the stored gap and, unless a reply was lost, no older cursor (`Held`) |
| `RewardProofs!EvidenceTyped`, `MissingConfirmed`, `SilenceIsReal` | of `RewardEvidence`: types; `MissingIsConfirmed`; `NoFalseSilence` | `Heard`: an endpoint that counts was heard, and its snapshot and its retry time are not later than a minute after that; `Reached`: an overview without a gap leaves no block unscanned, or the next scan is due within `ScanMax` of the block, whatever saves are lost but the one of the last scan tried (`forgotten`) |
| `RestartGuardProofs!TypeCorrect`, `Honest` | types; `AnswersHonest` | `HonestInv`: whatever the file or the handler calls succeeded has a restart whose recovery was seen (`Seen`), and a baseline that was read is the block before the restart, so that passing it is progress. It speaks of the synced and the unsynced versions of the file alike, since either may come back, and forgetting never makes an answer |
| `RestartGuardProofs!OncePerAction`, `Cooldown`, `DailyLimit`, `StopsOnFailure` | the four limits, whatever reads, writes and losses of the file there are | `SafeInv`: of every restart still recorded the file knows the action and, for a day, the time, and one that was not verified has left its mark (`Covers`); a version a host loss may bring back knows as much of those before this tick (`CoversOld`); a handler past its admission carries a guard that knows as much, unless it could not read it (`UnreadOK`), and if it could, nothing recorded stands against its restart (`FreeOK`) |
| `RestartGuardProofs!ServiceRefined` | `ImplementsService` | `MappedOK` ties the file's entries to the mapped outcome between the admission and its record, as long as there was no fault (`faults = 0`; `FaultsLast`: a fault stays); after one the agent may forget an action it ran |
| `ActionQueueProofs!TypeCorrect`, `Known`, `FailureStops`, `ReplaysMislead` | types; `RunningIsKnown`; `FailedRowStops`; `OnlyReplaysMislead` | `QueueInv`: what the processor holds matches the row it claimed, an action the agent works on is claimed or lingers as a running row; `SwitchInv`: a processor about to record a failure has turned the switch off, or lost the write of it; `OnceInv`: of an action no start put back (`again`) the agent knows nothing before it is claimed, and what the queue says of it afterwards is what the agent answered |
| `IncidentsProofs!TypeCorrect`, `Rechecked` | types; `AutoIsRechecked` | `IncidentsInv`: a first sighting belongs to a candidate's open incident, is no older than it, and this controller has handled it |
| `PublicStatusProofs!TypeCorrect`, `StallsAreLocal`, `SignalsHaveLasted`, `PublicKnowsRecent` | types; `StallIsLocal`; `SignalsLast`; `PublicIsRecent` | `DetectionInv`: no endpoint is ahead of the chain (`Heights`), the evaluator measures a stall from the last progress that was read and the chain before it (`Progress`), and a running timer started after its condition was last read as absent (`Timers`); `Stamps`: a state that is being read is no older than `Gathering`, its stamp is at most so much later than the beginning of its reading, and a cached answer expires within that and the two lifetimes |
| `AccountsProofs!CodesKept`, `OneAdmin`, `SecretProved` | `CodesAccounted`; `OneAdministrator`; `ActiveIsProved` | `AccountsInv`: a row is named once, by a request that has ended; `Kept`: an active account is not in the way of an open DELETE and outlives its logins; `Accounted`: the first property without cardinalities; `Alone`: while bootstraps do not cross there is one account, an insert under way has doomed it, and a confirmation under way has seen its secret |
| `AccountsProofs!TypeCorrect`, `AttemptsBounded` | types, with the capacities of the limiter's tables; `AdmissionsBounded` | `LimiterInv`: no table names anyone twice and no bucket holds more than its burst (`Sound`), and in every interval those let in, with the credit still held if it ends now, are no more than the bursts of the limiters there were in it and its length (`Covered`): a refill gains no more than the time that passed, an admission is paid for, and a restart brings one burst (`CoveredAnew`). This is so of the global bucket and, when no entry is evicted or expires before it is full (`Roomy`), of each address. `TablesInv`: a name is used once, a session belongs to an active account |
| `ReleaseProofs!TypeCorrect`, `PasswordsFollow` | types; `CredentialsFollow` | `PasswordInv`: both passwords of the database are those of the linked release or of one with a migration URL (`Held`), where the script is decides which of them, the link and the URL have moved, and until the rotation is noted the link still names a release with the passwords the script found |
| `ReleaseProofs!ControllerRestored`, `RollbackLogsIn` | `ControllerOnlyRestores`; `RollbackServes` | `BackInv` adds what the controller script keeps (the other containers, the image it saved) and what a rollback has put back |
| `RequestsProofs!TypeCorrect`, `Once` | types and the bound of the memory; `NoReplay` | `ReplayInv`: a request that was let through is still in the memory or its window and all steps of the clock are over; the second follows when an entry expires, since it is at least as old as its request and `TTL >= Skew + MaxStep` |
| `RequestsProofs!AskedFor` | `QueuedAsAsked` | a row under a key is never changed, and an answer 202 names a row that was compared with the request |
| `RequestsProofs!NotForgotten` | `NoJobForgotten` | a running job is the one being executed or in `lost`; a start puts back or lists every other |

Assumptions on constants are named ASSUMEs of the modules (limits and periods
positive, sets of keys disjoint, a nonce outlives its window and the steps of the clock, `Authored \subseteq Nat \ {0}`, a model of the
history starts from a stored row or a single controller) and are evaluated by
TLC in the runs. The proofs are for every number of controllers, approvers,
actions, incidents, requests, jobs, releases and crashes, and do not use the bounds.

Every invariant and action property of the passing runs is the statement of a theorem,
some under hypotheses the table names (`Procedure`, no lost replies), which
are about how the system is operated or which faults are left out, and which the runs
share. Only model-checked are the two liveness properties, `CatchesUpOrAsks` and
`ActionsEnd`, which are beyond the prover, and the two violated claims.

## 5. Abstractions

- Blocks, actions, incidents and gaps are numbers or model values; hashes,
  amounts, messages, mails and diagnoses are left out. A reward row of
  `RewardEvidence` is "matched" (short, on the word of two sources) or "settled".
- A database statement is atomic. A transaction is one step where the code holds
  the row lock, and its reply may be lost where that matters.
- Time: a tick in `RestartGuard` is long against the steps between admission and
  launch and against the kernel's write-back, so a loss of the host takes only what was
  written in its own tick; the refusals of the handler have one code; in `RewardEvidence` a round takes a tick, because the time it goes by
  is taken before the snapshots arrive.
- Endpoints report the true chain height and, if at all, the true membership; all
  sources of a round see one runtime.
- In `RewardEvidence` the condition behind rewardChainProgressing and the service
  state is open (any value in any round), and a scan finds the newest block of
  the collator only.
- A token of the limiter is as many units of credit as ticks it takes to grow, so
  that the code's fractions are integers; its delays of 250 ms to 2 s are one.
- A secret, a hash or a session token is the row or the request it belongs to. The
  operator sends codes only of secrets he was shown; a login with any other
  credential fails. A row of `users` holds its recovery codes.
- One auth broker and one controller: that is what compose runs.
- `Handover`: a message stands for its body, nonce and action id; it is presented as
  it was signed, any number of times (a repeated delivery), within or without its
  window. The memory of nonces is a set with the time of each, and when it is full any
  of the oldest entries makes room. The verifier's clock for nonces never goes back,
  the wall clock does. The answers 400 cannot be had by what the auth broker sends.
- `Jobs`: a job is over when its processor says so; whether it is completed or failed
  is open. Jobs become old (fifteen minutes after their creation) at any time.
- `PublicStatus`: a round reads for up to `Gathering` (45 s), is stamped, judges and
  saves, each any time later; its history `read` is when it began. The heights, the
  service and the rest of one reading are taken at that beginning, the earliest they
  can be. A request notes the time up to a tick before it is served, and any save or
  load may fail. Only the state of the node is followed, not the summary of the service
  next to it; online and offline are one answer, and so are unknown and 503.
- `Release`: the services other than the controller and PostgreSQL are one, and a
  `docker compose` command over several may have moved any of them when it fails. One
  script runs at a time. The dumps, the probes of the proxy and the free-space checks
  are steps that may fail. A container keeps the secrets of the directory it was
  started from; compose replaces one whose definition, secrets or image differ. A host
  that runs a release already: the first installation is left out.
- One controller is modelled in `Detection`, `Incidents`, `ActionQueue` and
  `RewardEvidence`; `RewardHistory` allows several.
- Definitions named "Mutant of ..." are plausible wrong versions of the definition
  that follows; no specification uses them. They document what each property
  would catch.

## 6. Not modelled

The transport and decoding of RPC answers, log patterns, metrics parsing, HMAC
and password hashing, SMTP and Gemini requests, HTTP routing and JSON rendering
are data conversions or I/O without state. The web interface only renders and
polls. The schema and the grants of the migration are one transaction that
PostgreSQL itself makes atomic; of the migration only the passwords are modelled.
Of the release scripts, the first installation (`docker compose down` on failure),
the transfer (`deploy-wsl.sh`) and the pruning of old archives on the build host
run once or touch nothing the rest depends on. What a job executes is left out but
for its end. The observe-only period of the automation switch is one comparison with
a date fixed at installation.

## 7. Plan

All components that decide something over time have a module, and every safety property
a theorem. What is left is depth:

1. Proofs: what the proven properties rest on without saying so, as theorems of their own
   (the exclusion of rounds and approvals under `Procedure`).
2. Liveness of incidents (a signal that is gone is eventually resolved), which needs a
   smaller instance of `Incidents`, and of jobs.
3. The manual incident that a diagnosis job opens next to those of the rounds.
