--------------------------- MODULE RewardHistory ---------------------------
(***************************************************************************)
(* The durable reward history of the collator: one controller goroutine    *)
(* (collectRewards) loads the monitor row, scans the next chunk of         *)
(* finalized blocks over the local node's RPC, commits the observations    *)
(* together with the new cursor, and finally saves the overview it holds;  *)
(* an operator may approve, from the web or from a command line, that the  *)
(* cursor jumps over history whose state the node has already pruned.      *)
(*                                                                         *)
(* Every statement sent to PostgreSQL and every RPC is a step of its own:  *)
(* other processes run between any two of them.                            *)
(***************************************************************************)
EXTENDS Integers, FiniteSets, Sequences

CONSTANTS
  Controllers,     \* controller processes (one in production)
  Clis,            \* runs of "controller -acknowledge-pruned-reward-gap"
  Authored,        \* the finalized blocks authored by the reward wallet
  Chunk,           \* rewardScanChunkSize (16)
  MaxChunk,        \* rewardScanMaxChunkSize (128)
  Window,          \* RewardGapRetainedWindowBlocks (64)
  Retention,       \* how many states below the finalized one the node keeps
  Seeded,          \* TRUE: the monitor row exists when the model starts
  CliConcurrent,   \* TRUE: the command may run while a controller is up
  LostReplies,     \* TRUE: a commit may be reported as an error
  MaySettle,       \* TRUE: the errors of RPC and database come to an end
  MaxBlock,        \* bound: the last finalized block of the model
  MaxRestores,     \* bound: how often the node database is restored
  MaxCrashes,      \* bound: how often processes are killed
  MaxGaps          \* bound: acknowledgements stop after this many audited gaps

(***************************************************************************)
(* A model starts either from a stored row or with a single controller:    *)
(* docker compose runs one, and two first runs would choose two origins.   *)
(***************************************************************************)
ASSUME HistoryAssumption ==
  /\ Controllers \cap Clis = {}
  /\ Authored \subseteq Nat \ {0}
  /\ {Chunk, MaxChunk, Window} \subseteq Nat \ {0}
  /\ Chunk <= MaxChunk
  /\ {Retention, MaxRestores, MaxCrashes, MaxGaps} \subseteq Nat
  /\ MaxBlock \in Nat \ {0}
  /\ {Seeded, CliConcurrent, LostReplies, MaySettle} \subseteq BOOLEAN
  /\ Seeded \/ \A c, d \in Controllers : c = d

Approvers == Controllers \cup Clis
Unavailable == -1                     \* RewardSnapshot returned an error
NoGap == [from |-> 0, through |-> 0]  \* LastHistoryGap is nil
EmptyOverview == [cursor |-> 0, gap |-> NoGap, recovery |-> FALSE]

Gaps == [from : Nat, through : Nat]
Overviews == [cursor : Nat, gap : Gaps, recovery : BOOLEAN]

VARIABLES
  finalized, pruned, restores,     \* the node: states of blocks <= pruned are gone
  stored, row, events, audit,      \* PostgreSQL: the monitor row, reward_events, audit_events
  up, pc, fin, prev,               \* collectRewards: snapshot height and the overview it holds
  ackPc, ackCursor, ackFin,        \* acknowledgePrunedRewardGap, per approver
  crashes, settled,                \* settled: RPC and database have stopped failing
  start, high                      \* history: first cursor stored, highest cursor stored

nodeVars == <<finalized, pruned, restores>>
dbVars == <<stored, row, events, audit, start, high>>
collectVars == <<up, pc, fin, prev>>
ackVars == <<ackPc, ackCursor, ackFin>>
faultVars == <<crashes, settled>>
vars == <<nodeVars, dbVars, collectVars, ackVars, faultVars>>

----------------------------------------------------------------------------
(* Pure parts of the code.                                                 *)

Smaller(a, b) == IF a <= b THEN a ELSE b
Larger(a, b) == IF a >= b THEN a ELSE b

\* rewardScanEnd: 16 blocks, or up to 128 once the lag exceeds the window.
ScanEnd(cursor, height) ==
  LET lag == height - cursor
      chunk == IF lag > Window THEN Smaller(lag, MaxChunk) ELSE Chunk
  IN  Smaller(cursor + chunk, height)

\* Mutant of Observations: the last block of the chunk is not looked at.
ObservationsShort(from, to) == {b \in Authored : from <= b /\ b < to}

\* Monitor.Scan(from, to): one observation per block in which the wallet's
\* LastAuthoredBlock moved. Finalized history never changes, so the result
\* is a function of the range.
Observations(from, to) == {b \in Authored : from <= b /\ b <= to}

\* Scan starts by reading state at from-1 and needs every hash up to `to`.
Discarded(from) == from - 1 <= pruned
Readable(from, to) == ~Discarded(from) /\ to <= finalized

\* Mutant of NeedsApproval: compares with the large chunk instead of the window.
NeedsApprovalLate(cursor, height) == cursor > 0 /\ height - cursor > MaxChunk

\* rewardRecoveryForScanError, for an error that says "state already discarded".
NeedsApproval(cursor, height) == cursor > 0 /\ height - cursor > Window

\* Mutant of MuHeld: the approval does not wait for a running round.
MuHeldByAckOnly(c) == ackPc[c] # "idle"

\* True while a goroutine of controller c holds rewardMu.
MuHeld(c) == pc[c] # "idle" \/ ackPc[c] # "idle"

----------------------------------------------------------------------------
Init ==
  /\ finalized \in 1..MaxBlock
  /\ pruned = 0
  /\ restores = 0
  /\ stored = Seeded
  /\ row = IF Seeded THEN [EmptyOverview EXCEPT !.cursor = finalized] ELSE EmptyOverview
  /\ events = {}
  /\ audit = <<>>
  /\ up = [c \in Controllers |-> TRUE]
  /\ pc = [c \in Controllers |-> "idle"]
  /\ fin = [c \in Controllers |-> 0]
  /\ prev = [c \in Controllers |-> EmptyOverview]
  /\ ackPc = [a \in Approvers |-> "idle"]
  /\ ackCursor = [a \in Approvers |-> 0]
  /\ ackFin = [a \in Approvers |-> 0]
  /\ crashes = 0 /\ settled = FALSE
  /\ start = row.cursor
  /\ high = row.cursor

----------------------------------------------------------------------------
(* The node: finality advances, old state is pruned, and an operator may   *)
(* restore the chain database from an older copy.                          *)

Finalize(n) ==
  /\ n > finalized /\ n <= MaxBlock
  /\ finalized' = n
  /\ UNCHANGED <<pruned, restores, dbVars, collectVars, ackVars, faultVars>>

Prune(n) ==
  /\ n > pruned /\ n <= finalized - Retention
  /\ pruned' = n
  /\ UNCHANGED <<finalized, restores, dbVars, collectVars, ackVars, faultVars>>

Restore(n, p) ==
  /\ restores < MaxRestores
  /\ 1 <= n /\ n < finalized /\ p <= n
  /\ finalized' = n
  /\ pruned' = p
  /\ restores' = restores + 1
  /\ UNCHANGED <<dbVars, collectVars, ackVars, faultVars>>

----------------------------------------------------------------------------
(* collectRewards, run by controller c every 15 seconds under rewardMu.    *)

\* collectRewards returns (or dies): its locals are gone and rewardMu is free.
Return(c) ==
  /\ pc' = [pc EXCEPT ![c] = "idle"]
  /\ fin' = [fin EXCEPT ![c] = 0]
  /\ prev' = [prev EXCEPT ![c] = EmptyOverview]

\* Lock rewardMu, then RewardSnapshot over the agent socket.
CollectBegin(c, height) ==
  /\ up[c] /\ ~MuHeld(c)
  /\ height = finalized \/ (height = Unavailable /\ ~settled)
  /\ pc' = [pc EXCEPT ![c] = "load"]
  /\ fin' = [fin EXCEPT ![c] = height]
  /\ UNCHANGED <<nodeVars, dbVars, up, prev, ackVars, faultVars>>

\* LoadRewardOverview fails with something else than ErrNoRows: early return.
CollectLoadError(c) ==
  /\ pc[c] = "load" /\ ~settled
  /\ Return(c)
  /\ UNCHANGED <<nodeVars, dbVars, up, ackVars, faultVars>>

\* Mutant of Loaded: a first run trusts the height of a failed snapshot.
LoadedUnchecked(c) == IF stored THEN row ELSE [EmptyOverview EXCEPT !.cursor = fin[c]]

\* The overview collectRewards works on once the row and the snapshot are in:
\* a first run starts at the finalized block, a failed snapshot drops the
\* recovery offer.
Loaded(c) ==
  LET base == IF stored THEN row
              ELSE [EmptyOverview EXCEPT !.cursor = IF fin[c] = Unavailable THEN 0 ELSE fin[c]]
  IN  IF fin[c] = Unavailable THEN [base EXCEPT !.recovery = FALSE] ELSE base

\* True when this round has blocks to scan.
Behind(c, overview) ==
  fin[c] # Unavailable /\ overview.cursor > 0 /\ fin[c] > overview.cursor

\* A round with nothing to scan clears the offer and, when no cursor was ever
\* chosen, takes the finalized block.
NothingToScan(c, overview) ==
  IF fin[c] = Unavailable THEN overview
  ELSE [overview EXCEPT !.cursor = IF @ = 0 THEN fin[c] ELSE @, !.recovery = FALSE]

CollectLoad(c) ==
  /\ pc[c] = "load"
  /\ IF Behind(c, Loaded(c))
     THEN /\ pc' = [pc EXCEPT ![c] = "scan"]
          /\ prev' = [prev EXCEPT ![c] = Loaded(c)]
     ELSE /\ pc' = [pc EXCEPT ![c] = "save"]
          /\ prev' = [prev EXCEPT ![c] = NothingToScan(c, Loaded(c))]
  /\ UNCHANGED <<nodeVars, dbVars, up, fin, ackVars, faultVars>>

\* The chunk this round scans: (cursor, ScanTo(c)].
ScanTo(c) == ScanEnd(prev[c].cursor, fin[c])

\* The retry back-off has not elapsed: nothing attempted, overview unchanged.
ScanBackedOff(c) ==
  /\ pc[c] = "scan"
  /\ pc' = [pc EXCEPT ![c] = "save"]
  /\ UNCHANGED <<nodeVars, dbVars, up, fin, prev, ackVars, faultVars>>

\* RewardScan answered with a valid chunk; it is committed next.
ScanOk(c) ==
  /\ pc[c] = "scan"
  /\ Readable(prev[c].cursor + 1, ScanTo(c))
  /\ pc' = [pc EXCEPT ![c] = "apply"]
  /\ UNCHANGED <<nodeVars, dbVars, up, fin, prev, ackVars, faultVars>>

\* The node answered "State already discarded".
ScanPruned(c) ==
  /\ pc[c] = "scan"
  /\ Discarded(prev[c].cursor + 1)
  /\ prev' = [prev EXCEPT ![c].recovery = NeedsApproval(prev[c].cursor, fin[c])]
  /\ pc' = [pc EXCEPT ![c] = "save"]
  /\ UNCHANGED <<nodeVars, dbVars, up, fin, ackVars, faultVars>>

\* The checks of ApplyRewardScan: the locked row still has the expected cursor.
\* Otherwise the transaction rolls back, an outcome of ScanOrApplyError.
ApplyAllowed(c) ==
  /\ stored /\ row.cursor = prev[c].cursor
  /\ ScanTo(c) - prev[c].cursor <= MaxChunk

\* Nothing but a fault can fail the pending RPC or transaction of c.
Passes(c) == IF pc[c] = "apply" THEN ApplyAllowed(c)
             ELSE Discarded(prev[c].cursor + 1) \/ Readable(prev[c].cursor + 1, ScanTo(c))

\* Any other error (RPC down, unsupported runtime, invalid envelope), before
\* the commit or from it when the transaction rolled back.
ScanOrApplyError(c) ==
  /\ pc[c] \in {"scan", "apply"} /\ (settled => ~Passes(c))
  /\ prev' = [prev EXCEPT ![c].recovery = FALSE]
  /\ pc' = [pc EXCEPT ![c] = "save"]
  /\ UNCHANGED <<nodeVars, dbVars, up, fin, ackVars, faultVars>>

\* The overview a successful round commits.
Scanned(c) == [prev[c] EXCEPT !.cursor = ScanTo(c), !.recovery = FALSE]

\* One transaction: the observations and the row with its new cursor.
CommitScan(c) ==
  /\ row' = Scanned(c)
  /\ events' = events \cup Observations(prev[c].cursor + 1, ScanTo(c))
  /\ high' = Larger(high, row'.cursor)
  /\ UNCHANGED <<stored, audit, start>>

Apply(c) ==
  /\ pc[c] = "apply" /\ ApplyAllowed(c)
  /\ CommitScan(c)
  /\ prev' = [prev EXCEPT ![c] = Scanned(c)]
  /\ pc' = [pc EXCEPT ![c] = "save"]
  /\ UNCHANGED <<nodeVars, up, fin, ackVars, faultVars>>

\* The transaction commits but its reply is lost: the controller takes the
\* scan for failed and goes on with the overview it had loaded.
ApplyReplyLost(c) ==
  /\ LostReplies /\ ~settled
  /\ pc[c] = "apply" /\ ApplyAllowed(c)
  /\ CommitScan(c)
  /\ prev' = [prev EXCEPT ![c].recovery = FALSE]
  /\ pc' = [pc EXCEPT ![c] = "save"]
  /\ UNCHANGED <<nodeVars, up, fin, ackVars, faultVars>>

\* SaveRewardOverview: an unconditional upsert of whatever overview is held.
SaveOverview(overview) ==
  /\ stored' = TRUE
  /\ row' = overview
  /\ start' = IF start = 0 THEN overview.cursor ELSE start
  /\ high' = Larger(high, overview.cursor)
  /\ UNCHANGED <<events, audit>>

Save(c) ==
  /\ pc[c] = "save"
  /\ SaveOverview(prev[c])
  /\ Return(c)
  /\ UNCHANGED <<nodeVars, up, ackVars, faultVars>>

\* The error of SaveRewardOverview is ignored.
SaveError(c) ==
  /\ pc[c] = "save" /\ ~settled
  /\ Return(c)
  /\ UNCHANGED <<nodeVars, dbVars, up, ackVars, faultVars>>

----------------------------------------------------------------------------
(* acknowledgePrunedRewardGap, run by the action queue of a controller     *)
(* (under rewardMu) or by the command line (no lock it could share).       *)

MayStart(a) ==
  IF a \in Controllers THEN up[a] /\ ~MuHeld(a)
  ELSE CliConcurrent \/ \A c \in Controllers : ~up[c]

AckReturn(a) ==
  /\ ackPc' = [ackPc EXCEPT ![a] = "idle"]
  /\ ackCursor' = [ackCursor EXCEPT ![a] = 0]
  /\ ackFin' = [ackFin EXCEPT ![a] = 0]

\* RewardSnapshot, and the check that the cursor left the retained window.
AckBegin(a, expected) ==
  /\ ackPc[a] = "idle" /\ MayStart(a) /\ Len(audit) < MaxGaps
  /\ expected > 0 /\ finalized - expected > Window
  /\ ackPc' = [ackPc EXCEPT ![a] = "discarded"]
  /\ ackCursor' = [ackCursor EXCEPT ![a] = expected]
  /\ ackFin' = [ackFin EXCEPT ![a] = finalized]
  /\ UNCHANGED <<nodeVars, dbVars, collectVars, faultVars>>

\* The scan behind the expected cursor must fail as discarded.
AckDiscarded(a) ==
  /\ ackPc[a] = "discarded"
  /\ Discarded(ackCursor[a] + 1)
  /\ ackPc' = [ackPc EXCEPT ![a] = "probe"]
  /\ UNCHANGED <<nodeVars, dbVars, collectVars, ackCursor, ackFin, faultVars>>

Baseline(a) == ackFin[a] - Window

\* The first retained chunk must be readable.
AckProbe(a) ==
  /\ ackPc[a] = "probe"
  /\ Readable(Baseline(a) + 1, Smaller(Baseline(a) + Chunk, ackFin[a]))
  /\ ackPc' = [ackPc EXCEPT ![a] = "write"]
  /\ UNCHANGED <<nodeVars, dbVars, collectVars, ackCursor, ackFin, faultVars>>

\* Mutant of AckWrite: the cursor of the row is not compared.
AckWriteUnchecked(a) ==
  LET gap == [from |-> ackCursor[a] + 1, through |-> Baseline(a)]
  IN  /\ ackPc[a] = "write" /\ stored
      /\ audit' = Append(audit, gap)
      /\ row' = [cursor |-> Baseline(a), gap |-> gap, recovery |-> FALSE]
      /\ high' = Larger(high, Baseline(a))
      /\ AckReturn(a)
      /\ UNCHANGED <<nodeVars, stored, events, start, collectVars, faultVars>>

\* Mutant of AckWrite: the audit event is not part of the transaction.
AckWriteUnaudited(a) ==
  /\ ackPc[a] = "write" /\ stored /\ row.cursor = ackCursor[a]
  /\ row' = [row EXCEPT !.cursor = Baseline(a), !.recovery = FALSE]
  /\ high' = Larger(high, Baseline(a))
  /\ AckReturn(a)
  /\ UNCHANGED <<nodeVars, stored, events, audit, start, collectVars, faultVars>>

\* The rebase transaction: audit event, history gap and cursor together,
\* provided the row still holds the expected cursor. A lost reply changes
\* only what is reported to the operator.
AckWrite(a) ==
  LET gap == [from |-> ackCursor[a] + 1, through |-> Baseline(a)]
  IN  /\ ackPc[a] = "write"
      /\ stored /\ row.cursor = ackCursor[a]
      /\ audit' = Append(audit, gap)
      /\ row' = [cursor |-> Baseline(a), gap |-> gap, recovery |-> FALSE]
      /\ high' = Larger(high, Baseline(a))
      /\ AckReturn(a)
      /\ UNCHANGED <<nodeVars, stored, events, start, collectVars, faultVars>>

\* A refused check, an RPC or database error, or a cursor conflict.
AckError(a) ==
  /\ ackPc[a] # "idle"
  /\ AckReturn(a)
  /\ UNCHANGED <<nodeVars, dbVars, collectVars, faultVars>>

----------------------------------------------------------------------------
(* Processes.                                                              *)

Crash(c) ==
  /\ up[c] /\ crashes < MaxCrashes
  /\ up' = [up EXCEPT ![c] = FALSE]
  /\ Return(c) /\ AckReturn(c)
  /\ crashes' = crashes + 1
  /\ UNCHANGED <<nodeVars, dbVars, settled>>

Boot(c) ==
  /\ ~up[c]
  /\ CliConcurrent \/ \A a \in Clis : ackPc[a] = "idle"
  /\ up' = [up EXCEPT ![c] = TRUE]
  /\ UNCHANGED <<nodeVars, dbVars, pc, fin, prev, ackVars, faultVars>>

\* From here on no statement and no RPC fails for a reason of its own.
Settle ==
  /\ MaySettle /\ ~settled
  /\ settled' = TRUE
  /\ UNCHANGED <<nodeVars, dbVars, collectVars, ackVars, crashes>>

Node == \E n \in 1..MaxBlock : Finalize(n) \/ Prune(n) \/ \E p \in 0..n : Restore(n, p)

Collect(c) ==
  \/ \E height \in {finalized, Unavailable} : CollectBegin(c, height)
  \/ CollectLoadError(c) \/ CollectLoad(c)
  \/ ScanBackedOff(c) \/ ScanOk(c) \/ ScanPruned(c) \/ ScanOrApplyError(c)
  \/ Apply(c) \/ ApplyReplyLost(c)
  \/ Save(c) \/ SaveError(c)

Acknowledge(a) ==
  \/ \E expected \in 1..MaxBlock : AckBegin(a, expected)
  \/ AckDiscarded(a) \/ AckProbe(a) \/ AckWrite(a) \/ AckError(a)

Next ==
  \/ Node \/ Settle
  \/ \E c \in Controllers : Collect(c) \/ Crash(c) \/ Boot(c)
  \/ \E a \in Approvers : Acknowledge(a)

Spec == Init /\ [][Next]_vars

(***************************************************************************)
(* Fairness.  The ticker calls collectRewards for ever and every RPC and   *)
(* SQL statement returns or hits its deadline, so the steps of a round are *)
(* weakly fair; the retry back-off is at most five minutes, so a scan that *)
(* keeps being possible is attempted (strong fairness); compose.yaml       *)
(* restarts a dead controller; and outages end (Settle).                   *)
(***************************************************************************)
Fairness ==
  /\ WF_vars(Settle)
  /\ \A a \in Approvers : WF_vars(AckError(a))
  /\ \A c \in Controllers :
       /\ SF_vars(Boot(c))
       /\ SF_vars(\E height \in {finalized, Unavailable} : CollectBegin(c, height))
       /\ WF_vars(Collect(c))
       /\ SF_vars(ScanOk(c)) /\ SF_vars(ScanPruned(c))

FairSpec == Spec /\ Fairness

----------------------------------------------------------------------------
(* Properties.                                                             *)

TypeOK ==
  /\ finalized \in Nat /\ pruned \in Nat /\ restores \in Nat
  /\ stored \in BOOLEAN /\ row \in Overviews
  /\ events \subseteq Authored /\ audit \in Seq(Gaps)
  /\ up \in [Controllers -> BOOLEAN]
  /\ pc \in [Controllers -> {"idle", "load", "scan", "apply", "save"}]
  /\ fin \in [Controllers -> Nat \cup {Unavailable}]
  /\ prev \in [Controllers -> Overviews]
  /\ ackPc \in [Approvers -> {"idle", "discarded", "probe", "write"}]
  /\ ackCursor \in [Approvers -> Nat] /\ ackFin \in [Approvers -> Nat]
  /\ crashes \in Nat /\ settled \in BOOLEAN /\ start \in Nat /\ high \in Nat

\* The gap lies in the audit log.
Excused(b) == \E i \in 1..Len(audit) : audit[i].from <= b /\ b <= audit[i].through

\* No authored block is ever passed over in silence: up to the highest cursor
\* that was ever stored, each has its reward event or lies in a gap that an
\* operator acknowledged, whatever crashes, lost replies, stale saves, second
\* controllers and concurrent acknowledgements do.
NoSilentLoss == \A b \in Authored : start < b /\ b <= high => b \in events \/ Excused(b)

\* With the documented procedure (the command only while the controller is
\* stopped) and no lost commit reply, the cursor never moves backwards.
CursorNeverRewinds == [][row'.cursor >= row.cursor]_vars

\* The overview keeps the most recently acknowledged gap, as the comment on
\* AcknowledgePrunedRewardGap promises of the durable overview.
OverviewKeepsGap == audit # <<>> => row.gap = audit[Len(audit)]

\* The detailed history implements the ledger its readers rely on.
Ledger == INSTANCE RewardLedger WITH
  origin <- start, frontier <- high, cursor <- row.cursor, gaps <- audit

RefinesLedger == Ledger!Spec

\* The monitor ends up at the finalized block or asking for an approval.
CatchesUpOrAsks ==
  []<>(stored /\ (row.cursor >= finalized \/ row.recovery))
=============================================================================
