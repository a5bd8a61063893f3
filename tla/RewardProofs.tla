------------------------ MODULE RewardProofs ------------------------
(***************************************************************************)
(* Proofs about the reward monitor.  First RewardHistory, for any number   *)
(* of controllers and approvers, any chunk, window and retention, and any  *)
(* set of authored blocks; then RewardEvidence, for any endpoints, times   *)
(* and limits.  The two share nothing but the code they model.             *)
(***************************************************************************)
EXTENDS RewardHistory, RewardEvidence, SequenceTheorems, FiniteSetTheorems, TLAPS

----------------------------------------------------------------------------
(* Type correctness.                                                       *)

\* A chunk ends after its cursor and not beyond the snapshot.
LEMMA ScanEndBounds ==
  ASSUME NEW cursor \in Nat, NEW height \in Nat, height > cursor
  PROVE  /\ ScanEnd(cursor, height) \in Nat
         /\ ScanEnd(cursor, height) > cursor
         /\ ScanEnd(cursor, height) <= height
  BY HistoryAssumption DEF ScanEnd, Smaller

LEMMA EmptyType == EmptyOverview \in Overviews
  BY DEF EmptyOverview, Overviews, Gaps, NoGap

LEMMA LoadedType ==
  ASSUME TypeOK, NEW c \in Controllers
  PROVE  Loaded(c) \in Overviews /\ NothingToScan(c, Loaded(c)) \in Overviews
<1>1. row \in Overviews /\ EmptyOverview \in Overviews /\ fin[c] \in Nat \cup {Unavailable}
  BY EmptyType DEF TypeOK
<1>2. Loaded(c) \in Overviews
  BY <1>1 DEF Loaded, Overviews, EmptyOverview, Unavailable
<1>3. NothingToScan(c, Loaded(c)) \in Overviews
  BY <1>1, <1>2 DEF NothingToScan, Overviews, Unavailable
<1> QED BY <1>2, <1>3

\* What is pending in each goroutine between two of its steps.
CollectOK ==
  \A c \in Controllers :
    /\ pc[c] \in {"scan", "apply"} =>
         prev[c].cursor > 0 /\ fin[c] # Unavailable /\ fin[c] > prev[c].cursor
    /\ pc[c] \in {"scan", "apply", "save"} /\ start > 0 =>
         start <= prev[c].cursor /\ prev[c].cursor <= high

AckOK ==
  \A a \in Approvers :
    ackPc[a] # "idle" => ackCursor[a] > 0 /\ ackFin[a] - ackCursor[a] > Window

\* The stored cursor never leaves the accounted range start..high.
OriginOK ==
  /\ Seeded => start > 0
  /\ start > 0 => stored
  /\ start <= row.cursor /\ row.cursor <= high
  /\ start = 0 => high = 0

IInv == TypeOK /\ CollectOK /\ AckOK /\ OriginOK

LEMMA InitIInv == Init => IInv
<1> SUFFICES ASSUME Init PROVE IInv
  OBVIOUS
<1>1. finalized \in Nat /\ finalized > 0
  BY HistoryAssumption DEF Init
<1>2. EmptyOverview \in Overviews /\ row \in Overviews /\ start = row.cursor /\ high = row.cursor
  BY <1>1, EmptyType DEF Init, Overviews
<1>3. TypeOK
  <2>1. \A c \in Controllers : prev[c] \in Overviews
    BY EmptyType DEF Init
  <2>2. audit \in Seq(Gaps) /\ stored \in BOOLEAN /\ row.cursor \in Nat
    BY <1>2, HistoryAssumption DEF Init, Overviews
  <2> QED BY <1>1, <1>2, <2>1, <2>2, EmptyType DEF Init, TypeOK
<1>4. CollectOK /\ AckOK
  BY <1>2 DEF Init, CollectOK, AckOK
<1>5. OriginOK
  BY <1>1, <1>2, HistoryAssumption DEF Init, OriginOK, EmptyOverview, Overviews
<1> QED BY <1>3, <1>4, <1>5 DEF IInv

\* Steps of the node and of the environment leave the database and every
\* goroutine alone.
LEMMA NodeIInv ==
  ASSUME IInv, Node \/ Settle
  PROVE  IInv'
<1>1. UNCHANGED <<dbVars, collectVars, ackVars>>
  BY DEF Node, Finalize, Prune, Restore, Settle
<1>2. finalized' \in Nat /\ pruned' \in Nat /\ restores' \in Nat /\ crashes' \in Nat /\ settled' \in BOOLEAN
  <2>1. CASE Settle
    BY <2>1 DEF IInv, TypeOK, Settle, nodeVars
  <2>2. CASE Node
    <3>1. PICK n \in 1..MaxBlock : Finalize(n) \/ Prune(n) \/ \E p \in 0..n : Restore(n, p)
      BY <2>2 DEF Node
    <3>2. n \in Nat
      BY HistoryAssumption
    <3>3. CASE Finalize(n) \/ Prune(n)
      BY <3>2, <3>3 DEF Finalize, Prune, IInv, TypeOK, faultVars
    <3>4. CASE \E p \in 0..n : Restore(n, p)
      BY <3>2, <3>4 DEF Restore, IInv, TypeOK, faultVars
    <3> QED BY <3>1, <3>3, <3>4
  <2> QED BY <2>1, <2>2
<1>3. TypeOK'
  BY <1>1, <1>2 DEF IInv, TypeOK, dbVars, collectVars, ackVars
<1>4. CollectOK' /\ AckOK' /\ OriginOK'
  BY <1>1 DEF IInv, CollectOK, AckOK, OriginOK, dbVars, collectVars, ackVars
<1> QED BY <1>3, <1>4 DEF IInv

\* Steps of collectRewards that write nothing to the database.
LEMMA CollectReadIInv ==
  ASSUME IInv, NEW c \in Controllers,
         \/ \E height \in {finalized, Unavailable} : CollectBegin(c, height)
         \/ CollectLoadError(c) \/ SaveError(c)
         \/ ScanBackedOff(c) \/ ScanOk(c) \/ ScanPruned(c) \/ ScanOrApplyError(c)
  PROVE  IInv'
<1> USE DEF IInv, TypeOK, dbVars, nodeVars, ackVars, faultVars
<1>1. CASE \E height \in {finalized, Unavailable} : CollectBegin(c, height)
  <2>1. PICK height \in {finalized, Unavailable} : CollectBegin(c, height)
    BY <1>1
  <2>2. TypeOK'
    BY <2>1 DEF CollectBegin
  <2>3. CollectOK' /\ AckOK' /\ OriginOK'
    BY <2>1 DEF CollectBegin, CollectOK, AckOK, OriginOK
  <2> QED BY <2>2, <2>3
<1>2. CASE CollectLoadError(c) \/ SaveError(c)
  <2>1. TypeOK'
    <3>1. EmptyOverview \in Overviews /\ "idle" \in {"idle", "load", "scan", "apply", "save"}
      BY EmptyType
    <3>2. pc' = [pc EXCEPT ![c] = "idle"] /\ fin' = [fin EXCEPT ![c] = 0]
          /\ prev' = [prev EXCEPT ![c] = EmptyOverview]
      BY <1>2 DEF CollectLoadError, SaveError, Return
    <3>3. UNCHANGED <<nodeVars, dbVars, up, ackVars, faultVars>>
      BY <1>2 DEF CollectLoadError, SaveError
    <3> QED BY <3>1, <3>2, <3>3
  <2>2. CollectOK' /\ AckOK' /\ OriginOK'
    BY <1>2 DEF CollectLoadError, SaveError, Return, CollectOK, AckOK, OriginOK
  <2> QED BY <2>1, <2>2
<1>3. CASE ScanBackedOff(c) \/ ScanOk(c)
  <2>1. TypeOK'
    BY <1>3 DEF ScanBackedOff, ScanOk
  <2>2. CollectOK' /\ AckOK' /\ OriginOK'
    BY <1>3 DEF ScanBackedOff, ScanOk, CollectOK, AckOK, OriginOK
  <2> QED BY <2>1, <2>2
<1>4. CASE ScanPruned(c) \/ ScanOrApplyError(c)
  <2>1. PICK offer \in BOOLEAN : prev' = [prev EXCEPT ![c].recovery = offer]
    BY <1>4 DEF ScanPruned, ScanOrApplyError, NeedsApproval
  <2>2. /\ prev' \in [Controllers -> Overviews]
        /\ \A d \in Controllers : prev'[d].cursor = prev[d].cursor
    BY <2>1 DEF Overviews
  <2>3. TypeOK'
    BY <1>4, <2>2 DEF ScanPruned, ScanOrApplyError
  <2>4. AckOK' /\ OriginOK'
    BY <1>4, <2>2 DEF ScanPruned, ScanOrApplyError, AckOK, OriginOK
  <2>5. CollectOK'
    BY <1>4, <2>2 DEF ScanPruned, ScanOrApplyError, CollectOK
  <2> QED BY <2>3, <2>4, <2>5
<1> QED BY <1>1, <1>2, <1>3, <1>4

\* The overview that is loaded holds a cursor of the accounted range.
LEMMA CollectLoadIInv ==
  ASSUME IInv, NEW c \in Controllers, CollectLoad(c)
  PROVE  IInv'
<1> USE DEF IInv
<1>1. Loaded(c) \in Overviews /\ NothingToScan(c, Loaded(c)) \in Overviews
  BY LoadedType
<1>2. start > 0 => Loaded(c).cursor = row.cursor /\ NothingToScan(c, Loaded(c)).cursor = row.cursor
  BY DEF OriginOK, Loaded, NothingToScan, TypeOK, Overviews
<1>3. TypeOK'
  BY <1>1 DEF CollectLoad, TypeOK, nodeVars, dbVars, ackVars, faultVars
<1>4. CollectOK'
  BY <1>1, <1>2 DEF CollectLoad, CollectOK, OriginOK, Behind, TypeOK, Overviews, Unavailable, dbVars
<1>5. AckOK' /\ OriginOK'
  BY DEF CollectLoad, AckOK, OriginOK, dbVars, ackVars
<1> QED BY <1>3, <1>4, <1>5

LEMMA ObservationsType == \A from, to : Observations(from, to) \subseteq Authored
  BY DEF Observations

\* What committing a chunk does to the database.
LEMMA CommitScanOK ==
  ASSUME IInv, NEW c \in Controllers, pc[c] = "apply", ApplyAllowed(c), CommitScan(c)
  PROVE  /\ Scanned(c) \in Overviews /\ Scanned(c).cursor = ScanTo(c)
         /\ ScanTo(c) \in Nat /\ ScanTo(c) > row.cursor /\ ScanTo(c) - row.cursor <= MaxChunk
         /\ start > 0
         /\ row' = Scanned(c) /\ row'.cursor = ScanTo(c)
         /\ high' \in Nat /\ high' >= high /\ high' >= ScanTo(c)
         /\ high' = IF ScanTo(c) > high THEN ScanTo(c) ELSE high
         /\ events' = events \cup Observations(row.cursor + 1, ScanTo(c))
         /\ UNCHANGED <<stored, audit, start>>
<1>1. /\ prev[c] \in Overviews /\ prev[c].cursor \in Nat /\ prev[c].cursor > 0
      /\ fin[c] \in Nat /\ fin[c] > prev[c].cursor
  BY DEF IInv, TypeOK, CollectOK, Overviews, Unavailable
<1>2. ScanTo(c) \in Nat /\ ScanTo(c) > prev[c].cursor
  BY <1>1, ScanEndBounds DEF ScanTo
<1>3. row.cursor = prev[c].cursor /\ ScanTo(c) - prev[c].cursor <= MaxChunk
  BY DEF ApplyAllowed
<1>4. Scanned(c) \in Overviews /\ Scanned(c).cursor = ScanTo(c)
  BY <1>1, <1>2 DEF Scanned, Overviews
<1>5. start > 0
  BY <1>1, <1>3 DEF IInv, TypeOK, OriginOK
<1>6. row' = Scanned(c) /\ row'.cursor = ScanTo(c) /\ UNCHANGED <<stored, audit, start>>
      /\ events' = events \cup Observations(row.cursor + 1, ScanTo(c))
  BY <1>3, <1>4 DEF CommitScan
<1>7. high' = IF ScanTo(c) > high THEN ScanTo(c) ELSE high
  BY <1>2, <1>6 DEF CommitScan, Larger, IInv, TypeOK
<1> QED BY <1>1, <1>2, <1>3, <1>4, <1>5, <1>6, <1>7 DEF IInv, TypeOK

\* Committing a chunk, whether or not the reply arrives.
LEMMA ApplyIInv ==
  ASSUME IInv, NEW c \in Controllers, Apply(c) \/ ApplyReplyLost(c)
  PROVE  IInv'
<1>1. /\ pc[c] = "apply" /\ ApplyAllowed(c) /\ CommitScan(c)
      /\ pc' = [pc EXCEPT ![c] = "save"]
      /\ UNCHANGED <<nodeVars, up, fin, ackVars, faultVars>>
  BY DEF Apply, ApplyReplyLost
<1> DEFINE to == ScanTo(c)
<1>2. /\ to \in Nat /\ to > row.cursor /\ start > 0
      /\ row' \in Overviews /\ row'.cursor = to /\ Scanned(c) \in Overviews /\ Scanned(c).cursor = to
      /\ high' \in Nat /\ high' >= high /\ high' >= to
      /\ events' \subseteq Authored /\ UNCHANGED <<stored, audit, start>>
  <2> HIDE DEF to
  <2> QED BY <1>1, CommitScanOK, ObservationsType DEF IInv, TypeOK, to
<1>3. row.cursor = prev[c].cursor
  BY <1>1 DEF ApplyAllowed
<1>4. PICK next \in Overviews : prev' = [prev EXCEPT ![c] = next] /\ next.cursor \in {row.cursor, to}
  <2>1. CASE Apply(c)
    BY <1>2, <2>1 DEF Apply
  <2>2. CASE ApplyReplyLost(c)
    <3>1. prev[c] \in Overviews
      BY DEF IInv, TypeOK
    <3>2. [prev[c] EXCEPT !.recovery = FALSE] \in Overviews
          /\ [prev[c] EXCEPT !.recovery = FALSE].cursor = row.cursor
      BY <1>3, <3>1 DEF Overviews
    <3>3. prev' = [prev EXCEPT ![c] = [prev[c] EXCEPT !.recovery = FALSE]]
      BY <2>2 DEF ApplyReplyLost
    <3> QED BY <3>2, <3>3
  <2> QED BY <2>1, <2>2
<1> HIDE DEF to
<1>5. TypeOK'
  BY <1>1, <1>2, <1>4 DEF IInv, TypeOK, nodeVars, ackVars, faultVars
<1>6. CollectOK'
  <2> SUFFICES ASSUME NEW d \in Controllers
               PROVE  /\ pc'[d] \in {"scan", "apply"} =>
                           prev'[d].cursor > 0 /\ fin'[d] # Unavailable /\ fin'[d] > prev'[d].cursor
                      /\ pc'[d] \in {"scan", "apply", "save"} /\ start' > 0 =>
                           start' <= prev'[d].cursor /\ prev'[d].cursor <= high'
    BY DEF CollectOK
  <2>1. CASE d = c
    BY <1>1, <1>2, <1>4, <2>1 DEF IInv, TypeOK, OriginOK, Overviews
  <2>2. CASE d # c
    BY <1>1, <1>2, <1>4, <2>2 DEF IInv, TypeOK, CollectOK, Overviews
  <2> QED BY <2>1, <2>2
<1>7. AckOK'
  BY <1>1 DEF IInv, AckOK, ackVars
<1>8. OriginOK'
  BY <1>2 DEF IInv, OriginOK, TypeOK, Overviews
<1> QED BY <1>5, <1>6, <1>7, <1>8 DEF IInv

LEMMA ReturnType ==
  ASSUME TypeOK, NEW c \in Controllers, Return(c)
  PROVE  /\ pc' \in [Controllers -> {"idle", "load", "scan", "apply", "save"}]
         /\ fin' \in [Controllers -> Nat \cup {Unavailable}]
         /\ prev' \in [Controllers -> Overviews]
         /\ pc'[c] = "idle"
         /\ \A d \in Controllers : d # c => pc'[d] = pc[d] /\ fin'[d] = fin[d] /\ prev'[d] = prev[d]
  BY EmptyType DEF Return, TypeOK

\* Saving the overview a controller holds: the only write without a check.
LEMMA SaveIInv ==
  ASSUME IInv, NEW c \in Controllers, Save(c)
  PROVE  IInv'
<1>1. pc[c] = "save" /\ SaveOverview(prev[c]) /\ Return(c) /\ UNCHANGED <<nodeVars, up, ackVars, faultVars>>
  BY DEF Save
<1>2. prev[c] \in Overviews /\ prev[c].cursor \in Nat
  BY DEF IInv, TypeOK, Overviews
<1>3. /\ stored' = TRUE /\ row' = prev[c] /\ UNCHANGED <<events, audit>>
      /\ start' = IF start = 0 THEN prev[c].cursor ELSE start
      /\ high' = IF high >= prev[c].cursor THEN high ELSE prev[c].cursor
  BY <1>1 DEF SaveOverview, Larger
<1>4. start > 0 => start <= prev[c].cursor /\ prev[c].cursor <= high
  BY <1>1 DEF IInv, CollectOK
<1>5. TypeOK'
  BY <1>1, <1>2, <1>3, ReturnType DEF IInv, TypeOK, nodeVars, ackVars, faultVars
<1>6. OriginOK'
  BY <1>2, <1>3, <1>4 DEF IInv, TypeOK, OriginOK
<1>7. CollectOK'
  <2>1. CASE start > 0
    <3>1. start' = start /\ high' = high
      BY <1>2, <1>3, <1>4, <2>1 DEF IInv, TypeOK
    <3> QED BY <1>1, <3>1, ReturnType DEF IInv, CollectOK
  <2>2. CASE start = 0
    <3>1. \A d \in Controllers : d = c
      BY <2>2, HistoryAssumption DEF IInv, OriginOK
    <3> QED BY <1>1, <3>1, ReturnType DEF IInv, CollectOK
  <2> QED BY <2>1, <2>2 DEF IInv, TypeOK
<1>8. AckOK'
  BY <1>1 DEF IInv, AckOK, ackVars
<1> QED BY <1>5, <1>6, <1>7, <1>8 DEF IInv

LEMMA AckReturnType ==
  ASSUME TypeOK, NEW a \in Approvers, AckReturn(a)
  PROVE  /\ ackPc' \in [Approvers -> {"idle", "discarded", "probe", "write"}]
         /\ ackCursor' \in [Approvers -> Nat] /\ ackFin' \in [Approvers -> Nat]
         /\ ackPc'[a] = "idle"
         /\ \A b \in Approvers : b # a =>
              ackPc'[b] = ackPc[b] /\ ackCursor'[b] = ackCursor[b] /\ ackFin'[b] = ackFin[b]
  BY DEF AckReturn, TypeOK

\* The checks of an acknowledgement, which write nothing.
LEMMA AckReadIInv ==
  ASSUME IInv, NEW a \in Approvers,
         \/ \E expected \in 1..MaxBlock : AckBegin(a, expected)
         \/ AckDiscarded(a) \/ AckProbe(a) \/ AckError(a)
  PROVE  IInv'
<1>1. UNCHANGED <<nodeVars, dbVars, collectVars, faultVars>>
  BY DEF AckBegin, AckDiscarded, AckProbe, AckError
<1>2. CollectOK' /\ OriginOK'
  BY <1>1 DEF IInv, CollectOK, OriginOK, dbVars, collectVars
<1>3. /\ ackPc' \in [Approvers -> {"idle", "discarded", "probe", "write"}]
      /\ ackCursor' \in [Approvers -> Nat] /\ ackFin' \in [Approvers -> Nat] /\ AckOK'
  <2>1. CASE \E expected \in 1..MaxBlock : AckBegin(a, expected)
    <3>1. PICK expected \in 1..MaxBlock : AckBegin(a, expected)
      BY <2>1
    <3>2. expected \in Nat
      BY HistoryAssumption
    <3> QED BY <3>1, <3>2 DEF AckBegin, IInv, TypeOK, AckOK
  <2>2. CASE AckDiscarded(a) \/ AckProbe(a)
    BY <2>2 DEF AckDiscarded, AckProbe, IInv, TypeOK, AckOK
  <2>3. CASE AckError(a)
    BY <2>3, AckReturnType DEF AckError, IInv, AckOK
  <2> QED BY <2>1, <2>2, <2>3
<1>4. TypeOK'
  BY <1>1, <1>3 DEF IInv, TypeOK, nodeVars, dbVars, collectVars, faultVars
<1> QED BY <1>2, <1>3, <1>4 DEF IInv

\* What the rebase transaction does to the database.
LEMMA AckWriteOK ==
  ASSUME IInv, NEW a \in Approvers, AckWrite(a)
  PROVE  /\ row' \in Overviews /\ row'.cursor \in Nat /\ row'.cursor > row.cursor
         /\ audit' = Append(audit, [from |-> row.cursor + 1, through |-> row'.cursor])
         /\ audit' \in Seq(Gaps)
         /\ high' = IF row'.cursor > high THEN row'.cursor ELSE high
         /\ start > 0 /\ stored
         /\ UNCHANGED <<stored, events, start>>
<1>1. ackCursor[a] \in Nat /\ ackCursor[a] > 0 /\ ackFin[a] \in Nat
      /\ ackFin[a] - ackCursor[a] > Window /\ Window \in Nat
  BY HistoryAssumption DEF AckWrite, IInv, TypeOK, AckOK
<1>2. Baseline(a) \in Nat /\ Baseline(a) > ackCursor[a]
  BY <1>1 DEF Baseline
<1> DEFINE gap == [from |-> ackCursor[a] + 1, through |-> Baseline(a)]
<1>3. gap \in Gaps
  BY <1>1, <1>2 DEF Gaps
<1>4. row.cursor = ackCursor[a] /\ stored /\ audit' = Append(audit, gap)
      /\ row' = [cursor |-> Baseline(a), gap |-> gap, recovery |-> FALSE]
      /\ high' = Larger(high, Baseline(a)) /\ UNCHANGED <<stored, events, start>>
  BY DEF AckWrite
<1>5. row' \in Overviews /\ row'.cursor = Baseline(a)
  <2> HIDE DEF gap
  <2> QED BY <1>2, <1>3, <1>4 DEF Overviews
<1>6. audit' \in Seq(Gaps)
  BY <1>3, <1>4 DEF IInv, TypeOK
<1>7. high' = IF row'.cursor > high THEN row'.cursor ELSE high
  BY <1>2, <1>4, <1>5 DEF Larger, IInv, TypeOK
<1>8. start > 0
  BY <1>1, <1>4 DEF IInv, TypeOK, OriginOK
<1> QED BY <1>1, <1>2, <1>4, <1>5, <1>6, <1>7, <1>8

LEMMA AckWriteIInv ==
  ASSUME IInv, NEW a \in Approvers, AckWrite(a)
  PROVE  IInv'
<1>1. AckReturn(a) /\ UNCHANGED <<nodeVars, stored, events, start, collectVars, faultVars>>
  BY DEF AckWrite
<1>2. high' \in Nat /\ high' >= high /\ high' >= row'.cursor
  BY AckWriteOK DEF IInv, TypeOK
<1>3. TypeOK'
  BY <1>1, <1>2, AckWriteOK, AckReturnType DEF IInv, TypeOK, nodeVars, collectVars, faultVars
<1>4. CollectOK'
  <2> SUFFICES ASSUME NEW c \in Controllers, pc[c] \in {"scan", "apply", "save"}, start > 0
               PROVE  prev[c].cursor <= high'
    BY <1>1, AckWriteOK DEF IInv, CollectOK, collectVars
  <2>1. prev[c].cursor \in Nat /\ prev[c].cursor <= high
    BY DEF IInv, TypeOK, CollectOK, Overviews
  <2> QED BY <1>2, <2>1 DEF IInv, TypeOK
<1>5. AckOK'
  BY <1>1, AckReturnType DEF IInv, AckOK
<1>6. OriginOK'
  BY <1>2, AckWriteOK DEF IInv, TypeOK, OriginOK, Overviews
<1> QED BY <1>3, <1>4, <1>5, <1>6 DEF IInv

LEMMA ProcessIInv ==
  ASSUME IInv, NEW c \in Controllers, Crash(c) \/ Boot(c)
  PROVE  IInv'
<1>1. UNCHANGED <<nodeVars, dbVars>> /\ crashes' \in Nat /\ settled' = settled
      /\ up' \in [Controllers -> BOOLEAN]
  <2>1. crashes \in Nat /\ up \in [Controllers -> BOOLEAN]
    BY DEF IInv, TypeOK
  <2>2. CASE Crash(c)
    BY <2>1, <2>2 DEF Crash
  <2>3. CASE Boot(c)
    BY <2>1, <2>3 DEF Boot, faultVars
  <2> QED BY <2>2, <2>3
<1>2. OriginOK'
  BY <1>1 DEF IInv, OriginOK, dbVars
<1>3. CASE Crash(c)
  <2>1. c \in Approvers /\ Return(c) /\ AckReturn(c)
    BY <1>3 DEF Crash, Approvers
  <2>2. CollectOK' /\ AckOK'
    BY <1>1, <2>1, ReturnType, AckReturnType DEF IInv, CollectOK, AckOK, dbVars
  <2>3. TypeOK'
    BY <1>1, <2>1, ReturnType, AckReturnType DEF IInv, TypeOK, nodeVars, dbVars
  <2> QED BY <1>2, <2>2, <2>3 DEF IInv
<1>4. CASE Boot(c)
  <2>1. UNCHANGED <<pc, fin, prev, ackVars, crashes>>
    BY <1>4 DEF Boot, faultVars
  <2>2. CollectOK' /\ AckOK'
    BY <1>1, <2>1 DEF IInv, CollectOK, AckOK, dbVars, ackVars
  <2>3. TypeOK'
    BY <1>1, <2>1 DEF IInv, TypeOK, nodeVars, dbVars, ackVars
  <2> QED BY <1>2, <2>2, <2>3 DEF IInv
<1> QED BY <1>3, <1>4

----------------------------------------------------------------------------
(* The invariant and what follows from it.                                 *)

LEMMA NextIInv == IInv /\ [Next]_vars => IInv'
<1> SUFFICES ASSUME IInv, [Next]_vars PROVE IInv'
  OBVIOUS
<1>1. CASE Node \/ Settle
  BY <1>1, NodeIInv
<1>2. ASSUME NEW c \in Controllers, Collect(c) PROVE IInv'
  BY <1>2, CollectReadIInv, CollectLoadIInv, ApplyIInv, SaveIInv DEF Collect
<1>3. ASSUME NEW c \in Controllers, Crash(c) \/ Boot(c) PROVE IInv'
  BY <1>3, ProcessIInv
<1>4. ASSUME NEW a \in Approvers, Acknowledge(a) PROVE IInv'
  BY <1>4, AckReadIInv, AckWriteIInv DEF Acknowledge
<1>5. CASE UNCHANGED vars
  BY <1>5 DEF vars, nodeVars, dbVars, collectVars, ackVars, faultVars, IInv, TypeOK,
     CollectOK, AckOK, OriginOK
<1> QED BY <1>1, <1>2, <1>3, <1>4, <1>5 DEF Next

\* Every reachable state of the history satisfies the invariant: what rounds and
\* approvals hold between two of their steps fits the stored row.
THEOREM Inductive == Spec => []IInv
  BY InitIInv, NextIInv, PTL DEF Spec

\* Every variable keeps its type in every reachable state.
THEOREM TypeCorrect == Spec => []TypeOK
<1>1. IInv => TypeOK
  BY DEF IInv
<1> QED BY <1>1, Inductive, PTL

----------------------------------------------------------------------------
(* The ledger, over any values of its variables.                           *)

\* The ledger's promise with what makes it inductive.
LedgerInv == Ledger!TypeOK /\ Ledger!Ordered /\ Ledger!Accounted

LEMMA BlocksType == Authored \subseteq Nat
  BY HistoryAssumption

LEMMA ExtendAccounts ==
  ASSUME LedgerInv, Ledger!Extend
  PROVE  LedgerInv'
<1>1. Ledger!TypeOK' /\ Ledger!Ordered'
  BY DEF LedgerInv, Ledger!Extend, Ledger!Reach, Ledger!TypeOK, Ledger!Ordered
<1>2. Ledger!Accounted'
  BY BlocksType DEF LedgerInv, Ledger!Extend, Ledger!Reach, Ledger!TypeOK, Ledger!Ordered,
     Ledger!Accounted, Ledger!Excused
<1> QED BY <1>1, <1>2 DEF LedgerInv

LEMMA ExcuseAccounts ==
  ASSUME LedgerInv, Ledger!Excuse
  PROVE  LedgerInv'
<1>1. Ledger!TypeOK' /\ Ledger!Ordered'
  BY DEF LedgerInv, Ledger!Excuse, Ledger!Reach, Ledger!TypeOK, Ledger!Ordered
<1>2. /\ Len(audit') = Len(audit) + 1
      /\ \A i \in 1..Len(audit) : audit'[i] = audit[i]
      /\ audit'[Len(audit')] = [from |-> row.cursor + 1, through |-> row.cursor']
  BY DEF LedgerInv, Ledger!Excuse, Ledger!TypeOK
<1>3. ASSUME NEW b, Ledger!Excused(b) PROVE Ledger!Excused(b)'
  BY <1>2, <1>3 DEF LedgerInv, Ledger!Excused, Ledger!TypeOK
<1>4. ASSUME NEW b \in Nat, row.cursor < b, b <= row.cursor' PROVE Ledger!Excused(b)'
  <2>1. Len(audit') \in 1..Len(audit') /\ row.cursor + 1 <= b
    BY <1>2, <1>4 DEF LedgerInv, Ledger!TypeOK
  <2> QED BY <1>2, <1>4, <2>1 DEF Ledger!Excused
<1>5. Ledger!Accounted'
  BY <1>3, <1>4, BlocksType DEF LedgerInv, Ledger!Excuse, Ledger!Reach, Ledger!TypeOK,
     Ledger!Ordered, Ledger!Accounted
<1> QED BY <1>1, <1>5 DEF LedgerInv

\* Whatever the order of scans, write-offs and rewinds, no authored block
\* between the origin and the frontier is ever left unaccounted for.
THEOREM LedgerAccounted == Ledger!Spec => []Ledger!Accounted
<1>1. Ledger!Init => LedgerInv
  BY BlocksType DEF Ledger!Init, LedgerInv, Ledger!TypeOK, Ledger!Ordered, Ledger!Accounted
<1>2. LedgerInv /\ [Ledger!Next]_(Ledger!vars) => LedgerInv'
  <2> SUFFICES ASSUME LedgerInv, [Ledger!Next]_(Ledger!vars) PROVE LedgerInv'
    OBVIOUS
  <2>1. CASE Ledger!Originate
    <3>1. Ledger!TypeOK' /\ Ledger!Ordered' /\ start' = high'
      BY <2>1 DEF LedgerInv, Ledger!Originate, Ledger!TypeOK, Ledger!Ordered
    <3>2. Ledger!Accounted'
      BY <3>1, BlocksType DEF Ledger!TypeOK, Ledger!Accounted
    <3> QED BY <3>1, <3>2 DEF LedgerInv
  <2>2. CASE Ledger!Revisit
    BY <2>2 DEF LedgerInv, Ledger!Revisit, Ledger!TypeOK, Ledger!Ordered, Ledger!Accounted,
       Ledger!Excused
  <2>3. CASE UNCHANGED Ledger!vars
    BY <2>3 DEF LedgerInv, Ledger!vars, Ledger!TypeOK, Ledger!Ordered, Ledger!Accounted,
       Ledger!Excused
  <2> QED BY <2>1, <2>2, <2>3, ExtendAccounts, ExcuseAccounts DEF Ledger!Next
<1>3. LedgerInv => Ledger!Accounted
  BY DEF LedgerInv
<1> QED BY <1>1, <1>2, <1>3, PTL DEF Ledger!Spec

----------------------------------------------------------------------------
(* The history implements the ledger.                                      *)

\* Every step of the detailed history is a step of the ledger or leaves the
\* ledger as it is: each commit is a scan extended from an accounted cursor,
\* each rebase a write-off from one, and an unchecked save at worst goes back.
LEMMA StepRefines == IInv /\ [Next]_vars => [Ledger!Next]_(Ledger!vars)
<1> SUFFICES ASSUME IInv, [Next]_vars PROVE [Ledger!Next]_(Ledger!vars)
  OBVIOUS
<1>1. ASSUME UNCHANGED dbVars PROVE UNCHANGED Ledger!vars
  BY <1>1 DEF dbVars, Ledger!vars
<1>2. ASSUME NEW c \in Controllers, Apply(c) \/ ApplyReplyLost(c) PROVE Ledger!Extend
  <2>1. pc[c] = "apply" /\ ApplyAllowed(c) /\ CommitScan(c)
    BY <1>2 DEF Apply, ApplyReplyLost
  <2>2. row.cursor \in Nat /\ row'.cursor = ScanTo(c) /\ ScanTo(c) \in Nat
    BY <2>1, CommitScanOK DEF IInv, TypeOK, Overviews
  <2>3. Observations(row.cursor + 1, ScanTo(c)) = {b \in Authored : row.cursor < b /\ b <= row'.cursor}
    <3>1. \A b \in Authored : row.cursor + 1 <= b <=> row.cursor < b
      BY <2>2, HistoryAssumption
    <3> QED BY <2>2, <3>1 DEF Observations
  <2>4. events' = events \cup {b \in Authored : row.cursor < b /\ b <= row'.cursor}
    BY <2>1, <2>3, CommitScanOK
  <2> QED BY <2>1, <2>2, <2>4, CommitScanOK DEF Ledger!Extend, Ledger!Reach
<1>3. ASSUME NEW c \in Controllers, Save(c) PROVE Ledger!Originate \/ Ledger!Revisit
  <2>1. prev[c].cursor \in Nat /\ row' = prev[c] /\ pc[c] = "save" /\ UNCHANGED <<events, audit>>
        /\ start' = (IF start = 0 THEN prev[c].cursor ELSE start)
        /\ high' = (IF high >= prev[c].cursor THEN high ELSE prev[c].cursor)
    BY <1>3 DEF Save, SaveOverview, Larger, IInv, TypeOK, Overviews
  <2>2. CASE start = 0
    <3>1. high = 0
      BY <2>2 DEF IInv, OriginOK
    <3>2. start' = row'.cursor /\ high' = row'.cursor
      BY <2>1, <2>2, <3>1
    <3> QED BY <2>1, <2>2, <3>2 DEF Ledger!Originate
  <2>3. CASE start > 0
    <3>1. start <= prev[c].cursor /\ prev[c].cursor <= high
      BY <2>1, <2>3 DEF IInv, CollectOK
    <3>2. start' = start /\ high' = high
      BY <2>1, <2>3, <3>1 DEF IInv, TypeOK
    <3> QED BY <2>1, <3>1, <3>2 DEF IInv, TypeOK, Ledger!Revisit
  <2> QED BY <2>2, <2>3 DEF IInv, TypeOK
<1>4. ASSUME NEW a \in Approvers, AckWrite(a) PROVE Ledger!Excuse
  BY <1>4, AckWriteOK DEF Ledger!Excuse, Ledger!Reach
<1>5. CASE Node \/ Settle
  BY <1>1, <1>5 DEF Node, Finalize, Prune, Restore, Settle
<1>6. ASSUME NEW c \in Controllers, Collect(c) \/ Crash(c) \/ Boot(c)
      PROVE [Ledger!Next]_(Ledger!vars)
  <2>1. \/ UNCHANGED dbVars
        \/ Apply(c) \/ ApplyReplyLost(c) \/ Save(c)
    BY <1>6 DEF Collect, CollectBegin, CollectLoadError, CollectLoad, ScanBackedOff, ScanOk,
       ScanPruned, ScanOrApplyError, SaveError, Crash, Boot
  <2> QED BY <1>1, <1>2, <1>3, <2>1 DEF Ledger!Next
<1>7. ASSUME NEW a \in Approvers, Acknowledge(a) PROVE [Ledger!Next]_(Ledger!vars)
  <2>1. UNCHANGED dbVars \/ AckWrite(a)
    BY <1>7 DEF Acknowledge, AckBegin, AckDiscarded, AckProbe, AckError
  <2> QED BY <1>1, <1>4, <2>1 DEF Ledger!Next
<1>8. CASE UNCHANGED vars
  BY <1>1, <1>8 DEF vars
<1> QED BY <1>5, <1>6, <1>7, <1>8 DEF Next

\* The history with its unchecked saves, lost replies, crashes, duplicate
\* controllers and concurrent acknowledgements implements the ledger.
THEOREM Refinement == Spec => RefinesLedger
<1>1. Init => Ledger!Init
  BY HistoryAssumption DEF Init, Ledger!Init, EmptyOverview
<1> QED BY <1>1, StepRefines, Inductive, PTL DEF Spec, RefinesLedger, Ledger!Spec

\* No authored block is ever passed over in silence, for every number of
\* controllers and approvers and every chunk, window and retention.
THEOREM NothingLost == Spec => []NoSilentLoss
<1>1. Ledger!Spec => []Ledger!Accounted
  BY LedgerAccounted
<1>2. Ledger!Accounted <=> NoSilentLoss
  BY DEF Ledger!Accounted, Ledger!Excused, NoSilentLoss, Excused
<1> QED BY <1>1, <1>2, Refinement, PTL DEF RefinesLedger

----------------------------------------------------------------------------
(* The documented procedure: one controller, and the command only while it *)
(* is stopped.  Then no statement of another process comes between the     *)
(* load of a round and its unchecked save.                                 *)

Procedure == ~CliConcurrent /\ \A c, d \in Controllers : c = d

\* rewardMu and the procedure keep rounds and approvals apart.
Apart ==
  /\ \A c \in Controllers : pc[c] = "idle" \/ ackPc[c] = "idle"
  /\ \A c \in Controllers : ~up[c] => pc[c] = "idle" /\ ackPc[c] = "idle"
  /\ \A a \in Clis : ackPc[a] # "idle" => \A c \in Controllers : ~up[c]

\* The overview a round holds is the stored one, or the one it has just committed;
\* only the lost reply of a commit leaves it behind.
Held ==
  \A c \in Controllers : pc[c] \in {"scan", "apply", "save"} =>
    prev[c].gap = row.gap /\ (LostReplies \/ prev[c].cursor >= row.cursor)

\* The row before the first save, and the last gap of the row.
Stored ==
  /\ ~stored => row = EmptyOverview /\ audit = <<>>
  /\ OverviewKeepsGap

PInv == Apart /\ Held /\ Stored

LEMMA InitPInv == Init => PInv
<1> SUFFICES ASSUME Init PROVE PInv
  OBVIOUS
<1>1. Apart /\ Held
  BY DEF Init, Apart, Held, Approvers
<1>2. Stored
  BY DEF Init, Stored, OverviewKeepsGap
<1> QED BY <1>1, <1>2 DEF PInv

\* Steps outside the goroutines, and the end of the errors.
LEMMA NodePInv ==
  ASSUME PInv, Node \/ Settle
  PROVE  PInv'
<1>1. UNCHANGED <<dbVars, collectVars, ackVars>>
  BY DEF Node, Finalize, Prune, Restore, Settle
<1> QED BY <1>1 DEF PInv, Apart, Held, Stored, OverviewKeepsGap, dbVars, collectVars, ackVars

\* A round begins only while no approval is under way, and no round and no
\* approval begins in a controller that is down.
LEMMA CollectReadPInv ==
  ASSUME IInv, PInv, NEW c \in Controllers,
         \/ \E height \in {finalized, Unavailable} : CollectBegin(c, height)
         \/ CollectLoadError(c) \/ SaveError(c)
         \/ ScanBackedOff(c) \/ ScanOk(c) \/ ScanPruned(c) \/ ScanOrApplyError(c)
  PROVE  PInv'
<1> USE DEF dbVars, nodeVars, ackVars, faultVars
<1>1. Stored'
  BY DEF CollectBegin, CollectLoadError, SaveError, ScanBackedOff, ScanOk, ScanPruned,
     ScanOrApplyError, PInv, Stored, OverviewKeepsGap
<1>2. pc \in [Controllers -> {"idle", "load", "scan", "apply", "save"}]
      /\ prev \in [Controllers -> Overviews]
  BY DEF IInv, TypeOK
<1>3. CASE \E height \in {finalized, Unavailable} : CollectBegin(c, height)
  <2>1. UNCHANGED <<ackPc, up, prev, row>> /\ up[c] /\ ackPc[c] = "idle" /\ pc' = [pc EXCEPT ![c] = "load"]
    BY <1>3 DEF CollectBegin, MuHeld
  <2> QED BY <1>1, <1>2, <2>1 DEF PInv, Apart, Held
<1>4. CASE CollectLoadError(c) \/ SaveError(c)
  <2>1. UNCHANGED <<ackPc, up, row>> /\ Return(c)
    BY <1>4 DEF CollectLoadError, SaveError
  <2> QED BY <1>1, <1>2, <2>1 DEF PInv, Apart, Held, Return
<1>5. CASE ScanBackedOff(c) \/ ScanOk(c) \/ ScanPruned(c) \/ ScanOrApplyError(c)
  <2>1. /\ UNCHANGED <<ackPc, up, row>> /\ pc[c] \in {"scan", "apply"}
        /\ pc' = [pc EXCEPT ![c] = "apply"] \/ pc' = [pc EXCEPT ![c] = "save"]
        /\ \A d \in Controllers : prev'[d].cursor = prev[d].cursor /\ prev'[d].gap = prev[d].gap
    <3>1. CASE ScanBackedOff(c) \/ ScanOk(c)
      BY <3>1 DEF ScanBackedOff, ScanOk
    <3>2. CASE ScanPruned(c) \/ ScanOrApplyError(c)
      BY <1>2, <3>2 DEF ScanPruned, ScanOrApplyError, Overviews
    <3> QED BY <1>5, <3>1, <3>2
  <2> QED BY <1>1, <1>2, <2>1 DEF PInv, Apart, Held
<1> QED BY <1>3, <1>4, <1>5

\* What is loaded is what is stored.
LEMMA CollectLoadPInv ==
  ASSUME IInv, PInv, NEW c \in Controllers, CollectLoad(c)
  PROVE  PInv'
<1>1. Loaded(c) \in Overviews /\ NothingToScan(c, Loaded(c)) \in Overviews
  BY LoadedType DEF IInv
<1>2. row \in Overviews /\ fin[c] \in Nat \cup {Unavailable}
  BY DEF IInv, TypeOK
<1>3. Loaded(c).gap = row.gap /\ Loaded(c).cursor >= row.cursor
  BY <1>1, <1>2 DEF PInv, Stored, Loaded, Overviews, EmptyOverview, Unavailable
<1>4. NothingToScan(c, Loaded(c)).gap = row.gap /\ NothingToScan(c, Loaded(c)).cursor >= row.cursor
  BY <1>1, <1>2, <1>3 DEF NothingToScan, Overviews, Unavailable
<1>5. PICK next \in {Loaded(c), NothingToScan(c, Loaded(c))} :
        prev' = [prev EXCEPT ![c] = next] /\ (pc' = [pc EXCEPT ![c] = "scan"] \/ pc' = [pc EXCEPT ![c] = "save"])
  BY DEF CollectLoad
<1>6. next.gap = row.gap /\ next.cursor >= row.cursor
  BY <1>3, <1>4
<1>7. UNCHANGED <<dbVars, up, ackPc>> /\ pc[c] = "load"
  BY DEF CollectLoad, ackVars
<1>8. pc \in [Controllers -> {"idle", "load", "scan", "apply", "save"}]
      /\ prev \in [Controllers -> Overviews]
  BY DEF IInv, TypeOK
<1>9. Apart'
  BY <1>5, <1>7, <1>8 DEF PInv, Apart
<1>10. Held'
  BY <1>5, <1>6, <1>7, <1>8 DEF PInv, Held, dbVars
<1>11. Stored'
  BY <1>7 DEF PInv, Stored, OverviewKeepsGap, dbVars
<1> QED BY <1>9, <1>10, <1>11 DEF PInv

\* A commit puts the row at the end of the chunk; the controller holds the same
\* overview unless the reply was lost.
LEMMA ApplyPInv ==
  ASSUME Procedure, IInv, PInv, NEW c \in Controllers, Apply(c) \/ ApplyReplyLost(c)
  PROVE  PInv' /\ row'.cursor >= row.cursor
<1>1. /\ pc[c] = "apply" /\ ApplyAllowed(c) /\ CommitScan(c)
      /\ pc' = [pc EXCEPT ![c] = "save"] /\ UNCHANGED <<up, ackPc>>
  BY DEF Apply, ApplyReplyLost, ackVars
<1>2. /\ pc \in [Controllers -> {"idle", "load", "scan", "apply", "save"}]
      /\ prev \in [Controllers -> Overviews] /\ row \in Overviews
  BY DEF IInv, TypeOK
<1>3. /\ row' = Scanned(c) /\ Scanned(c) \in Overviews /\ ScanTo(c) \in Nat
      /\ row'.cursor = ScanTo(c) /\ ScanTo(c) > row.cursor /\ UNCHANGED <<stored, audit>>
  BY <1>1, CommitScanOK
<1>4. Scanned(c).gap = prev[c].gap /\ prev[c].gap = row.gap
  BY <1>1, <1>2 DEF Scanned, Overviews, PInv, Held
<1>5. prev'[c].gap = row'.gap /\ (LostReplies \/ prev'[c].cursor >= row'.cursor)
  <2>1. CASE Apply(c)
    BY <1>2, <1>3, <2>1 DEF Apply
  <2>2. CASE ApplyReplyLost(c)
    BY <1>2, <1>3, <1>4, <2>2 DEF ApplyReplyLost, Overviews
  <2> QED BY <2>1, <2>2
<1>6. Apart'
  BY <1>1, <1>2 DEF PInv, Apart
<1>7. Held'
  BY <1>5 DEF Procedure, Held
<1>8. Stored'
  BY <1>1, <1>3, <1>4 DEF PInv, Stored, OverviewKeepsGap, ApplyAllowed
<1>9. row'.cursor >= row.cursor
  BY <1>2, <1>3 DEF Overviews
<1> QED BY <1>6, <1>7, <1>8, <1>9 DEF PInv

\* The unchecked save writes back what is stored.
LEMMA SavePInv ==
  ASSUME Procedure, IInv, PInv, NEW c \in Controllers, Save(c)
  PROVE  PInv' /\ (LostReplies \/ row'.cursor >= row.cursor)
<1>1. /\ pc[c] = "save" /\ stored' = TRUE /\ row' = prev[c] /\ audit' = audit
      /\ UNCHANGED <<up, ackPc>> /\ Return(c)
  BY DEF Save, SaveOverview, ackVars
<1>2. row'.gap = row.gap /\ (LostReplies \/ row'.cursor >= row.cursor)
  BY <1>1 DEF PInv, Held
<1>3. pc'[c] = "idle" /\ \A d \in Controllers : d # c => pc'[d] = pc[d]
  BY <1>1, ReturnType DEF IInv
<1>4. Apart'
  BY <1>1, <1>3 DEF PInv, Apart
<1>5. Held'
  BY <1>3 DEF Procedure, Held
<1>6. Stored'
  BY <1>1, <1>2 DEF PInv, Stored, OverviewKeepsGap
<1> QED BY <1>2, <1>4, <1>5, <1>6 DEF PInv

\* An approval begins while no round is under way.
LEMMA AckReadPInv ==
  ASSUME Procedure, IInv, PInv, NEW a \in Approvers,
         \/ \E expected \in 1..MaxBlock : AckBegin(a, expected)
         \/ AckDiscarded(a) \/ AckProbe(a) \/ AckError(a)
  PROVE  PInv'
<1>1. UNCHANGED <<dbVars, collectVars>>
  BY DEF AckBegin, AckDiscarded, AckProbe, AckError
<1>2. Held' /\ Stored'
  BY <1>1 DEF PInv, Held, Stored, OverviewKeepsGap, dbVars, collectVars
<1>3. ackPc \in [Approvers -> {"idle", "discarded", "probe", "write"}] /\ Controllers \cap Clis = {}
      /\ Approvers = Controllers \cup Clis
  BY HistoryAssumption DEF IInv, TypeOK, Approvers
<1>4. Apart'
  <2>1. CASE \E expected \in 1..MaxBlock : AckBegin(a, expected)
    <3>1. /\ ackPc' = [ackPc EXCEPT ![a] = "discarded"]
          /\ IF a \in Controllers THEN up[a] /\ pc[a] = "idle" ELSE \A c \in Controllers : ~up[c]
      BY <2>1 DEF AckBegin, MayStart, MuHeld, Procedure
    <3> QED BY <1>1, <1>3, <3>1 DEF PInv, Apart, collectVars
  <2>2. CASE AckDiscarded(a) \/ AckProbe(a) \/ AckError(a)
    <3>1. PICK next \in {"idle", "probe", "write"} : ackPc' = [ackPc EXCEPT ![a] = next]
      BY <2>2 DEF AckDiscarded, AckProbe, AckError, AckReturn
    <3>2. ackPc[a] # "idle"
      BY <2>2 DEF AckDiscarded, AckProbe, AckError
    <3> QED BY <1>1, <1>3, <3>1, <3>2 DEF PInv, Apart, collectVars
  <2> QED BY <2>1, <2>2
<1> QED BY <1>2, <1>4 DEF PInv

\* The rebase finds no round under way and moves the cursor forward.
LEMMA AckWritePInv ==
  ASSUME Procedure, IInv, PInv, NEW a \in Approvers, AckWrite(a)
  PROVE  PInv' /\ row'.cursor >= row.cursor
<1>1. /\ ackPc[a] = "write" /\ stored /\ AckReturn(a) /\ UNCHANGED <<stored, collectVars>>
      /\ \E gap : audit' = Append(audit, gap) /\ row'.gap = gap
  BY DEF AckWrite
<1>2. Controllers \cap Clis = {} /\ Approvers = Controllers \cup Clis
  BY HistoryAssumption DEF Approvers
<1>3. \A c \in Controllers : pc[c] = "idle"
  BY <1>1, <1>2 DEF Procedure, PInv, Apart
<1>4. Apart'
  BY <1>1, <1>2, AckReturnType DEF IInv, PInv, Apart, collectVars
<1>5. Held'
  BY <1>1, <1>3 DEF Held, collectVars
<1>6. Stored'
  <2>1. audit \in Seq(Gaps)
    BY DEF IInv, TypeOK
  <2> QED BY <1>1, <2>1 DEF Stored, OverviewKeepsGap
<1>7. row'.cursor > row.cursor /\ row'.cursor \in Nat /\ row.cursor \in Nat
  BY AckWriteOK DEF IInv, TypeOK, Overviews
<1> QED BY <1>4, <1>5, <1>6, <1>7 DEF PInv

LEMMA ProcessPInv ==
  ASSUME Procedure, IInv, PInv, NEW c \in Controllers, Crash(c) \/ Boot(c)
  PROVE  PInv'
<1>1. UNCHANGED dbVars
  BY DEF Crash, Boot
<1>2. Stored'
  BY <1>1 DEF PInv, Stored, OverviewKeepsGap, dbVars
<1>3. c \in Approvers /\ Controllers \cap Clis = {} /\ up \in [Controllers -> BOOLEAN]
      /\ Approvers = Controllers \cup Clis
  BY HistoryAssumption DEF Approvers, IInv, TypeOK
<1>4. CASE Crash(c)
  <2>1. up' = [up EXCEPT ![c] = FALSE] /\ Return(c) /\ AckReturn(c)
    BY <1>4 DEF Crash
  <2>2. /\ pc'[c] = "idle" /\ \A d \in Controllers : d # c => pc'[d] = pc[d]
        /\ ackPc'[c] = "idle" /\ \A b \in Approvers : b # c => ackPc'[b] = ackPc[b]
    BY <1>3, <2>1, ReturnType, AckReturnType DEF IInv
  <2>3. Apart'
    BY <1>3, <2>1, <2>2 DEF PInv, Apart
  <2>4. Held'
    BY <2>2 DEF Procedure, Held
  <2> QED BY <1>2, <2>3, <2>4 DEF PInv
<1>5. CASE Boot(c)
  <2>1. /\ UNCHANGED <<pc, prev, ackPc>> /\ up' = [up EXCEPT ![c] = TRUE]
        /\ \A a \in Clis : ackPc[a] = "idle"
    BY <1>5 DEF Boot, ackVars, Procedure
  <2>2. Apart'
    BY <1>3, <2>1 DEF PInv, Apart
  <2>3. Held'
    BY <1>1, <2>1 DEF PInv, Held, dbVars
  <2> QED BY <1>2, <2>2, <2>3 DEF PInv
<1> QED BY <1>4, <1>5

LEMMA NextPInv ==
  ASSUME Procedure, IInv, PInv, [Next]_vars
  PROVE  PInv' /\ (LostReplies \/ row'.cursor >= row.cursor)
<1>1. row.cursor \in Nat
  BY DEF IInv, TypeOK, Overviews
<1>2. ASSUME UNCHANGED dbVars PROVE row'.cursor >= row.cursor
  BY <1>1, <1>2 DEF dbVars
<1>3. CASE Node \/ Settle
  BY <1>2, <1>3, NodePInv DEF Node, Finalize, Prune, Restore, Settle
<1>4. ASSUME NEW c \in Controllers, Collect(c)
      PROVE PInv' /\ (LostReplies \/ row'.cursor >= row.cursor)
  <2>1. CASE Apply(c) \/ ApplyReplyLost(c) \/ Save(c)
    BY <2>1, ApplyPInv, SavePInv
  <2>2. CASE CollectLoad(c)
    BY <1>2, <2>2, CollectLoadPInv DEF CollectLoad
  <2>3. CASE \/ \E height \in {finalized, Unavailable} : CollectBegin(c, height)
             \/ CollectLoadError(c) \/ SaveError(c)
             \/ ScanBackedOff(c) \/ ScanOk(c) \/ ScanPruned(c) \/ ScanOrApplyError(c)
    <3>1. UNCHANGED dbVars
      BY <2>3 DEF CollectBegin, CollectLoadError, SaveError, ScanBackedOff, ScanOk, ScanPruned,
         ScanOrApplyError
    <3> QED BY <1>2, <2>3, <3>1, CollectReadPInv
  <2> QED BY <1>4, <2>1, <2>2, <2>3 DEF Collect
<1>5. ASSUME NEW c \in Controllers, Crash(c) \/ Boot(c)
      PROVE PInv' /\ row'.cursor >= row.cursor
  BY <1>2, <1>5, ProcessPInv DEF Crash, Boot
<1>6. ASSUME NEW a \in Approvers, Acknowledge(a)
      PROVE PInv' /\ row'.cursor >= row.cursor
  <2>1. CASE AckWrite(a)
    BY <2>1, AckWritePInv
  <2>2. CASE \/ \E expected \in 1..MaxBlock : AckBegin(a, expected)
             \/ AckDiscarded(a) \/ AckProbe(a) \/ AckError(a)
    <3>1. UNCHANGED dbVars
      BY <2>2 DEF AckBegin, AckDiscarded, AckProbe, AckError
    <3> QED BY <1>2, <2>2, <3>1, AckReadPInv
  <2> QED BY <1>6, <2>1, <2>2 DEF Acknowledge
<1>7. CASE UNCHANGED vars
  BY <1>2, <1>7 DEF vars, dbVars, collectVars, ackVars, PInv, Apart, Held, Stored, OverviewKeepsGap
<1> QED BY <1>3, <1>4, <1>5, <1>6, <1>7 DEF Next

LEMMA ProcedureInductive ==
  ASSUME Procedure
  PROVE  Spec => []PInv
<1>1. Init => PInv
  BY InitPInv
<1>2. IInv /\ PInv /\ [Next]_vars => PInv'
  BY NextPInv
<1> QED BY <1>1, <1>2, Inductive, PTL DEF Spec

\* Under the documented procedure the overview keeps the gap that was acknowledged
\* last, through every crash, failed save and lost reply, for any chunk, window and
\* retention (AcknowledgePrunedRewardGap, SaveRewardOverview).
THEOREM GapIsKept ==
  ASSUME Procedure
  PROVE  Spec => []OverviewKeepsGap
<1>1. PInv => OverviewKeepsGap
  BY DEF PInv, Stored
<1> QED BY <1>1, ProcedureInductive, PTL

\* And when no reply of a commit is lost either, the cursor never moves back.
THEOREM NeverRewinds ==
  ASSUME Procedure, ~LostReplies
  PROVE  Spec => CursorNeverRewinds
<1>1. IInv /\ PInv /\ [Next]_vars => [row'.cursor >= row.cursor]_vars
  BY NextPInv
<1> QED BY <1>1, Inductive, ProcedureInductive, PTL DEF Spec, CursorNeverRewinds

----------------------------------------------------------------------------
(* The evidence of the monitor (RewardEvidence), for any endpoints, any    *)
(* times between rounds, scans and attempts, and any limits.               *)

\* The three arrays of the endpoints, and the overviews of the monitor.
Memories == [ok : [Externals -> BOOLEAN], fails : [Externals -> 0 .. MaxFails],
             retry : [Externals -> Nat \cup {Never}]]
Findings == [active : BOOLEAN, schema : BOOLEAN, confirmations : 0 .. 2, gap : BOOLEAN,
             begun : Nat \cup {Never}, since : Nat \cup {Never}]

LEMMA BackoffType ==
  ASSUME NEW n \in Nat
  PROVE  Backoff(n) \in Nat
<1>1. 2 ^ 0 = 1 /\ 2 ^ 1 = 2 /\ 2 ^ 2 = 4 /\ 2 ^ 3 = 8 /\ 2 ^ 4 = 16
  BY SMT
<1> DEFINE k == AtMost(AtLeast(n, 1) - 1, 4)
<1>2. k = 0 \/ k = 1 \/ k = 2 \/ k = 3 \/ k = 4
  BY DEF AtMost, AtLeast
<1> HIDE DEF k
<1>3. 2 ^ k \in {1, 2, 4, 8, 16}
  BY <1>1, <1>2, Zenon
<1>4. Minute \in Nat /\ RetryMax \in Nat
  BY EvidenceAssumption
<1> DEFINE power == 2 ^ k
<1> HIDE DEF power
<1>5. Minute * power \in Nat
  BY <1>3, <1>4 DEF power
<1>6. AtMost(Minute * power, RetryMax) \in Nat
  BY <1>4, <1>5 DEF AtMost
<1> QED BY <1>6 DEF power, k, Backoff

LEMMA RecordedType ==
  ASSUME NEW m \in Memories,
         NEW asked, NEW good, NEW t \in Nat
  PROVE  Recorded(m, asked, good, t) \in Memories
<1> DEFINE failed == [i \in Externals |-> AtMost(m.fails[i] + 1, MaxFails)]
<1>1. Minute \in Nat /\ MaxFails \in Nat
  BY EvidenceAssumption
<1>2. \A i \in Externals : m.ok[i] \in BOOLEAN /\ m.fails[i] \in 0 .. MaxFails /\ m.retry[i] \in Nat \cup {Never}
  BY DEF Memories
<1>3. \A i \in Externals : failed[i] \in 0 .. MaxFails
  BY <1>1, <1>2 DEF AtMost
<1>4. \A i \in Externals : Backoff(failed[i]) \in Nat
  BY <1>1, <1>3, BackoffType
<1> HIDE DEF failed
<1>5. \A i \in Externals : t + Minute \in Nat /\ t + Backoff(failed[i]) \in Nat
  BY <1>1, <1>4
<1> DEFINE oks == [i \in Externals |-> IF i \in asked THEN i \in good ELSE m.ok[i]]
           counts == [i \in Externals |-> IF i \notin asked THEN m.fails[i]
                                          ELSE IF i \in good THEN 0 ELSE failed[i]]
           times == [i \in Externals |-> IF i \notin asked THEN m.retry[i]
                                         ELSE t + IF i \in good THEN Minute ELSE Backoff(failed[i])]
<1>6. oks \in [Externals -> BOOLEAN]
  <2>1. ASSUME NEW i \in Externals
        PROVE  (IF i \in asked THEN i \in good ELSE m.ok[i]) \in BOOLEAN
    <3>1. m.ok[i] \in BOOLEAN /\ (i \in good) \in BOOLEAN
      BY <1>2
    <3>2. CASE i \in asked
      BY <3>1, <3>2, Zenon
    <3>3. CASE i \notin asked
      BY <3>1, <3>3, Zenon
    <3> QED BY <3>2, <3>3
  <2> QED BY <2>1, Zenon
<1>7. counts \in [Externals -> 0 .. MaxFails]
  BY <1>1, <1>2, <1>3
<1>8. times \in [Externals -> Nat \cup {Never}]
  BY <1>2, <1>5
<1>9. Recorded(m, asked, good, t) = [ok |-> oks, fails |-> counts, retry |-> times]
  BY Zenon DEF Recorded, failed
<1> HIDE DEF oks, counts, times
<1>10. [ok |-> oks, fails |-> counts, retry |-> times] \in Memories
  BY <1>6, <1>7, <1>8 DEF Memories
<1> QED BY <1>9, <1>10

\* The page holds the newest reward and at most Page rows.
LEMMA LatestType ==
  ASSUME rows \in Seq(Verdicts), NEW newest \in Verdicts
  PROVE  Latest(newest) \in Seq(Verdicts) /\ Len(Latest(newest)) <= Page
<1> DEFINE all == <<newest>> \o rows
           last == AtMost(Len(rows) + 1, Page)
<1>1. Page \in Nat \ {0} /\ Len(rows) \in Nat
  BY EvidenceAssumption
<1>2. last \in Nat /\ 1 <= last /\ last <= Page /\ last <= Len(rows) + 1
  BY <1>1 DEF AtMost
<1>3. all \in Seq(Verdicts) /\ Len(all) = Len(rows) + 1
  OBVIOUS
<1> HIDE DEF all, last
<1>4. \A i \in 1 .. last : all[i] \in Verdicts
  BY <1>1, <1>2, <1>3
<1>5. SubSeq(all, 1, last) \in Seq(Verdicts) /\ Len(SubSeq(all, 1, last)) = last
  BY <1>2, <1>4, SubSeqProperties
<1> QED BY <1>2, <1>5 DEF Latest, all, last

----------------------------------------------------------------------------

\* An endpoint counts for a minute from when it was heard: the retry time of one that
\* answered is not later than that.
Heard ==
  \A i \in Externals :
    /\ at[i] <= heardAt[i] /\ heardAt[i] <= now
    /\ ok[i] => heardAt[i] # Never /\ retry[i] <= heardAt[i] + Minute

\* An overview without a gap leaves no block unscanned, or the scan of it is due within
\* ScanMax of the block; unless the overview of the last scan tried could not be saved.
Reached ==
  /\ authored <= now /\ scanNext <= now + ScanMax
  /\ forgotten \/ overview.gap \/ ~Unscanned(overview) \/ scanNext <= authored + ScanMax

EvidenceInv ==
  EvidenceTypeOK /\ Heard /\ Reached /\ MissingIsConfirmed /\ NoFalseSilence

LEMMA EvidenceBegun ==
  EvidenceInit => EvidenceInv
<1> SUFFICES ASSUME EvidenceInit PROVE EvidenceInv
  OBVIOUS
<1>1. EvidenceTypeOK
  <2>1. /\ now \in Nat /\ active \in BOOLEAN /\ authored \in Nat /\ flips \in Nat /\ restarts \in Nat
        /\ snap \in [Externals -> Views] /\ at \in [Externals -> Nat \cup {Never}]
        /\ ok \in [Externals -> BOOLEAN] /\ retry \in [Externals -> Nat \cup {Never}]
        /\ scanNext \in Nat \cup {Never} /\ raised \in Alarms
        /\ heardAt \in [Externals -> Nat \cup {Never}]
    BY DEF EvidenceInit, Never, Views, Alarms
  <2>2. overview \in Findings
    BY DEF EvidenceInit, First, Findings, Never
  <2>3. rows \in Seq(Verdicts) /\ Len(rows) <= Page /\ fails \in [Externals -> 0 .. MaxFails]
    BY EvidenceAssumption DEF EvidenceInit
  <2>4. forgotten \in BOOLEAN
    BY Zenon DEF EvidenceInit
  <2> QED BY <2>1, <2>2, <2>3, <2>4, Zenon DEF EvidenceTypeOK, Findings, Never
<1>2. Heard
  BY DEF Heard, Never, EvidenceInit
<1>3. Reached
  BY EvidenceAssumption DEF Reached, EvidenceInit, Never, First, Unscanned
<1>4. MissingIsConfirmed /\ NoFalseSilence
  BY DEF MissingIsConfirmed, NoFalseSilence, EvidenceInit
<1> QED BY <1>1, <1>2, <1>3, <1>4 DEF EvidenceInv

\* The steps between rounds: the clock, the chain, a round that cannot load the
\* overview, and a restart.
LEMMA BetweenRounds ==
  ASSUME EvidenceInv,
         Tick \/ Author \/ Rotate \/ RoundUnloaded \/ Restart
  PROVE  EvidenceInv'
<1>1. CASE Tick \/ RoundUnloaded
  <2>1. /\ now' = now + 1 /\ raised' \in {"none", "reward-monitor-degraded"}
        /\ UNCHANGED <<active, authored, flips, overview, rows, snap, at, ok, fails, retry, scanNext,
                       heardAt, forgotten, restarts>>
    BY <1>1 DEF Tick, RoundUnloaded, chainVars, memVars
  <2>2. EvidenceTypeOK'
    BY <2>1 DEF EvidenceInv, EvidenceTypeOK, Alarms
  <2>3. Heard' /\ Reached'
    <3>2. Reached'
      BY <2>1, EvidenceAssumption DEF EvidenceInv, Reached, EvidenceTypeOK, Never, Unscanned
    <3>3. Heard'
      <4>1. /\ now \in Int /\ now' = now + 1
            /\ \A i \in Externals : at[i] \in Int /\ heardAt[i] \in Int
        BY <2>1 DEF EvidenceInv, EvidenceTypeOK, Never
      <4> QED BY <2>1, <4>1 DEF EvidenceInv, Heard
    <3> QED BY <3>2, <3>3
  <2>4. MissingIsConfirmed' /\ NoFalseSilence'
    BY <2>1 DEF MissingIsConfirmed, NoFalseSilence
  <2> QED BY <2>2, <2>3, <2>4 DEF EvidenceInv
<1>2. CASE Author \/ Rotate
  <2>1. /\ active' \in BOOLEAN /\ flips' \in Nat /\ authored' \in {authored, now}
        /\ UNCHANGED <<now, raised, overview, rows, snap, at, ok, fails, retry, scanNext, heardAt,
                       forgotten, restarts>>
    <3>1. CASE Author
      BY <3>1 DEF EvidenceInv, EvidenceTypeOK, Author, memVars
    <3>2. CASE Rotate
      <4>1. active' \in BOOLEAN
        BY <3>2 DEF Rotate
      <4>2. flips' \in Nat /\ authored' \in {authored, now}
        BY <3>2 DEF EvidenceInv, EvidenceTypeOK, Rotate
      <4> QED BY <3>2, <4>1, <4>2 DEF Rotate, memVars
    <3> QED BY <1>2, <3>1, <3>2
  <2>2. EvidenceTypeOK'
    BY <2>1 DEF EvidenceInv, EvidenceTypeOK
  <2>3. Heard' /\ Reached'
    <3>2. Reached'
      BY <2>1 DEF EvidenceInv, Reached, EvidenceTypeOK, Unscanned
    <3>3. Heard'
      BY <2>1 DEF EvidenceInv, Heard
    <3> QED BY <3>2, <3>3
  <2>4. MissingIsConfirmed'
    BY <2>1 DEF EvidenceInv, MissingIsConfirmed
  <2>5. NoFalseSilence'
    BY <2>1, EvidenceAssumption DEF EvidenceInv, NoFalseSilence, EvidenceTypeOK
  <2> QED BY <2>2, <2>3, <2>4, <2>5 DEF EvidenceInv
<1>3. CASE Restart
  <2>1. EvidenceTypeOK'
    <3>1. /\ now' \in Nat /\ active' \in BOOLEAN /\ authored' \in Nat /\ flips' \in Nat
          /\ overview' \in Findings /\ rows' \in Seq(Verdicts) /\ Len(rows') <= Page
          /\ heardAt' \in [Externals -> Nat \cup {Never}]
      BY <1>3, Zenon DEF Restart, EvidenceInv, EvidenceTypeOK, chainVars, Findings, Never
    <3>2. /\ snap' \in [Externals -> Views] /\ at' \in [Externals -> Nat \cup {Never}]
          /\ ok' \in [Externals -> BOOLEAN] /\ retry' \in [Externals -> Nat \cup {Never}]
          /\ scanNext' \in Nat \cup {Never} /\ raised' \in Alarms
      BY <1>3 DEF Restart, Alarms, Views
    <3>3. fails' \in [Externals -> 0 .. MaxFails] /\ restarts' \in Nat
      BY <1>3, EvidenceAssumption DEF Restart, EvidenceInv, EvidenceTypeOK
    <3>4. forgotten' \in BOOLEAN
      BY <1>3, Zenon DEF Restart
    <3> QED BY <3>1, <3>2, <3>3, <3>4, Zenon DEF EvidenceTypeOK, Findings, Never
  <2>2. Heard' /\ Reached'
    <3>2. scanNext' = -1 /\ UNCHANGED <<now, authored, overview, heardAt>>
      BY <1>3 DEF Restart, chainVars, Never
    <3>3. \A i \in Externals : at'[i] = -1 /\ ~ok'[i]
      BY <1>3 DEF Restart, Never
    <3>4. Reached'
      BY <3>2, EvidenceAssumption DEF EvidenceInv, Reached, EvidenceTypeOK, Unscanned
    <3>5. Heard'
      <4>1. \A i \in Externals : heardAt[i] \in Int /\ -1 <= heardAt[i]
        BY DEF EvidenceInv, EvidenceTypeOK, Never
      <4>2. ASSUME NEW i \in Externals PROVE at'[i] <= heardAt'[i] /\ heardAt'[i] <= now'
        BY <3>2, <3>3, <4>1, <4>2 DEF EvidenceInv, Heard
      <4> QED BY <3>3, <4>2, Zenon DEF Heard
    <3> QED BY <3>4, <3>5
  <2>3. MissingIsConfirmed' /\ NoFalseSilence'
    BY <1>3 DEF Restart, MissingIsConfirmed, NoFalseSilence
  <2> QED BY <2>1, <2>2, <2>3 DEF EvidenceInv
<1> QED BY <1>1, <1>2, <1>3

----------------------------------------------------------------------------

\* Where a round is told to come from: the local node and what it answers.
Locals == {"in", "out", "unknown", "down"}

LEMMA ObservedType ==
  ASSUME EvidenceInv, NEW local \in Locals
  PROVE  LET x == Observed(local)
         IN /\ x \in Findings /\ x.since \in Nat
            /\ local = "down" => x.gap
            /\ local # "down" => x.active = active
            /\ overview.since # Never => x.since = overview.since /\ x.begun = overview.begun
            /\ overview.since = Never => x.since = now /\ x.begun = Never
            /\ local # "down" /\ overview.since # Never => x.gap = overview.gap
<1> DEFINE o == IF overview.since = Never THEN [First EXCEPT !.since = now] ELSE overview
<1>1. overview \in Findings /\ now \in Nat /\ active \in BOOLEAN
  BY Zenon DEF EvidenceInv, EvidenceTypeOK, Findings, Never
<1>2. /\ o \in Findings /\ o.since \in Nat
      /\ overview.since # Never => o = overview
      /\ overview.since = Never => o.since = now /\ o.begun = Never
  <2>1. CASE overview.since = Never
    <3>1. o = [First EXCEPT !.since = now]
      BY <2>1, Zenon DEF o
    <3>2. o = [active |-> FALSE, schema |-> FALSE, confirmations |-> 0, gap |-> FALSE,
               begun |-> Never, since |-> now]
      BY <3>1 DEF First, Never
    <3> HIDE DEF o
    <3> QED BY <1>1, <2>1, <3>2 DEF Findings
  <2>2. CASE overview.since # Never
    <3>1. o = overview
      BY <2>2, Zenon DEF o
    <3> HIDE DEF o
    <3> QED BY <1>1, <2>2, <3>1 DEF Findings
  <2> QED BY <2>1, <2>2
<1>3. Observed(local) = IF local = "down" THEN [o EXCEPT !.gap = TRUE]
                                 ELSE [o EXCEPT !.schema = local # "unknown", !.active = active]
  BY DEF Observed, o, Never
<1> HIDE DEF o
<1>4. CASE local = "down"
  BY <1>1, <1>2, <1>3, <1>4 DEF Findings
<1>5. CASE local # "down"
  <2>1. (local # "unknown") \in BOOLEAN
    OBVIOUS
  <2> DEFINE known == local # "unknown"
  <2> HIDE DEF known
  <2>2. known \in BOOLEAN /\ Observed(local) = [o EXCEPT !.schema = known, !.active = active]
    BY <1>3, <1>5, <2>1 DEF known
  <2> QED BY <1>1, <1>2, <1>5, <2>2 DEF Findings
<1> QED BY <1>4, <1>5

LEMMA ConfirmedType ==
  ASSUME NEW x \in Findings, NEW quorum
  PROVE  LET y == Confirmed(x, quorum)
         IN /\ y \in Findings
            /\ y.active = x.active /\ y.gap = x.gap /\ y.begun = x.begun /\ y.since = x.since
<1> DEFINE count == IF quorum >= 2 /\ ~x.active THEN AtMost(x.confirmations + 1, 2) ELSE 0
<1>1. count \in 0 .. 2
  BY DEF Findings, AtMost
<1>2. Confirmed(x, quorum) = [x EXCEPT !.confirmations = count]
  BY Zenon DEF Confirmed
<1> HIDE DEF count
<1> QED BY <1>1, <1>2 DEF Findings

\* What the signals say of the overview and the round they are raised from.
LEMMA SignalSays ==
  ASSUME NEW x, NEW quorum, NEW page, NEW calm
  PROVE  LET signal == Signal(x, quorum, page, calm)
         IN /\ signal \in Alarms
            /\ signal = "reward-active-set-missing" => ~x.gap /\ ~(quorum < 2) /\ ~x.active
            /\ signal = "reward-silence" => ~x.gap /\ now - x.since >= WarnAfter
  BY DEF Signal, Alarms

LEMMA ScannedType ==
  ASSUME authored \in Nat, now \in Nat, NEW x \in Findings, NEW scan, NEW found
  PROVE  LET y == Advanced(x, scan, found)
         IN /\ y \in Findings
            /\ y.active = x.active /\ y.gap = GapAfter(x, scan)
            /\ y.begun = IF scan = "begin" THEN now ELSE x.begun
            /\ y.since = IF found /\ scan # "failed" THEN authored ELSE x.since
<1> DEFINE gap == GapAfter(x, scan)
           begun == IF scan = "begin" THEN now ELSE x.begun
           since == IF found /\ scan # "failed" THEN authored ELSE x.since
<1>1. gap \in BOOLEAN
  BY Zenon DEF GapAfter
<1>2. begun \in Nat \cup {Never} /\ since \in Nat \cup {Never}
  BY DEF Findings
<1>3. Advanced(x, scan, found) = [x EXCEPT !.gap = gap, !.begun = begun, !.since = since]
  BY Zenon DEF Advanced
<1> HIDE DEF gap, begun, since
<1>4. LET y == Advanced(x, scan, found)
      IN y \in Findings /\ y.active = x.active /\ y.gap = gap /\ y.begun = begun /\ y.since = since
  BY <1>1, <1>2, <1>3 DEF Findings
<1> QED BY <1>4, Zenon DEF gap, begun, since

\* A quorum needs an endpoint that says the same as the local node.
LEMMA QuorumSays ==
  ASSUME NEW x, NEW local, NEW m, NEW s, ~(Quorum(x, local, m, s) < 2), ~x.active
  PROVE  \E i \in Externals : m.ok[i] /\ s[i] = "out"
<1> DEFINE alike == {i \in Externals : m.ok[i] /\ s[i] = IF x.active THEN "in" ELSE "out"}
<1>1. alike # {}
  <2>1. SUFFICES ASSUME alike = {} PROVE FALSE
    OBVIOUS
  <2>2. Cardinality(alike) = 0
    BY <2>1, FS_EmptySet, Zenon
  <2>3. Quorum(x, local, m, s) = Cardinality(alike) + IF local = Truth THEN 1 ELSE 0
    BY Zenon DEF Quorum
  <2> HIDE DEF alike
  <2>4. CASE local = Truth
    BY <2>2, <2>3, <2>4
  <2>5. CASE local # Truth
    BY <2>2, <2>3, <2>5
  <2> QED BY <2>4, <2>5
<1> QED BY <1>1

----------------------------------------------------------------------------

\* The memory of the endpoints when a round begins.
Memory == [ok |-> ok, fails |-> fails, retry |-> retry]

\* An endpoint that counts for the quorum of a round is heard in it or was a moment ago.
LEMMA CountedIsRecent ==
  ASSUME EvidenceInv, NEW good, NEW i \in Externals,
         Recorded(Memory, Asked, good, now).ok[i], i \notin good
  PROVE  heardAt[i] # Never /\ now + 1 - heardAt[i] <= Minute
<1>1. i \notin Asked /\ ok[i]
  BY Zenon DEF Recorded, Memory
<1>2. /\ now \in Nat /\ at[i] \in Int /\ heardAt[i] \in Int /\ retry[i] \in Int
      /\ at[i] <= heardAt[i] /\ heardAt[i] # Never /\ retry[i] <= heardAt[i] + Minute
  <2>1. /\ now \in Nat /\ at \in [Externals -> Nat \cup {-1}] /\ heardAt \in [Externals -> Nat \cup {-1}]
        /\ retry \in [Externals -> Nat \cup {-1}]
    BY Zenon DEF EvidenceInv, EvidenceTypeOK, Never
  <2>2. at[i] <= heardAt[i] /\ heardAt[i] # Never /\ retry[i] <= heardAt[i] + Minute
    BY <1>1, Zenon DEF EvidenceInv, Heard
  <2> QED BY <2>1, <2>2
<1>3. ~Ready(retry, i, now) \/ now - at[i] < Minute
  BY <1>1, Zenon DEF Asked
<1>4. ~Ready(retry, i, now) => now < retry[i]
  BY <1>2 DEF Ready
<1>5. Minute \in Nat
  BY EvidenceAssumption
<1> QED BY <1>2, <1>3, <1>4, <1>5

\* What a round leaves of the endpoints: those heard, in either part of it, are good for
\* a minute from now on.
LEMMA MemoryKeeps ==
  ASSUME EvidenceInv, NEW good, NEW consulted, NEW better,
         now' = now + 1,
         LET later == Recorded(Recorded(Memory, Asked, good, now),
                                        consulted, better, now + 1)
         IN ok' = later.ok /\ retry' = later.retry,
         good \subseteq Asked, better \subseteq consulted,
         at' = [i \in Externals |-> IF i \in good THEN now + 1 ELSE at[i]],
         heardAt' = [i \in Externals |-> IF i \in good \cup better THEN now + 1 ELSE heardAt[i]]
  PROVE  Heard'
<1> DEFINE m == Recorded(Memory, Asked, good, now)
           later == Recorded(m, consulted, better, now + 1)
<1> SUFFICES ASSUME NEW i \in Externals
             PROVE  /\ at'[i] <= heardAt'[i] /\ heardAt'[i] <= now'
                    /\ ok'[i] => heardAt'[i] # Never /\ retry'[i] <= heardAt'[i] + Minute
  BY Zenon DEF Heard
<1>1. /\ now \in Nat /\ Minute \in Nat
      /\ at[i] \in Int /\ heardAt[i] \in Int /\ retry[i] \in Int
      /\ at[i] <= heardAt[i] /\ heardAt[i] <= now
  <2>1. /\ now \in Nat /\ at \in [Externals -> Nat \cup {-1}] /\ heardAt \in [Externals -> Nat \cup {-1}]
        /\ retry \in [Externals -> Nat \cup {-1}]
    BY Zenon DEF EvidenceInv, EvidenceTypeOK, Never
  <2>2. at[i] <= heardAt[i] /\ heardAt[i] <= now
    BY Zenon DEF EvidenceInv, Heard
  <2> QED BY <2>1, <2>2, EvidenceAssumption
<1>2. ok[i] => heardAt[i] # Never /\ retry[i] <= heardAt[i] + Minute
  BY Zenon DEF EvidenceInv, Heard
<1>3. /\ at'[i] = IF i \in good THEN now + 1 ELSE at[i]
      /\ heardAt'[i] = IF i \in good \cup better THEN now + 1 ELSE heardAt[i]
  BY Zenon
<1>4. at'[i] <= heardAt'[i] /\ heardAt'[i] <= now'
  BY <1>1, <1>3
<1>5. ASSUME ok'[i] PROVE heardAt'[i] # Never /\ retry'[i] <= heardAt'[i] + Minute
  <2>1. CASE i \in better
    <3>1. retry'[i] = now + 1 + Minute
      BY <2>1, Zenon DEF Recorded
    <3> QED BY <1>1, <1>3, <2>1, <3>1 DEF Never
  <2>2. CASE i \notin better
    <3>1. i \notin consulted /\ m.ok[i] /\ retry'[i] = m.retry[i]
      BY <1>5, <2>2, Zenon DEF Recorded
    <3>2. CASE i \in good
      <4>1. m.retry[i] = now + Minute
        BY <3>2, Zenon DEF Recorded
      <4> QED BY <1>1, <1>3, <3>1, <3>2, <4>1 DEF Never
    <3>3. CASE i \notin good
      <4>1. ok[i] /\ m.retry[i] = retry[i]
        BY <3>1, <3>3, Zenon DEF Recorded, Memory
      <4> QED BY <1>2, <1>3, <2>2, <3>1, <3>3, <4>1
    <3> QED BY <3>2, <3>3
  <2> QED BY <2>1, <2>2
<1> QED BY <1>4, <1>5

\* When a scan of any outcome leaves no gap, either no block is left unscanned or the
\* next scan was not due, and is before ScanMax have passed since the block.
LEMMA NothingMissed ==
  ASSUME EvidenceInv, ~forgotten,
         NEW local \in Locals, NEW x \in Findings,
         x.since \in Nat, local = "down" => x.gap,
         overview.since # Never => x.since = overview.since /\ x.begun = overview.begun,
         overview.since = Never => x.begun = Never,
         local # "down" /\ overview.since # Never => x.gap = overview.gap,
         NEW scan \in Outcomes(x, local), NEW found \in Found(x, scan),
         ~Advanced(x, scan, found).gap
  PROVE  LET y == Advanced(x, scan, found)
         IN \/ authored <= y.since \/ authored <= y.begun
            \/ /\ scan = "early" /\ now < scanNext /\ scanNext <= authored + ScanMax
               /\ y.since = x.since /\ y.begun = x.begun
<1> DEFINE y == Advanced(x, scan, found)
<1>1. now \in Nat /\ authored \in Nat /\ scanNext \in Nat \cup {Never} /\ authored <= now
  BY DEF EvidenceInv, EvidenceTypeOK, Reached, Never
<1>2. /\ ~GapAfter(x, scan)
      /\ y.begun = IF scan = "begin" THEN now ELSE x.begun
      /\ y.since = IF found /\ scan # "failed" THEN authored ELSE x.since
  BY <1>1, ScannedType
<1>3. /\ scan \notin {"failed", "partly", "rewound"}
      /\ scan \in {"none", "early"} => ~x.gap
  BY <1>2, Zenon DEF GapAfter
<1>4. scan # "none"
  BY <1>3, Zenon DEF Outcomes
<1>5. scan \in {"begin", "idle", "early", "done"} /\ local # "down"
  BY <1>3, <1>4, Zenon DEF Outcomes
<1>6. CASE scan = "begin"
  BY <1>1, <1>2, <1>6
<1>7. CASE scan # "begin" /\ ~Unscanned(x)
  <2>1. found = FALSE
    BY <1>7 DEF Found
  <2>2. y.since = x.since /\ y.begun = x.begun
    BY <1>2, <1>7, <2>1
  <2> QED BY <1>1, <1>7, <2>2 DEF Unscanned, Findings, Never
<1>8. CASE Unscanned(x) /\ scan = "idle"
  BY <1>8, Zenon DEF Outcomes
<1>9. CASE Unscanned(x) /\ scan = "done"
  <2>1. found = TRUE
    BY <1>9 DEF Found
  <2> QED BY <1>1, <1>2, <1>9, <2>1
<1>10. CASE Unscanned(x) /\ scan = "early"
  <2>1. found = FALSE
    BY <1>10 DEF Found
  <2>2. x.begun # Never /\ now < scanNext
    BY <1>10 DEF Outcomes, Never
  <2>3. overview.since # Never /\ ~overview.gap
    BY <1>3, <1>5, <1>10, <2>2
  <2>4. Unscanned(overview)
    BY <1>10, <2>3 DEF Unscanned
  <2>5. scanNext <= authored + ScanMax
    BY <2>3, <2>4 DEF EvidenceInv, Reached
  <2> QED BY <1>2, <1>10, <2>1, <2>2, <2>5
<1> QED BY <1>5, <1>6, <1>7, <1>8, <1>9, <1>10

\* No wait between two scans is longer than ScanMax.
LEMMA ScanWaits ==
  ScanEvery \in Nat /\ ScanEvery <= ScanMax /\ \A d \in ScanRetries : d \in Nat /\ d <= ScanMax
BY EvidenceAssumption

\* A round, whatever the sources answer and however its scan ends.
LEMMA RoundKeeps ==
  ASSUME EvidenceInv, Round
  PROVE  EvidenceInv'
<1>1. /\ now' = now + 1
      /\ UNCHANGED <<active, authored, flips, restarts>>
  BY Zenon DEF Round, chainVars
<1>0. PICK view \in {Truth, "unknown"} :
        \E local \in {view, "down"}, good \in SUBSET Asked :
        \E m \in {Recorded(Memory, Asked, good, now)},
           s \in {[i \in Externals |-> IF i \in good THEN view ELSE snap[i]]} :
        \E quorum \in {Quorum(Observed(local), local, m, s)} :
        \E x \in {Confirmed(Observed(local), quorum)} :
          /\ snap' = s
          /\ at' = [i \in Externals |-> IF i \in good THEN now + 1 ELSE at[i]]
          /\ \E scan \in Outcomes(x, local) :
               \E found \in Found(x, scan), short \in BOOLEAN :
                 /\ short => found
                 /\ Scan(x, m, good, quorum, scan, found, short)
  BY Zenon DEF Round, Memory
<1>a. PICK local \in {view, "down"}, good \in SUBSET Asked :
        \E m \in {Recorded(Memory, Asked, good, now)},
           s \in {[i \in Externals |-> IF i \in good THEN view ELSE snap[i]]} :
        \E quorum \in {Quorum(Observed(local), local, m, s)} :
        \E x \in {Confirmed(Observed(local), quorum)} :
          /\ snap' = s
          /\ at' = [i \in Externals |-> IF i \in good THEN now + 1 ELSE at[i]]
          /\ \E scan \in Outcomes(x, local) :
               \E found \in Found(x, scan), short \in BOOLEAN :
                 /\ short => found
                 /\ Scan(x, m, good, quorum, scan, found, short)
  BY <1>0, Zenon
<1> DEFINE m == Recorded(Memory, Asked, good, now)
           s == [i \in Externals |-> IF i \in good THEN view ELSE snap[i]]
           o == Observed(local)
           quorum == Quorum(o, local, m, s)
           x == Confirmed(o, quorum)
<1>b. PICK mm \in {m}, ss \in {s} :
        \E qq \in {Quorum(o, local, mm, ss)} : \E xx \in {Confirmed(o, qq)} :
          /\ snap' = ss
          /\ at' = [i \in Externals |-> IF i \in good THEN now + 1 ELSE at[i]]
          /\ \E scan \in Outcomes(xx, local) :
               \E found \in Found(xx, scan), short \in BOOLEAN :
                 /\ short => found
                 /\ Scan(xx, mm, good, qq, scan, found, short)
  BY <1>a, Zenon
<1>c. mm = m /\ ss = s
  OBVIOUS
<1>2. /\ local \in {view, "down"} /\ good \in SUBSET Asked
      /\ snap' = s
      /\ at' = [i \in Externals |-> IF i \in good THEN now + 1 ELSE at[i]]
      /\ \E scan \in Outcomes(x, local) :
           \E found \in Found(x, scan), short \in BOOLEAN :
             /\ short => found
             /\ Scan(x, m, good, quorum, scan, found, short)
  <2> HIDE DEF m, s, o
  <2> QED BY <1>b, <1>c, Zenon
<1>3. PICK scan \in Outcomes(x, local) :
        \E found \in Found(x, scan), short \in BOOLEAN :
          /\ short => found
          /\ Scan(x, m, good, quorum, scan, found, short)
  BY <1>2, Zenon
<1>4. PICK found \in Found(x, scan), short \in BOOLEAN :
        Scan(x, m, good, quorum, scan, found, short)
  BY <1>3, Zenon
<1> DEFINE consulted == Consulted(m, short)
           y == Advanced(x, scan, found)
<1>d. PICK cc \in {consulted}, yy \in {y} :
        \E reply \in [cc -> {"agrees", "differs", "down"}] :
        \E bb \in {{i \in cc : reply[i] # "down"}} :
        \E ll \in {Recorded(m, cc, bb, now + 1)} :
        LET agreed == {i \in cc : reply[i] = "agrees"}
            newest == IF agreed # {} THEN "matched" ELSE "settled"
            page == IF found /\ scan # "failed" THEN Latest(newest) ELSE rows
        IN /\ ok' = ll.ok /\ fails' = ll.fails /\ retry' = ll.retry
           /\ rows' = page
           /\ heardAt' = [i \in Externals |-> IF i \in good \cup bb THEN now + 1 ELSE heardAt[i]]
           /\ raised' \in {Signal(yy, quorum, page, calm) : calm \in BOOLEAN}
           /\ \E saved \in IF scan \in {"partly", "done"} THEN {TRUE} ELSE BOOLEAN :
             /\ overview' = IF saved THEN yy ELSE overview
             /\ forgotten' = IF scan \in {"none", "rewound", "idle", "early"} THEN forgotten ELSE ~saved
           /\ IF scan = "failed" THEN \E d \in ScanRetries : scanNext' = now + d
              ELSE scanNext' = IF scan \in {"partly", "done"} THEN now + ScanEvery ELSE scanNext
  <2> HIDE DEF m, x, quorum
  <2> QED BY <1>4, Zenon DEF Scan
<1>e. cc = consulted /\ yy = y
  OBVIOUS
<1>f. PICK reply \in [cc -> {"agrees", "differs", "down"}] :
        \E bb \in {{i \in cc : reply[i] # "down"}} :
        \E ll \in {Recorded(m, cc, bb, now + 1)} :
        LET agreed == {i \in cc : reply[i] = "agrees"}
            newest == IF agreed # {} THEN "matched" ELSE "settled"
            page == IF found /\ scan # "failed" THEN Latest(newest) ELSE rows
        IN /\ ok' = ll.ok /\ fails' = ll.fails /\ retry' = ll.retry
           /\ rows' = page
           /\ heardAt' = [i \in Externals |-> IF i \in good \cup bb THEN now + 1 ELSE heardAt[i]]
           /\ raised' \in {Signal(yy, quorum, page, calm) : calm \in BOOLEAN}
           /\ \E saved \in IF scan \in {"partly", "done"} THEN {TRUE} ELSE BOOLEAN :
             /\ overview' = IF saved THEN yy ELSE overview
             /\ forgotten' = IF scan \in {"none", "rewound", "idle", "early"} THEN forgotten ELSE ~saved
           /\ IF scan = "failed" THEN \E d \in ScanRetries : scanNext' = now + d
              ELSE scanNext' = IF scan \in {"partly", "done"} THEN now + ScanEvery ELSE scanNext
  <2> HIDE DEF m, x, quorum, consulted, y
  <2> QED BY <1>d, Zenon
<1>g. PICK bb \in {{i \in cc : reply[i] # "down"}} :
        \E ll \in {Recorded(m, cc, bb, now + 1)} :
        LET agreed == {i \in cc : reply[i] = "agrees"}
            newest == IF agreed # {} THEN "matched" ELSE "settled"
            page == IF found /\ scan # "failed" THEN Latest(newest) ELSE rows
        IN /\ ok' = ll.ok /\ fails' = ll.fails /\ retry' = ll.retry
           /\ rows' = page
           /\ heardAt' = [i \in Externals |-> IF i \in good \cup bb THEN now + 1 ELSE heardAt[i]]
           /\ raised' \in {Signal(yy, quorum, page, calm) : calm \in BOOLEAN}
           /\ \E saved \in IF scan \in {"partly", "done"} THEN {TRUE} ELSE BOOLEAN :
             /\ overview' = IF saved THEN yy ELSE overview
             /\ forgotten' = IF scan \in {"none", "rewound", "idle", "early"} THEN forgotten ELSE ~saved
           /\ IF scan = "failed" THEN \E d \in ScanRetries : scanNext' = now + d
              ELSE scanNext' = IF scan \in {"partly", "done"} THEN now + ScanEvery ELSE scanNext
  <2> HIDE DEF m, x, quorum, consulted, y
  <2> QED BY <1>f, Zenon
<1> DEFINE agreed == {i \in consulted : reply[i] = "agrees"}
           better == {i \in consulted : reply[i] # "down"}
           later == Recorded(m, consulted, better, now + 1)
           newest == IF agreed # {} THEN "matched" ELSE "settled"
           page == IF found /\ scan # "failed" THEN Latest(newest) ELSE rows
<1>h. /\ bb = better
      /\ {i \in cc : reply[i] = "agrees"} = agreed
  <2>1. bb = {i \in cc : reply[i] # "down"}
    BY Zenon
  <2> HIDE DEF m, x, quorum, consulted, y
  <2> QED BY <1>e, <2>1, Zenon
<1>5. /\ ok' = later.ok /\ fails' = later.fails /\ retry' = later.retry
      /\ rows' = page
      /\ heardAt' = [i \in Externals |-> IF i \in good \cup better THEN now + 1 ELSE heardAt[i]]
      /\ raised' \in {Signal(y, quorum, page, calm) : calm \in BOOLEAN}
      /\ \E saved \in IF scan \in {"partly", "done"} THEN {TRUE} ELSE BOOLEAN :
        /\ overview' = IF saved THEN y ELSE overview
        /\ forgotten' = IF scan \in {"none", "rewound", "idle", "early"} THEN forgotten ELSE ~saved
      /\ IF scan = "failed" THEN \E d \in ScanRetries : scanNext' = now + d
         ELSE scanNext' = IF scan \in {"partly", "done"} THEN now + ScanEvery ELSE scanNext
  <2> HIDE DEF m, x, quorum, consulted, y
  <2>1. PICK ll \in {Recorded(m, cc, bb, now + 1)} :
        LET was == {i \in cc : reply[i] = "agrees"}
            latest == IF was # {} THEN "matched" ELSE "settled"
            shown == IF found /\ scan # "failed" THEN Latest(latest) ELSE rows
        IN /\ ok' = ll.ok /\ fails' = ll.fails /\ retry' = ll.retry
           /\ rows' = shown
           /\ heardAt' = [i \in Externals |-> IF i \in good \cup bb THEN now + 1 ELSE heardAt[i]]
           /\ raised' \in {Signal(yy, quorum, shown, calm) : calm \in BOOLEAN}
           /\ \E saved \in IF scan \in {"partly", "done"} THEN {TRUE} ELSE BOOLEAN :
             /\ overview' = IF saved THEN yy ELSE overview
             /\ forgotten' = IF scan \in {"none", "rewound", "idle", "early"} THEN forgotten ELSE ~saved
           /\ IF scan = "failed" THEN \E d \in ScanRetries : scanNext' = now + d
              ELSE scanNext' = IF scan \in {"partly", "done"} THEN now + ScanEvery ELSE scanNext
    BY <1>g, Zenon
  <2>2. ll = later
    <3>1. ll = Recorded(m, cc, bb, now + 1)
      BY Zenon
    <3> HIDE DEF better
    <3> QED BY <1>e, <1>h, <3>1, Zenon
  <2>3. ok' = later.ok /\ fails' = later.fails /\ retry' = later.retry
    <3> HIDE DEF later
    <3> QED BY <2>1, <2>2, Zenon
  <2>4. rows' = page
    <3>1. rows' = IF found /\ scan # "failed" THEN Latest(IF {i \in cc : reply[i] = "agrees"} # {} THEN "matched" ELSE "settled") ELSE rows
      BY <2>1, Zenon
    <3> HIDE DEF agreed
    <3> QED BY <1>h, <3>1, Zenon
  <2>5. heardAt' = [i \in Externals |-> IF i \in good \cup better THEN now + 1 ELSE heardAt[i]]
    <3>1. heardAt' = [i \in Externals |-> IF i \in good \cup bb THEN now + 1 ELSE heardAt[i]]
      BY <2>1, Zenon
    <3> HIDE DEF better
    <3> QED BY <1>h, <3>1
  <2>6. raised' \in {Signal(y, quorum, page, calm) : calm \in BOOLEAN}
    <3>1. raised' \in {Signal(yy, quorum, rows', calm) : calm \in BOOLEAN}
      BY <2>1, Zenon
    <3> HIDE DEF page
    <3> QED BY <1>e, <2>4, <3>1
  <2>7. \E saved \in IF scan \in {"partly", "done"} THEN {TRUE} ELSE BOOLEAN :
        /\ overview' = IF saved THEN y ELSE overview
        /\ forgotten' = IF scan \in {"none", "rewound", "idle", "early"} THEN forgotten ELSE ~saved
    BY <1>e, <2>1, Zenon
  <2>8. IF scan = "failed" THEN \E d \in ScanRetries : scanNext' = now + d
         ELSE scanNext' = IF scan \in {"partly", "done"} THEN now + ScanEvery ELSE scanNext
    BY <2>1, Zenon
  <2> HIDE DEF better, agreed, newest, page, later
  <2> QED BY <2>3, <2>4, <2>5, <2>6, <2>7, <2>8
<1>5a. PICK saved \in BOOLEAN :
       /\ overview' = IF saved THEN y ELSE overview
       /\ forgotten' = IF scan \in {"none", "rewound", "idle", "early"} THEN forgotten ELSE ~saved
       /\ scan \in {"partly", "done"} => saved
  <2> HIDE DEF m, x, quorum, consulted, y
  <2> QED BY <1>5, Zenon
<1>6. PICK calm \in BOOLEAN : raised' = Signal(y, quorum, page, calm)
  BY <1>5, Zenon
<1>7. /\ now \in Nat /\ authored \in Nat /\ scanNext \in Int /\ authored <= now /\ scanNext <= now + ScanMax
      /\ ScanMax \in Nat /\ Minute \in Nat /\ WarnAfter \in Nat
  BY EvidenceAssumption DEF EvidenceInv, EvidenceTypeOK, Never, Reached
<1>8. Memory \in Memories /\ m \in Memories /\ later \in Memories
  <2>1. Memory \in Memories
    BY Zenon DEF EvidenceInv, EvidenceTypeOK, Memory, Memories, Never
  <2>2. m \in Memories
    BY <1>7, <2>1, RecordedType
  <2> QED BY <1>7, <2>1, <2>2, RecordedType
<1>9. local \in Locals /\ view \in Views
  BY <1>2 DEF Truth, Locals, Views
<1>10. /\ o \in Findings /\ o.since \in Nat
       /\ local = "down" => o.gap
       /\ local # "down" => o.active = active
       /\ overview.since # Never => o.since = overview.since /\ o.begun = overview.begun
       /\ overview.since = Never => o.since = now /\ o.begun = Never
       /\ local # "down" /\ overview.since # Never => o.gap = overview.gap
  BY <1>9, ObservedType
<1>11. /\ x \in Findings
       /\ x.active = o.active /\ x.gap = o.gap /\ x.begun = o.begun /\ x.since = o.since
  BY <1>10, ConfirmedType
<1>12. /\ y \in Findings
       /\ y.active = x.active /\ y.gap = GapAfter(x, scan)
       /\ y.begun = IF scan = "begin" THEN now ELSE x.begun
       /\ y.since = IF found /\ scan # "failed" THEN authored ELSE x.since
  BY <1>7, <1>11, ScannedType
<1>13. /\ raised' \in Alarms
       /\ raised' = "reward-active-set-missing" => ~y.gap /\ ~(quorum < 2) /\ ~y.active
       /\ raised' = "reward-silence" => ~y.gap /\ now - y.since >= WarnAfter
  BY <1>6, SignalSays
<1>14. /\ scanNext' \in Nat \cup {Never} /\ scanNext' <= now + ScanMax
       /\ scan \notin {"failed", "partly", "done"} => scanNext' = scanNext
  <2>1. ScanEvery \in Nat /\ ScanEvery <= ScanMax /\ \A d \in ScanRetries : d \in Nat /\ d <= ScanMax
    BY ScanWaits, Zenon
  <2>2. scanNext \in Nat \cup {Never}
    BY Zenon DEF EvidenceInv, EvidenceTypeOK, Never
  <2>3. CASE scan = "failed"
    <3>1. PICK d \in ScanRetries : scanNext' = now + d
      BY <1>5, <2>3, Zenon
    <3> QED BY <1>7, <2>1, <2>3, <3>1
  <2>4. CASE scan # "failed"
    <3>1. scanNext' = IF scan \in {"partly", "done"} THEN now + ScanEvery ELSE scanNext
      BY <1>5, <2>4, Zenon
    <3> QED BY <1>7, <2>1, <2>2, <2>4, <3>1
  <2> QED BY <2>3, <2>4
<1>15. EvidenceTypeOK'
  <2>1. now' \in Nat /\ active' \in BOOLEAN /\ authored' \in Nat /\ flips' \in Nat /\ restarts' \in Nat
    BY <1>1 DEF EvidenceInv, EvidenceTypeOK
  <2>2. overview' \in Findings
    <3>1. overview \in Findings
      BY Zenon DEF EvidenceInv, EvidenceTypeOK, Findings, Never
    <3> QED BY <1>5a, <1>12, <3>1, Zenon
  <2>3. rows' \in Seq(Verdicts) /\ Len(rows') <= Page
    <3>1. rows \in Seq(Verdicts) /\ Len(rows) <= Page
      BY Zenon DEF EvidenceInv, EvidenceTypeOK
    <3>2. newest \in Verdicts
      BY DEF Verdicts
    <3>3. Latest(newest) \in Seq(Verdicts) /\ Len(Latest(newest)) <= Page
      BY <3>1, <3>2, LatestType
    <3> QED BY <1>5, <3>1, <3>3, Zenon
  <2>4. snap' \in [Externals -> Views]
    <3>1. snap \in [Externals -> Views]
      BY Zenon DEF EvidenceInv, EvidenceTypeOK
    <3> QED BY <1>2, <1>9, <3>1
  <2>5. at' \in [Externals -> Nat \cup {Never}] /\ heardAt' \in [Externals -> Nat \cup {Never}]
    <3>1. at \in [Externals -> Nat \cup {Never}] /\ heardAt \in [Externals -> Nat \cup {Never}]
      BY Zenon DEF EvidenceInv, EvidenceTypeOK, Never
    <3>2. now + 1 \in Nat \cup {Never}
      BY <1>7
    <3>3. at' = [i \in Externals |-> IF i \in good THEN now + 1 ELSE at[i]]
      BY <1>2, Zenon
    <3>4. heardAt' = [i \in Externals |-> IF i \in good \cup better THEN now + 1 ELSE heardAt[i]]
      BY <1>5, Zenon
    <3> HIDE DEF better
    <3> QED BY <3>1, <3>2, <3>3, <3>4
  <2>6. ok' \in [Externals -> BOOLEAN] /\ fails' \in [Externals -> 0 .. MaxFails]
        /\ retry' \in [Externals -> Nat \cup {Never}]
    <3>1. later.ok \in [Externals -> BOOLEAN] /\ later.fails \in [Externals -> 0 .. MaxFails]
          /\ later.retry \in [Externals -> Nat \cup {Never}]
      <4> HIDE DEF later
      <4> QED BY <1>8 DEF Memories
    <3> QED BY <1>5, <3>1, Zenon
  <2>7. forgotten' \in BOOLEAN
    <3>1. forgotten \in BOOLEAN
      BY Zenon DEF EvidenceInv, EvidenceTypeOK
    <3>2. \/ forgotten' = forgotten
          \/ forgotten' = ~saved
      BY <1>5a, Zenon
    <3> QED BY <3>1, <3>2, Zenon
  <2> QED BY <1>13, <1>14, <2>1, <2>2, <2>3, <2>4, <2>5, <2>6, <2>7, Zenon
          DEF EvidenceTypeOK, Findings, Never
<1>16. Heard'
  <2>1. better \subseteq consulted /\ good \subseteq Asked
    OBVIOUS
  <2> QED BY <1>1, <1>2, <1>5, <2>1, MemoryKeeps, Zenon
<1>17. MissingIsConfirmed'
  <2> SUFFICES ASSUME raised' = "reward-active-set-missing"
               PROVE  \E i \in Externals : snap'[i] = "out" /\ heardAt'[i] # Never /\ now' - heardAt'[i] <= Minute
    BY Zenon DEF MissingIsConfirmed, Never
  <2>1. ~(quorum < 2) /\ ~o.active
    BY <1>11, <1>12, <1>13
  <2>2. PICK i \in Externals : m.ok[i] /\ s[i] = "out"
    BY <2>1, QuorumSays
  <2>3. snap'[i] = "out"
    BY <1>2, <2>2, Zenon
  <2>4. heardAt'[i] # Never /\ now' - heardAt'[i] <= Minute
    <3>1. heardAt'[i] = IF i \in good \cup better THEN now + 1 ELSE heardAt[i]
      BY <1>5, Zenon
    <3>2. CASE i \in good \cup better
      BY <1>1, <1>7, <3>1, <3>2 DEF Never
    <3>3. CASE i \notin good \cup better
      <4>1. heardAt[i] # Never /\ now + 1 - heardAt[i] <= Minute
        BY <2>2, <3>3, CountedIsRecent
      <4>2. heardAt'[i] = heardAt[i]
        BY <3>1, <3>3, Zenon
      <4>3. heardAt[i] \in Int
        BY DEF EvidenceInv, EvidenceTypeOK, Never
      <4> QED BY <1>1, <1>7, <4>1, <4>2, <4>3
    <3> QED BY <3>2, <3>3
  <2> QED BY <2>3, <2>4
\* What the overview of this round says of the blocks, whether or not it is kept.
<1>18. ~forgotten /\ ~y.gap =>
         \/ authored <= y.since \/ authored <= y.begun
         \/ /\ scan = "early" /\ now < scanNext /\ scanNext <= authored + ScanMax
            /\ y.since = x.since /\ y.begun = x.begun
  BY <1>9, <1>10, <1>11, NothingMissed
<1>19. y.since \in Int /\ y.begun \in Int
  BY <1>7, <1>10, <1>11, <1>12 DEF Findings, Never
<1>21. scan \in {"none", "rewound", "idle", "early", "begin", "failed", "partly", "done"}
  BY Zenon DEF Outcomes
<1>22. Reached'
  <2>1. authored' <= now' /\ scanNext' <= now' + ScanMax
    BY <1>1, <1>7, <1>14 DEF Never
  <2>2. SUFFICES ASSUME ~forgotten', ~overview'.gap, Unscanned(overview)'
                 PROVE  scanNext' <= authored' + ScanMax
    BY <2>1, Zenon DEF Reached
  <2>3. authored > overview'.since /\ authored > overview'.begun
    BY <1>1, <2>2 DEF Unscanned
  <2>4. CASE overview' = y
    <3>1. CASE forgotten
      <4>1. scan \in {"begin", "failed", "partly", "done"}
        BY <1>5a, <1>21, <2>2, <3>1
      <4>2. scan \in {"begin", "done"}
        BY <1>12, <2>2, <2>4, <4>1 DEF GapAfter
      <4>3. CASE scan = "begin"
        BY <1>7, <1>12, <2>3, <2>4, <4>3
      <4>4. CASE scan = "done"
        <5>1. found \/ ~Unscanned(x)
          BY <4>4, Zenon DEF Found
        <5>2. x.since \in Int /\ x.begun \in Int
          BY <1>10, <1>11 DEF Findings, Never
        <5> QED BY <1>7, <1>12, <2>3, <2>4, <4>4, <5>1, <5>2 DEF Unscanned
      <4> QED BY <4>2, <4>3, <4>4
    <3>2. CASE ~forgotten
      BY <1>1, <1>7, <1>14, <1>18, <1>19, <2>2, <2>3, <2>4, <3>2
    <3> QED BY <3>1, <3>2
  <2>5. CASE overview' # y
    <3>1. overview' = overview /\ ~saved /\ scan \notin {"partly", "done"}
      BY <1>5a, <2>5, Zenon
    <3>2. ~forgotten /\ scan \in {"none", "rewound", "idle", "early"}
      BY <1>5a, <1>21, <2>2, <3>1
    <3>3. scanNext <= authored + ScanMax
      BY <1>1, <2>2, <2>3, <3>1, <3>2 DEF EvidenceInv, Reached, Unscanned
    <3> QED BY <1>1, <1>14, <3>2, <3>3
  <2> QED BY <2>4, <2>5
<1>23. NoFalseSilence'
  <2>1. SUFFICES ASSUME raised' = "reward-silence", ~forgotten'
                 PROVE  \/ authored' <= overview'.begun
                        \/ now' - 1 - authored' >= WarnAfter
                        \/ now' - 1 - authored' <= ScanMax
    BY Zenon DEF NoFalseSilence
  <2>2. ~y.gap /\ now - y.since >= WarnAfter
    BY <1>13, <2>1
  <2>3. scan \in {"begin", "done", "idle", "early"}
    <3>1. scan # "none"
      BY <1>10, <1>11, <1>12, <2>2, Zenon DEF GapAfter, Outcomes
    <3> QED BY <1>12, <1>21, <2>2, <3>1 DEF GapAfter
  <2>4. CASE scan = "begin"
    BY <1>1, <1>7, <1>12, <1>5a, <2>1, <2>4
  <2>5. CASE scan = "done"
    <3>1. found \/ ~Unscanned(x)
      BY <2>5, Zenon DEF Found
    <3>2. overview' = y
      BY <1>5a, <2>5, Zenon
    <3>3. x.since \in Int /\ x.begun \in Int
      BY <1>10, <1>11 DEF Findings, Never
    <3> QED BY <1>1, <1>7, <1>12, <2>2, <2>5, <3>1, <3>2, <3>3 DEF Unscanned
  <2>6. CASE scan \in {"idle", "early"}
    <3>1. ~forgotten
      BY <1>5a, <2>1, <2>6
    <3>2. authored <= y.begun => authored <= overview'.begun
      <4>1. overview' = y \/ overview' = overview
        BY <1>5a, Zenon
      <4>2. y.begun = o.begun
        BY <1>11, <1>12, <2>6
      <4> QED BY <1>7, <1>10, <4>1, <4>2 DEF Never
    <3> QED BY <1>1, <1>7, <1>18, <1>19, <2>2, <3>1, <3>2
  <2> QED BY <2>3, <2>4, <2>5, <2>6
<1> QED BY <1>15, <1>16, <1>17, <1>22, <1>23, Zenon DEF EvidenceInv

LEMMA EvidenceInductive ==
  EvidenceSpec => []EvidenceInv
<1>1. EvidenceInit => EvidenceInv
  BY EvidenceBegun
<1>2. EvidenceInv /\ [EvidenceNext]_(evidenceVars) => EvidenceInv'
  <2> SUFFICES ASSUME EvidenceInv, [EvidenceNext]_(evidenceVars) PROVE EvidenceInv'
    OBVIOUS
  <2>1. CASE Tick \/ Author \/ Rotate \/ RoundUnloaded \/ Restart
    BY <2>1, BetweenRounds
  <2>2. CASE Round
    BY <2>2, RoundKeeps
  <2>3. CASE UNCHANGED evidenceVars
    <3>1. UNCHANGED <<now, active, authored, flips, overview, rows, snap, at, ok, fails, retry, scanNext,
                      raised, heardAt, forgotten, restarts>>
      BY <2>3, Zenon DEF evidenceVars, chainVars, memVars
    <3>2. EvidenceTypeOK'
      BY <3>1, Zenon DEF EvidenceInv, EvidenceTypeOK
    <3>3. Heard'
      BY <3>1, Zenon DEF EvidenceInv, Heard
    <3>4. Reached'
      BY <3>1, Zenon DEF EvidenceInv, Reached, Unscanned
    <3>5. MissingIsConfirmed' /\ NoFalseSilence'
      BY <3>1, Zenon DEF EvidenceInv, MissingIsConfirmed, NoFalseSilence
    <3> QED BY <3>2, <3>3, <3>4, <3>5, Zenon DEF EvidenceInv
  <2> QED BY <2>1, <2>2, <2>3, Zenon DEF EvidenceNext
<1> QED BY <1>1, <1>2, PTL DEF EvidenceSpec

\* The type invariant of the monitor's evidence, for any endpoints and bounds; of note
\* is that the page never holds more than Page rows (RewardPage).
THEOREM EvidenceTyped ==
  EvidenceSpec => []EvidenceTypeOK
<1>1. EvidenceInv => EvidenceTypeOK
  BY DEF EvidenceInv
<1> QED BY <1>1, EvidenceInductive, PTL

\* Whenever the collator is reported missing from the active set, an endpoint that said
\* so was heard within a minute, whatever endpoints fail, answer late about an anomaly
\* or were asked by a controller that has died since (collectRewards).
THEOREM MissingConfirmed ==
  EvidenceSpec => []MissingIsConfirmed
<1>1. EvidenceInv => MissingIsConfirmed
  BY DEF EvidenceInv
<1> QED BY <1>1, EvidenceInductive, PTL

\* Silence is never reported of a collator whose block is older than ScanMax and younger
\* than WarnAfter, unless the overview of the last scan tried was lost: no other run of
\* failed, late or partial scans, lost saves and restarts makes the monitor take
\* unscanned blocks for missing ones.
THEOREM SilenceIsReal ==
  EvidenceSpec => []NoFalseSilence
<1>1. EvidenceInv => NoFalseSilence
  BY DEF EvidenceInv
<1> QED BY <1>1, EvidenceInductive, PTL
=============================================================================
