---------------------------- MODULE RewardLedger ----------------------------
(***************************************************************************)
(* What the reward history promises to whoever reads it: from the origin   *)
(* of the monitoring up to its frontier every authored block is accounted  *)
(* for, by a reward event or by an acknowledged gap.  How chunks are       *)
(* scanned, who holds which overview and in which order statements reach   *)
(* the database is left to RewardHistory.                                  *)
(***************************************************************************)
EXTENDS Integers, Sequences

CONSTANTS Authored, MaxChunk

VARIABLES
  origin,     \* the block monitoring started at, 0 before that
  frontier,   \* the last block accounted for
  cursor,     \* where the next scan resumes
  events,     \* authored blocks with a reward event
  gaps        \* acknowledged gaps, in the order of their approval

vars == <<origin, frontier, cursor, events, gaps>>

Init ==
  /\ origin \in Nat
  /\ frontier = origin /\ cursor = origin
  /\ events = {} /\ gaps = <<>>

\* Monitoring starts somewhere; earlier history is not guessed.
Originate ==
  /\ origin = 0
  /\ cursor' \in Nat
  /\ origin' = cursor' /\ frontier' = cursor'
  /\ UNCHANGED <<events, gaps>>

\* The cursor reaches a later block and the frontier never falls back.
Reach ==
  /\ origin > 0
  /\ cursor' \in Nat /\ cursor' > cursor
  /\ frontier' = IF cursor' > frontier THEN cursor' ELSE frontier
  /\ UNCHANGED origin

\* One chunk is scanned and all its authored blocks are recorded.
Extend ==
  /\ Reach
  /\ cursor' - cursor <= MaxChunk
  /\ events' = events \cup {b \in Authored : cursor < b /\ b <= cursor'}
  /\ UNCHANGED gaps

\* An operator writes the blocks up to the new cursor off.
Excuse ==
  /\ Reach
  /\ gaps' = Append(gaps, [from |-> cursor + 1, through |-> cursor'])
  /\ UNCHANGED events

\* The cursor is put back to a block that is already accounted for.
Revisit ==
  /\ cursor' \in origin..frontier
  /\ UNCHANGED <<origin, frontier, events, gaps>>

Next == Originate \/ Extend \/ Excuse \/ Revisit

Spec == Init /\ [][Next]_vars

Excused(b) == \E i \in 1..Len(gaps) : gaps[i].from <= b /\ b <= gaps[i].through

\* Every authored block between origin and frontier is accounted for.
Accounted == \A b \in Authored : origin < b /\ b <= frontier => b \in events \/ Excused(b)

----------------------------------------------------------------------------
TypeOK ==
  /\ origin \in Nat /\ frontier \in Nat /\ cursor \in Nat
  /\ gaps \in Seq([from : Nat, through : Nat])

\* The frontier is never behind the cursor.
Ordered == cursor <= frontier
=============================================================================
