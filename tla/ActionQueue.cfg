SPECIFICATION FairSpec
CONSTANTS
  m1 = m1
  g1 = g1
  i1 = i1
  Manual = {m1}
  Gaps = {g1}
  Incidents = {i1}
  MaxTroubles = 2
  QuickBoot = TRUE
CHECK_DEADLOCK FALSE
INVARIANT TypeOK
INVARIANT FailedRowStops
INVARIANT RunningIsKnown
INVARIANT OnlyReplaysMislead
PROPERTY ActionsEnd
