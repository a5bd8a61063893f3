SPECIFICATION FairSpec
CONSTANTS
  c1 = c1
  c2 = c2
  cli = cli
  Controllers = {c1}
  Clis = {cli}
  Authored <- MCAuthored
  Chunk = 1
  MaxChunk = 3
  Window = 2
  Retention = 3
  Seeded = FALSE
  CliConcurrent = FALSE
  LostReplies = FALSE
  MaySettle = TRUE
  MaxBlock = 7
  MaxRestores = 0
  MaxCrashes = 2
  MaxGaps = 2
INVARIANT OverviewKeepsGap
PROPERTY CursorNeverRewinds
PROPERTY CatchesUpOrAsks
