SPECIFICATION Spec
CONSTANTS
  c1 = c1
  c2 = c2
  cli = cli
  Controllers = {c1}
  Clis = {cli}
  Authored <- MCAuthored
  Chunk = 1
  MaxChunk = 3
  Window = 2
  Retention = 1
  Seeded = FALSE
  CliConcurrent = TRUE
  LostReplies = TRUE
  MaySettle = FALSE
  MaxBlock = 5
  MaxRestores = 1
  MaxCrashes = 1
  MaxGaps = 1
INVARIANT TypeOK
INVARIANT NoSilentLoss
PROPERTY RefinesLedger
