SPECIFICATION EvidenceSpec
CONSTANTS
  Externals = {e1}
  Minute = 2
  RetryMax = 4
  ScanEvery = 1
  ScanRetries = {1, 2}
  ScanMax = 2
  WarnAfter = 4
  Page = 1
  MaxTime = 5
  MaxFails = 2
  MaxRestarts = 1
  MaxFlips = 1
INVARIANT EvidenceTypeOK
INVARIANT MissingIsConfirmed
INVARIANT NoFalseSilence
CHECK_DEADLOCK FALSE
