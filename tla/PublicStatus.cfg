SPECIFICATION Spec
CONSTANTS
  a = a
  b = b
  Endpoints = {a, b}
  HoldInactive = 2
  HoldLag = 2
  HoldOther = 2
  Hold <- HoldOf
  StallAfter = 1
  Ahead = 1
  LagWarning = 0
  LagCritical = 9
  ExternalEvery = 2
  Peers = {3}
  Memory = {"normal"}
  Disks = {"ok"}
  MaxTime = 3
  MaxHeight = 2
  MaxFaults = 2
  Gathering = 1
  Freshness = 1
  TTL = 1
INVARIANT TypeOK
INVARIANT StallIsLocal
PROPERTY SignalsLast
INVARIANT PublicIsRecent
SYMMETRY Symmetry
CHECK_DEADLOCK FALSE
