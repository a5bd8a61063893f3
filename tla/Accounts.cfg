SPECIFICATION Spec
SYMMETRY Symmetry
CONSTANTS
  Requests = {r1, r2, r3, r4}
  Names = {alice, bob}
  IPs = {home}
  Codes = {c1}
  Founder = founder
  HashSlots = 1
  SessionLife = 1
  GlobalBurst = 2
  GlobalRefill = 2
  IPBurst = 1
  IPRefill = 1
  MaxIPs = 2
  MaxAccounts = 1
  EntryTTL = 1
  CleanupInterval = 1
  FreeFailures = 0
  Slowdown = 1
  MaxFailures = 2
  MaxTime = 2
  MaxRestarts = 1
INVARIANT TypeOK
INVARIANT CodesAccounted
INVARIANT OneAdministrator
INVARIANT ActiveIsProved
INVARIANT AdmissionsBounded
CHECK_DEADLOCK FALSE
