SPECIFICATION Spec
CHECK_DEADLOCK FALSE
CONSTANTS
  r0 = r0
  r1 = r1
  r2 = r2
  Releases = {r0, r1, r2}
  Base = r0
  Nobody = Nobody
INVARIANT RefusalKeepsRunning
