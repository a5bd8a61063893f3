SPECIFICATION Spec
CONSTANTS
  m1 = m1
  g1 = g1
  i1 = i1
  Manual = {m1}
  Gaps = {g1}
  Incidents = {i1}
  MaxTroubles = 1
  QuickBoot = FALSE
CHECK_DEADLOCK FALSE
INVARIANT FailureStopsAutomation
