SPECIFICATION Spec
CONSTANTS
  a1 = a1
  a2 = a2
  a3 = a3
  Ids = {a1, a2, a3}
  Limit = 2
  Hour = 1
  Day = 3
  MaxFaults = 1
  MaxTime = 3
  MaxLaunches = 3
  MaxHeight = 2
SYMMETRY ActionSymmetry
INVARIANT TypeOK
INVARIANT LaunchedOnce
INVARIANT CooldownKept
INVARIANT DailyLimitKept
INVARIANT StopsAfterFailure
INVARIANT AnswersHonest
PROPERTY ImplementsService
