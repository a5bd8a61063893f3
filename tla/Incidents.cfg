SPECIFICATION Spec
CONSTANTS
  stall = stall
  disk = disk
  quiet = quiet
  Candidates = {stall}
  Others = {}
  Growing = {quiet}
  Recheck = 1
  MaxTime = 2
  MaxCrashes = 1
  MaxIncidents = 2
INVARIANT TypeOK
PROPERTY AutoIsRechecked
