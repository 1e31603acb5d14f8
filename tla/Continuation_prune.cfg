SPECIFICATION Spec
CONSTANTS
  p1 = p1
  p2 = p2
  r1 = r1
  r2 = r2
  Ids = {1, 2}
  Procs = {p1, p2}
  Pruners = {r1, r2}
  Nobody = Nobody
  ProjectLimits <- Small
  Limits <- Generous
  Allowances = {1}
  Reports = {}
  Overruns = {1}
  Steps = {FALSE}
  Pauses = {}
  StateDays = 0
  Keep = 1
  MaxNow = 2
  MaxOwn = 1
  MaxFresh = 1
  MaxSources = 1
  MaxBusy = 2
SYMMETRY Symmetry
CHECK_DEADLOCK FALSE
INVARIANTS
  LatestKept
  UsageCountedOnce
PROPERTIES
  ConsumedIsFrozen
