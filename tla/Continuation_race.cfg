SPECIFICATION LiveSpec
CONSTANTS
  p1 = p1
  p2 = p2
  r1 = r1
  r2 = r2
  Ids = {1, 2, 3}
  Procs = {p1, p2}
  Pruners = {}
  Nobody = Nobody
  ProjectLimits <- Small
  Limits <- Tight
  Allowances = {}
  Reports = {}
  Overruns = {}
  Steps = {FALSE}
  Pauses = {}
  StateDays = 9
  Keep = 1
  MaxNow = 0
  MaxOwn = 1
  MaxFresh = 2
  MaxSources = 2
  MaxBusy = 2
CHECK_DEADLOCK FALSE
INVARIANTS
  UsageCountedOnce
  CallsWithinAuthority
  ConsumedOnce
PROPERTY
  ContinuationEnds
