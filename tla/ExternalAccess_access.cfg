SPECIFICATION Spec
CONSTANTS
  Tasks = {t1}
  Clients = {c1, c2}
  Nobody = Nobody
  Absent = Absent
  MaxLife = 1
  MaxTimeout = 2
  MaxGrants = 2
  MaxIds = 3
  MaxForeign = 1
  Delay = 1
  Grace = 1
SYMMETRY Symmetry
CHECK_DEADLOCK FALSE
INVARIANTS
  SeenIsReal
  CoveredWhileRunning
  EndsWithGrant
PROPERTIES
  ForeignKept
