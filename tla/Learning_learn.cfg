SPECIFICATION Spec
CONSTANTS
  f = f
  t1 = t1
  x1 = x1
  x2 = x2
  Tasks = {t1}
  Paths = {f}
  Owner <- OneOutput
  Contents = {c1, c2}
  Absent = Absent
  Kinds = {"failed", "stopped"}
  Failures = {"failed", "stopped"}
  Texts = {x1, x2}
  NoText = NoText
  Requests <- Asked
  Learners = {l1, l2}
  Setups = {s1}
  Nobody = Nobody
  MaxStamp = 3
SYMMETRY Symmetry
CHECK_DEADLOCK FALSE
INVARIANTS
  LearnedIsComplete
  LogFollowsRules
  ProvenanceHolds
PROPERTY
  NoLateProof
