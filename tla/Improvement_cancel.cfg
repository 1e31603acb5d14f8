SPECIFICATION Spec
CONSTANTS
  base = base
  good = good
  poor = poor
  note = note
  Base = base
  Candidates = {good}
  UserTexts = {note}
  Absent = Absent
  Score <- Scores
  HardPass = {base, good}
  MinGain = 1
  MaxAttempts = 2
INVARIANT
  CancelIsForUnresolved
