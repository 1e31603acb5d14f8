SPECIFICATION Spec
CONSTANTS
  a = a
  b = b
  p = p
  q = q
  x = x
  y = y
  one = one
  other = other
  None = None
  Tasks <- TwoTasks
  Paths <- TwoPaths
  Contents <- TwoTexts
  Configs <- TwoConfigs
  MaxStamp = 2
  Touching = FALSE
  Quiet = TRUE
SYMMETRY Interchangeable
INVARIANTS
  CreditedOnce
  UncreditedIsAccepted
PROPERTY
  CompletesUnderItsConfig
