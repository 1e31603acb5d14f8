SPECIFICATION Spec
CONSTANTS
  k1 = k1
  k2 = k2
  x = x
  y = y
  provider = provider
  none = none
  Keys = {k1, k2}
  Measures <- Metered
  Reservations <- Allowances
  Usages <- Reports
  Unknown = none
  Texts = {x, y}
  NoText = NoText
  Origins = {provider}
  NoOrigin = NoOrigin
  Limit <- Budget
  MaxReported = 1
SYMMETRY KeySymmetry
CHECK_DEADLOCK FALSE
INVARIANT
  RefusesOnlyOtherIntents
