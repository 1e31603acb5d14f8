SPECIFICATION UseSpec
CONSTANTS
  a = a
  b = b
  None = None
  Dead = Dead
  Launchers <- TwoLaunchers
  Files <- ThreeFiles
  MaxCrashes = 1
  MayStall = FALSE
INVARIANTS
  OneInstaller
  RunsFromReady
  LockHasHolder
PROPERTIES
  LaunchEnds
  RuntimeArrives
