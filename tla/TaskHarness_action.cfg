SPECIFICATION Spec
CONSTANTS
  push = push
  n1 = n1
  p1 = p1
  v1 = v1
  Commands = {push}
  NoCommand = NoCommand
  Access <- WritesAccess
  Policies <- AnyPolicy
  Nonces = {n1}
  NoNonce = NoNonce
  Paths = {p1}
  Contents = {v1}
  Absent = Absent
  Kinds = {"release"}
  Sensors = 2
  MaxCalls = 3
  MaxRetries = 0
  MaxLost = 1
INVARIANTS
  ReleaseNeedsVerifiedAction
  LaunchedAtMostOnce
  LaunchIsOnRecord
  LaunchesAreCharged
PROPERTIES
  SettledByChange
  NoCompletionUnderStop
  ImplementsProtocol
