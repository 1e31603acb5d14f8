SPECIFICATION FairSpec
CONSTANTS
  push = push
  n1 = n1
  p1 = p1
  v1 = v1
  Commands = {push}
  NoCommand = NoCommand
  Access <- PlainAccess
  Policies <- RelaxingPolicy
  Nonces = {n1}
  NoNonce = NoNonce
  Paths = {p1}
  Contents = {v1}
  Absent = Absent
  Kinds = {"change"}
  Sensors = 1
  MaxCalls = 2
  MaxRetries = 1
  MaxLost = 0
INVARIANTS
  CompletedIsSettled
  OneLaunchPerStop
PROPERTIES
  OperationsEnd
