SPECIFICATION Spec
CONSTANTS
  first = first
  i1 = i1
  i2 = i2
  c1 = c1
  c2 = c2
  NULL = NULL
  Request = {first}
  Item = {i1, i2}
  RequestOf <- Replayed
  Executes = {i1, i2}
  Patch <- MCPatch
  Expected <- MCExpected
  Issued <- MCIssued
  Expires <- MCExpires
  Commit = {c1, c2}
  MaxAttempts = 2
  LeaseSeconds = 2
  MinWindow = 1
  MaxPush = 2
  MaxClock = 3
  MaxForeign = 1
  MaxCrashes = 1
INVARIANTS
  TypeOK
  OneConsumer
  SuccessIsRecorded
PROPERTIES
  MutationWindow
  ImplementsAuthorization
CHECK_DEADLOCK FALSE
