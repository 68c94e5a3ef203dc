SPECIFICATION Spec
CONSTANTS
  first = first
  i1 = i1
  i2 = i2
  c1 = c1
  c2 = c2
  NULL = NULL
  Request = {first}
  Item = {i1}
  RequestOf <- Replayed
  Executes = {i1}
  Patch <- MCPatch
  Expected <- MCExpected
  Issued <- MCIssued
  Expires <- EarlyExpires
  Commit = {c1, c2}
  MaxAttempts = 2
  LeaseSeconds = 2
  MinWindow = 1
  MaxPush = 1
  MaxClock = 3
  MaxForeign = 0
  MaxCrashes = 1
INVARIANT
  BlockedIsUntouched
CHECK_DEADLOCK FALSE
