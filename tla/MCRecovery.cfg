SPECIFICATION RecoverySpec
CONSTANTS
  a = a
  b = b
  x = x
  ax = ax
  bx = bx
  c1 = c1
  op = op
  l1 = l1
  NULL = NULL
  Other = Other
  Empty = Empty
  Broken = Broken
  Repo = {a, b}
  Passing = {a, b}
  Target = {x, ax, bx}
  Ranked <- MCRanked
  Plain <- MCPlain
  Qualified <- MCQualified
  Policy <- MCPolicy
  Wish <- MCWish
  Command = {c1}
  Operator = op
  Lane = {l1}
  MaxCommands = 1
  MaxFaults = 1
  MaxByHand = 1
  first = first
  i1 = i1
  i2 = i2
  commit1 = commit1
  commit2 = commit2
  Request = {first}
  Item = {i1, i2}
  RequestOf <- TheRequest
  Executes = {i1}
  Patch <- ThePatch
  Expected <- TheExpected
  Issued <- TheIssued
  Expires <- TheExpires
  Commit = {commit1, commit2}
  MaxAttempts = 2
  LeaseSeconds = 2
  MinWindow = 1
  MaxPush = 1
  MaxClock = 2
  MaxForeign = 0
  MaxCrashes = 1
INVARIANTS
  GateMeansFork
PROPERTIES
  ForksConverge
  ItemsAreDecided
CHECK_DEADLOCK FALSE
