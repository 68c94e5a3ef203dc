SPECIFICATION Spec
CONSTANTS
  in = in
  out = out
  a = a
  b = b
  c = c
  NULL = NULL
  Run = {"run"}
  Event <- MCEvent
  Agent <- MCAgent
  RunOf <- MCRunOf
  Routes <- MCRoutes
  Outputs <- MCOutputs
  Worker = {"w"}
  Payload = {"p"}
  ResultStatus = {"succeeded"}
  Digest = {"d"}
  Handlers <- MCHandlers
  External = {in}
  MaxAttempts = 2
  LeaseSeconds = 1
  MaxClock = 2
INVARIANTS
  TypeOK
  Fenced
  Provenance
  FanOut
  RetryBudget
PROPERTIES
  LeaseHonoured
  HistoryImmutable
  ImplementsHandoff
CHECK_DEADLOCK FALSE
