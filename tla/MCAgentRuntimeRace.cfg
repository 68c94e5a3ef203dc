SPECIFICATION RuntimeSpec
CONSTANTS
  in = in
  out = out
  a = a
  b = b
  p1 = p1
  p2 = p2
  NULL = NULL
  Run = {"run"}
  Event <- MCEvent
  Agent <- MCAgent
  RunOf <- MCRunOf
  Routes <- MCRoutes
  Outputs <- MCOutputs
  Worker = {"local"}
  Payload = {"p"}
  ResultStatus = {"succeeded"}
  Digest = {1}
  Handlers <- MCHandlers
  Selections <- MCHandlers
  External = {in}
  MaxAttempts = 1
  LeaseSeconds = 1
  MaxClock = 2
  Process = {p1, p2}
  WorkerOf <- MCWorkerOf
  TheRun = "run"
  Request = in
  RequestPayload = "p"
  Startup = "ensure"
  AttemptScoped = TRUE
  MaxItems = 2
  MaxCrashes = 1
INVARIANTS
  DeadLetterFailsRun
