SPECIFICATION FairSpec
CONSTANTS
  in = in
  out = out
  a = a
  b = b
  p1 = p1
  p2 = p2
  NULL = NULL
  Run = {"run"}
  Event <- MCEvent
  Agent <- MCAgent
  RunOf <- MCRunOf
  Routes <- MCRoutes
  Outputs <- MCNoOutputs
  Worker = {"local"}
  Payload = {"p"}
  ResultStatus = {"succeeded", "blocked"}
  Digest = {1, 2}
  Handlers <- MCHandlers
  Selections = {}
  External = {in}
  MaxAttempts = 2
  LeaseSeconds = 1
  MaxClock = 2
  Process = {p1, p2}
  WorkerOf <- MCWorkerOf
  TheRun = "run"
  Request = in
  RequestPayload = "p"
  Startup = "republish"
  AttemptScoped = TRUE
  MaxItems = 1
  MaxCrashes = 1
INVARIANT
  SuccessIsEarned
PROPERTIES
  RunIsDecided
