SPECIFICATION LanesSpec
CONSTANTS
  old = old
  new = new
  s1 = s1
  s2 = s2
  p1 = p1
  p2 = p2
  a1 = a1
  a2 = a2
  NULL = NULL
  Commit = {old, new}
  Ancestors <- MCAncestors
  Approval = {a1, a2}
  Sync = {s1, s2}
  Patcher = {p1, p2}
  MaxMoves = 1
  MaxByHand = 1
  MaxBusy = 3
  uploaded = uploaded
  fit = fit
  leaky = leaky
  k1 = k1
  k2 = k2
  wheel = wheel
  sdist = sdist
  Nil = Nil
  Gh = "gh"
  TrustedPolicy <- Policy
  Input = {fit, leaky}
  Result <- Results
  Allow = FALSE
  MaxStarts = 2
  MaxAttempts = 2
  MaxExpiries = 1
SYMMETRY Symmetry
INVARIANTS
  ReportsAreKept
  RequiredIsContained
  AnalysedIsCurrent
  CandidateIsVerified
  LaneDecidesRight
  VerifierIsExact
PROPERTY
  ImplementsDecision
CHECK_DEADLOCK FALSE
