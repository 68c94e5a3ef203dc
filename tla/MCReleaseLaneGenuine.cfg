SPECIFICATION LaneSpec
CONSTANTS
  uploaded = uploaded
  fit = fit
  leaky = leaky
  k1 = k1
  k2 = k2
  wheel = wheel
  sdist = sdist
  Nil = Nil
  Gh = "gh"
  TrustedPolicy <- Policy
  Input = {uploaded, fit}
  Result <- Results
  Allow = FALSE
  MaxStarts = 2
  MaxAttempts = 2
  MaxExpiries = 0
INVARIANTS
  GenuineIsAccepted
CHECK_DEADLOCK FALSE
