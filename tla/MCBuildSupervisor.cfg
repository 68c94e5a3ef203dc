SPECIFICATION Spec
CONSTANTS
  p1 = p1
  p2 = p2
  p3 = p3
  w = w
  s = s
  drifted = drifted
  canonical = canonical
  link = link
  NULL = NULL
  Supervisor = Supervisor
  Pid = {p1, p2, p3}
  Wheel = {w}
  Sdist = {s}
  Plain = {}
  Content = {drifted, canonical, link}
  Regular = {drifted, canonical}
  Canonical <- MCCanonical
  MaxRounds = 2
INVARIANTS
  QuiescenceIsReal
  SealIsFaithful
PROPERTIES
  SupervisorGivesUp
CHECK_DEADLOCK FALSE
