CONSTANTS
  None = None
  n1 = n1  n2 = n2  p1 = p1  p2 = p2  r1 = r1  r2 = r2  s1 = s1  s2 = s2
  a1 = a1  a2 = a2  a3 = a3  t1 = t1  t2 = t2  t3 = t3
  Workflow = {w1, w2}
  Node = {n1, n2}
  Session = {s1, s2}
  Activity = {a1, a2}
  Attempt = {t1, t2}
  Request = {k1, k2}
  NativeId = {x1}
  Worktree = {p1, p2}
  Runtime = {r1, r2}
  Profiles <- OneShotOrGoal
  Works <- TwoWorktrees
SPECIFICATION Spec
CONSTRAINT ContentionOrTurns
SYMMETRY ContentionSymmetry
INVARIANTS
  LeaseTracksAttempt
  CompletedPauseIsQuiet
  DrainingPauseIsControlled
  StateAccepted
PROPERTIES
  PauseFreezesAttempts
CHECK_DEADLOCK FALSE
