CONSTANTS
  None = None
  w1 = w1  w2 = w2  s1 = s1  s2 = s2  a1 = a1  a2 = a2  a3 = a3  k1 = k1  k2 = k2
  p1 = p1  r1 = r1  r2 = r2  t1 = t1  t2 = t2  t3 = t3
  Workflow = {w1}
  Node = {n1}
  Session = {s1, s2}
  Activity = {a1, a2}
  Attempt = {t1, t2}
  Request = {k1}
  NativeId = {x1}
  Worktree = {p1}
  Runtime = {r1, r2}
  Profiles <- EveryMode
  Works <- EveryWork
  Line = {"turn", "bound", "unavailable", "completed", "continue", "garbage"}
  Ending = {"success", "torn"}
  MaxLines = 2
  Workers = 2
  Rank <- AsNumbered
  MaxCrashes = 1
SPECIFICATION ServiceSafety
CONSTRAINT Bounded
SYMMETRY Symmetry
INVARIANTS
  HarnessHoldsWorktree
  AppliedMeansStopped
CHECK_DEADLOCK FALSE
