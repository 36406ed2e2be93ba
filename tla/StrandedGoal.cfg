CONSTANTS
  None = None
  n1 = n1  n2 = n2  p1 = p1  p2 = p2  r1 = r1  r2 = r2  s1 = s1  s2 = s2
  a1 = a1  a2 = a2  a3 = a3  t1 = t1  t2 = t2  t3 = t3
  Workflow = {w1}
  Node = {n1}
  Session = {s1}
  Activity = {a1, a2, a3}
  Attempt = {t1, t2, t3}
  Request = {}
  NativeId = {x1}
  Worktree = {p1}
  Runtime = {r1}
  Profiles <- UnboundedGoal
  Works <- PlainWorks
SPECIFICATION Spec
SYMMETRY Symmetry
PROPERTIES
  ContinueHasNextTurn
CHECK_DEADLOCK FALSE
