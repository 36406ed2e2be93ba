CONSTANTS
  None = None
  w1 = w1  w2 = w2  s1 = s1  s2 = s2  a1 = a1  a2 = a2  a3 = a3  k1 = k1  k2 = k2
  p1 = p1  r1 = r1  r2 = r2  t1 = t1  t2 = t2  t3 = t3
  Workflow = {w1}
  Node = {n1}
  Session = {s1}
  Activity = {a1}
  Attempt = {t1, t2}
  Request = {}
  NativeId = {}
  Worktree = {p1}
  Runtime = {r1}
  Profiles <- Sessions
  Works <- PlainWorks
  Line = {}
  Ending = {"failure"}
  MaxLines = 0
  Workers = 1
  Rank <- AsNumbered
  MaxCrashes = 0
SPECIFICATION ServiceSafety
INVARIANTS
  CompletedSessionSucceeded
CHECK_DEADLOCK FALSE
