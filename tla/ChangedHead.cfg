CONSTANTS
  None = None  Somebody = Somebody
  Caller = {c1}
  Key = {k1}
  PullRequest = {p1}
  Commit = {h1, h2}
  Check = {verify}
  RequiredChecks = {verify}
  RequireHuman = FALSE
SPECIFICATION Spec
SYMMETRY Symmetry
INVARIANTS
  MergedMeansPreparedHead
