CONSTANTS
  None = None  Somebody = Somebody
  Caller = {c1, c2}
  Key = {k1, k2}
  PullRequest = {p1}
  Commit = {h1, h2}
  Check = {lint, verify}
  RequiredChecks = {lint, verify}
  RequireHuman = TRUE
SPECIFICATION Spec
SYMMETRY Symmetry
INVARIANTS
  TypeOK
  MergeIsVerified
  AnswersAgree
  MergeIsDecided
  RecordedMergeHappened
