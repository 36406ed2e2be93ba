CONSTANTS
  None = None
  NativeId = {x1, x2}
  Status = {"completed", "continue"}
  Lines <- HarnessLines
  MaxLines = 4
SPECIFICATION OutputsSpec
CONSTRAINT TypicalOutputs
SYMMETRY Identities
INVARIANTS
  TypeOK
  ExecutorMissesNothing
  AdoptionRecovers
  CodexResultIsLatestCandidate
CHECK_DEADLOCK FALSE
