CONSTANTS
  None = None
  a = a
  b = b
  c = c
  Ledger = {l1, l2}
  LegacyNode = {a, b, c}
  Caller = {c1, c2}
  Key = {k1, k2}
  Creations <- EmptyOrCompleted
  Proposals <- TypicalProposals
  MaxNodes = 2
  MaxEntries = 5
SPECIFICATION Spec
CONSTRAINT RacesOrHistories
SYMMETRY Symmetries
INVARIANTS
  TypeOK
  SourceImportedOnce
  ImportTellsHistory
  ReplayedIsAccepted
CHECK_DEADLOCK FALSE
