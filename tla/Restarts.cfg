SPECIFICATION Spec
CONSTANTS
  Callers = {c1, c2}
  Keys = {k1, k2}
  Inputs = {i1, i2}
  None = None
  MaxReboots = 1
INVARIANTS
  TypeOK
  AlwaysReadable
  ExecutedIsDurable
  SnapshotNeverLeads
  ReceiptsAgree
PROPERTY
  ImplementsCommandLog
