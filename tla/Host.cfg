SPECIFICATION MCSpec
CONSTANTS
  Versions = {a1, a2, a3, a4}
  Nil = Nil
  None = None
  Sessions = {1}
  MaxRequests <- RequestsOf
  MaxInputs = 1
  Edits = {1, 2}
  Absent = Absent
  MaxWrites = 3
  MaxForeign = 1
  d1 = d1
  d2 = d2
  p1 = p1
  i1 = i1
  i2 = i2
INVARIANTS
  FileSound
  TypeOK
  Recoverable
  AckedSurvives
  CertainIsOnDisk
  PreservedIsDurable
PROPERTIES
  ImplementsAtomic
  Reopens
  RevokedEnds
  AdmittedReceives
CHECK_DEADLOCK FALSE
