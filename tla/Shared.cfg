SPECIFICATION MCSpec
CONSTANTS
  d1 = d1
  d2 = d2
  t1 = t1
  t2 = t2
  n1 = n1
  n2 = n2
  None = None
  Nil = Nil
  Nodes = {n1, n2}
  Absent = {}
  Manager = n1
  Fresh = {n2}
  Dialers = {n2}
  Authors = {n2}
  WithBlob = {1}
  MaxHead = 2
  MaxEvents = 1
  MaxSteps = 2
  MaxDiscards = 1
  MaxTalks = 1
  Policies = {p1}
  Operations = {o1, o2, o3}
  MaxControls = 4
  MaxMembers = 2
  Identities <- MCIdentities
  Bodies <- MCBodies
SYMMETRY Symmetry
INVARIANTS
  AcceptedIsProduced
  ContinuousMeansUninterrupted
  RevokedByEpoch
  HandoffConsented
  BlobsKept
PROPERTIES
  SourcesKept
  QuietWhenLevel
  DiscardHolds
CHECK_DEADLOCK FALSE
