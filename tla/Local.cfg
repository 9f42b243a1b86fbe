SPECIFICATION MCSpec
CONSTANTS
  Nil = Nil
  None = None
  Identities <- ThreeIdentities
  Issuer <- Founder
  Policies = {aPolicy}
  FirstPolicy = aPolicy
  Invitations = {i1, i2}
  Operations = {i1, i2, rotation}
  Window = 1
  MaxTime = 0
  MaxControls = 5
  MaxMembers = 3
  Versions = {0, 1, 2}
  First = 0
  Edits = {e1, e2}
  Retained = {e1}
  Objects = {o1}
  Nothing = Nothing
  Contents = {c1, c2}
  aContent = c1
  Limit = 1
  MaxBlobs = 2
  MaxForeign = 1
  MaxSaves = 1
  MaxFaults = 1
  aPolicy = aPolicy
  anEntry = anEntry
  aGroup = aGroup
  d1 = d1
  d2 = d2
  d3 = d3
  i1 = i1
  i2 = i2
  rotation = rotation
SYMMETRY Symmetry
INVARIANTS
  OpenNotBehind
  AcksSurvive
  DocumentSound
  MergeAccepted
  RecoverySound
  CatalogSound
  InvitationsSound
  EditingSound
  BinariesSound
PROPERTIES
  AckedLinear
  ConfirmedTakesEffect
  KeepsRequests
CHECK_DEADLOCK FALSE
