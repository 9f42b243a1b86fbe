SPECIFICATION MCSpec
CONSTANTS
  d1 = d1
  d2 = d2
  d3 = d3
  r1 = r1
  r2 = r2
  r3 = r3
  o1 = o1
  o2 = o2
  None = None
  Nil = Nil
  Missing = Missing
  MaxKeys = 4
  Databases = {"d1", "d2"}
  Inbound = {"c1"}
  MaxAttempts = 2
  MaxForgets = 1
  Replicas = {r1, r2, r3}
  Founder = r1
  Profiles <- OwnDevices
  Identities <- ThreeIdentities
  Policies = {p1}
  FirstPolicy = p1
  Operations = {o1, o2, o3}
  MaxControls = 4
  MaxMembers = 3
  MaxConsents = 1
  DirectOffers = FALSE
SYMMETRY Symmetry
INVARIANTS
  OwnProfilesAgree
  EvidenceSound
  ObservationsSound
  CredentialsSound
  ScreenSound
CHECK_DEADLOCK FALSE
