SPECIFICATION FairSpec
CONSTANTS
  d1 = d1
  d2 = d2
  d3 = d3
  r1 = r1
  r2 = r2
  r3 = r3
  None = None
  Replicas = {r1, r2, r3}
  Founder = r1
  Profiles <- CopiedProfile
  Identities <- TwoIdentities
  Policies = {p1}
  FirstPolicy = p1
  Operations = {o1, o2}
  MaxControls = 3
  MaxMembers = 2
  MaxConsents = 0
  DirectOffers = FALSE
PROPERTIES
  EvidenceSpreads
CHECK_DEADLOCK FALSE
