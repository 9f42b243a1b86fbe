SPECIFICATION MCSpec
CONSTANTS
  d1 = d1
  d2 = d2
  a1 = a1
  a2 = a2
  disable = disable
  None = None
  Identities <- TheIdentities
  Founder <- TheFounder
  Joiner <- TheJoiner
  Policies = {p1}
  FirstPolicy = p1
  Operations = {o0, o1, o2}
  FirstOperation = o0
  MaxControls = 3
  MaxMembers = 2
  Drivers = {c1, c2}
  MaxHandoffs = 1
  Proposable = {o1}
  MaxWorkers = 2
  MaxNumber = 2
SYMMETRY Symmetry
INVARIANTS
  HandoffSound
  BiometrySound
  WindowSound
  PortSound
CHECK_DEADLOCK FALSE
