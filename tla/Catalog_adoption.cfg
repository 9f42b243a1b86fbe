SPECIFICATION Spec
CONSTANTS
  None = None
  Flavors = {"portable"}
  Origins = {"created"}
  Destinations = {"d1"}
  Operations = {1}
  MaxGen = 1
  MaxRoots = 1
INVARIANT
  RecoveredAdopted
CHECK_DEADLOCK FALSE
