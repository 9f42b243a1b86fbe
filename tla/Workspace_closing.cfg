SPECIFICATION Spec
CONSTANTS
  Nil = Nil
  Kinds = {"entry"}
  MaxInputs = 2
  MaxOpens = 1
  MaxLocks = 0
  MaxFaults = 0
  MaxForms = 1
INVARIANT
  ClosedIsSaved
