SPECIFICATION FairCoordinatorSpec
CONSTANTS
  Nil = Nil
  Versions = {g, v1, v2}
  First = g
  Edits = {e1}
  Retained = {}
  Objects = {}

PROPERTY EditsResume
CHECK_DEADLOCK FALSE
