SPECIFICATION CoordinatorSpec
CONSTANTS
  Nil = Nil
  Versions = {g, v1, v2, v3}
  First = g
  Edits = {e1}
  Retained = {e1}
  Objects = {o1}

INVARIANT ReceiptIsRetained
CHECK_DEADLOCK FALSE
