SPECIFICATION Spec
CONSTANTS
  Starts = {"lifetimes"}
  Commands <- RevisionCommands
  MaxChanges <- TwoChanges
INVARIANT MergeAccepted
CHECK_DEADLOCK FALSE
