----------------------------- MODULE MCDocument -----------------------------
(* Two devices on which an entry was recovered at the same time, and where *)
(* the users edit it and go back to its earlier revisions.                 *)
EXTENDS Document

RevisionCommands == [lifetimes |-> {"edit", "resolve", "revision"}]
TwoChanges == [lifetimes |-> 2]
=============================================================================
