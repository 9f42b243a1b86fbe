--------------------------- MODULE AtomicArchive ----------------------------
(***************************************************************************)
(* What the file writer promises its callers, with no files, markers or    *)
(* syncs in it: a linear history of acknowledged versions, and at any time *)
(* a set of contents the next power loss may leave behind, none of which   *)
(* is older than the last acknowledged version.                            *)
(***************************************************************************)

CONSTANTS Versions, Nil

VARIABLES
  made,      \* versions somebody has built
  base,      \* the version each was built on
  stable,    \* the version last acknowledged
  possible   \* what may be found after a power loss

vars == <<made, base, stable, possible>>

Init ==
  /\ made = {}
  /\ base = [v \in Versions |-> Nil]
  /\ stable = Nil
  /\ possible = {Nil}

(* A version is built on some content the caller has seen.                 *)
Propose(v) ==
  /\ v \notin made
  /\ made' = made \cup {v}
  /\ \E b \in Versions \cup {Nil} : base' = [base EXCEPT ![v] = b]
  /\ UNCHANGED <<stable, possible>>

(* Only a direct successor of the acknowledged version is ever written.    *)
Write(v) ==
  /\ v \in made
  /\ base[v] = stable
  /\ possible' = possible \cup {v}
  /\ UNCHANGED <<made, base, stable>>

(* A sync or a power loss decides between the possible contents.           *)
Settle ==
  /\ \E v \in possible : possible' = {v}
  /\ UNCHANGED <<made, base, stable>>

(* A version is acknowledged only when nothing else can be found any more, *)
(* and only as the successor of the version acknowledged before it.        *)
Acknowledge(v) ==
  /\ possible = {v}
  /\ base[v] = stable
  /\ stable' = v
  /\ UNCHANGED <<made, base, possible>>

Next ==
  \/ \E v \in Versions : Propose(v) \/ Write(v) \/ Acknowledge(v)
  \/ Settle

Spec == Init /\ [][Next]_vars

=============================================================================
