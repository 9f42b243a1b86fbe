------------------------------ MODULE MCShared ------------------------------
(* What the devices share, in one run, each in behaviours of its own: a    *)
(* device that validates any control records (ControlChain), and two       *)
(* devices that replicate a database (Replication).                        *)
EXTENDS MCControlChain, Replication

CONSTANTS n1, n2

Validating == records # <<>>

MCInit == ReplicationInit /\ (Init \/ records = <<>>)
MCNext ==
  \/ Validating /\ Next /\ UNCHANGED replicationVars
  \/ ~Validating /\ ReplicationNext /\ UNCHANGED records
MCSpec == MCInit /\ [][MCNext]_<<records, replicationVars>>
=============================================================================
