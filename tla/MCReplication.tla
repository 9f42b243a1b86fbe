--------------------------- MODULE MCReplication ---------------------------
EXTENDS Replication
CONSTANTS a, b, c
=============================================================================
