--------------------------- MODULE MCCoordinator ---------------------------
EXTENDS Coordinator, TLC

Symmetry == Permutations(Versions \ {First})
=============================================================================
