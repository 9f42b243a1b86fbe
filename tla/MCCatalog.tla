------------------------------ MODULE MCCatalog ------------------------------
(* A portable profile: a recovered copy that is opened after its source    *)
(* was closed.                                                             *)
EXTENDS Catalog
=============================================================================
