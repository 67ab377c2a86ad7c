------------------------------ MODULE MCCatalog ------------------------------
(***************************************************************************)
(* A model-checking instance of Catalog.                                   *)
(***************************************************************************)
EXTENDS Catalog
=============================================================================
