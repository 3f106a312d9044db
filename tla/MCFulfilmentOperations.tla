----------------------- MODULE MCFulfilmentOperations -----------------------
(***************************************************************************)
(* Small instances of FulfilmentOperations.                                *)
(***************************************************************************)
EXTENDS FulfilmentOperations
=============================================================================
