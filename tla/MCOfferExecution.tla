-------------------------- MODULE MCOfferExecution --------------------------
(***************************************************************************)
(* Small instances of OfferExecution.  Sessions are interchangeable.       *)
(***************************************************************************)
EXTENDS OfferExecution, TLC

Symmetry == Permutations(Sessions)
=============================================================================
