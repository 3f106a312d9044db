--------------------------- MODULE MCEventDelivery ---------------------------
(***************************************************************************)
(* Small instances of EventDelivery.                                       *)
(***************************************************************************)
EXTENDS EventDelivery
=============================================================================
