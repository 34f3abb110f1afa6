----------------------------- MODULE MCDelivery -----------------------------
(***************************************************************************)
(* Delivery for TLC.                                                       *)
(***************************************************************************)
EXTENDS Delivery

CONSTANT t1
=============================================================================
