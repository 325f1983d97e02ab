----------------------------- MODULE MCDelivery -----------------------------
(* Delivery for TLC: two replicas, the clock of the second one ahead. *)
EXTENDS Delivery, TLC

CONSTANTS w1, w2, Ahead

MCSkew == (w1 :> 0) @@ (w2 :> Ahead)
=============================================================================
