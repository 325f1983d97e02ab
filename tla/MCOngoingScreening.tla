------------------------- MODULE MCOngoingScreening -------------------------
(* OngoingScreening for TLC: two replicas, the clock of the second ahead. *)
EXTENDS OngoingScreening, TLC

CONSTANTS w1, w2, Ahead

MCSkew == (w1 :> 0) @@ (w2 :> Ahead)
=============================================================================
