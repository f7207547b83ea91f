----------------------------- MODULE MCDelivery -----------------------------
(* Instances of Delivery for TLC. *)
EXTENDS Delivery, TLC

CONSTANTS k1, k2, k3

ThreeKeys == {k1, k2, k3}
OneReset  == {k3}
=============================================================================
