----------------------------- MODULE MCDelivery -----------------------------
(* For checking Delivery by itself.                                        *)
EXTENDS Delivery
=============================================================================
