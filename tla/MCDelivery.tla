----------------------------- MODULE MCDelivery -----------------------------
(* Delivery on a small instance: model values for rows, senders and admins. *)
EXTENDS DeliveryRefinement, TLC

SenderSymmetry == Permutations(Workers)
=============================================================================
