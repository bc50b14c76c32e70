----------------------------- MODULE MCDelivery -----------------------------
(* Small instances of Delivery for TLC. *)
EXTENDS Delivery, TLC

CONSTANTS s1, l1, p1, p2, x1, x2

\* One subscription, for a list.
ListOnly == s1 :> l1
=============================================================================
