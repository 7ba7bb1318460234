------------------------------ MODULE MCOrders ------------------------------
(* Instances of OrderLifecycle for TLC.                                    *)
EXTENDS OrderLifecycle, TLC

CONSTANTS g1, g2, g3, i1, i2, i3, i4

\* One group with two items, the others with one each.
ThreeSellers == (i1 :> g1) @@ (i2 :> g1) @@ (i3 :> g2) @@ (i4 :> g3)
TwoSellers == (i1 :> g1) @@ (i2 :> g2)
OneSeller == i1 :> g1
=============================================================================
