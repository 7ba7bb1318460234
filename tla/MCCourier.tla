----------------------------- MODULE MCCourier ------------------------------
(* Instances of CourierDispatch for TLC.                                   *)
EXTENDS CourierDispatch, TLC

CONSTANTS g1, i1

OneSeller == i1 :> g1

\* The keys of every shipment a call may book.
ServiceKeys == Calls \X {"handover", "delivered", "appended"}

\* Calls are served once each and in any order.
Interchangeable == Permutations(Calls)
=============================================================================
