---------------------------- MODULE MCInventory -----------------------------
(* Instances of Inventory for TLC.                                         *)
EXTENDS Inventory, TLC

Interchangeable == Permutations(Requests)
=============================================================================
