----------------------------- MODULE MCAccounts -----------------------------
(* Instances of Accounts for TLC.                                          *)
EXTENDS Accounts

\* Requests are served once each and in any order.
Interchangeable == Permutations(Requests)
=============================================================================
