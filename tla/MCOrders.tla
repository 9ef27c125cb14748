------------------------------ MODULE MCOrders ------------------------------
(* Instances of Orders for TLC.                                             *)
EXTENDS Orders, TLC

RequestSymmetry == Permutations(Requests)
=============================================================================
