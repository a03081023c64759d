-------------------------- MODULE MCPrivateOrders --------------------------
(* Instances of PrivateOrders for TLC.                                     *)
EXTENDS PrivateOrders, TLC

Symmetry == Permutations(Callers) \union Permutations(Orders)
=============================================================================
