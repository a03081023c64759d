-------------------------- MODULE MCActionRequests --------------------------
(* Instances of ActionRequests for TLC.                                    *)
EXTENDS ActionRequests, TLC

\* Threads, ids and contents are each interchangeable.
Symmetry == Permutations(Threads) \union Permutations(Ids) \union Permutations(Contents)
=============================================================================
