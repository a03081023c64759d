------------------------ MODULE MCFoundationRuntime ------------------------
(* Instances of FoundationRuntime for TLC.                                 *)
EXTENDS FoundationRuntime, TLC

WorkerSymmetry == Permutations(Workers)
=============================================================================
