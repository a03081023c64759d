-------------------------- MODULE MCExecutionLease --------------------------
(* Instances of ExecutionLease for TLC.                                    *)
EXTENDS ExecutionLease, TLC

HolderSymmetry == Permutations(Holders)
=============================================================================
