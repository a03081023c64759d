-------------------------- MODULE MCStrategyFactory --------------------------
(* Instances of StrategyFactory for TLC.                                   *)
EXTENDS StrategyFactory, TLC

CONSTANTS r1, r2, h1, runner

\* The two runs are alike: no property tells them apart, and none is temporal
\* beyond a step.
RunSymmetry == Permutations(Runs)
=============================================================================
