-------------------------- MODULE MCLiveExecution --------------------------
(* Instances of LiveExecution for TLC.                                     *)
EXTENDS LiveExecution, TLC

\* Each signal on an instrument of its own, which goes by the signal's name.
Apart == [s \in Signals |-> s]

\* All signals share one instrument.
Together == [s \in Signals |-> CHOOSE i \in Instruments : TRUE]

TogetherSymmetry == Permutations(Signals)
=============================================================================
