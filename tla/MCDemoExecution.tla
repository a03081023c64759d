-------------------------- MODULE MCDemoExecution --------------------------
(* Instances of DemoExecution for TLC.                                     *)
EXTENDS DemoExecution, TLC

\* Signals are interchangeable, and so are callers whose engines are bound.
SignalSymmetry == Permutations(Signals)
CallerSymmetry == Permutations(Callers)

CONSTANTS s3

\* The release of s3 is another one than the engine's identity names.
AllVerified  == Callers \X Signals
AllButThird  == Callers \X (Signals \ {s3})
FirstTwo     == Permutations(Signals \ {s3})
=============================================================================
