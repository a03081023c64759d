-------------------------- MODULE MCAutoExecution --------------------------
(* Instances of AutoExecution for TLC.                                     *)
EXTENDS AutoExecution

\* Everything but the status of the row, which the program reports to its operator
\* and never reads: no action and no property depends on it.
ButStatus == <<desired, armed, ckpt, entries, runner, others, candle, history>>
=============================================================================
