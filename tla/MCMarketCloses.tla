--------------------------- MODULE MCMarketCloses ---------------------------
(* Instances of MarketCloses for TLC.                                      *)
EXTENDS MarketCloses, TLC

InstrumentSymmetry == Permutations(Instruments \ {Benchmark})
=============================================================================
