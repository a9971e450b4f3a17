---------------------------- MODULE MCStatistics ----------------------------
(* Statistics with interchangeable sessions.                               *)
EXTENDS Statistics, TLC

Interchangeable == Permutations(Sessions)
=============================================================================
