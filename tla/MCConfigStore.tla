---------------------------- MODULE MCConfigStore ----------------------------
(* ConfigStore on small instances.                                         *)
EXTENDS ConfigStore, TLC

(* Threads and applications are used alike: sound for safety.              *)
Symmetric == Permutations(Threads) \union Permutations(Apps)
=============================================================================
