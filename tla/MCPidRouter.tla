----------------------------- MODULE MCPidRouter -----------------------------
(* PidRouter on small instances.                                            *)
EXTENDS PidRouter, TLC

(* Proxies, connections and the pids of others than the launcher are alike. *)
Symmetric == Permutations(Proxies) \union Permutations(Conns) \union Permutations(Pids \ {Launcher})
=============================================================================
