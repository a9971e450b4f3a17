--------------------------- MODULE MCProxyControl ---------------------------
(* ProxyControl on small instances.                                        *)
EXTENDS ProxyControl, TLC

(* Threads, supported proxies and pids are used alike: sound for safety.   *)
Symmetric == Permutations(Threads) \union Permutations(Pids) \union Permutations(Supported)
=============================================================================
