-------------------------- MODULE MCLaunchRegistry --------------------------
(* LaunchRegistry on small instances.                                      *)
EXTENDS LaunchRegistry, TLC

(* Proxies and shutdowns are used alike: sound for safety.                 *)
Symmetric == Permutations(Proxies) \union Permutations(Closers)
=============================================================================
