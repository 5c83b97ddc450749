---------------------------- MODULE MCQueryCache -----------------------------
(* Instances of QueryCache for TLC. *)
EXTENDS QueryCache

\* Every read hook with every write hook that writes its table.
MCPairs == HomePairs
=============================================================================
