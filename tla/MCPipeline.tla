----------------------------- MODULE MCPipeline -----------------------------
(* Hashes for model checking Pipeline: the last two nodes are twins. *)
EXTENDS Pipeline

TwinHashes == [n \in Node |-> IF n = Total /\ n > 1 THEN n - 1 ELSE n]
=============================================================================
