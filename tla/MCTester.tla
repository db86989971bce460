------------------------------ MODULE MCTester ------------------------------
(***************************************************************************)
(* Instances of Tester for TLC: the hashes of the candidates.              *)
(***************************************************************************)
EXTENDS Tester

\* Every candidate has a hash of its own.
DistinctHashes == [n \in Node |-> n]

\* The first two candidates share one hash.
TwinHashes == [n \in Node |-> IF n = 2 THEN 1 ELSE n]
=============================================================================
