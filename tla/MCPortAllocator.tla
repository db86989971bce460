-------------------------- MODULE MCPortAllocator --------------------------
(***************************************************************************)
(* Instances of PortAllocator for TLC.                                     *)
(***************************************************************************)
EXTENDS PortAllocator, TLC

\* Ports are alike, and so are workers.
Symmetry == Permutations(Port) \union Permutations(Worker)
=============================================================================
