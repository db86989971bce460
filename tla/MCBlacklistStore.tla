-------------------------- MODULE MCBlacklistStore --------------------------
(***************************************************************************)
(* Instances of BlacklistStore for TLC.                                    *)
(***************************************************************************)
EXTENDS BlacklistStore, TLC

\* Hashes are alike.
Symmetry == Permutations(Hash)
=============================================================================
