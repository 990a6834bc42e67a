---------------------------- MODULE MCSecretCache ----------------------------
(***************************************************************************)
(* Instances of SecretCache for TLC.                                       *)
(***************************************************************************)
EXTENDS SecretCache, TLC

Symmetry == Permutations(Readers) \union Permutations(Contents)
=============================================================================
