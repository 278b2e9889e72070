------------------------------ MODULE MCVault -------------------------------
(* Model-checking instances of Vault. *)
EXTENDS Vault

CallSymmetry == Permutations(Calls)
=============================================================================
