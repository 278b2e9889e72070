------------------------------- MODULE MCPool -------------------------------
(* Model-checking instances of Pool; the .cfg files give its constants. *)
EXTENDS Pool, TLC

HandleSymmetry == Permutations(Handle)
=============================================================================
