---------------------------- MODULE MCVfsCommit ----------------------------
(* Model-checking instances of VfsCommit; the .cfg files give its constants. *)
EXTENDS VfsCommit
=============================================================================
