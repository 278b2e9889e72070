------------------------------ MODULE MCTrust ------------------------------
(* Model-checking instances of Trust; the .cfg files give its constants. *)
EXTENDS Trust

\* Two scopes out of order; a duplicate and a blank.
ScopeLists == {<<2, 1>>, <<1, 0, 1>>}
=============================================================================
