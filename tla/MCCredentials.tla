--------------------------- MODULE MCCredentials ---------------------------
(***************************************************************************)
(* Credentials for TLC: ids, commands and scopes are interchangeable.      *)
(***************************************************************************)
EXTENDS Credentials, TLC

Symmetry == Permutations(Ids) \cup Permutations(Operators) \cup Permutations(Scopes)
=============================================================================
