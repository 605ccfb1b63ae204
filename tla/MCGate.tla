------------------------------- MODULE MCGate -------------------------------
(***************************************************************************)
(* The daemon and two commands, two tokens, one request, two capabilities: *)
(* enough for two first starts that race for the pepper file with a third  *)
(* process looking, and for a token that lacks a scope.                    *)
(***************************************************************************)
EXTENDS Gate, TLC

CONSTANTS c1, c2, key, read, write

MCProcs == {Api, c1, c2}
MCKeys == {key}
MCScopes == {read, write}
MCLegacyScopes == {read}
MCSymmetry == Permutations({c1, c2}) \cup Permutations(Tokens)
=============================================================================
