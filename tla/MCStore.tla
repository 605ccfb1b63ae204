------------------------------ MODULE MCStore ------------------------------
(***************************************************************************)
(* Instances of Store for TLC: the daemon writes, a command opens the file *)
(* at the same time.                                                       *)
(***************************************************************************)
EXTENDS Store, TLC

CONSTANTS audit, approval, rotation, prune, daemon, command

WriterSymmetry == Permutations({audit, approval}) \cup Permutations({rotation, prune})
=============================================================================
