--------------------------- MODULE MCOrchestrator ---------------------------
(***************************************************************************)
(* Instances of Orchestrator for TLC: two steps, so that a plan can repeat *)
(* one and drop the other, and budgets small enough that each of them can  *)
(* be the one that runs out.                                               *)
(***************************************************************************)
EXTENDS Orchestrator

CONSTANTS s1, s2
=============================================================================
