----------------------------- MODULE MCRuntime -----------------------------
(***************************************************************************)
(* Runtime with two objectives and a probe over two lives.                 *)
(***************************************************************************)
EXTENDS Runtime, TLC

CONSTANTS j1, j2
=============================================================================
