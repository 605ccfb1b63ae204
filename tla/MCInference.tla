------------------------------ MODULE MCInference ------------------------------
(***************************************************************************)
(* Inference with two objectives, which are alike, of two turns each, one  *)
(* probe, one round of repair and two stops: a turn may be repaired or     *)
(* ended in any way while the other begins, repairs or ends, and while the *)
(* client is made, closed and made again.                                  *)
(***************************************************************************)
EXTENDS Inference, TLC

Symmetry == Permutations(Objectives)
=============================================================================
