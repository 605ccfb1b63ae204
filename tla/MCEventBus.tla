----------------------------- MODULE MCEventBus -----------------------------
(***************************************************************************)
(* Instances of EventBus for TLC.                                          *)
(***************************************************************************)
EXTENDS EventBus, TLC

CONSTANTS Approver, Neighbour

\* The task publishes two events, the others one each.
Quotas == [p \in Publishers |-> IF p = Task THEN 2 ELSE 1]
=============================================================================
