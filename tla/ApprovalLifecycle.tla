-------------------------- MODULE ApprovalLifecycle --------------------------
(***************************************************************************)
(* What an approval promises (ApprovalState in core/enums.py, and the head *)
(* of security/approvals.py): a request is answered at most once, and an   *)
(* approval is spent at most once.  `state` gives every request's state.   *)
(***************************************************************************)
CONSTANT Calls

VARIABLE state

Init == state = [c \in Calls |-> "none"]

Becomes(c, before, after) ==
  /\ state[c] \in before
  /\ \E s \in after : state' = [state EXCEPT ![c] = s]

Request(c) == Becomes(c, {"none"}, {"PENDING"})

Settle(c) == Becomes(c, {"PENDING"}, {"APPROVED", "DENIED", "EXPIRED"})

Spend(c) == Becomes(c, {"APPROVED"}, {"CONSUMED", "EXPIRED"})

Next == \E c \in Calls : Request(c) \/ Settle(c) \/ Spend(c)

Spec == Init /\ [][Next]_state
=============================================================================
